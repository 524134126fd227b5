--------------------------- MODULE MCMessageLink ---------------------------
(* Small instances of MessageLink for TLC, and the headers of frames at    *)
(* the lengths where their form changes.                                   *)
EXTENDS MessageLink, WsFrame

(* The headers of every form are read back (frame_make_header,             *)
(* messagelink_read_message); MessageLinkProofs has all lengths.           *)
ASSUME HeadersReadBack ==
    \A opcode \in {1, 2, 8, 9, 10}, masked \in Flags,
       length \in 0..600 \cup {65535, 65537, 70000, 16777215, 16777216} :
        ReadsBack(opcode, masked, length)
=============================================================================
