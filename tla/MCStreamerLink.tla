-------------------------- MODULE MCStreamerLink --------------------------
(* Two messages, the second longer than the first, of which one byte looks *)
(* like the end of a line.                                                 *)
EXTENDS StreamerLink

MCParts == <<[time |-> "t1", data |-> <<"a", "CR">>],
             [time |-> "t2", data |-> <<"b", "CR", "LF">>]>>
=============================================================================
