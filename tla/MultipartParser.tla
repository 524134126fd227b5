--------------------------- MODULE MultipartParser ---------------------------
(***************************************************************************)
(* The parser of librcom/src/multipart_parser.c, which takes the body of a *)
(* stream apart into the messages that streamer_send_multipart wrote.  It  *)
(* is given the body in the pieces in which response_on_body gets it.      *)
(*                                                                         *)
(* CR, LF, a digit and a byte of a message are one symbol each, and so is  *)
(* the text of a line of the header up to its value.                       *)
(***************************************************************************)
EXTENDS Integers, Sequences

(* multipart_parser_t, with the static _eoh of append_header.  parts is    *)
(* what was passed to onpart; hung says that process will not return.      *)
new_multipart_parser ==
    [status |-> "read_header", header |-> <<>>, body |-> <<>>, length |-> 0,
     timestamp |-> "none", eoh |-> <<>>, parts |-> <<>>, hung |-> FALSE]

EndOfHeader == <<"CR", "LF", "CR", "LF">>

DigitValue == [c \in {"0", "1", "2", "3", "4", "5", "6", "7", "8", "9"} |->
                CASE c = "0" -> 0 [] c = "1" -> 1 [] c = "2" -> 2 [] c = "3" -> 3
                  [] c = "4" -> 4 [] c = "5" -> 5 [] c = "6" -> 6 [] c = "7" -> 7
                  [] c = "8" -> 8 [] c = "9" -> 9]

(* strtol at place k of the header: 0 if there is no digit                 *)
strtol(h, k) ==
    LET value[j \in k..(Len(h) + 1), acc \in Nat] ==
            IF j > Len(h) THEN acc
            ELSE IF h[j] \notin DOMAIN DigitValue THEN acc
            ELSE value[j + 1, 10 * acc + DigitValue[h[j]]]
    IN value[k, 0]

LineOf(h, name) == {k \in DOMAIN h : h[k] = name}

(* parse_header: the separator must come first; a line that is missing     *)
(* leaves the field of the last message; zero is not a length and not a    *)
(* time.                                                                   *)
multipart_parser_parse_header(m) ==
    LET h == m.header
        lengths == {strtol(h, k + 1) : k \in LineOf(h, "Content-Length: ")}
        times == {h[k + 1] : k \in LineOf(h, "X-LT-Timestamp: ")}
    IN
    IF h[1] # "--nextimage" \/ 0 \in lengths \/ "0.0" \in times
    THEN [m EXCEPT !.status = "error"]
    ELSE [m EXCEPT !.status = "header_complete", !.header = <<>>, !.eoh = <<>>,
                   !.length = IF lengths = {} THEN @ ELSE CHOOSE n \in lengths : TRUE,
                   !.timestamp = IF times = {} THEN @ ELSE CHOOSE t \in times : TRUE]

(* append_header *)
multipart_parser_append_header(m, c) ==
    LET last == Append(m.eoh, c)
        e == IF Len(last) > 4 THEN Tail(last) ELSE last
        n == [m EXCEPT !.header = Append(@, c), !.eoh = e]
    IN IF e = EndOfHeader THEN multipart_parser_parse_header(n) ELSE n

(* Mutant: the body is complete when it is one byte too long.              *)
multipart_parser_append_part_late(m, c) ==
    LET n == [m EXCEPT !.body = Append(@, c)] IN
    IF Len(n.body) > m.length THEN [n EXCEPT !.status = "body_complete"] ELSE n

(* append_part *)
multipart_parser_append_part(m, c) ==
    LET n == [m EXCEPT !.body = Append(@, c)] IN
    IF Len(n.body) = m.length THEN [n EXCEPT !.status = "body_complete"] ELSE n

(* What process does before it takes a symbol: a complete message is only  *)
(* delivered when there is more data.                                      *)
multipart_parser_settle(m) ==
    CASE m.status = "body_complete" ->
            [m EXCEPT !.parts = Append(@, [time |-> m.timestamp, data |-> m.body]),
                      !.status = "read_header", !.body = <<>>]
      [] m.status = "header_complete" -> [m EXCEPT !.status = "read_body"]
      [] OTHER -> m

(* One turn of the loop of process.  In k_error the loop goes on for ever: *)
(* nothing advances the offset.                                            *)
multipart_parser_symbol(m, c) ==
    LET n == multipart_parser_settle(m) IN
    CASE n.status = "read_header" -> multipart_parser_append_header(n, c)
      [] n.status = "read_body" -> multipart_parser_append_part(n, c)
      [] n.status = "error" -> [n EXCEPT !.hung = TRUE]

multipart_parser_process(m, buf) ==
    LET run[k \in 0..Len(buf)] ==
            IF k = 0 THEN m
            ELSE LET n == run[k - 1] IN
                 IF n.hung THEN n ELSE multipart_parser_symbol(n, buf[k])
    IN run[Len(buf)]

(* The message that streamer_send_multipart writes; length is its length   *)
(* as printf writes it.                                                    *)
Part(part, length) ==
    <<"--nextimage", "CR", "LF", "Content-Type: ", "type", "CR", "LF",
      "Content-Length: ">> \o length \o
    <<"CR", "LF", "X-LT-Timestamp: ", part.time, "CR", "LF", "CR", "LF">> \o part.data
=============================================================================
