----------------------------- MODULE HttpParser -----------------------------
(***************************************************************************)
(* The HTTP parser of librcom/src/http_parser.c: http_parser_execute is    *)
(* given the pieces in which a message arrives and calls the callbacks of  *)
(* its user.                                                               *)
(*                                                                         *)
(* A message is a sequence of symbols.  CR, LF, a space, a digit, a comma, *)
(* a colon and a byte of a body are one symbol each.  A method, a version  *)
(* and a status code are one symbol too; a name or a word that the parser  *)
(* looks for is cut in two, so that a piece may end inside it.  Letters    *)
(* are all of one case.  The build is strict (HTTP_PARSER_STRICT is 1) and *)
(* its assertions are on.                                                  *)
(***************************************************************************)
EXTENDS Integers, Sequences, TLC

CONSTANTS
    ULLONG_MAX,             \* content_length when no length is known
    HTTP_MAX_HEADER_SIZE,   \* bound on the symbols of the headers
    Callback(_, _, _)       \* Callback(user, name, data): settings->on_name,
                            \* a record of the new user and of the value
                            \* that is returned

Digits == <<"0", "1", "2", "3", "4", "5", "6", "7", "8", "9", "a", "b", "c",
            "d", "e", "f">>

unhex == [c \in {Digits[i] : i \in 1..16} |->
            (CHOOSE i \in 1..16 : Digits[i] = c) - 1]

IsNum(c) == c \in DOMAIN unhex /\ unhex[c] < 10

(* A number as printf writes it, in base 10 or 16                          *)
Number(n, base) ==
    LET digits[k \in Nat] ==
            IF k < base THEN <<Digits[k + 1]>>
            ELSE Append(digits[k \div base], Digits[(k % base) + 1])
    IN digits[n]

Methods == {"GET", "POST", "PUT", "CONNECT"}

Separators == {"CR", "LF", "SP", ":", ","}

Connection == <<"Connec", "tion">>
ContentLength == <<"Content-", "Length">>
TransferEncoding == <<"Transfer-", "Encoding">>
Upgrade == <<"Up", "grade">>

(* The names and the words that the parser looks for                       *)
FieldNames == {Connection, ContentLength, TransferEncoding, Upgrade}

Chunked == <<"chun", "ked">>
KeepAlive == <<"keep-", "alive">>
Close == <<"clo", "se">>

(* header_state and index, as the text that was matched so far: a prefix   *)
(* of a name, the kind of a value and a prefix of a word, or h_general     *)
General == <<"general">>
ConnectionFlag == <<"conn">> \o KeepAlive :> "CONNECTION_KEEP_ALIVE" @@
                  <<"conn">> \o Close :> "CONNECTION_CLOSE" @@
                  <<"conn">> \o Upgrade :> "CONNECTION_UPGRADE"
FinishFlag == ConnectionFlag @@ <<"te">> \o Chunked :> "CHUNKED"

Match(state, c, words) ==
    \E w \in words : Len(w) > Len(state) /\ SubSeq(w, 1, Len(state) + 1) = Append(state, c)

http_parser_init(type) ==
    [type |-> type, state |-> IF type = "request" THEN "start_req" ELSE "start_res",
     header_state |-> General, flags |-> {}, content_length |-> 0, nread |-> 0,
     method |-> "none", status_code |-> "none", http11 |-> FALSE,
     upgrade |-> FALSE, errno |-> "OK"]

http_message_needs_eof(p) ==
    /\ p.type = "response"
    /\ p.status_code \notin {"101", "204", "304"}
    /\ p.flags \cap {"SKIPBODY", "CHUNKED"} = {}
    /\ p.content_length = ULLONG_MAX

http_should_keep_alive(p) ==
    /\ IF p.http11 THEN "CONNECTION_CLOSE" \notin p.flags
                   ELSE "CONNECTION_KEEP_ALIVE" \in p.flags
    /\ ~http_message_needs_eof(p)

(* NEW_MESSAGE *)
NewMessage(p) ==
    IF ~http_should_keep_alive(p) THEN "dead"
    ELSE IF p.type = "request" THEN "start_req" ELSE "start_res"

-----------------------------------------------------------------------------
(* An execution: the parser p, its user, the mark that is set and the      *)
(* symbols since, the place i of the current symbol, the callbacks that    *)
(* the current symbol calls, and the number n that is returned once the    *)
(* execution has stopped.                                                  *)

Go(x, s) == [x EXCEPT !.p.state = s]
Flag(x, f) == [x EXCEPT !.p.flags = @ \cup {f}]
SetHeader(x, h) == [x EXCEPT !.p.header_state = h]
SetLength(x, n) == [x EXCEPT !.p.content_length = n]
Return(x, n) == [x EXCEPT !.n = n, !.stop = TRUE]

(* SET_ERRNO and goto error *)
Error(x, e) == Return([x EXCEPT !.p.errno = e], x.i - 1)

(* assert: the process is aborted.                                         *)
Asserted(x, ok, y) == IF ok THEN y ELSE Error(x, "assert")

(* MARK, and the symbol that follows                                       *)
Take(x, m, c) == [x EXCEPT !.mark = m, !.piece = Append(@, c)]

(* CALLBACK_NOTIFY, CALLBACK_NOTIFY_NOADVANCE: n is returned on an error.  *)
Notify(x, name, n) ==
    [x EXCEPT !.calls = Append(@, [name |-> name, data |-> <<>>, n |-> n])]

(* CALLBACK_DATA_ with what the mark covers                                *)
Data(x, n) ==
    IF x.mark = "none" THEN x
    ELSE [x EXCEPT !.calls = Append(@, [name |-> x.mark, data |-> x.piece, n |-> n]),
                   !.mark = "none", !.piece = <<>>]

(* The execution x after the call c, which returned r                      *)
Called(x, c, r) ==
    IF r.ret = 0 THEN [x EXCEPT !.user = r.user]
    ELSE [x EXCEPT !.user = r.user, !.p.errno = c.name, !.n = c.n,
                   !.stop = TRUE, !.failed = TRUE]

Call(x, c) ==
    IF x.failed THEN x ELSE Called(x, c, Callback(x.user, c.name, c.data))

(* The callbacks of a symbol, in their order: one that returns an error is *)
(* the last.  Nobody asks on_headers_complete to skip the body.            *)
Deliver(x) ==
    LET done[k \in 0..Len(x.calls)] ==
            IF k = 0 THEN [x EXCEPT !.calls = <<>>] ELSE Call(done[k - 1], x.calls[k])
    IN done[Len(x.calls)]

-----------------------------------------------------------------------------
(* The first line                                                          *)

StartMessage(x) == [x EXCEPT !.p.flags = {}, !.p.content_length = ULLONG_MAX]

(* HTTP/1.1 200 OK *)
status_line(x, c) ==
    LET s == x.p.state IN
    CASE s = "start_res" ->
            IF c \in {"CR", "LF"} THEN x
            ELSE IF c # "HTTP/1.1" THEN Error(StartMessage(x), "INVALID_CONSTANT")
            ELSE Notify(Go([StartMessage(x) EXCEPT !.p.http11 = TRUE], "res_http_end"),
                        "message_begin", x.i)
      [] s = "res_http_end" ->
            IF c = "SP" THEN Go(x, "res_first_status_code") ELSE Error(x, "INVALID_VERSION")
      [] s = "res_first_status_code" ->
            IF c = "SP" THEN x
            ELSE IF c \in Separators THEN Error(x, "INVALID_STATUS")
            ELSE Go([x EXCEPT !.p.status_code = c], "res_status_code")
      [] s = "res_status_code" ->
            CASE c = "SP" -> Go(x, "res_status_start")
              [] c = "CR" -> Data(Go([x EXCEPT !.mark = "status"], "res_line_almost_done"), x.i)
              [] c = "LF" -> Data(Go([x EXCEPT !.mark = "status"], "header_field_start"), x.i)
              [] OTHER -> Error(x, "INVALID_STATUS")
      [] s \in {"res_status_start", "res_status"} ->
            LET y == [x EXCEPT !.mark = "status"] IN
            CASE c = "CR" -> Data(Go(y, "res_line_almost_done"), x.i)
              [] c = "LF" -> Data(Go(y, "header_field_start"), x.i)
              [] OTHER -> Take(Go(y, "res_status"), "status", c)
      [] s = "res_line_almost_done" ->
            IF c = "LF" THEN Go(x, "header_field_start") ELSE Error(x, "STRICT")

UrlStates == {"req_path", "req_query_string", "req_fragment"}

(* The states of a path, its arguments and its fragment.  A slash and the  *)
(* letters behind it are one symbol; addresses with a scheme, which only a *)
(* proxy is sent, are left out.                                            *)
parse_url_char(s, c) ==
    CASE c \in Separators -> "dead"
      [] s = "req_spaces_before_url" -> "req_path"
      [] s = "req_path" /\ c = "?" -> "req_query_string"
      [] s \in {"req_path", "req_query_string"} /\ c = "#" -> "req_fragment"
      [] OTHER -> s

(* The url itself: from the spaces before it to the space behind it        *)
request_url(x, c) ==
    LET s == x.p.state
        Url == LET t == parse_url_char(s, c) IN
               IF t = "dead" THEN Error(Go(x, t), "INVALID_URL")
               ELSE Take(Go(x, t), "url", c)
    IN
    CASE s = "req_spaces_before_url" /\ c = "SP" -> x
      [] s # "req_spaces_before_url" /\ c = "SP" -> Data(Go(x, "req_http_start"), x.i)
      [] s # "req_spaces_before_url" /\ c \in {"CR", "LF"} ->
            Data(Go([x EXCEPT !.p.http11 = FALSE],
                    IF c = "CR" THEN "req_line_almost_done" ELSE "header_field_start"), x.i)
      [] OTHER -> Url

(* The version behind the url                                              *)
request_version(x, c) ==
    LET s == x.p.state IN
    CASE s = "req_http_start" ->
            CASE c = "SP" -> x
              [] c = "HTTP/1.1" -> Go([x EXCEPT !.p.http11 = TRUE], "req_http_end")
              [] OTHER -> Error(x, "INVALID_CONSTANT")
      [] s = "req_http_end" ->
            CASE c = "CR" -> Go(x, "req_line_almost_done")
              [] c = "LF" -> Go(x, "header_field_start")
              [] OTHER -> Error(x, "INVALID_VERSION")
      [] s = "req_line_almost_done" ->
            IF c = "LF" THEN Go(x, "header_field_start") ELSE Error(x, "LF_EXPECTED")

(* GET /uri HTTP/1.1 *)
request_line(x, c) ==
    LET s == x.p.state IN
    CASE s = "start_req" ->
            IF c \in {"CR", "LF"} THEN x
            ELSE IF c \notin Methods THEN Error(StartMessage(x), "INVALID_METHOD")
            ELSE Notify(Go([StartMessage(x) EXCEPT !.p.method = c], "req_method"),
                        "message_begin", x.i)
      [] s = "req_method" ->
            IF c = "SP" THEN Go(x, "req_spaces_before_url") ELSE Error(x, "INVALID_METHOD")
      [] s \in UrlStates \cup {"req_spaces_before_url"} -> request_url(x, c)
      [] OTHER -> request_version(x, c)

-----------------------------------------------------------------------------
(* The body: its end, its length and its chunks                            *)

message_done(x) ==
    LET y == Notify(Go(x, NewMessage(x.p)), "message_complete", x.i) IN
    IF y.p.upgrade THEN Return(y, x.i) ELSE y

(* Length known: the last byte also ends the message.                      *)
body_identity(x, c) ==
    LET y == Take(SetLength(x, x.p.content_length - 1), "body", c)
    IN Asserted(x, x.p.content_length \notin {0, ULLONG_MAX},
                IF y.p.content_length > 0 THEN y
                ELSE message_done(Data(Go(y, "message_done"), x.i - 1)))

chunk_size(x, c) ==
    LET t == x.p.content_length * 16 + unhex[c] IN
    CASE c = "CR" -> Go(x, "chunk_size_almost_done")
      [] c = "SP" -> Go(x, "chunk_parameters")
      [] c \notin DOMAIN unhex \cup {"CR", "SP"} -> Error(x, "INVALID_CHUNK_SIZE")
      [] c \in DOMAIN unhex ->
            IF (ULLONG_MAX - 16) \div 16 < x.p.content_length
            THEN Error(x, "INVALID_CONTENT_LENGTH") ELSE SetLength(x, t)

ChunkStates == {"chunk_size_start", "chunk_size", "chunk_parameters",
                "chunk_size_almost_done", "chunk_data", "chunk_data_almost_done",
                "chunk_data_done"}

(* The states of a chunk.  Nobody sets on_chunk_header, on_chunk_complete. *)
chunk(x, c) ==
    LET s == x.p.state
        Uncounted(y) == [y EXCEPT !.p.nread = 0]
    IN
    CASE s = "chunk_size_start" ->
            Asserted(x, x.p.nread = 1,
                IF c \in DOMAIN unhex THEN Go(SetLength(x, unhex[c]), "chunk_size")
                ELSE Error(x, "INVALID_CHUNK_SIZE"))
      [] s = "chunk_size" -> chunk_size(x, c)
      [] s = "chunk_parameters" -> IF c = "CR" THEN Go(x, "chunk_size_almost_done") ELSE x
      [] s = "chunk_size_almost_done" ->
            IF c # "LF" THEN Error(x, "STRICT")
            ELSE IF x.p.content_length = 0
                 THEN Go(Uncounted(Flag(x, "TRAILING")), "header_field_start")
                 ELSE Go(Uncounted(x), "chunk_data")
      [] s = "chunk_data" ->
            LET y == Take(SetLength(x, x.p.content_length - 1), "body", c) IN
            Asserted(x, x.p.content_length \notin {0, ULLONG_MAX},
                IF y.p.content_length > 0 THEN y ELSE Go(y, "chunk_data_almost_done"))
      [] s = "chunk_data_almost_done" ->
            IF c = "CR" THEN Data(Go(x, "chunk_data_done"), x.i) ELSE Error(x, "STRICT")
      [] s = "chunk_data_done" ->
            IF c = "LF" THEN Go(Uncounted(x), "chunk_size_start") ELSE Error(x, "STRICT")

-----------------------------------------------------------------------------
(* The end of the headers decides how the body is read.                    *)

headers_done(x) ==
    LET y == [x EXCEPT !.p.nread = 0]
        length == y.p.content_length
        HasBody == "CHUNKED" \in y.p.flags \/ length \notin {0, ULLONG_MAX}
        Complete == Notify(Go(y, NewMessage(y.p)), "message_complete", x.i)
    IN
    CASE y.p.upgrade /\ (y.p.method = "CONNECT" \/ ~HasBody) -> Return(Complete, x.i)
      [] OTHER ->
            IF "CHUNKED" \in y.p.flags THEN Go(y, "chunk_size_start")
            ELSE IF length \notin {0, ULLONG_MAX} THEN Go(y, "body_identity")
            ELSE IF length = ULLONG_MAX /\ http_message_needs_eof(y.p)
            THEN Go(y, "body_identity_eof")
            ELSE Complete

headers_almost_done(x, c) ==
    LET up == IF {"UPGRADE", "CONNECTION_UPGRADE"} \subseteq x.p.flags
              THEN x.p.type = "request" \/ x.p.status_code = "101"
              ELSE x.p.method = "CONNECT"
        y == [Go(x, "headers_done") EXCEPT !.p.upgrade = up]
    IN
    CASE c # "LF" -> Error(x, "STRICT")
      [] c = "LF" /\ "TRAILING" \in x.p.flags -> message_done(x)
      [] c = "LF" /\ "TRAILING" \notin x.p.flags ->
            IF {"CHUNKED", "CONTENTLENGTH"} \subseteq x.p.flags
            THEN Error(x, "UNEXPECTED_CONTENT_LENGTH")
            ELSE headers_done(Notify(y, "headers_complete", x.i - 1))

-----------------------------------------------------------------------------
(* The headers: a name, a colon and a value each                           *)

header_field_start(x, c) ==
    CASE c = "CR" -> Go(x, "headers_almost_done")
      [] c = "LF" -> headers_almost_done(Go(x, "headers_almost_done"), c)
      [] c \in Separators \ {"CR", "LF"} -> Error(x, "INVALID_HEADER_TOKEN")
      [] OTHER -> SetHeader(Take(Go(x, "header_field"), "header_field", c),
                            IF Match(<<>>, c, FieldNames) THEN <<c>> ELSE General)

header_field(x, c) ==
    LET h == x.p.header_state IN
    CASE c = ":" -> Data(Go(x, "header_value_discard_ws"), x.i)
      [] c \in Separators \ {":"} -> Error(x, "INVALID_HEADER_TOKEN")
      [] OTHER -> SetHeader(Take(x, "header_field", c),
                            IF Match(h, c, FieldNames) THEN Append(h, c) ELSE General)

(* The first symbol of a value                                             *)
header_value_start(x, c) ==
    LET h == x.p.header_state
        y == Take(Go(x, "header_value"), "header_value", c)
        First(kind, words, other) ==
            SetHeader(y, IF Match(kind, c, words) THEN Append(kind, c) ELSE other)
    IN
    CASE h = Upgrade -> SetHeader(Flag(y, "UPGRADE"), General)
      [] h = TransferEncoding -> First(<<"te">>, {<<"te">> \o Chunked}, General)
      [] h = ContentLength ->
            IF ~IsNum(c) THEN Error(y, "INVALID_CONTENT_LENGTH")
            ELSE IF "CONTENTLENGTH" \in x.p.flags THEN Error(y, "UNEXPECTED_CONTENT_LENGTH")
            ELSE SetHeader(SetLength(Flag(y, "CONTENTLENGTH"), unhex[c]), <<"num">>)
      [] h = Connection -> First(<<"conn">>, DOMAIN ConnectionFlag, <<"conn", "token">>)
      [] h = <<"conn">> -> y
      [] OTHER -> SetHeader(y, General)

(* A digit of the length, or what follows it                               *)
content_length_num(x, c) ==
    LET length == x.p.content_length IN
    CASE c = "SP" -> SetHeader(x, <<"ws">>)
      [] ~IsNum(c) /\ c # "SP" -> Error(x, "INVALID_CONTENT_LENGTH")
      [] IsNum(c) -> IF (ULLONG_MAX - 10) \div 10 < length
                     THEN Error(x, "INVALID_CONTENT_LENGTH")
                     ELSE SetLength(x, length * 10 + unhex[c])

(* A symbol of the list of words of Connection                             *)
connection_token(x, c) ==
    LET h == x.p.header_state
        Word == IF Match(h, c, DOMAIN ConnectionFlag) THEN Append(h, c)
                ELSE <<"conn", "token">>
    IN
    CASE h \in DOMAIN ConnectionFlag ->
            IF c = "," THEN SetHeader(Flag(x, ConnectionFlag[h]), <<"conn">>)
            ELSE IF c = "SP" THEN x ELSE SetHeader(x, <<"conn", "token">>)
      [] h = <<"conn">> ->
            IF c = "SP" THEN x ELSE SetHeader(x, IF c \in Separators THEN General ELSE Word)
      [] h = <<"conn", "token">> -> IF c = "," THEN SetHeader(x, <<"conn">>) ELSE x
      [] OTHER -> SetHeader(x, Word)

header_almost_done(x, c) ==
    IF c = "LF" THEN Go(x, "header_value_lws") ELSE Error(x, "LF_EXPECTED")

header_value(x, c) ==
    LET h == x.p.header_state
        y == Take(x, "header_value", c)
    IN
    CASE c = "CR" -> Data(Go(x, "header_almost_done"), x.i)
      [] c = "LF" -> header_almost_done(Data(x, x.i - 1), c)
      [] OTHER ->
            CASE h = <<"num">> -> content_length_num(y, c)
              [] h = <<"ws">> -> IF c = "SP" THEN y ELSE Error(y, "INVALID_CONTENT_LENGTH")
              [] Head(h) = "te" ->
                    SetHeader(y, CASE h = <<"te">> \o Chunked /\ c = "SP" -> h
                                   [] Match(h, c, {<<"te">> \o Chunked}) -> Append(h, c)
                                   [] OTHER -> General)
              [] Head(h) = "conn" -> connection_token(y, c)
              [] OTHER -> SetHeader(y, General)

(* The header is finished unless it goes on in the next line.              *)
Finish(x) ==
    IF x.p.header_state \in DOMAIN FinishFlag THEN Flag(x, FinishFlag[x.p.header_state]) ELSE x

header_value_lws(x, c) ==
    IF c = "SP" THEN header_value_start(x, c)
    ELSE header_field_start(Go(Finish(x), "header_field_start"), c)

(* The white space before a value, which may be all there is               *)
header_value_discard(x, c) ==
    LET s == x.p.state
        empty == Data(Go([Finish(x) EXCEPT !.mark = "header_value"], "header_field_start"),
                      x.i - 1)
    IN
    CASE s = "header_value_discard_ws" ->
            (CASE c = "SP" -> x
               [] c = "CR" -> Go(x, "header_value_discard_ws_almost_done")
               [] c = "LF" -> Go(x, "header_value_discard_lws")
               [] OTHER -> header_value_start(x, c))
      [] s = "header_value_discard_ws_almost_done" ->
            IF c = "LF" THEN Go(x, "header_value_discard_lws") ELSE Error(x, "STRICT")
      [] s = "header_value_discard_lws" ->
            IF c = "SP" THEN Go(x, "header_value_discard_ws")
            ELSE header_field_start(empty, c)

header(x, c) ==
    LET s == x.p.state IN
    CASE s = "header_field_start" -> header_field_start(x, c)
      [] s = "header_field" -> header_field(x, c)
      [] s = "header_value" -> header_value(x, c)
      [] s = "header_almost_done" -> header_almost_done(x, c)
      [] s = "header_value_lws" -> header_value_lws(x, c)
      [] s = "headers_almost_done" -> headers_almost_done(x, c)
      [] OTHER -> header_value_discard(x, c)

-----------------------------------------------------------------------------
(* http_parser_execute *)

BodyStates == {"chunk_data", "chunk_data_almost_done", "chunk_data_done",
               "body_identity", "body_identity_eof"}

StatusStates == {"start_res", "res_http_end", "res_first_status_code",
                 "res_status_code", "res_status_start", "res_status",
                 "res_line_almost_done"}

RequestStates == UrlStates \cup {"start_req", "req_method", "req_spaces_before_url",
                 "req_http_start", "req_http_end", "req_line_almost_done"}

Symbol(x, c) ==
    LET s == x.p.state IN
    CASE s \in RequestStates -> request_line(x, c)
      [] s \in StatusStates -> status_line(x, c)
      [] s \in ChunkStates -> chunk(x, c)
      [] s = "body_identity" -> body_identity(x, c)
      [] s = "body_identity_eof" -> Take(x, "body", c)
      [] s = "dead" -> IF c \in {"CR", "LF"} THEN x ELSE Error(x, "CLOSED_CONNECTION")
      [] OTHER -> header(x, c)

(* COUNT_HEADER_SIZE, and the step of one symbol                           *)
Step(x, c) ==
    LET count == IF x.p.state \in BodyStates THEN 0 ELSE 1
        y == [x EXCEPT !.i = @ + 1, !.p.nread = @ + count]
    IN IF count = 1 /\ y.p.nread > HTTP_MAX_HEADER_SIZE THEN Error(y, "HEADER_OVERFLOW")
       ELSE Symbol(y, c)

(* The marks are local to an execution: the one of the state the parser is *)
(* in is set again at the first symbol.                                    *)
StartMark(p) ==
    CASE p.state = "header_field" -> "header_field"
      [] p.state = "header_value" -> "header_value"
      [] p.state \in UrlStates -> "url"
      [] p.state = "res_status" -> "status"
      [] OTHER -> "none"

Begin(p, user) == [p |-> p, user |-> user, mark |-> StartMark(p), piece |-> <<>>,
                   i |-> 0, calls |-> <<>>, n |-> 0, stop |-> FALSE, failed |-> FALSE]

(* No data: the end of the stream                                          *)
EndOfStream(x) ==
    CASE x.p.state = "body_identity_eof" -> Return(Notify(x, "message_complete", 0), 0)
      [] x.p.state \in {"dead", "start_req", "start_res"} -> Return(x, 0)
      [] OTHER -> Return([x EXCEPT !.p.errno = "INVALID_EOF_STATE"], 1)

(* Turn k: a symbol, or the callback of the mark that is left over         *)
Turn(x, data, k) ==
    IF x.stop THEN x
    ELSE Deliver(CASE data = <<>> -> EndOfStream(x)
                   [] data # <<>> /\ k <= Len(data) -> Step(x, data[k])
                   [] OTHER -> Return(Data(x, Len(data)), Len(data)))

http_parser_execute(p, user, data) ==
    LET run[k \in 0..(Len(data) + 1)] ==
            IF k = 0 THEN Begin(p, user) ELSE Turn(run[k - 1], data, k)
    IN IF p.errno # "OK" THEN Return(Begin(p, user), 0) ELSE run[Len(data) + 1]

=============================================================================
