---------------------------- MODULE HttpRequest ----------------------------
(***************************************************************************)
(* Requests: how http.c writes one and how request.c reads one from a      *)
(* socket, symbol by symbol, with the parser of HttpParser.                *)
(***************************************************************************)
EXTENDS Integers, Sequences, TLC

CONSTANTS ULLONG_MAX, HTTP_MAX_HEADER_SIZE,
          UriMax        \* the size of the buffer uri in on_headers_complete

(* new_request *)
new_request(what) ==
    [method |-> "none", uri |-> <<>>, arg |-> <<>>, headers |-> <<>>, body |-> <<>>,
     continue_parsing |-> TRUE, parse_what |-> what, header_state |-> "new",
     uri_buffer |-> <<>>, header_name |-> <<>>, header_value |-> <<>>, null |-> FALSE]

(* request_set_header: a header that came before is replaced.              *)
request_set_header(r) ==
    IF r.header_name # <<>> /\ r.header_value # <<>>
    THEN [r EXCEPT !.headers = (r.header_name :> r.header_value) @@ @]
    ELSE r

request_on_header_field(r, data) ==
    IF r.header_state \in {"new", "value"}
    THEN [request_set_header(r) EXCEPT !.header_name = data, !.header_value = <<>>,
                                       !.header_state = "field"]
    ELSE [r EXCEPT !.header_name = @ \o data]

request_on_header_value(r, data) ==
    IF r.header_state = "new" THEN r
    ELSE [r EXCEPT !.header_value = @ \o data, !.header_state = "value"]

(* The place of the question mark in a uri, one past the end if none       *)
Query(u) == CHOOSE k \in 1..(Len(u) + 1) :
                /\ k > Len(u) \/ u[k] = "?"
                /\ \A j \in 1..(k - 1) : u[j] # "?"

(* The last header, the uri and its arguments.  The buffers are deleted:   *)
(* null says that no more headers can be taken.                            *)
request_on_headers_complete(r) ==
    LET u == r.uri_buffer IN
    [request_set_header(r) EXCEPT
        !.uri = SubSeq(u, 1, Query(u) - 1),
        !.arg = SubSeq(u, Query(u) + 1, Len(u)),
        !.uri_buffer = <<>>, !.header_name = <<>>, !.header_value = <<>>, !.null = TRUE,
        !.continue_parsing = @ /\ r.parse_what # "headers"]

Ok(r) == [user |-> r, ret |-> 0]

(* The callbacks that request_parse_html sets.  The uri ends with a zero.  *)
RequestCallback(r, name, data) ==
    CASE name = "url" -> Ok([r EXCEPT !.uri_buffer = @ \o data])
      [] name = "header_field" -> Ok(request_on_header_field(r, data))
      [] name = "header_value" -> Ok(request_on_header_value(r, data))
      [] name = "headers_complete" ->
            IF Len(r.uri_buffer) + 1 > UriMax
            THEN [user |-> request_set_header(r), ret |-> -1]
            ELSE Ok(request_on_headers_complete(r))
      [] name = "body" -> Ok([r EXCEPT !.body = @ \o data])
      [] name = "message_complete" -> Ok([r EXCEPT !.continue_parsing = FALSE])
      [] OTHER -> Ok(r)

Parser == INSTANCE HttpParser WITH Callback <- RequestCallback

(* on_headers_complete knows two methods.                                  *)
Method(x) ==
    IF ~x.user.null THEN x.user
    ELSE [x.user EXCEPT !.method = IF x.p.method \in {"GET", "POST"} THEN x.p.method
                                   ELSE "unsupported"]

(* request_parse_html reads one symbol at a time.  s holds the parser, the *)
(* request and what is returned, "more" before.  One symbol is either      *)
(* parsed or not, so the test of how much was parsed never fails: a bad    *)
(* request is read to its end.                                             *)
request_received(x, data) ==
    [parser |-> x.p, request |-> Method(x),
     ret |-> CASE data = <<>> -> IF x.user.continue_parsing THEN "error" ELSE "ok"
               [] data # <<>> /\ x.p.errno = "assert" -> "abort"
               [] OTHER -> IF ~x.user.continue_parsing THEN "ok" ELSE "more"]

request_recv(s, data) ==
    IF s.ret # "more" THEN s
    ELSE request_received(Parser!http_parser_execute(s.parser, s.request, data), data)

request_parse_html(data, eof, what) ==
    LET start == [parser |-> Parser!http_parser_init("request"),
                  request |-> new_request(what), ret |-> "more"]
        run[k \in 0..(Len(data) + 1)] ==
            IF k = 0 THEN start
            ELSE IF k > Len(data) THEN request_recv(run[k - 1], <<>>)
            ELSE request_recv(run[k - 1], <<data[k]>>)
    IN run[IF eof THEN Len(data) + 1 ELSE Len(data)]

-----------------------------------------------------------------------------
(* Requests as they are written                                            *)

CRLF == <<"CR", "LF">>

Field(name, value) == name \o <<":", "SP">> \o value \o CRLF

(* http_send_request_headers and http_send_request: a request with a body  *)
(* is a POST, one without is a GET.                                        *)
http_send_request(uri, host, type, body) ==
    <<IF body = <<>> THEN "GET" ELSE "POST", "SP">> \o uri \o <<"SP", "HTTP/1.1">> \o CRLF
    \o Field(<<"Host">>, host)
    \o (IF body = <<>> THEN <<>>
        ELSE Field(<<"Content-", "Type">>, type)
             \o Field(<<"Content-", "Length">>, Parser!Number(Len(body), 10)))
    \o CRLF \o body

=============================================================================
