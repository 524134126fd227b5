---------------------------- MODULE HttpResponse ----------------------------
(***************************************************************************)
(* Responses: how http.c writes them and how response.c reads one from a   *)
(* socket, in the pieces in which it arrives, with the parser of           *)
(* HttpParser.  The streamer link is the one user that sets ondata.        *)
(***************************************************************************)
EXTENDS Integers, Sequences, TLC

CONSTANTS ULLONG_MAX, HTTP_MAX_HEADER_SIZE

Multipart == INSTANCE MultipartParser

(* new_response: app is the user's data, NoApp if the body is kept, else   *)
(* the field cont of a link and the multipart parser of its application.   *)
NoApp == [none |-> TRUE]

new_response(app) ==
    [status |-> "200", headers |-> <<>>, body |-> <<>>, continue_parsing |-> TRUE,
     header_state |-> "new", header_name |-> <<>>, header_value |-> <<>>,
     null |-> FALSE, app |-> app]

(* response_set_header: a header that came before is replaced.             *)
response_set_header(r) ==
    IF r.header_name # <<>> /\ r.header_value # <<>>
    THEN [r EXCEPT !.headers = (r.header_name :> r.header_value) @@ @]
    ELSE r

(* Mutant: every piece of a name begins a new header.                      *)
response_on_header_field_each(r, data) ==
    [response_set_header(r) EXCEPT !.header_name = data, !.header_value = <<>>,
                                   !.header_state = "field"]

response_on_header_field(r, data) ==
    IF r.header_state \in {"new", "value"}
    THEN [response_set_header(r) EXCEPT !.header_name = data, !.header_value = <<>>,
                                        !.header_state = "field"]
    ELSE [r EXCEPT !.header_name = @ \o data]

response_on_header_value(r, data) ==
    IF r.header_state = "new" THEN r
    ELSE [r EXCEPT !.header_value = @ \o data, !.header_state = "value"]

response_on_headers_complete(r) ==
    [response_set_header(r) EXCEPT !.header_name = <<>>, !.header_value = <<>>, !.null = TRUE]

(* streamerlink_ondata: a link that is stopped refuses the data.           *)
streamerlink_ondata(app, data) ==
    IF ~app.cont THEN [app |-> app, ret |-> -1]
    ELSE [app |-> [app EXCEPT !.m = Multipart!multipart_parser_process(@, data)], ret |-> 0]

(* The body goes to ondata if it is set.                                   *)
Answer(r, d) == [user |-> [r EXCEPT !.app = d.app], ret |-> d.ret]

response_on_body(r, data) ==
    IF r.app = NoApp THEN [user |-> [r EXCEPT !.body = @ \o data], ret |-> 0]
    ELSE Answer(r, streamerlink_ondata(r.app, data))

Ok(r) == [user |-> r, ret |-> 0]

(* The callbacks that response_parse_html sets                             *)
ResponseCallback(r, name, data) ==
    CASE name = "header_field" -> Ok(response_on_header_field(r, data))
      [] name = "header_value" -> Ok(response_on_header_value(r, data))
      [] name = "headers_complete" -> Ok(response_on_headers_complete(r))
      [] name = "body" -> response_on_body(r, data)
      [] name = "message_complete" -> Ok([r EXCEPT !.continue_parsing = FALSE])
      [] OTHER -> Ok(r)

Parser == INSTANCE HttpParser WITH Callback <- ResponseCallback

(* A response being read: the parser, the response and what                *)
(* response_parse_html returns, "more" before                              *)
StartResponse(app) == [parser |-> Parser!http_parser_init("response"),
                       response |-> new_response(app), ret |-> "more"]

(* on_headers_complete copies the status of the parser.                    *)
Status(x) == IF x.user.null THEN [x.user EXCEPT !.status = x.p.status_code] ELSE x.user

(* After the execution x of a piece, or of none at the end of the stream.  *)
(* An error at the last byte of a piece is found with the next piece,      *)
(* unless that is one byte long.                                           *)
response_received(x, data) ==
    [parser |-> x.p, response |-> Status(x),
     ret |-> CASE data = <<>> -> "ok"
               [] data # <<>> /\ x.p.errno = "assert" -> "abort"
               [] data # <<>> /\ x.p.errno # "assert" ->
                    IF x.n \notin {Len(data), Len(data) - 1} THEN "error"
                    ELSE IF x.user.continue_parsing THEN "more" ELSE "ok"]

response_recv(s, data) ==
    response_received(Parser!http_parser_execute(s.parser, s.response, data), data)

-----------------------------------------------------------------------------
(* Responses as they are written                                           *)

CRLF == <<"CR", "LF">>

Field(name, value) == name \o <<":", "SP">> \o value \o CRLF

StatusLine(status) == <<"HTTP/1.1", "SP", status, "SP", "reason">> \o CRLF

CloseField == Field(<<"Connec", "tion">>, <<"clo", "se">>)

LengthField(n) == Field(<<"Content-", "Length">>, Parser!Number(n, 10))

TypeField(type) == Field(<<"Content-", "Type">>, type)

(* http_send_response; the type is the header that service.c sets.         *)
http_send_response(status, type, body) ==
    StatusLine(status) \o LengthField(Len(body)) \o CloseField
    \o TypeField(type) \o CRLF \o body

http_send_error_headers(status) == StatusLine(status) \o CloseField \o CRLF

http_send_streaming_headers(type) ==
    StatusLine("200") \o TypeField(type)
    \o Field(<<"Transfer-", "Encoding">>, <<"chun", "ked">>) \o CRLF

http_send_chunk(data) == Parser!Number(Len(data), 16) \o CRLF \o data \o CRLF
=============================================================================
