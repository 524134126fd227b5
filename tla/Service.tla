------------------------------ MODULE Service ------------------------------
(***************************************************************************)
(* The HTTP server of a service (librcom/src/service.c) and the clients    *)
(* that ask it with http_get (http.c).                                     *)
(*                                                                         *)
(* The application thread exports resources and in the end deletes the     *)
(* service.  service_run accepts the connections and starts a thread for   *)
(* each, which runs service_client_handle: it reads a request, looks its   *)
(* uri up, calls the export and answers.  A client is a record that moves  *)
(* from the list of clients to the one of finished clients; service_run    *)
(* deletes the finished ones when it accepts the next.  A process that is  *)
(* told to quit ends the loops of service_run and of the parsers, wherever *)
(* they are.                                                               *)
(***************************************************************************)
EXTENDS Exports, FiniteSets, TLC

CONSTANTS
    MaxConns,       \* bound on the connections
    MaxExports,     \* bound on the calls of service_export
    Body,           \* Body[h]: what handler h writes
    Uris,           \* the uris that are asked for
    Cuts,           \* the places where a response may be cut on its way
    ULLONG_MAX, HTTP_MAX_HEADER_SIZE, UriMax

ASSUME ServiceAssumption ==
    /\ Uris \subseteq Slashed
    /\ Cuts \subseteq Nat
    /\ \A h \in Handlers \ {Index} : Body[h] \in Seq(STRING)

VARIABLES
    app_quit,   \* the process of the service is told to quit (app.c)
    main,       \* the application thread
    accept,     \* the thread of service_run
    service,    \* cont, listening, locks (the mutexes exist), freed
    clients,    \* service->clients
    finished,   \* service->finished_clients
    socket,     \* socket[k]: client k's field socket, 0 if invalid
    deleted,    \* the clients that are deleted
    worker,     \* worker[k]: the thread of client k
    conn,       \* conn[k]: the server's end of connection k
    peer,       \* peer[k]: who asks over connection k
    answer,     \* answer[k]: what was sent over connection k
    may,        \* history: the answers that were right while k was asking
    partly,     \* history: the requests of which a part was read as another uri
    stray,      \* history: a thread used the record of its deleted client
    crashed     \* a deleted mutex was locked: the process is gone

vars == <<exportVars, app_quit, main, accept, service, clients, finished, socket, deleted,
          worker, conn, peer, answer, may, partly, stray, crashed>>

Conns == 1..MaxConns

Request == INSTANCE HttpRequest
Response == INSTANCE HttpResponse

None == [pc |-> "none"]
(* An answer; the body of an index page is one symbol and a set of uris.   *)
Answer(status, body) == [status |-> status, body |-> body, uris |-> {}]
IndexPage(uris) == [status |-> "200", body |-> <<"page">>, uris |-> uris]
NoAnswer == Answer("none", <<>>)

Init == /\ ExportsInit
        /\ app_quit = FALSE
        /\ main = [pc |-> "run", calls |-> 0]
        /\ accept = [pc |-> "accept"]
        /\ service = [cont |-> TRUE, listening |-> TRUE, locks |-> TRUE, freed |-> FALSE]
        /\ clients = {} /\ finished = {} /\ deleted = {}
        /\ socket = [k \in Conns |-> 0]
        /\ worker = [k \in Conns |-> None]
        /\ conn = [k \in Conns |-> "none"]
        /\ peer = [k \in Conns |-> None]
        /\ answer = [k \in Conns |-> NoAnswer]
        /\ may = [k \in Conns |-> {}]
        /\ partly = {} /\ stray = FALSE /\ crashed = FALSE

listVars == <<clients, finished, socket, deleted>>
peerVars == <<peer, may>>
flags == <<stray, crashed>>

-----------------------------------------------------------------------------
(* The right answers                                                       *)

Page == IndexPage(DOMAIN made \ {Slash[Wildcard]})

Right(u) ==
    LET h == Promised(u) IN
    IF h = NotFound THEN Answer("400", <<>>)
    ELSE IF h = Index THEN Page
    ELSE Answer("200", Body[h])

(* What is exported changes the right answers to those who are asking.  An *)
(* index that was found may be written after it was replaced or deleted.   *)
ExportsChange ==
    may' = [k \in Conns |->
                IF peer[k].pc # "sent" THEN may[k]
                ELSE may[k] \cup {Right(peer[k].uri)'}
                            \cup {Page' : a \in {b \in may[k] : b.body = <<"page">>}}]

-----------------------------------------------------------------------------
(* The clients of the service: http_get                                    *)

PeerStep == UNCHANGED <<exportVars, app_quit, main, accept, service, listVars, worker, flags>>

open_tcp_socket(k) ==
    /\ conn[k] = "none" /\ peer[k] = None /\ service.listening /\ ~crashed
    /\ \A j \in 1..(k - 1) : conn[j] # "none"
    /\ conn' = [conn EXCEPT ![k] = "backlog"]
    /\ peer' = [peer EXCEPT ![k] = [pc |-> "connected"]]
    /\ UNCHANGED <<answer, may, partly>>
    /\ PeerStep

(* http_send_request: a request for u, or none at all, as of a client that *)
(* only connects.                                                          *)
http_send_request(k) ==
    /\ peer[k].pc = "connected" /\ conn[k] \in {"backlog", "open"}
    /\ \/ \E u \in Uris :
            /\ peer' = [peer EXCEPT ![k] = [pc |-> "sent", uri |-> u]]
            /\ may' = [may EXCEPT ![k] = {Right(u)}]
       \/ /\ peer' = [peer EXCEPT ![k] = [pc |-> "left"]]
          /\ UNCHANGED may
    /\ UNCHANGED <<conn, answer, partly>>
    /\ PeerStep

(* What was sent, as it is on the wire                                     *)
Wire(status, body) ==
    CASE status = "none" -> <<>>
      [] status = "200" -> Response!http_send_response("200", <<"type">>, body)
      [] OTHER -> Response!http_send_error_headers(status)

(* response_parse_html of data that arrives in the pieces s, then the end  *)
(* of the stream or of the loop, if the parser still asks for more.        *)
Piece(s, data) == IF s.ret # "more" \/ data = <<>> THEN s ELSE Response!response_recv(s, data)

Ended(s) == IF s.ret = "more" THEN Response!response_recv(s, <<>>) ELSE s

Read(data, cut) ==
    LET n == IF cut < Len(data) THEN cut ELSE Len(data)
    IN Ended(Piece(Piece(Response!StartResponse(Response!NoApp), SubSeq(data, 1, n)),
                   SubSeq(data, n + 1, Len(data))))

(* The loop ends after n symbols: the connection has ended, or the client  *)
(* is told to quit.                                                        *)
ReadPart(data, n) == Ended(Piece(Response!StartResponse(Response!NoApp), SubSeq(data, 1, n)))

(* What http_get returns; early is history: not all of a response came.    *)
Outcome(s, early) ==
    [ret |-> s.ret, early |-> early, status |-> s.response.status,
     headers |-> s.response.headers, body |-> s.response.body]

(* The connection breaks: the response is deleted.                         *)
Broken == [ret |-> "error"]

(* What response_parse_html makes of all that may be sent, whole or not    *)
Received ==
    LET Whole(data) == {Outcome(Read(data, cut), data = <<>>) : cut \in Cuts}
        Part(data) == {Outcome(ReadPart(data, n), TRUE) : n \in {m \in Cuts : m < Len(data)}}
    IN {[status |-> status, body |-> body,
         outcomes |-> Whole(Wire(status, body)) \cup Part(Wire(status, body)) \cup {Broken}] :
            status \in {"none", "200", "400", "500"},
            body \in {Body[h] : h \in DOMAIN Body} \cup {<<>>, <<"page">>}}

Closed(k) == conn[k] \in {"closed", "reset"}

(* The outcomes of http_get for client k                                   *)
Outcomes(k) ==
    IF conn[k] = "reset" THEN {Broken}
    ELSE UNION {r.outcomes : r \in {q \in Received : q.status = answer[k].status
                                                  /\ q.body = answer[k].body}}

(* http_get returns one of them; nothing else depends on which.  Nobody    *)
(* sees when a client reads or ends, so it does when its connection is     *)
(* closed.                                                                 *)
response_parse_html(k) ==
    /\ peer[k].pc = "sent" /\ Closed(k) /\ ~crashed
    /\ peer' = [peer EXCEPT ![k] = [pc |-> "done"]]
    /\ may' = [may EXCEPT ![k] = {}]
    /\ partly' = partly \ {k}
    /\ UNCHANGED <<conn, answer>>
    /\ PeerStep

-----------------------------------------------------------------------------
(* The thread of a client: service_client_handle                           *)

WorkerGo(k, r) == worker' = [worker EXCEPT ![k] = r]

WorkerStep(k) == /\ ~crashed
                 /\ UNCHANGED <<exportVars, app_quit, main, accept, service, peerVars>>

(* An answer reaches the peer if the socket is still that of the client.   *)
Send(k, a) == answer' = IF socket[k] = k /\ conn[k] = "open" THEN [answer EXCEPT ![k] = a]
                        ELSE answer

(* What request_parse_html makes of a request for a uri, or of none        *)
Parsed == {[uri |-> u,
            result |-> Request!request_parse_html(
                IF u = "none" THEN <<>>
                ELSE Request!http_send_request(<<u>>, <<"host">>, <<"type">>, <<>>),
                u = "none", "all")] : u \in Uris \cup {"none"}}

(* Every request for a uri is read as it was sent.                         *)
RequestsRead ==
    \A r \in Parsed : r.uri \in Uris => r.result.ret = "ok" /\ r.result.request.uri[1] = r.uri

(* request_parse_html                                                      *)
service_parse_request(k) ==
    /\ worker[k].pc = "request"
    /\ WorkerStep(k)
    /\ socket[k] = k /\ conn[k] = "open" /\ peer[k].pc \in {"sent", "left"}
    /\ \E r \in Parsed :
        /\ r.uri = IF peer[k].pc = "sent" THEN peer[k].uri ELSE "none"
        /\ IF r.result.ret = "ok"
           THEN /\ WorkerGo(k, [pc |-> "lookup", uri |-> r.result.request.uri[1]])
                /\ UNCHANGED answer
           ELSE /\ WorkerGo(k, [pc |-> "remove"])
                /\ Send(k, Answer("500", <<>>))
    /\ UNCHANGED <<listVars, conn, partly, stray, crashed>>

(* The socket was closed by another thread.                                *)
service_parse_closed(k) ==
    /\ worker[k].pc = "request"
    /\ WorkerStep(k)
    /\ socket[k] # k \/ conn[k] # "open"
    /\ WorkerGo(k, [pc |-> "remove"])
    /\ UNCHANGED <<listVars, conn, answer, partly, stray, crashed>>

(* The process is told to quit: the loop ends before a uri is read, which  *)
(* is not an error, or within the uri, and the part may be another uri.    *)
service_parse_quit(k) ==
    /\ worker[k].pc = "request" /\ app_quit
    /\ WorkerStep(k)
    /\ \/ /\ WorkerGo(k, [pc |-> "remove"])
          /\ Send(k, Answer("400", <<>>))
          /\ UNCHANGED partly
       \/ /\ peer[k].pc = "sent"
          /\ \E u \in Uris \ {peer[k].uri} : WorkerGo(k, [pc |-> "lookup", uri |-> u])
          /\ partly' = partly \cup {k}
          /\ UNCHANGED answer
    /\ UNCHANGED <<listVars, conn, stray, crashed>>

(* The mutex of the exports is locked.  Once it is deleted that is         *)
(* undefined: it works, on an empty list, or the process crashes.          *)
Lock(Then) == \/ crashed' = FALSE /\ Then
              \/ ~service.locks /\ crashed' = TRUE /\ UNCHANGED <<worker, answer>>

(* service_get_export: the export is cloned under the mutex.               *)
service_lookup(k) ==
    /\ worker[k].pc = "lookup"
    /\ WorkerStep(k)
    /\ Lock(LET h == service_get_export(worker[k].uri) IN
            IF h = NotFound
            THEN WorkerGo(k, [pc |-> "remove"]) /\ Send(k, Answer("400", <<>>))
            ELSE WorkerGo(k, [pc |-> "call", handler |-> h]) /\ UNCHANGED answer)
    /\ UNCHANGED <<listVars, conn, partly, stray>>

(* export_callback, then http_send_response                                *)
service_call_export(k) ==
    /\ worker[k].pc = "call"
    /\ WorkerStep(k)
    /\ LET Reply(a) == Send(k, a) /\ WorkerGo(k, [pc |-> "remove"]) IN
       IF worker[k].handler = Index
       THEN Lock(Reply(IndexPage({Path(n) : n \in service_index})))
       ELSE Reply(Answer("200", Body[worker[k].handler])) /\ UNCHANGED crashed
    /\ UNCHANGED <<listVars, conn, partly, stray>>

service_remove_client(k) ==
    /\ worker[k].pc = "remove"
    /\ WorkerStep(k)
    /\ clients' = clients \ {k}
    /\ finished' = finished \cup {k}
    /\ WorkerGo(k, [pc |-> "close"])
    /\ UNCHANGED <<socket, deleted, conn, answer, partly, stray, crashed>>

CloseConn(c, S) == [k \in Conns |-> IF k \in S /\ c[k] = "open" THEN "closed" ELSE c[k]]

(* Mutant: the socket is left to service_delete_clients.                   *)
service_close_client_later(k) ==
    /\ worker[k].pc = "close"
    /\ WorkerStep(k)
    /\ WorkerGo(k, [pc |-> "done"])
    /\ UNCHANGED <<listVars, conn, answer, partly, stray, crashed>>

(* The thread closes the socket of its client.  If service_run has deleted *)
(* the client, what is closed is nothing, or the connection of a client    *)
(* that got the number of the socket or the memory of the record; in the   *)
(* latter case its socket becomes invalid.                                 *)
service_close_client(k) ==
    /\ worker[k].pc = "close"
    /\ WorkerStep(k)
    /\ WorkerGo(k, [pc |-> "done"])
    /\ IF k \notin deleted
       THEN /\ conn' = CloseConn(conn, {socket[k]})
            /\ socket' = [socket EXCEPT ![k] = 0]
            /\ UNCHANGED stray
       ELSE /\ stray' = TRUE
            /\ \/ UNCHANGED <<conn, socket>>
               \/ \E d \in Conns : /\ conn[d] = "open"
                                   /\ conn' = [conn EXCEPT ![d] = "closed"]
                                   /\ socket' \in {socket, [socket EXCEPT ![d] = 0]}
    /\ UNCHANGED <<clients, finished, deleted, answer, partly, crashed>>

-----------------------------------------------------------------------------
(* The thread of service_run                                               *)

AcceptStep ==
    ~crashed /\ UNCHANGED <<exportVars, app_quit, main, service, peerVars, answer, partly, flags>>

(* The condition of the loop of service_run                                *)
GoesOn == service.cont /\ ~app_quit

AcceptGo(pc) == accept' = [accept EXCEPT !.pc = pc]

(* accept and service_add_client; cont was looked at before accept waits.  *)
server_socket_accept ==
    /\ accept.pc = "accept"
    /\ AcceptStep
    /\ \E k \in Conns :
        /\ conn[k] = "backlog" /\ \A j \in 1..(k - 1) : conn[j] # "backlog"
        /\ conn' = [conn EXCEPT ![k] = "open"]
        /\ clients' = clients \cup {k}
        /\ socket' = [socket EXCEPT ![k] = k]
        /\ accept' = [pc |-> "clean", client |-> k]
    /\ UNCHANGED <<finished, deleted, worker>>

(* service_delete_clients, by whom ever                                    *)
service_delete_clients ==
    /\ conn' = CloseConn(conn, {socket[k] : k \in finished})
    /\ socket' = [k \in Conns |-> IF k \in finished THEN 0 ELSE socket[k]]
    /\ deleted' = deleted \cup finished
    /\ finished' = {}

service_clean ==
    /\ accept.pc = "clean"
    /\ AcceptStep
    /\ service_delete_clients
    /\ AcceptGo("start")
    /\ UNCHANGED <<clients, worker>>

service_start_client ==
    /\ accept.pc = "start"
    /\ AcceptStep
    /\ WorkerGo(accept.client, [pc |-> "request"])
    /\ accept' = [pc |-> IF GoesOn THEN "accept" ELSE "end"]
    /\ UNCHANGED <<listVars, conn>>

(* Mutant: accept waits for a connection without a limit.                  *)
service_run_end_late ==
    /\ accept.pc = "accept" /\ ~GoesOn /\ \E k \in Conns : conn[k] = "backlog"
    /\ AcceptStep
    /\ accept' = [pc |-> "end"]
    /\ UNCHANGED <<listVars, conn, worker>>

(* The loop has ended: accept returns after a second in any case.          *)
service_run_end ==
    /\ accept.pc = "accept" /\ ~GoesOn
    /\ AcceptStep
    /\ accept' = [pc |-> "end"]
    /\ UNCHANGED <<listVars, conn, worker>>

-----------------------------------------------------------------------------
(* The application thread                                                  *)

AppStep == ~crashed /\ UNCHANGED <<app_quit, accept, worker, peer, answer, partly, flags>>

ServiceVars == <<service, listVars, conn>>

service_export ==
    /\ main.pc = "run"
    /\ AppStep
    /\ main.calls < MaxExports
    /\ main' = [main EXCEPT !.calls = @ + 1]
    /\ \E n \in Exported, h \in Handlers \ {Index} :
            service_export_found(n, h) \/ service_export_missing(n, h)
    /\ ExportsChange
    /\ UNCHANGED ServiceVars

service_export_add ==
    /\ main.pc = "run"
    /\ AppStep
    /\ service_export_prepend
    /\ ExportsChange
    /\ UNCHANGED <<main, ServiceVars>>

(* app_set_quit, by a signal handler or by any thread of the process       *)
AppQuit ==
    /\ ~app_quit /\ ~crashed
    /\ app_quit' = TRUE
    /\ UNCHANGED <<exportVars, main, accept, service, listVars, worker, conn, peerVars, answer,
                   partly, flags>>

(* delete_service *)
delete_service_begin ==
    /\ main.pc = "run" /\ exporter = Idle
    /\ AppStep
    /\ service' = [service EXCEPT !.cont = FALSE]
    /\ main' = [main EXCEPT !.pc = "join"]
    /\ UNCHANGED <<exportVars, listVars, conn, may>>

(* service_run has ended; the server socket is closed, which resets the    *)
(* connections that were not accepted.                                     *)
delete_service_unlisten ==
    /\ main.pc = "join" /\ accept.pc = "end"
    /\ AppStep
    /\ service' = [service EXCEPT !.listening = FALSE]
    /\ conn' = [k \in Conns |-> IF conn[k] = "backlog" THEN "reset" ELSE conn[k]]
    /\ main' = [main EXCEPT !.pc = "exports"]
    /\ UNCHANGED <<exportVars, listVars, may>>

delete_service_exports ==
    /\ main.pc = "exports"
    /\ AppStep
    /\ delete_exports
    /\ ExportsChange
    /\ service' = [service EXCEPT !.locks = FALSE]
    /\ main' = [main EXCEPT !.pc = "take"]
    /\ UNCHANGED <<listVars, conn>>

(* Mutant: the threads of the clients are not waited for.                  *)
delete_service_take_none ==
    /\ main.pc = "take"
    /\ AppStep
    /\ main' = [pc |-> "clients", calls |-> main.calls, join |-> {}]
    /\ clients' = {}
    /\ UNCHANGED <<exportVars, may, service, finished, socket, deleted, conn>>

(* The list of clients is taken, and their threads are joined.             *)
delete_service_take ==
    /\ main.pc = "take"
    /\ AppStep
    /\ main' = [pc |-> "clients", calls |-> main.calls, join |-> clients]
    /\ clients' = {}
    /\ UNCHANGED <<exportVars, may, service, finished, socket, deleted, conn>>

delete_service_free ==
    /\ main.pc = "clients" /\ \A k \in main.join : worker[k].pc = "done"
    /\ AppStep
    /\ service_delete_clients
    /\ service' = [service EXCEPT !.freed = TRUE]
    /\ main' = [pc |-> "freed"]
    /\ UNCHANGED <<exportVars, may, clients>>

-----------------------------------------------------------------------------
Deletion == \/ delete_service_unlisten \/ delete_service_exports
            \/ delete_service_take \/ delete_service_free

Accepting == server_socket_accept \/ service_clean \/ service_start_client \/ service_run_end

Parses(k) == service_parse_request(k) \/ service_parse_closed(k) \/ service_parse_quit(k)

Handles(k) == \/ Parses(k) \/ service_lookup(k) \/ service_call_export(k)
              \/ service_remove_client(k) \/ service_close_client(k)

Asks(k) == open_tcp_socket(k) \/ http_send_request(k) \/ response_parse_html(k)

(* The service is deleted and its clients have nothing left to do, or the  *)
(* process is gone.                                                        *)
Finished == /\ main.pc = "freed" \/ crashed
            /\ UNCHANGED vars

Next == \/ service_export \/ service_export_add \/ delete_service_begin \/ Deletion \/ Accepting
        \/ \E k \in Conns : Asks(k) \/ Handles(k)
        \/ AppQuit \/ Finished

(* The threads of the service go on if they can; a client that has         *)
(* connected sends its request or closes, and reads the answer.  An        *)
(* application that is told to quit deletes its service: the main loops of *)
(* the applications of the repository end when app_quit says so.           *)
Fairness ==
    /\ WF_vars(Accepting)
    /\ WF_vars(Deletion \/ service_export_add \/ (app_quit /\ delete_service_begin))
    /\ \A k \in Conns : /\ WF_vars(Handles(k))
                       /\ WF_vars(http_send_request(k) \/ response_parse_html(k))

Spec == Init /\ [][Next]_vars /\ Fairness

-----------------------------------------------------------------------------
(* The record of the service and the mutex of its clients are freed when   *)
(* service_run has ended and no thread of a client will use them:          *)
(* delete_service joins all that are not past service_remove_client.  The  *)
(* exports and their mutex are deleted before those joins: a thread that   *)
(* looks them up then is in `crashed`, not in this.                        *)
ServiceFreedLast ==
    service.freed => /\ accept.pc = "end"
                     /\ \A k \in Conns : worker[k].pc \in {"none", "close", "done"}

Unread(k) == k \in partly \/ (app_quit /\ answer[k] = Answer("400", <<>>))

(* A request is answered with what was exported at some moment between its *)
(* sending and its answer.  A resource that was exported before the        *)
(* request is never not found, although service_export changes the list in *)
(* two steps and the handler is called outside of the mutex.  A process    *)
(* that is told to quit may not have read the request, or a part of it.    *)
AnswerWasRight ==
    \A k \in Conns : answer[k] # NoAnswer /\ peer[k].pc = "sent" =>
                        answer[k] \in may[k] \/ Unread(k)

ContentLength == <<"Content-", "Length">>

LengthMatches(o) ==
    /\ ContentLength \in DOMAIN o.headers
    /\ o.headers[ContentLength] = Response!Parser!Number(Len(o.body), 10)

(* o is the answer a.                                                      *)
IsWhole(o, a) == o.ret = "ok" /\ o.status = a.status /\ (a.status = "200" => o.body = a.body)

(* Wherever the network cuts a response, http_get gets it as it was sent.  *)
(* If the connection or the client ends within it, http_get still returns  *)
(* 0, with a part of the body; then it is the length that says so: a       *)
(* Content-Length that is that of the body only comes with a whole answer. *)
AnswerIntact ==
    \A k \in Conns : peer[k].pc = "sent" /\ Closed(k) =>
        \A o \in Outcomes(k) \ {Broken} :
            /\ \/ o.early
               \/ IsWhole(o, answer[k]) /\ (answer[k].status = "200" => LengthMatches(o))
            /\ \E n \in 0..Len(answer[k].body) : o.body = SubSeq(answer[k].body, 1, n)
            /\ LengthMatches(o) => IsWhole(o, answer[k])

(* Everyone who asks gets an answer or the end of the connection, unless a *)
(* connection was hit by the thread of a client that was deleted.          *)
EveryoneAnswered ==
    \A k \in Conns : peer[k].pc = "sent" ~> (peer[k].pc = "done" \/ stray \/ crashed)

(* delete_service returns if the clients go on.                            *)
DeleteReturns == main.pc = "join" ~> (main.pc = "freed" \/ crashed)
=============================================================================
