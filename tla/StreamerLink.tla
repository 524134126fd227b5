---------------------------- MODULE StreamerLink ----------------------------
(***************************************************************************)
(* A streamer link (librcom/src/streamerlink.c) that reads the stream of a *)
(* streamer over HTTP and hands it to a multipart parser, as the example   *)
(* camera_listener does with one parser for the life of the process.       *)
(*                                                                         *)
(* Two threads work on a link.  The controlling thread calls set_remote,   *)
(* which the proxy does under its mutex, and in the end delete; the link's *)
(* own thread, one for every connection, runs streamerlink_run.  The       *)
(* critical sections under link->mutex do not block: each is one step.     *)
(* The streamer at the other end is a process of the model too: it sends   *)
(* its headers and chunks, and closes the connection.                      *)
(***************************************************************************)
EXTENDS MultipartParser, FiniteSets, TLC

CONSTANTS
    Parts,              \* the messages of the streamer, in their order
    ChunkSizes,         \* the sizes of the chunks that are sent
    RecvSizes,          \* the sizes of the pieces that are received
    MaxWire,            \* bound on what is on its way in a connection
    MaxConns,           \* bound on the number of connections
    MaxRemotes,         \* bound on the calls of set_remote
    ULLONG_MAX, HTTP_MAX_HEADER_SIZE

ASSUME StreamAssumption ==
    /\ ChunkSizes \subseteq Nat \ {0}
    /\ RecvSizes \subseteq Nat \ {0}
    /\ MaxConns \in Nat /\ MaxRemotes \in Nat
    /\ \A i \in DOMAIN Parts : Parts[i].data # <<>> /\ Parts[i].time # "0.0"

VARIABLES
    link,       \* cont, thread, socket, remote: the fields of the link
    ctl,        \* where the controlling thread is
    thread,     \* thread[k]: where the thread of connection k is
    rx,         \* rx[k]: the response that the thread reads
    parser,     \* the multipart parser of the application
    wire,       \* wire[k]: what the streamer has sent and nobody has read
    server,     \* server[k]: the streamer's end of the connection
    quit,       \* app_quit()
    crashed,    \* a null pointer was used: the process is gone
    start       \* history: what the parser was when the connection began

vars == <<link, ctl, thread, rx, parser, wire, server, quit, crashed, start>>

Conns == 1..MaxConns

Http == INSTANCE HttpResponse

NoResponse == [ret |-> "none"]

(* The response is stored without the parser, which is a variable.         *)
Detached == [cont |-> FALSE]

Init == /\ link = [cont |-> FALSE, thread |-> 0, socket |-> 0, remote |-> FALSE]
        /\ ctl = [pc |-> "idle", calls |-> 0]
        /\ thread = [k \in Conns |-> "none"]
        /\ rx = [k \in Conns |-> NoResponse]
        /\ parser = new_multipart_parser
        /\ wire = [k \in Conns |-> <<>>]
        /\ server = [k \in Conns |-> [pc |-> "none"]]
        /\ quit = FALSE
        /\ crashed = FALSE
        /\ start = [clean |-> TRUE, parts |-> 0]

serverVars == <<wire, server>>
threadVars == <<thread, rx, parser>>

-----------------------------------------------------------------------------
(* The streamer's end: streamer_run_server, streamer_client_run            *)

(* All that is written to the buffer of a client: whole messages           *)
Payload ==
    LET part[i \in 0..Len(Parts)] ==
            IF i = 0 THEN <<>>
            ELSE part[i - 1] \o Part(Parts[i], Http!Parser!Number(Len(Parts[i].data), 10))
    IN part[Len(Parts)]

Write(k, data) == wire' = [wire EXCEPT ![k] = @ \o data]

ServerGo(k, s) == server' = [server EXCEPT ![k] = s]

ServerStep(k) == /\ ~crashed
                 /\ Len(wire[k]) <= MaxWire
                 /\ UNCHANGED <<link, ctl, threadVars, quit, crashed, start>>

(* The request has come in: the headers, or an error if onclient refuses.  *)
streamer_start_stream(k) ==
    /\ server[k].pc = "requested"
    /\ ServerStep(k)
    /\ \/ /\ Write(k, Http!http_send_streaming_headers(<<"type">>))
          /\ ServerGo(k, [pc |-> "streaming", sent |-> 0])
       \/ /\ Write(k, Http!http_send_error_headers("500"))
          /\ ServerGo(k, [pc |-> "refused"])

(* A chunk of what is in the buffer                                        *)
streamer_send_chunk(k) ==
    /\ server[k].pc = "streaming"
    /\ ServerStep(k)
    /\ \E n \in ChunkSizes :
        LET left == Len(Payload) - server[k].sent
            size == IF n < left THEN n ELSE left
        IN /\ left > 0
           /\ Write(k, Http!http_send_chunk(SubSeq(Payload, server[k].sent + 1,
                                                   server[k].sent + size)))
           /\ ServerGo(k, [pc |-> "streaming", sent |-> server[k].sent + size])

(* The streamer quits: with an empty chunk if the thread of the client was *)
(* waiting for data, without if it was sending or if the process ended.    *)
streamer_client_end(k) ==
    /\ server[k].pc \in {"requested", "streaming", "refused"}
    /\ ServerStep(k)
    /\ \/ UNCHANGED wire
       \/ server[k].pc = "streaming" /\ Write(k, Http!http_send_chunk(<<>>))
    /\ ServerGo(k, [pc |-> "closed"])

-----------------------------------------------------------------------------
(* The link's thread: streamerlink_run                                     *)

ThreadGo(k, pc) == thread' = [thread EXCEPT ![k] = pc]

(* The request is sent; then cont is set, whatever it was.                 *)
streamerlink_send_request(k) ==
    /\ thread[k] = "request" /\ ~crashed
    /\ \/ /\ server[k].pc = "connected"
          /\ ServerGo(k, [pc |-> "requested"])
          /\ ThreadGo(k, "respond")
       \/ /\ server[k].pc = "closed"
          /\ ThreadGo(k, "cleanup")
          /\ UNCHANGED server
    /\ UNCHANGED <<link, ctl, rx, parser, wire, quit, crashed, start>>

streamerlink_start_response(k) ==
    /\ thread[k] = "respond" /\ ~crashed
    /\ link' = [link EXCEPT !.cont = TRUE]
    /\ rx' = [rx EXCEPT ![k] = Http!StartResponse(Detached)]
    /\ ThreadGo(k, "read")
    /\ UNCHANGED <<ctl, parser, serverVars, quit, crashed, start>>

(* A turn of the loop of response_parse_html with the piece data           *)
Receive(k, data) ==
    LET s == [rx[k] EXCEPT !.response.app = [cont |-> link.cont, m |-> parser]] IN
    \E r \in {Http!response_recv(s, data)} :
        LET stuck == r.response.app.m.hung \/ r.ret = "abort" IN
        /\ parser' = r.response.app.m
        /\ rx' = [rx EXCEPT ![k] = IF r.ret = "more" /\ ~stuck
                                   THEN [r EXCEPT !.response.app = Detached] ELSE NoResponse]
        /\ ThreadGo(k, IF stuck THEN "stuck" ELSE IF r.ret = "more" THEN "read" ELSE "cleanup")

streamerlink_recv(k) ==
    /\ thread[k] = "read" /\ ~quit /\ ~crashed
    /\ wire[k] # <<>>
    /\ \E n \in RecvSizes \cup {Len(wire[k])} :
        /\ n <= Len(wire[k])
        /\ Receive(k, SubSeq(wire[k], 1, n))
        /\ wire' = [wire EXCEPT ![k] = SubSeq(@, n + 1, Len(@))]
    /\ UNCHANGED <<link, ctl, server, quit, crashed, start>>

streamerlink_end_of_stream(k) ==
    /\ thread[k] = "read" /\ ~quit /\ ~crashed
    /\ wire[k] = <<>> /\ server[k].pc = "closed"
    /\ Receive(k, <<>>)
    /\ UNCHANGED <<link, ctl, serverVars, quit, crashed, start>>

streamerlink_quit(k) ==
    /\ thread[k] = "read" /\ quit /\ ~crashed
    /\ rx' = [rx EXCEPT ![k] = NoResponse]
    /\ ThreadGo(k, "cleanup")
    /\ UNCHANGED <<link, ctl, parser, serverVars, quit, crashed, start>>

(* streamerlink_close_connection: the streamer finds the connection closed *)
(* when it sends.                                                          *)
Disconnect(l) ==
    /\ wire' = [k \in Conns |-> IF k = l.socket THEN <<>> ELSE wire[k]]
    /\ server' = [k \in Conns |-> IF k = l.socket THEN [pc |-> "gone"] ELSE server[k]]

(* Mutant: the socket is forgotten, not closed.                            *)
streamerlink_close_connection_leak(l) == UNCHANGED <<wire, server>>

streamerlink_close_connection(l) == Disconnect(l)

streamerlink_cleanup(k) ==
    /\ thread[k] = "cleanup" /\ ~crashed
    /\ streamerlink_close_connection(link)
    /\ link' = [link EXCEPT !.socket = 0, !.thread = 0]
    /\ ThreadGo(k, "done")
    /\ UNCHANGED <<ctl, rx, parser, quit, crashed, start>>

-----------------------------------------------------------------------------
(* The controlling thread.  set_remote stops the thread, closes the        *)
(* connection and connects again, which stops and closes once more;        *)
(* delete stops and closes.  next is what follows the stop.                *)

CtlGo(pc) == ctl' = [ctl EXCEPT !.pc = pc]

CtlStep == ~crashed /\ UNCHANGED <<threadVars, quit, start>>

streamerlink_set_remote ==
    /\ ctl.pc = "idle" /\ ctl.calls < MaxRemotes
    /\ CtlStep
    /\ ctl' = [pc |-> "stop", next |-> "set", calls |-> ctl.calls + 1]
    /\ UNCHANGED <<link, serverVars, crashed>>

delete_streamerlink ==
    /\ ctl.pc = "idle"
    /\ CtlStep
    /\ ctl' = [pc |-> "stop", next |-> "free", calls |-> ctl.calls]
    /\ UNCHANGED <<link, serverVars, crashed>>

(* Mutant: the thread is told to stop, not waited for.                     *)
streamerlink_stop_thread_nowait ==
    /\ ctl.pc = "stop"
    /\ CtlStep
    /\ link' = [link EXCEPT !.cont = FALSE]
    /\ CtlGo(ctl.next)
    /\ UNCHANGED <<serverVars, crashed>>

(* stop_thread: cont is cleared and link->thread is looked at              *)
streamerlink_stop_thread ==
    /\ ctl.pc = "stop"
    /\ CtlStep
    /\ link' = [link EXCEPT !.cont = FALSE]
    /\ CtlGo(IF link.thread # 0 THEN "join" ELSE ctl.next)
    /\ UNCHANGED <<serverVars, crashed>>

(* link->thread is read again, without the mutex, and thread_join reads    *)
(* the thread it points to.  The thread of the link may have set it to     *)
(* NULL in between, or freed what it points to.                            *)
thread_join ==
    /\ ctl.pc = "join"
    /\ CtlStep
    /\ crashed' = (link.thread = 0)
    /\ ctl' = [pc |-> "deref", joins |-> link.thread, next |-> ctl.next, calls |-> ctl.calls]
    /\ UNCHANGED <<link, serverVars>>

thread_join_deref ==
    /\ ctl.pc = "deref"
    /\ CtlStep
    /\ crashed' \in {FALSE, thread[ctl.joins] = "done"}
    /\ CtlGo("joining")
    /\ UNCHANGED <<link, serverVars>>

thread_joined ==
    /\ ctl.pc = "joining" /\ thread[ctl.joins] = "done"
    /\ CtlStep
    /\ ctl' = [pc |-> ctl.next, next |-> ctl.next, calls |-> ctl.calls]
    /\ UNCHANGED <<link, serverVars, crashed>>

(* Mutant: to connect begins with set_remote.                              *)
streamerlink_close_again ==
    /\ ctl.pc \in {"set", "disconnect", "free"}
    /\ CtlStep
    /\ streamerlink_close_connection(link)
    /\ link' = [link EXCEPT !.socket = 0, !.remote = (ctl.pc # "free")]
    /\ ctl' = CASE ctl.pc = "set" -> [pc |-> "stop", next |-> "disconnect", calls |-> ctl.calls]
                [] ctl.pc = "disconnect" -> [pc |-> "stop", next |-> "set", calls |-> ctl.calls]
                [] ctl.pc = "free" -> [pc |-> "freed", calls |-> ctl.calls]
    /\ UNCHANGED crashed

(* The critical section of set_remote, of disconnect, and of delete        *)
streamerlink_close ==
    /\ ctl.pc \in {"set", "disconnect", "free"}
    /\ CtlStep
    /\ streamerlink_close_connection(link)
    /\ link' = [link EXCEPT !.socket = 0, !.remote = (ctl.pc # "free")]
    /\ ctl' = CASE ctl.pc = "set" -> [pc |-> "stop", next |-> "disconnect", calls |-> ctl.calls]
                [] ctl.pc = "disconnect" -> [pc |-> "open", calls |-> ctl.calls]
                [] ctl.pc = "free" -> [pc |-> "freed", calls |-> ctl.calls]
    /\ UNCHANGED crashed

(* streamerlink_connect: open_tcp_socket may fail; else a thread starts.   *)
streamerlink_connect ==
    /\ ctl.pc = "open" /\ ~crashed
    /\ ctl' = [pc |-> "idle", calls |-> ctl.calls]
    /\ \/ UNCHANGED <<link, thread, server, start>>
       \/ \E k \in Conns :
            /\ thread[k] = "none" /\ \A j \in 1..(k - 1) : thread[j] # "none"
            /\ link' = [link EXCEPT !.socket = k, !.thread = k]
            /\ thread' = [thread EXCEPT ![k] = "request"]
            /\ server' = [server EXCEPT ![k] = [pc |-> "connected"]]
            /\ start' = [clean |-> parser.status = "read_header" /\ parser.header = <<>>,
                         parts |-> Len(parser.parts)]
    /\ UNCHANGED <<rx, parser, wire, quit, crashed>>

(* A signal sets app_quit.                                                 *)
app_quit ==
    /\ ~quit /\ ~crashed
    /\ quit' = TRUE
    /\ UNCHANGED <<link, ctl, threadVars, serverVars, crashed, start>>

-----------------------------------------------------------------------------
Controller == \/ streamerlink_stop_thread \/ thread_join \/ thread_join_deref
              \/ thread_joined \/ streamerlink_close \/ streamerlink_connect

Reads(k) == streamerlink_recv(k) \/ streamerlink_end_of_stream(k)

Works(k) == \/ streamerlink_send_request(k) \/ streamerlink_start_response(k)
            \/ streamerlink_quit(k) \/ streamerlink_cleanup(k)

Streaming(k) == streamer_start_stream(k) \/ streamer_send_chunk(k) \/ streamer_client_end(k)

(* The link is deleted, the process is gone, or a thread loops for ever.   *)
Finished == /\ ctl.pc = "freed" \/ crashed \/ \E k \in Conns : thread[k] = "stuck"
            /\ UNCHANGED vars

Next == \/ streamerlink_set_remote \/ delete_streamerlink \/ Controller \/ app_quit
        \/ \E k \in Conns : Works(k) \/ Reads(k) \/ Streaming(k)
        \/ Finished

(* recv has something to return: this is ENABLED Reads(k).                 *)
CanRead(k) == /\ thread[k] = "read" /\ ~quit /\ ~crashed
              /\ wire[k] # <<>> \/ server[k].pc = "closed"

(* Threads that can go on do; a streamer ends its streams at some time.    *)
(* Weak fairness of Reads(k) is written with CanRead(k) for its ENABLED,   *)
(* which spares TLC the parsing of the piece where it only asks whether    *)
(* there is one.                                                           *)
Fairness ==
    /\ WF_vars(Controller)
    /\ \A k \in Conns : WF_vars(Works(k)) /\ WF_vars(streamer_client_end(k))
    /\ \A k \in Conns : ([]<>(~CanRead(k))) \/ ([]<><<Reads(k)>>_vars)

Spec == Init /\ [][Next]_vars /\ Fairness

-----------------------------------------------------------------------------
(* What the application got since the connection began is the messages of  *)
(* the streamer, whole and in their order, and neither an assertion of the *)
(* HTTP parser nor the endless loop of the multipart parser is reached,    *)
(* wherever the network cuts the stream, if the parser had nothing left of *)
(* an earlier connection.                                                  *)
PartsIntact ==
    start.clean =>
        /\ \A k \in Conns : thread[k] # "stuck"
        /\ \A i \in (start.parts + 1)..Len(parser.parts) :
              /\ i - start.parts <= Len(Parts)
              /\ parser.parts[i] = Parts[i - start.parts]

(* While the thread of a connection works, the socket of the link is its   *)
(* own: set_remote and delete wait for it before they close or replace it. *)
ReaderHasSocket ==
    \A k \in Conns : thread[k] \in {"request", "respond", "read", "stuck"}
                        => link.socket = k /\ server[k].pc # "gone"

(* A deleted link leaves no connection open.                               *)
NoConnectionLeft ==
    ctl.pc = "freed" => \A k \in Conns : server[k].pc \in {"none", "gone"}

(* delete_streamerlink and set_remote return, although the stop they ask   *)
(* for may be lost: at the latest when the streamer ends the stream.       *)
StopReturns == (ctl.pc = "stop") ~> (ctl.pc \in {"idle", "freed"} \/ crashed
                                     \/ \E k \in Conns : thread[k] = "stuck")
=============================================================================
