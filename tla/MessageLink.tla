---------------------------- MODULE MessageLink ----------------------------
(***************************************************************************)
(* The two ends of a WebSocket connection (librcom/src/messagelink.c):     *)
(* opening it, reading, sending and the close handshake.                   *)
(*                                                                         *)
(* Link 0 is a client-side link with an onmessage handler.  It may be      *)
(* connected several times, each time to another hub; link k, for k in     *)
(* Conns, is the server-side link that the hub creates for connection k.   *)
(* The socket of a link is the number of a connection, 0 when it is        *)
(* INVALID_TCP_SOCKET.                                                     *)
(*                                                                         *)
(* The threads: reader[x] reads for link x (client_messagelink_run or      *)
(* server_messagelink_run); owner[x] deletes the link; sender[x] sends     *)
(* texts; connector calls client_messagelink_connect when the proxy hears  *)
(* of a hub.  Only connecting and deleting take link->state_mutex; the     *)
(* readers and senders look at link->state and link->socket without it.    *)
(* Time is left out: a sleep or a wait may end at any moment.              *)
(*                                                                         *)
(* messagelink_close_socket closes the socket that it finds, and sets      *)
(* link->socket to INVALID_TCP_SOCKET and link->state to WS_CLOSED later.  *)
(* In the reader and in the connector these are three steps, since each of *)
(* them may be at it while the other changes socket and state.             *)
(*                                                                         *)
(* A peer may stop in the middle of a frame: "half" is the last frame that *)
(* it sends.  Who reads a frame waits in recv, without a limit, for what   *)
(* is not there.                                                           *)
(***************************************************************************)
EXTENDS Naturals, Sequences

CONSTANTS MaxConns,     \* how many times the client link is connected
          MaxTexts,     \* how many texts the links send in all
          Quitters,     \* the links whose process may be told to quit
          Stoppers      \* the links that may stop in the middle of a frame

ASSUME LinkAssumption == /\ MaxConns \in Nat \ {0} /\ MaxTexts \in Nat
                         /\ Quitters \subseteq 0..MaxConns
                         /\ Stoppers \subseteq 0..MaxConns

Conns == 1..MaxConns
Links == 0..MaxConns
IsClient(x) == x = 0

VARIABLES
    state,      \* state[x]: link->state
    socket,     \* socket[x]: link->socket
    quit,       \* quit[x]: link->thread_quit
    app_quit,   \* app_quit[x]: app_quit() in the process of x
    reader,     \* reader[x]: where the reader thread of x is
    owner,      \* owner[x]: where the thread that deletes x is
    sender,     \* sender[x]: TRUE between the check and the send of a text
    connector,  \* where client_messagelink_connect is
    wire,       \* wire[k]: the TCP connection k
    next,       \* the number of the next connection
    sent,       \* history: the number of texts sent
    closes,     \* history: closes[x][k], close frames that x sent on k
    lost        \* history: connections that link 0 was made to forget

linkVars == <<state, socket, quit, app_quit>>
history == <<sent, closes, lost>>
vars == <<state, socket, quit, app_quit, reader, owner, sender, connector, wire, next,
          sent, closes, lost>>

Frames == {"text", "ping", "pong", "close", "binary", "half"}

(* A connection: in[s] holds the frames that side s has not read, up[s] is *)
(* FALSE once side s has closed its socket.                                *)
Sides == {"client", "server"}
Side(x) == IF IsClient(x) THEN "client" ELSE "server"
Peer(x) == IF IsClient(x) THEN "server" ELSE "client"

Down == [in |-> [s \in Sides |-> <<>>], up |-> [s \in Sides |-> FALSE]]

Init == /\ state = [x \in Links |-> "CREATED"]
        /\ socket = [x \in Links |-> 0]
        /\ quit = [x \in Links |-> FALSE]
        /\ app_quit = [x \in Links |-> FALSE]
        /\ reader = [x \in Links |-> [pc |-> "none"]]
        /\ owner = [x \in Links |-> "idle"]
        /\ sender = [x \in Links |-> FALSE]
        /\ connector = "idle"
        /\ wire = [k \in Conns |-> Down]
        /\ next = 1
        /\ sent = 0
        /\ closes = [x \in Links |-> [k \in Conns |-> 0]]
        /\ lost = {}

-----------------------------------------------------------------------------
(* The network, as the link uses it                                        *)

Halved(q) == q # <<>> /\ q[Len(q)] = "half"

(* tcp_socket_send: what is sent to a closed socket is lost, and after half *)
(* a frame nothing comes any more.                                         *)
Sent(w, x, k, frame) ==
    IF k # 0 /\ w[k].up[Side(x)] /\ w[k].up[Peer(x)] /\ ~Halved(w[k].in[Peer(x)])
    THEN [w EXCEPT ![k].in[Peer(x)] = Append(@, frame)] ELSE w

(* It returns an error on an invalid socket, and may on a broken one.      *)
SendFails(x) ==
    IF socket[x] = 0 THEN {TRUE}
    ELSE IF wire[socket[x]].up[Peer(x)] /\ wire[socket[x]].up[Side(x)] THEN {FALSE}
    ELSE BOOLEAN

(* close_tcp_socket: what was not read is lost.                            *)
Closed(w, x, k) ==
    IF k = 0 THEN w ELSE [w EXCEPT ![k].up[Side(x)] = FALSE, ![k].in[Side(x)] = <<>>]

(* There is no whole frame to read.                                        *)
Empty(x, k) == wire[k].in[Side(x)] \in {<<>>, <<"half">>}
Unbroken(k) == \A s \in Sides : wire[k].up[s]

HasData(x, k) == k # 0 /\ wire[k].in[Side(x)] # <<>>
HasFrame(x, k) == k # 0 /\ ~Empty(x, k)

(* The end of the stream, or an error, is what the next read finds, ...    *)
AtEnd(x, k) == k # 0 => Empty(x, k) /\ ~Unbroken(k)

(* ... or it waits.                                                        *)
Silent(x, k) == k # 0 /\ Empty(x, k) /\ Unbroken(k)

NextFrame(x) == Head(wire[socket[x]].in[Side(x)])
Popped(x) == [wire EXCEPT ![socket[x]].in[Side(x)] = Tail(@)]

CountClose(x, k) ==
    closes' = IF k = 0 THEN closes ELSE [closes EXCEPT ![x][k] = @ + 1]

-----------------------------------------------------------------------------
(* client_messagelink_connect, under link->state_mutex                     *)

ConnectorGoto(pc) ==
    /\ connector' = pc
    /\ UNCHANGED <<quit, app_quit, reader, owner, sender, history>>

(* A hub at another address, or at the same one while the link is not      *)
(* open: the old socket is closed, if there is one ...                     *)
client_messagelink_connect ==
    /\ connector = "idle" /\ owner[0] = "idle" /\ next \in Conns
    /\ wire' = Closed(wire, 0, socket[0])
    /\ ConnectorGoto(IF socket[0] = 0 THEN "open" ELSE "forget")
    /\ UNCHANGED <<state, socket, next>>

client_messagelink_forget_socket ==
    /\ connector \in {"forget", "forget_failed"}
    /\ socket' = [socket EXCEPT ![0] = 0]
    /\ ConnectorGoto(IF connector = "forget" THEN "mark" ELSE "mark_failed")
    /\ UNCHANGED <<state, wire, next>>

client_messagelink_mark_closed ==
    /\ connector = "mark"
    /\ state' = [state EXCEPT ![0] = "CLOSED"]
    /\ ConnectorGoto("open")
    /\ UNCHANGED <<socket, wire, next>>

(* ... a new one is opened, or cannot be ...                               *)
client_messagelink_open_socket ==
    /\ connector = "open"
    /\ socket' = [socket EXCEPT ![0] = next]
    /\ wire' = [wire EXCEPT ![next].up = [s \in Sides |-> TRUE]]
    /\ state' = [state EXCEPT ![0] = "CLIENT_CONNECTING"]
    /\ ConnectorGoto("upgrade")
    /\ UNCHANGED next

client_messagelink_open_socket_failed ==
    /\ connector = "open"
    /\ ConnectorGoto("idle")
    /\ next' = next + 1
    /\ UNCHANGED <<state, socket, wire>>

(* ... and the HTTP request is sent.  The hub answers it, and then has a   *)
(* link with a thread (messagehub_handle_websocket).                       *)
server_messagelink_connect(k) ==
    /\ state[k] = "CREATED" /\ wire[k].up["server"]
    /\ socket' = [socket EXCEPT ![k] = k]
    /\ state' = [state EXCEPT ![k] = "OPEN"]
    /\ reader' = [reader EXCEPT ![k] = [pc |-> "loop"]]
    /\ UNCHANGED <<quit, app_quit, owner, sender, connector, wire, next, history>>

(* The response is read from link->socket and is valid ...                 *)
client_messagelink_open_websocket ==
    /\ connector = "upgrade" /\ state[next] # "CREATED"
    /\ socket[0] = next /\ wire[next].up["client"]
    /\ ConnectorGoto("upgraded")
    /\ UNCHANGED <<state, socket, wire, next>>

(* ... or it is not, or cannot be read.  A hub that was not asked closes   *)
(* its end when the socket is closed.                                      *)
client_messagelink_open_websocket_failed ==
    /\ connector \in {"upgrade", "spoiled"}
    /\ LET w == Closed(wire, 0, socket[0]) IN
        wire' = [w EXCEPT ![next].up["server"] =
                              @ /\ (state[next] # "CREATED" \/ w[next].up["client"])]
    /\ IF socket[0] = 0 THEN ConnectorGoto("idle") /\ next' = next + 1
       ELSE ConnectorGoto("forget_failed") /\ UNCHANGED next
    /\ UNCHANGED <<state, socket>>

client_messagelink_mark_failed ==
    /\ connector = "mark_failed"
    /\ state' = [state EXCEPT ![0] = "CLOSED"]
    /\ ConnectorGoto("idle")
    /\ next' = next + 1
    /\ UNCHANGED <<socket, wire>>

client_messagelink_connected ==
    /\ connector = "upgraded"
    /\ state' = [state EXCEPT ![0] = "OPEN"]
    /\ ConnectorGoto("background")
    /\ next' = next + 1
    /\ UNCHANGED <<socket, wire>>

(* The first time, a thread is started to read in the background.          *)
client_messagelink_read_in_background ==
    /\ connector = "background"
    /\ IF reader[0].pc = "none"
       THEN /\ reader' = [reader EXCEPT ![0] = [pc |-> "loop"]]
            /\ quit' = [quit EXCEPT ![0] = FALSE]
       ELSE UNCHANGED <<reader, quit>>
    /\ connector' = "idle"
    /\ UNCHANGED <<state, socket, app_quit, owner, sender, wire, next, history>>

-----------------------------------------------------------------------------
(* The reader thread: _messagelink_loop                                    *)

ReaderGoto(x, r) ==
    /\ reader' = [reader EXCEPT ![x] = r]
    /\ UNCHANGED <<quit, app_quit, owner, sender, next>>

Continue(x) == ~quit[x] /\ ~app_quit[x] /\ state[x] = "OPEN"

(* messagelink_try_read_message waits on the socket that it finds here ... *)
messagelink_loop(x) ==
    /\ reader[x].pc = "loop"
    /\ ReaderGoto(x, IF Continue(x) THEN [pc |-> "wait", socket |-> socket[x]]
                                    ELSE [pc |-> "done"])
    /\ UNCHANGED <<state, socket, connector, wire, history>>

(* Mutant: link->thread_quit is not looked at.                             *)
messagelink_wait_timeout_deaf(x) ==
    /\ reader[x].pc = "wait" /\ state[x] # "OPEN"
    /\ ReaderGoto(x, [pc |-> "loop"])
    /\ UNCHANGED <<state, socket, connector, wire, history>>

(* ... looks at the state of the link every second ...                     *)
messagelink_wait_timeout(x) ==
    /\ reader[x].pc = "wait" /\ ~Continue(x)
    /\ ReaderGoto(x, [pc |-> "loop"])
    /\ UNCHANGED <<state, socket, connector, wire, history>>

(* Mutant: the end of the stream is not noticed.                           *)
messagelink_wait_data_only(x) ==
    /\ reader[x].pc = "wait"
    /\ HasData(x, reader[x].socket)
    /\ ReaderGoto(x, [pc |-> "read"])
    /\ UNCHANGED <<state, socket, connector, wire, history>>

(* ... and reads when the socket has something, even an error.             *)
messagelink_wait_data(x) ==
    /\ reader[x].pc = "wait"
    /\ HasData(x, reader[x].socket) \/ AtEnd(x, reader[x].socket)
    /\ ReaderGoto(x, [pc |-> "read"])
    /\ UNCHANGED <<state, socket, connector, wire, history>>

Reads(x, frame) == /\ reader[x].pc = "read"
                   /\ HasFrame(x, socket[x]) /\ NextFrame(x) = frame

(* There is no frame on link->socket, only half of one, or it is another   *)
(* socket by now: the thread waits in recv until something comes, ...      *)
messagelink_read_waits(x) ==
    /\ reader[x].pc = "read" /\ Silent(x, socket[x])
    /\ ReaderGoto(x, [pc |-> "recv", socket |-> socket[x]])
    /\ UNCHANGED <<state, socket, connector, wire, history>>

messagelink_read_resumes(x) ==
    /\ reader[x].pc \in {"recv", "protocol_recv"} /\ HasFrame(x, reader[x].socket)
    /\ ReaderGoto(x, [pc |-> IF reader[x].pc = "recv" THEN "read" ELSE "protocol",
                      socket |-> reader[x].socket])
    /\ UNCHANGED <<state, socket, connector, wire, history>>

(* ... or finds the end of the stream.                                     *)
ReadFails(x) == \/ reader[x].pc = "read" /\ AtEnd(x, socket[x])
                \/ reader[x].pc = "recv" /\ AtEnd(x, reader[x].socket)

(* WS_TEXT: link->onmessage is called.  WS_PONG: link->onpong.             *)
messagelink_read_text(x) ==
    /\ Reads(x, "text") \/ Reads(x, "pong")
    /\ wire' = Popped(x)
    /\ ReaderGoto(x, [pc |-> "loop"])
    /\ UNCHANGED <<state, socket, connector, history>>

messagelink_send_pong(x) ==
    /\ Reads(x, "ping")
    /\ wire' = Sent(Popped(x), x, socket[x], "pong")
    /\ ReaderGoto(x, [pc |-> "loop"])
    /\ UNCHANGED <<state, socket, connector, history>>

(* Mutant: the close message is answered, and the link remains open.       *)
remote_messagelink_close_open(x) ==
    /\ Reads(x, "close")
    /\ wire' = Sent(Popped(x), x, socket[x], "close")
    /\ CountClose(x, socket[x])
    /\ ReaderGoto(x, [pc |-> "loop"])
    /\ UNCHANGED <<state, socket, connector, sent, lost>>

(* remote_messagelink_close sends the close message back, if the link is   *)
(* still open, and then sleeps if this is a client.                        *)
remote_messagelink_close(x) ==
    /\ Reads(x, "close")
    /\ IF state[x] = "OPEN"
       THEN /\ wire' = Sent(Popped(x), x, socket[x], "close")
            /\ CountClose(x, socket[x])
       ELSE wire' = Popped(x) /\ UNCHANGED closes
    /\ ReaderGoto(x, [pc |-> "remote"])
    /\ UNCHANGED <<state, socket, connector, sent, lost>>

(* Afterwards it closes link->socket, whichever that is by now, and calls  *)
(* link->onclose.                                                          *)
remote_messagelink_closed(x) ==
    /\ reader[x].pc = "remote"
    /\ state' = [state EXCEPT ![x] = "CLOSED"]
    /\ ReaderGoto(x, [pc |-> "oneway"])
    /\ UNCHANGED <<socket, connector, wire, history>>

(* owner_messagelink_close_oneway, after a read error                      *)
owner_messagelink_close_oneway(x) ==
    /\ ReadFails(x)
    /\ state' = [state EXCEPT ![x] = "CLOSED"]
    /\ wire' = Sent(wire, x, socket[x], "close")
    /\ CountClose(x, socket[x])
    /\ ReaderGoto(x, [pc |-> "oneway"])
    /\ UNCHANGED <<socket, connector, sent, lost>>

(* A binary message breaks the protocol: owner_messagelink_close.          *)
reader_messagelink_close(x) ==
    /\ Reads(x, "binary")
    /\ IF state[x] = "CLOSED"
       THEN /\ wire' = Popped(x)
            /\ ReaderGoto(x, [pc |-> "loop"])
            /\ UNCHANGED closes
       ELSE /\ wire' = Sent(Popped(x), x, socket[x], "close")
            /\ CountClose(x, socket[x])
            /\ \E failed \in SendFails(x) :
                 ReaderGoto(x, [pc |-> IF failed THEN "oneway" ELSE "protocol",
                                socket |-> socket[x]])
    /\ UNCHANGED <<state, socket, connector, sent, lost>>

(* owner_messagelink_wait_close in the reader: what arrives is dropped,    *)
(* until the close message, an error or five seconds have passed, ...      *)
reader_wait_close(x) ==
    /\ reader[x].pc = "protocol" /\ HasFrame(x, socket[x])
    /\ wire' = Popped(x)
    /\ ReaderGoto(x, [pc |-> IF NextFrame(x) = "close" THEN "oneway" ELSE "protocol",
                      socket |-> reader[x].socket])
    /\ UNCHANGED <<state, socket, connector, history>>

(* ... and the read of half a frame, or of a new socket, waits as above.   *)
reader_wait_close_waits(x) ==
    /\ reader[x].pc = "protocol" /\ Silent(x, socket[x])
    /\ HasData(x, socket[x]) \/ socket[x] # reader[x].socket
    /\ ReaderGoto(x, [pc |-> "protocol_recv", socket |-> socket[x]])
    /\ UNCHANGED <<state, socket, connector, wire, history>>

reader_wait_close_end(x) ==
    /\ \/ reader[x].pc = "protocol"
       \/ reader[x].pc = "protocol_recv" /\ AtEnd(x, reader[x].socket)
    /\ ReaderGoto(x, [pc |-> "oneway"])
    /\ UNCHANGED <<state, socket, connector, wire, history>>

(* messagelink_close_socket, after four seconds if this is a client: the   *)
(* socket is closed, if there is one, ...                                  *)
reader_close_socket(x) ==
    /\ reader[x].pc = "oneway"
    /\ wire' = Closed(wire, x, socket[x])
    /\ ReaderGoto(x, IF socket[x] = 0 THEN [pc |-> "loop"]
                     ELSE [pc |-> "forget", socket |-> socket[x]])
    /\ UNCHANGED <<state, socket, connector, history>>

(* ... link->socket is overwritten, although it may be another one by now, *)
reader_forget_socket(x) ==
    /\ reader[x].pc = "forget"
    /\ socket' = [socket EXCEPT ![x] = 0]
    /\ lost' = lost \cup ({socket[x]} \ {0, reader[x].socket})
    /\ ReaderGoto(x, [pc |-> "mark"])
    /\ UNCHANGED <<state, connector, wire, sent, closes>>

(* ... and so is link->state, although the link may be open again: who     *)
(* deletes it then does not close the connection.                          *)
reader_mark_closed(x) ==
    /\ reader[x].pc = "mark"
    /\ state' = [state EXCEPT ![x] = "CLOSED"]
    /\ lost' = lost \cup {k \in {socket[x]} \ {0} : state[x] = "OPEN"}
    /\ ReaderGoto(x, [pc |-> "loop"])
    /\ UNCHANGED <<socket, connector, wire, sent, closes>>

(* The thread of the old connection may read from the new socket before    *)
(* the handshake is over: it takes bytes of the HTTP response for a frame, *)
(* of any kind, and client_messagelink_parse_response misses them.  The    *)
(* link is not open, so a close message is not answered.                   *)
reader_reads_response ==
    /\ reader[0].pc = "read" /\ connector = "upgrade" /\ state[next] # "CREATED"
    /\ socket[0] = next /\ wire[next].up["client"]
    /\ \/ /\ ReaderGoto(0, [pc |-> "loop"])
          /\ wire' \in {wire, Sent(wire, 0, next, "pong")}
          /\ UNCHANGED <<state, closes>>
       \/ /\ \/ ReaderGoto(0, [pc |-> "remote"])
             \/ ReaderGoto(0, [pc |-> "recv", socket |-> next])
          /\ UNCHANGED <<state, wire, closes>>
       \/ /\ \/ /\ ReaderGoto(0, [pc |-> "oneway"])
                /\ state' = [state EXCEPT ![0] = "CLOSED"]
             \/ /\ \E failed \in SendFails(0) :
                     ReaderGoto(0, [pc |-> IF failed THEN "oneway" ELSE "protocol",
                                    socket |-> next])
                /\ UNCHANGED state
          /\ wire' = Sent(wire, 0, next, "close")
          /\ CountClose(0, next)
    /\ connector' = "spoiled"
    /\ UNCHANGED <<socket, sent, lost>>

-----------------------------------------------------------------------------
(* delete_messagelink, by the application or by the hub                    *)

OwnerGoto(x, pc) ==
    /\ owner' = [owner EXCEPT ![x] = pc]
    /\ UNCHANGED <<reader, sender, connector, next>>

(* The proxy has removed the entry first, so no connect is under way; a    *)
(* server-side link was given a thread before it can be deleted.           *)
delete_messagelink(x) ==
    /\ owner[x] = "idle" /\ ~sender[x]
    /\ IF IsClient(x) THEN connector = "idle" ELSE reader[x].pc # "none"
    /\ quit' = [quit EXCEPT ![x] = TRUE]
    /\ OwnerGoto(x, "join")
    /\ UNCHANGED <<state, socket, app_quit, wire, history>>

(* Mutant: the thread is not joined.                                       *)
owner_messagelink_close_unjoined(x) ==
    /\ owner[x] = "join" /\ ~sender[x]
    /\ IF state[x] = "OPEN"
       THEN /\ wire' = Sent(wire, x, socket[x], "close")
            /\ CountClose(x, socket[x])
            /\ \E failed \in SendFails(x) : OwnerGoto(x, IF failed THEN "sleep" ELSE "wait")
       ELSE OwnerGoto(x, "freed") /\ UNCHANGED <<wire, closes>>
    /\ UNCHANGED <<linkVars, sent, lost>>

(* messagelink_stop_thread has joined the thread.  An open link starts the *)
(* close handshake: the close message is sent, and a reply awaited unless  *)
(* sending failed.                                                         *)
owner_messagelink_close(x) ==
    /\ owner[x] = "join" /\ reader[x].pc \in {"none", "done"} /\ ~sender[x]
    /\ IF state[x] = "OPEN"
       THEN /\ wire' = Sent(wire, x, socket[x], "close")
            /\ CountClose(x, socket[x])
            /\ \E failed \in SendFails(x) : OwnerGoto(x, IF failed THEN "sleep" ELSE "wait")
       ELSE OwnerGoto(x, "freed") /\ UNCHANGED <<wire, closes>>
    /\ UNCHANGED <<linkVars, sent, lost>>

(* owner_messagelink_wait_close; half a frame holds the owner, too.        *)
owner_messagelink_wait_close(x) ==
    /\ owner[x] = "wait" /\ HasFrame(x, socket[x])
    /\ wire' = Popped(x)
    /\ OwnerGoto(x, IF NextFrame(x) = "close" THEN "sleep" ELSE "wait")
    /\ UNCHANGED <<linkVars, history>>

owner_wait_close_waits(x) ==
    /\ owner[x] = "wait" /\ Silent(x, socket[x]) /\ HasData(x, socket[x])
    /\ OwnerGoto(x, "recv")
    /\ UNCHANGED <<linkVars, wire, history>>

owner_wait_close_end(x) ==
    /\ \/ owner[x] = "wait"
       \/ owner[x] = "recv" /\ AtEnd(x, socket[x])
    /\ OwnerGoto(x, "sleep")
    /\ UNCHANGED <<linkVars, wire, history>>

(* messagelink_close_socket: the thread of the link has ended, and nobody  *)
(* connects it any more.                                                   *)
owner_close_socket(x) ==
    /\ owner[x] = "sleep"
    /\ wire' = Closed(wire, x, socket[x])
    /\ socket' = [socket EXCEPT ![x] = 0]
    /\ state' = IF socket[x] = 0 THEN state ELSE [state EXCEPT ![x] = "CLOSED"]
    /\ OwnerGoto(x, "freed")
    /\ UNCHANGED <<quit, app_quit, history>>

-----------------------------------------------------------------------------
(* Sending, by any thread that has the link                                *)

(* messagelink_send_text looks at the state; once the link is being        *)
(* deleted, only the handler that its own thread is in still sends ...     *)
messagelink_send_text(x) ==
    /\ ~sender[x] /\ sent < MaxTexts
    /\ owner[x] = "idle" \/ (owner[x] = "join" /\ reader[x].pc = "loop")
    /\ socket[x] # 0 /\ state[x] = "OPEN"
    /\ sender' = [sender EXCEPT ![x] = TRUE]
    /\ sent' = sent + 1
    /\ UNCHANGED <<linkVars, reader, owner, connector, wire, next, closes, lost>>

(* ... and sends on the socket that the link has by then.                  *)
send_text(x) ==
    /\ sender[x]
    /\ wire' = Sent(wire, x, socket[x], "text")
    /\ sender' = [sender EXCEPT ![x] = FALSE]
    /\ UNCHANGED <<linkVars, reader, owner, connector, next, history>>

(* messagehub_send_ping, and a peer that is no messagelink and may send    *)
(* binary messages: both count as texts.                                   *)
send_other(x) ==
    /\ owner[x] = "idle" /\ sent < MaxTexts
    /\ socket[x] # 0 /\ state[x] = "OPEN"
    /\ wire' = Sent(wire, x, socket[x], IF IsClient(x) THEN "binary" ELSE "ping")
    /\ sent' = sent + 1
    /\ UNCHANGED <<linkVars, reader, owner, sender, connector, next, closes, lost>>

(* A link, or a peer that is no messagelink, stops in the middle of a      *)
(* frame: its process hangs, or the network does.                          *)
Stop(x) ==
    /\ x \in Stoppers /\ socket[x] # 0 /\ state[x] = "OPEN"
    /\ wire' = Sent(wire, x, socket[x], "half")
    /\ wire' # wire
    /\ UNCHANGED <<linkVars, reader, owner, sender, connector, next, history>>

(* The connection breaks: both sides find it closed.                       *)
Break(k) ==
    /\ wire[k].up["client"] /\ wire[k].up["server"]
    /\ wire' = [wire EXCEPT ![k] = Down]
    /\ UNCHANGED <<linkVars, reader, owner, sender, connector, next, history>>

(* The process of x is told to quit: a signal, or set_app_quit.            *)
AppQuit(x) ==
    /\ x \in Quitters /\ ~app_quit[x]
    /\ app_quit' = [app_quit EXCEPT ![x] = TRUE]
    /\ UNCHANGED <<state, socket, quit, reader, owner, sender, connector, wire, next, history>>

-----------------------------------------------------------------------------
ReaderStep(x) ==
    \/ messagelink_loop(x) \/ messagelink_wait_timeout(x) \/ messagelink_wait_data(x)
    \/ messagelink_read_waits(x) \/ messagelink_read_resumes(x)
    \/ messagelink_read_text(x) \/ messagelink_send_pong(x)
    \/ remote_messagelink_close(x) \/ remote_messagelink_closed(x)
    \/ owner_messagelink_close_oneway(x) \/ reader_messagelink_close(x)
    \/ reader_wait_close(x) \/ reader_wait_close_waits(x) \/ reader_wait_close_end(x)
    \/ reader_close_socket(x) \/ reader_forget_socket(x) \/ reader_mark_closed(x)

OwnerStep(x) ==
    \/ owner_messagelink_close(x) \/ owner_messagelink_wait_close(x)
    \/ owner_wait_close_waits(x) \/ owner_wait_close_end(x) \/ owner_close_socket(x)

ConnectorStep ==
    \/ client_messagelink_forget_socket
    \/ client_messagelink_mark_closed \/ client_messagelink_mark_failed
    \/ client_messagelink_open_socket \/ client_messagelink_open_socket_failed
    \/ client_messagelink_open_websocket \/ client_messagelink_open_websocket_failed
    \/ client_messagelink_connected \/ client_messagelink_read_in_background

Next == \/ client_messagelink_connect \/ ConnectorStep \/ reader_reads_response
        \/ \E x \in Links : \/ ReaderStep(x) \/ OwnerStep(x) \/ delete_messagelink(x)
                            \/ messagelink_send_text(x) \/ send_text(x) \/ send_other(x)
                            \/ Stop(x) \/ AppQuit(x)
        \/ \E k \in Conns : server_messagelink_connect(k) \/ Break(k)

Spec == Init /\ [][Next]_vars

(* The threads run; waits and sleeps end.  A hub answers the request or    *)
(* closes the connection.  The reader has ended when the owner goes on,    *)
(* and the other steps are finite in number, so that one condition stands  *)
(* for those that each of them deserves.                                   *)
FairSpec == /\ Spec
            /\ \A x \in Links : WF_vars(ReaderStep(x) \/ OwnerStep(x))
            /\ WF_vars(\/ ConnectorStep
                       \/ \E k \in Conns : server_messagelink_connect(k)
                       \/ \E x \in Links : send_text(x))

-----------------------------------------------------------------------------
(* Neither end sends a second close message on a connection, whichever end *)
(* or both start the handshake, and whether a thread or the owner does.    *)
OneClose == \A x \in Links, k \in Conns : closes[x][k] <= 1

(* A link that is deleted leaves no thread behind and no socket open,      *)
(* except one that the reader has made link 0 forget: it closed the old    *)
(* socket while client_messagelink_connect replaced it, and overwrote      *)
(* link->socket or link->state afterwards (messagelink_close_socket).      *)
NoSocketLeft ==
    \A x \in Links : owner[x] = "freed" =>
        /\ reader[x].pc \in {"none", "done"}
        /\ \A k \in Conns : x \in {0, k} => \/ ~wire[k].up[Side(x)]
                                            \/ IsClient(x) /\ k \in lost

(* Link 0 was connected again when its thread had ended: nobody reads      *)
(* (client_messagelink_read_in_background starts no second thread).        *)
Unread == reader[0].pc = "done" /\ owner[0] = "idle" /\ state[0] = "OPEN"

(* When an end of a connection is closed, the other end is closed too,     *)
(* sooner or later, unless its process quits without deleting the link, or *)
(* the link does not read the connection, or has forgotten it.             *)
BothEndsClose ==
    \A k \in Conns :
        /\ (state[k] = "OPEN" /\ ~wire[k].up["client"])
              ~> (~wire[k].up["server"] \/ app_quit[k])
        /\ (state[k] = "CLOSED" /\ ~wire[k].up["server"])
              ~> (~wire[k].up["client"] \/ app_quit[0] \/ Unread \/ k \in lost)

(* A thread of link x is held by a read: the other end has stopped in the  *)
(* middle of a frame, or link 0 was connected again between the wait and   *)
(* the read, and nothing comes on the new socket.                          *)
Held(x) == \/ reader[x].pc \in {"recv", "protocol_recv"} /\ Silent(x, reader[x].socket)
           \/ owner[x] = "recv" /\ Silent(x, socket[x])

(* Every delete_messagelink that was begun returns in the end, although    *)
(* the other end may not answer, unless a read holds a thread for ever:    *)
(* the wait for data is limited to a second, the read that follows is not  *)
(* (messagelink_read_message).                                             *)
LinkDeletionCompletes ==
    <>[](\A x \in Links : owner[x] \in {"idle", "freed"} \/ Held(x))

=============================================================================
