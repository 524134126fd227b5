------------------------------ MODULE Streamer ------------------------------
(***************************************************************************)
(* The streamer of librcom/src/streamer.c: an HTTP server that copies      *)
(* every multipart message of a source to all its clients.  Its threads    *)
(* are the server thread, which accepts clients; the data thread, which    *)
(* writes parts to the clients' circular buffers; one thread per client,   *)
(* which sends what is in its buffer; and the thread that deletes the      *)
(* streamer.  clients_mutex protects the lists of clients.  The data       *)
(* thread holds it for several steps; the other critical sections are one  *)
(* step each.                                                              *)
(***************************************************************************)
EXTENDS CircularBuffer, FiniteSets

CONSTANTS Clients,      \* the client objects that can be allocated
          Size,         \* the size of a client's buffer
          ChunkSize,    \* the size of the buffer of streamer_client_run
          HeaderLen,    \* header_len, the length of the header of a part
          Lengths,      \* the lengths of the data of a part
          MaxParts      \* bound on the number of parts that are sent

ASSUME SizeAssumption ==
    /\ Size \in Nat \ {0}
    /\ ChunkSize \in Nat \ {0}
    /\ HeaderLen \in Nat
    /\ Lengths \subseteq Nat
    /\ MaxParts \in Nat

(* A byte of the stream is modelled by its part and its index in the part. *)
ASSUME ByteAssumption ==
    \A n \in 1..MaxParts, len \in Lengths : \A k \in 1..(HeaderLen + len) :
        <<n, k>> \in Byte

VARIABLES
    cont,       \* streamer->cont
    quit,       \* app_quit()
    clients,    \* streamer->clients
    finished,   \* streamer->finished_clients
    holder,     \* who holds clients_mutex across steps: "none" or "data"
    server,     \* where the server thread is
    data,       \* where the data thread is
    deleter,    \* where the thread that deletes the streamer is
    thread,     \* thread[c]: where the thread of client c is
    object,     \* object[c]: the client object, "none" before, "freed" after
    buf,        \* buf[c]: client->buffer
    parts,      \* history: the lengths of the data of the parts sent so far
    written,    \* history: written[c], what was written to the buffer of c
    sent        \* history: sent[c], what was passed to http_send_chunk

serverVars == <<server, object>>
listVars == <<clients, finished>>
flowVars == <<buf, written, sent>>
vars == <<cont, quit, clients, finished, holder, server, data, deleter, thread,
          object, buf, parts, written, sent>>

streamer_quit == quit \/ ~cont

MutexFree == holder = "none"

Init == /\ cont = TRUE /\ quit = FALSE
        /\ clients = {} /\ finished = {}
        /\ holder = "none"
        /\ server = [pc |-> "accept"]
        /\ data = [pc |-> "idle"]
        /\ deleter = [pc |-> "none"]
        /\ thread = [c \in Clients |-> [pc |-> "none"]]
        /\ object = [c \in Clients |-> "none"]
        /\ buf = [c \in Clients |-> new_circular_buffer(Size)]
        /\ parts = <<>>
        /\ written = [c \in Clients |-> <<>>]
        /\ sent = [c \in Clients |-> <<>>]

-----------------------------------------------------------------------------
(* The server thread: streamer_run_server                                  *)

(* A connection is accepted, if a client object is left in the model.      *)
server_socket_accept ==
    /\ server.pc = "accept" /\ ~streamer_quit
    /\ \E c \in Clients : object[c] = "none"
    /\ server' = [pc |-> "cleanup"]
    /\ UNCHANGED <<cont, quit, listVars, holder, data, deleter, thread, object,
                   parts, flowVars>>

Free(S) == object' = [c \in Clients |-> IF c \in S THEN "freed" ELSE object[c]]

(* Mutant: the clients that are still being served are deleted too.        *)
streamer_delete_clients_all ==
    /\ MutexFree
    /\ Free(finished \cup clients)
    /\ finished' = {}
    /\ UNCHANGED <<cont, quit, clients, holder, data, thread, parts, flowVars>>

(* streamer_delete_clients *)
streamer_delete_clients ==
    /\ MutexFree
    /\ Free(finished)
    /\ finished' = {}
    /\ UNCHANGED <<cont, quit, clients, holder, data, thread, parts, flowVars>>

server_delete_clients ==
    /\ server.pc = "cleanup"
    /\ streamer_delete_clients
    /\ server' = [pc |-> "request"]
    /\ UNCHANGED deleter

(* A request for anything but the stream: its client object is deleted at  *)
(* once, or, if the request cannot be parsed or onclient refuses it, never.*)
server_other_request ==
    /\ server.pc = "request"
    /\ \E c \in Clients :
        /\ object[c] = "none"
        /\ \E o \in {"freed", "leaked"} : object' = [object EXCEPT ![c] = o]
    /\ server' = [pc |-> "accept"]
    /\ UNCHANGED <<cont, quit, listVars, holder, data, deleter, thread, parts, flowVars>>

(* A request for the stream that onclient accepts                          *)
server_stream_request ==
    /\ server.pc = "request"
    /\ \E c \in Clients :
        /\ object[c] = "none"
        /\ object' = [object EXCEPT ![c] = "alive"]
        /\ server' = [pc |-> "add", client |-> c]
    /\ UNCHANGED <<cont, quit, listVars, holder, data, deleter, thread, parts, flowVars>>

streamer_add_client ==
    /\ server.pc = "add" /\ MutexFree
    /\ clients' = clients \cup {server.client}
    /\ server' = [pc |-> "start", client |-> server.client]
    /\ UNCHANGED <<cont, quit, finished, holder, data, deleter, thread, object,
                   parts, flowVars>>

(* The rest of streamer_start_stream: the thread of the client is started. *)
streamer_start_stream ==
    /\ server.pc = "start"
    /\ thread' = [thread EXCEPT ![server.client] = [pc |-> "headers"]]
    /\ server' = [pc |-> "accept"]
    /\ UNCHANGED <<cont, quit, listVars, holder, data, deleter, object, parts, flowVars>>

server_done ==
    /\ server.pc = "accept" /\ streamer_quit
    /\ server' = [pc |-> "done"]
    /\ UNCHANGED <<cont, quit, listVars, holder, data, deleter, thread, object,
                   parts, flowVars>>

-----------------------------------------------------------------------------
(* The data thread: streamer_run_data, whose onbroadcast callback calls    *)
(* streamer_send_multipart                                                 *)

Part(n, first, last) == [k \in 1..(last - first + 1) |-> <<n, first + k - 1>>]

Header == Part(Len(parts), 1, HeaderLen)
Data == Part(Len(parts), HeaderLen + 1, HeaderLen + data.len)

(* streamer_lock_clients and the beginning of the loop                     *)
streamer_send_multipart ==
    /\ data.pc = "idle" /\ ~streamer_quit /\ MutexFree
    /\ Len(parts) < MaxParts
    /\ \E len \in Lengths :
        /\ parts' = Append(parts, len)
        /\ data' = [pc |-> "check", todo |-> clients, len |-> len]
    /\ holder' = "data"
    /\ UNCHANGED <<cont, quit, listVars, server, deleter, thread, object, flowVars>>

(* Mutants: a part may fill the buffer; the header is not counted.         *)
HasRoom_exact(r, total_len) == circular_buffer_space_available(r) >= total_len
HasRoom_data(r, total_len) == circular_buffer_space_available(r) > total_len - HeaderLen

(* Is there room for the whole part?                                       *)
HasRoom(r, total_len) == circular_buffer_space_available(r) > total_len

(* For each client: look at the space in its buffer and release the mutex  *)
(* of the buffer ...                                                       *)
multipart_check ==
    /\ data.pc = "check"
    /\ \E c \in data.todo :
        data' = IF HasRoom(buf[c], HeaderLen + data.len)
                THEN [pc |-> "header", client |-> c, todo |-> data.todo \ {c},
                      len |-> data.len]
                ELSE [pc |-> "check", todo |-> data.todo \ {c}, len |-> data.len]
    /\ UNCHANGED <<cont, quit, listVars, holder, server, deleter, thread, object,
                   parts, flowVars>>

Write(c, bytes) ==
    /\ buf' = [buf EXCEPT ![c] = circular_buffer_write(@, bytes)]
    /\ written' = [written EXCEPT ![c] = @ \o bytes]
    /\ UNCHANGED <<cont, quit, listVars, holder, server, deleter, thread, object,
                   parts, sent>>

(* ... then write the header ...                                           *)
multipart_header ==
    /\ data.pc = "header"
    /\ Write(data.client, Header)
    /\ data' = [data EXCEPT !.pc = "data"]

(* ... then the data.                                                      *)
multipart_data ==
    /\ data.pc = "data"
    /\ Write(data.client, Data)
    /\ data' = [pc |-> "check", todo |-> data.todo, len |-> data.len]

(* streamer_unlock_clients *)
multipart_unlock ==
    /\ data.pc = "check" /\ data.todo = {}
    /\ holder' = "none"
    /\ data' = [pc |-> "idle"]
    /\ UNCHANGED <<cont, quit, listVars, server, deleter, thread, object,
                   parts, flowVars>>

data_done ==
    /\ data.pc = "idle" /\ streamer_quit
    /\ data' = [pc |-> "done"]
    /\ UNCHANGED <<cont, quit, listVars, holder, server, deleter, thread, object,
                   parts, flowVars>>

-----------------------------------------------------------------------------
(* The thread of a client: streamer_client_run                             *)

ClientGoto(c, pc) ==
    /\ thread' = [thread EXCEPT ![c] = [pc |-> pc]]
    /\ UNCHANGED <<cont, quit, holder, server, data, deleter, object, parts,
                   written>>

(* http_send_streaming_headers succeeds or fails.                          *)
client_headers(c) ==
    /\ thread[c].pc = "headers"
    /\ ClientGoto(c, "loop") \/ ClientGoto(c, "remove")
    /\ UNCHANGED <<listVars, buf, sent>>

client_loop(c) ==
    /\ thread[c].pc = "loop"
    /\ ClientGoto(c, IF streamer_quit THEN "remove" ELSE "read")
    /\ UNCHANGED <<listVars, buf, sent>>

(* streamer_client_read: wait until there is something to read; the amount *)
(* is fixed here ...                                                       *)
client_data_available(c) ==
    /\ thread[c].pc = "read"
    /\ LET available == circular_buffer_data_available(buf[c]) IN
       /\ available # 0
       /\ thread' = [thread EXCEPT ![c] =
            [pc |-> "take", len |-> IF available > ChunkSize THEN ChunkSize ELSE available]]
    /\ UNCHANGED <<cont, quit, listVars, holder, server, data, deleter, object,
                   parts, flowVars>>

(* ... and the bytes are copied by another call.                           *)
client_read(c) ==
    /\ thread[c].pc = "take"
    /\ sent' = [sent EXCEPT ![c] = @ \o BytesRead(buf[c], thread[c].len)]
    /\ buf' = [buf EXCEPT ![c] = circular_buffer_read(@, thread[c].len)]
    /\ ClientGoto(c, "chunk")
    /\ UNCHANGED listVars

(* It gives up on an empty buffer when the streamer stops.                 *)
client_read_quit(c) ==
    /\ thread[c].pc = "read" /\ streamer_quit
    /\ circular_buffer_data_available(buf[c]) = 0
    /\ ClientGoto(c, "chunk")
    /\ UNCHANGED <<listVars, buf, sent>>

(* http_send_chunk succeeds, or fails because the client went away.        *)
client_chunk(c) ==
    /\ thread[c].pc = "chunk"
    /\ ClientGoto(c, "loop") \/ ClientGoto(c, "remove")
    /\ UNCHANGED <<listVars, buf, sent>>

(* The socket is closed, then streamer_remove_client.                      *)
streamer_remove_client(c) ==
    /\ thread[c].pc = "remove" /\ MutexFree
    /\ clients' = clients \ {c}
    /\ finished' = finished \cup {c}
    /\ ClientGoto(c, "done")
    /\ UNCHANGED <<buf, sent>>

-----------------------------------------------------------------------------
(* The thread that deletes the streamer                                    *)

DeleterGoto(pc) ==
    /\ deleter' = [pc |-> pc]
    /\ UNCHANGED <<quit, holder, server, data, thread, parts, flowVars>>

(* Mutant: the threads are not told to stop.                               *)
delete_streamer_unflagged ==
    /\ deleter.pc = "none"
    /\ DeleterGoto("join_server")
    /\ UNCHANGED <<cont, listVars, object>>

delete_streamer ==
    /\ deleter.pc = "none"
    /\ cont' = FALSE
    /\ DeleterGoto("join_server")
    /\ UNCHANGED <<listVars, object>>

join_server ==
    /\ deleter.pc = "join_server" /\ server.pc = "done"
    /\ DeleterGoto("join_data")
    /\ UNCHANGED <<cont, listVars, object>>

join_data ==
    /\ deleter.pc = "join_data" /\ data.pc = "done"
    /\ DeleterGoto("take_clients")
    /\ UNCHANGED <<cont, listVars, object>>

(* The list is taken away from the streamer under the mutex ...            *)
take_clients ==
    /\ deleter.pc = "take_clients" /\ MutexFree
    /\ clients' = {}
    /\ deleter' = [pc |-> "join_clients", list |-> clients]
    /\ UNCHANGED <<cont, quit, finished, holder, server, data, thread, object,
                   parts, flowVars>>

(* Mutant: the threads are not joined.                                     *)
join_clients_skipped ==
    /\ deleter.pc = "join_clients"
    /\ DeleterGoto("delete_clients")
    /\ UNCHANGED <<cont, listVars, object>>

(* ... and the threads of its clients are joined without it.               *)
join_clients ==
    /\ deleter.pc = "join_clients"
    /\ \A c \in deleter.list : thread[c].pc = "done"
    /\ DeleterGoto("delete_clients")
    /\ UNCHANGED <<cont, listVars, object>>

(* streamer_delete_clients; then the mutex and the streamer are deleted.   *)
delete_clients ==
    /\ deleter.pc = "delete_clients"
    /\ streamer_delete_clients
    /\ deleter' = [pc |-> "freed"]
    /\ UNCHANGED server

(* A signal makes app_quit() true.                                         *)
AppQuit ==
    /\ ~quit
    /\ quit' = TRUE
    /\ UNCHANGED <<cont, listVars, holder, server, data, deleter, thread, object,
                   parts, flowVars>>

-----------------------------------------------------------------------------
(* The steps that wait for the peer of a connection for as long as it      *)
(* takes: the sockets have no timeouts.                                    *)
ServerIO == server_other_request \/ server_stream_request

ClientIO(c) == client_headers(c) \/ client_chunk(c)

ServerStep == \/ server_delete_clients \/ streamer_add_client
              \/ streamer_start_stream \/ server_done

DataStep == \/ multipart_check \/ multipart_header \/ multipart_data
            \/ multipart_unlock \/ data_done

ClientStep(c) == \/ client_loop(c) \/ client_data_available(c)
                 \/ client_read(c) \/ client_read_quit(c)
                 \/ streamer_remove_client(c)

DeleterStep == \/ join_server \/ join_data \/ take_clients \/ join_clients
               \/ delete_clients

Next == \/ server_socket_accept \/ ServerIO \/ ServerStep
        \/ streamer_send_multipart \/ DataStep
        \/ \E c \in Clients : ClientIO(c) \/ ClientStep(c)
        \/ delete_streamer \/ DeleterStep \/ AppQuit

Spec == Init /\ [][Next]_vars

(* Every thread that can run eventually does.  Nothing is assumed of the   *)
(* peers of connections, of the source and of the application.             *)
FairSpec == /\ Spec
            /\ WF_vars(ServerStep) /\ WF_vars(DataStep) /\ WF_vars(DeleterStep)
            /\ \A c \in Clients : WF_vars(ClientStep(c))

-----------------------------------------------------------------------------
(* The variables have their types. *)
TypeOK ==
    /\ cont \in BOOLEAN /\ quit \in BOOLEAN
    /\ clients \subseteq Clients /\ finished \subseteq Clients
    /\ holder \in {"none", "data"}
    /\ server \in [pc: {"accept", "cleanup", "request", "done"}]
             \cup [pc: {"add", "start"}, client: Clients]
    /\ data \in [pc: {"idle", "done"}]
           \cup [pc: {"check"}, todo: SUBSET Clients, len: Lengths]
           \cup [pc: {"header", "data"}, client: Clients, todo: SUBSET Clients,
                 len: Lengths]
    /\ deleter \in [pc: {"none", "join_server", "join_data", "take_clients",
                         "delete_clients", "freed"}]
              \cup [pc: {"join_clients"}, list: SUBSET Clients]
    /\ thread \in [Clients -> [pc: {"none", "headers", "loop", "read", "chunk",
                                   "remove", "done"}]
                              \cup [pc: {"take"}, len: 1..ChunkSize]]
    /\ object \in [Clients -> {"none", "alive", "leaked", "freed"}]
    /\ buf \in [Clients -> Buffer(Size)]
    /\ parts \in Seq(Lengths)
    /\ written \in [Clients -> Seq(Byte)]
    /\ sent \in [Clients -> Seq(Byte \cup {Unset})]

(* The space that streamer_send_multipart saw is still there when it       *)
(* writes the header and the data, and the bytes that streamer_client_read *)
(* saw are still there when it copies them, although the mutex of the      *)
(* buffer was released in between.  No buffer is ever filled completely:   *)
(* with equal positions it would look empty.                               *)
RoomKept ==
    \A c \in Clients :
        LET space == circular_buffer_space_available(buf[c]) IN
        /\ space > 0
        /\ data.pc = "header" /\ data.client = c => space > HeaderLen + data.len
        /\ data.pc = "data" /\ data.client = c => space > data.len
        /\ thread[c].pc = "take" =>
                thread[c].len <= circular_buffer_data_available(buf[c])

(* What was sent to a client, followed by what is in its buffer, is what   *)
(* was written for it: circular_buffer_write overwrites nothing that was   *)
(* not read and drops nothing, circular_buffer_read returns nothing twice. *)
StreamIntact ==
    \A c \in Clients : written[c] = sent[c] \o Contents(buf[c])

(* A client that cannot follow misses whole parts: every header is         *)
(* followed by exactly its data, unless the data is about to be written.   *)
WholeParts ==
    \A c \in Clients :
        LET s == sent[c] \o Contents(buf[c]) IN
        \A i \in 1..Len(s) :
            LET n == s[i][1]
                k == s[i][2] IN
            /\ k > 1 => i > 1 /\ s[i - 1] = <<n, k - 1>>
            /\ k < HeaderLen + parts[n] =>
                 IF i < Len(s) THEN s[i + 1] = <<n, k + 1>>
                 ELSE data.pc = "data" /\ data.client = c

(* A client object is freed only when no thread will use it again: its own *)
(* thread has ended, the server thread is not starting it and the data     *)
(* thread does not have it in the list it goes through.                    *)
ClientFreedLast ==
    \A c \in Clients : object[c] = "freed" =>
        /\ thread[c].pc \in {"none", "done"}
        /\ server.pc \in {"add", "start"} => server.client # c
        /\ data.pc \in {"check", "header", "data"} => c \notin data.todo
        /\ data.pc \in {"header", "data"} => data.client # c

(* When the streamer is freed, all its threads have ended, those of        *)
(* clients it did not join too, and the clients it streamed to are freed.  *)
StreamerFreedLast ==
    deleter.pc = "freed" =>
        /\ server.pc = "done" /\ data.pc = "done"
        /\ \A c \in Clients : /\ thread[c].pc \in {"none", "done"}
                              /\ object[c] # "alive"

(* The stream to each client is a bounded queue of bytes.                  *)
Abstract == INSTANCE ByteStream WITH in <- written, out <- sent, Capacity <- Size

ImplementsByteStream == Abstract!Spec

(* delete_streamer returns, unless a thread that it joins hangs for ever   *)
(* in a call that waits for the peer of a connection.                      *)
DeletionCompletes ==
    \/ deleter.pc = "join_server" ~> deleter.pc = "freed"
    \/ <>[](server.pc = "request")
    \/ \E c \in Clients : <>[](thread[c].pc \in {"headers", "chunk"})
=============================================================================
