# A TLA+ model of rcom

rcom is a C library (`librcom/`) and a set of programs with which the processes
of a robot find each other and exchange data. This directory holds TLA+ modules
that model its concurrent core, TLC configurations that check them, and proofs
that the TLA+ proof system (TLAPS) checks. `PROJECT.json` lists the components,
the source lines behind each definition, the runs, the hazards of the code and
the theorems.

## 1. The system

A process opens *end-points*: data hubs and data links (UDP), message hubs and
message links (WebSocket), streamers and streamer links (HTTP), and services
(HTTP). Each has a type and a topic. One program, `rcregistry`, keeps the central
list of all end-points.

| component | state | operations | interacts with |
|---|---|---|---|
| registry (`registry.c`) | a list of entries (id, name, topic, type, address, end-point pointer) | insert, delete, update address, select | used by the two below |
| central registry (`rcregistry.c`) | a registry and a message hub | register, unregister, update-address, list; every change is broadcast to all proxies | one handler thread per connected proxy |
| proxy (`proxy.c`) | a copy of the registry, a status, a link to the central registry | open and close end-points; apply the list and the events | application threads and the reader thread of its link |
| message hub (`messagehub.c`) | lists of links and of closed links, a buffer, two locks | accept, broadcast, remove a link, delete | one accept thread, one thread per link, any application thread |
| message link (`messagelink.c`) | socket, state, thread, quit flag | connect, read, send, close handshake, delete | the link at the other end; the proxy, which connects it |
| streamer (`streamer.c`) | lists of clients and of finished clients, a mutex | accept, send a part, remove a client, delete | server, data and client threads |
| circular buffer (`circular.c`) | positions and bytes | write, read, count data and space | data thread and client thread |
| data hub (`datahub.c`) | the list of the addresses of its links, a mutex, an input and an output packet | add a link, send, broadcast, read, delete | a data thread, a broadcast thread, the callback, and the proxy, which adds links |
| data link (`datalink.c`) | remote address, thread | send, read, answer, delete | its thread, the application, and the proxy, which sets the remote address |
| service (`service.c`) | the export table, lists of clients and of finished clients, two mutexes | export, accept, answer, delete | one accept thread, one thread per client, the application thread; `http_get` at the other end |
| streamer link (`streamerlink.c`) | remote address, socket, thread, response, multipart parser | set remote, connect, disconnect, delete | its thread, the application thread and the reader of the proxy, a streamer at the other end |
| HTTP (`http_parser.c`, `request.c`, `response.c`, `http.c`, `multipart_parser.c`) | the state of a parser, what it has put together so far | parse a piece, write a message | services, streamers, hubs and their clients |
| process supervisor (`rclaunch.cpp`, `run.c`) | a run per program: pid, status, thread | start, wait, restart, signal, stop | a monitor process, a child process, the programs |
| `rcgen`, `rcutil`, `rcdiscover`, `librcompp` | processes, files | generate code, inspect | command line |

What is hard in this code is concurrency. The proxies follow the central
registry through events that handler threads send after they have released the
lock under which they changed it. Hubs, links and streamers are deleted while
their threads run, with joins, flags and mutexes in a certain order. A message
link looks at its state and its socket without a lock. Processes end, and
connections break, at any moment. What each component must do for that to work:

* discovery: the proxies end up with what the registry has; hubs and links of a
  topic find each other whichever is opened first; the pointer of an end-point
  is not used after it was closed;
* hubs and streamers: nothing is freed while a thread uses it, and deleting ends;
* links: a connection is closed once, at both ends, and leaves nothing behind;
* data hub: broadcasts go to all links, a callback answers the sender of its
  packet, no deleted address is used, and reading does not block the others;
* streamer: a client gets the bytes that were written for it, whole parts only;
* service: a request is answered with what is exported, `http_get` returns the answer as
  it was sent or one that its length gives away as a part, and
  deleting the service waits for whoever still uses it;
* streamer link: the parts come out as they went in, wherever the stream is cut;
* supervisor: what ends is started again, and nothing is left behind in the end.

## 2. The modules

### Discovery: `Registry`, `RegistryLinks`, `RcRegistry`, `Proxy`, `Discovery`

`Registry` has the operations of `registry.c` on sequences of entries; the order
matters, because `registry_get` returns the first match and
`list_get(registry_select(..))` the last entry that was inserted.
`RegistryLinks` has the requests, responses and events, and the links between
the proxies and the registry: `up[n]` and `down[n]` are the two directions of
the connection of process `n`, `links` the members of the hub that a broadcast
reaches. Encoding an entry drops its end-point pointer.

`RcRegistry` is `rcregistry.c`. Each process has a handler thread (`handler[n]`).
A request is handled in two steps, as in the code: the registry is changed and
the response sent (`rcregistry_register`, `rcregistry_unregister`,
`rcregistry_update_address`), then, without a lock, the event is broadcast
(`rcregistry_announce`). The list is copied in one step and sent in another
(`rcregistry_select_list`, `rcregistry_send_list`).

`Proxy` is `proxy.c` with two threads per process: `app[n]` opens and closes
end-points (`proxy_new_entry`, `proxy_send_register_request`,
`proxy_open_datalink` ..., `proxy_delete_entry`,
`proxy_send_unregister_request`), `reader[n]` applies what the registry sends
(`proxy_handle_register_add`, `proxy_connect_messagehub`,
`proxy_handle_update_list` and the steps of its loop). Steps end where the code
releases the lock of the registry, but for the handlers that connect end-points: they
have end-point pointers in hand until `proxy_mutex_unlock`, a step of its own, and
`using[n]` says which. What takes `proxy->mutex` waits for that (`MutexFree`). The
failure path of `proxy_new_entry` does not: it takes the entry out without the mutex
(`proxy_new_entry_failed`), and the end-point is deleted later (`proxy_open_failed`);
`failed` holds the ids of these. The end-points themselves are a record: type,
remote address, the addresses a data hub sends to.

`Discovery` composes them and states the properties. `Exit`, `LinkBreaks` and
`new_proxy_timeout` are the faults; `SpecNoFault` leaves them out.

Three properties have conditions that come from the code. Entries whose event
overtook the list response are left aside (`raced`), because the code loses them
(run `list_race`). Entries that the proxy cannot tell apart are left aside
(`HasTwin`): `proxy_handle_update_list` counts equal entries by everything but
the id. And `LinksFindHub` is about topics with a single hub. `HubFindsLinks`
needs `HasTwin` too: a proxy that takes a datalink for another one that was
opened at the same address never lists it, so the data hub of its process never
learns of it.

### Message hub: `MessageHub`

The accept thread (`hub`), the threads of the links (`thread[c]`), broadcasts by
handlers and by the application (`cast[t]`), and the thread that deletes the hub
(`deleter`). `links_mutex` is a variable only where it is held over several
steps: while closed links are deleted, which joins their threads, and while a
broadcast sends. `mem` is the lock of `hub->mem`. Deleting a link waits until
its thread has ended, and ends an open connection with a close handshake. The peer of a
link may stop in the middle of a frame, or read no more, at any time (`peer_stops`): then
the thread that reads, answers or shakes hands with it waits in `recv` or `send`, without
a limit (`held`), until the peer goes on or the connection breaks, which nothing assures.

### Message link: `MessageLink`

One client link and the hub-side link of each of its connections. `reader[x]`,
`owner[x]`, `sender[x]` and `connector` are the places of the threads.
A connection is a pair of queues of frames; a frame is its kind. `socket[x]` is
read again at every use, as in the code, so a thread that waited meets the
socket that is there by then. Sleeps and timeouts may end at any time.
`client_messagelink_connect` has a step for each place where another thread can
see the link: closing the old socket, opening the new one, the answer of the
hub, reading it, setting the state and starting the thread.
`messagelink_close_socket` closes the socket it finds, overwrites `link->socket`
and then `link->state`: in the reader and in the connecting thread these are three
steps (`reader_close_socket`, `reader_forget_socket`, `reader_mark_closed`; one step
in the owner, which has joined the one and excludes the other). `lost` is a history
of the connections whose socket or state the reader of the client link overwrote in this way.
A peer may stop in the middle of a frame (`Stop`; `half` is then the last frame on the
connection): the wait for data ends, and the read that follows (`reader = "recv"`)
does not, until the connection breaks or is closed. A send is assumed to fit the buffer of the peer; a
number of a socket that the system uses again is not told from the one it had.

### Streamer: `CircularBuffer`, `Streamer`, `ByteStream`

`CircularBuffer` has the operations of `circular.c` as operators on a buffer
record, with the wrap-around and the position that may equal the size.
`Streamer` has the server thread, the data thread, a thread per client and the
thread that deletes the streamer. The data thread looks at the space, writes the
header and writes the data in three steps, because the mutex of the buffer is
released in between; a client looks at the data and reads in two. A byte is a
pair (number of the part, place in the part), so that every byte that was ever
written is different. `ByteStream` is the abstract specification: per client a
sequence that goes in and a prefix of it that has come out, with a bound on what
is in between. `Streamer` implements it with `in <- written, out <- sent`.

### Data hub and data links: `Udp`, `DataHub`, `DataLink`, `DataPath`

`Udp` has the sockets: a packet is its sender, it may be lost, and it is dropped
when the buffer of the receiver is full (`MaxQueue`). `DataHub` has the list
of addresses, whose nodes are numbered in the order of appending (`links` is the
set of the nodes in the list, `stored[n]` the address that node `n` refers to),
`datahub_add_link` in its two critical sections, the broadcast thread, and the data
thread (`reader`). The data thread holds the mutex exactly while it waits in
`recvfrom` (`reader = "recv"`); every other critical section is one step. A send
may fail and then removes its node; if the data thread is at that node, its next
step reads freed memory, which ends the list or crashes the process
(`datahub_read_next_freed`). `datahub_add_link` may be called any number of times;
once the list was given `MaxAdds` nodes, a further node is dropped again as soon as
it is appended (`add_link_append_dropped`), as by a send that fails. `DataLink` has the links of one or more processes:
the remote address, the thread, the application that sends and deletes. `Others`
are addresses of links of which only the packets are modelled. `DataPath`
composes them.

### Frame headers: `WsFrame`

How `frame_make_header` writes the opcode, the mask flag and the length of a
frame, and how `messagelink_read_frame` and `messagelink_read_message` read them.
These are operators, not actions: TLC evaluates `HeadersReadBack` around the
lengths where the form changes, and the proofs are about all lengths.

### HTTP: `HttpParser`, `HttpRequest`, `HttpResponse`, `MultipartParser`

These are operators without state of their own. `HttpParser` is
`http_parser_execute`: an execution is a record that takes one symbol of its
input after the other through the states of the parser, collects what a mark
covers and calls the callbacks of its user, whose operator is a constant
(`Callback`). A symbol is a byte where bytes matter (CR, LF, space, digits,
bodies) and otherwise a part of a word; the words that the parser compares
(`Content-Length`, `chunked`, ...) are two symbols, so that a piece of the
input may end inside them. `HttpRequest` and `HttpResponse` are the callbacks
of `request.c` and `response.c`, the loops that feed them from a socket, and the
writing of messages (`http.c`). `MultipartParser` reads the stream of a streamer.

### Service: `Exports`, `Service`

`Exports` is the export table: `service_export` in its two critical sections
(`service_export_found` and `service_export_missing`, then
`service_export_prepend`), the lookup, and the history `made` of what was
exported last under each uri. `Service` adds the threads: `main` exports and
deletes, `accept` is `service_run`, `worker[k]` is `service_client_handle` for
client `k`, `peer[k]` is the caller of `http_get`. A response travels as symbols. It
may be cut once at any place and arrive in two pieces, or end at any place, because the
connection ends or the client is told to quit, or the connection breaks. The HTTP
modules read and write both messages; what a response reads as in each of these cases is
computed once (`Received`), and `Outcomes(k)` is what `http_get` may return to client
`k`. `app_quit` is the flag of the process of the service (`AppQuit`): it ends the loop of
`service_run` and that of the request parser, which then hands over no uri
(`service_parse_quit`; the answer is 400) or a part of one; `partly` remembers the latter.
`locks` says whether the mutexes exist, `stray` that a thread used a client that was
deleted, `crashed` that a deleted mutex was locked.

### Streamer link: `StreamerLink`

One link and the connections it makes in turn to streamers. `thread[k]` is
`streamerlink_run` for connection `k`, `ctl` whoever calls set_remote, connect,
disconnect or delete. `streamerlink_stop_thread` is split where it releases the
lock and where it reads the field `thread` again for the join. The streamer sends
its stream in chunks of any of `ChunkSizes`, the network delivers pieces of any
of `RecvSizes`, and every piece goes through `HttpResponse` and
`MultipartParser` with the state left from the one before.

### Supervisor: `Launch`

The monitor, the child process that starts the registry and the nodes, and a
thread per run (`_run`): fork, assignment of the pid, `waitpid`, again. `app[r]` is
the program itself: it runs, ends by itself, is told to quit (and may ignore
it), is a zombie. `Ctrl-C` reaches the monitor and the child; `child.count`
is the count of `run_stop`. `missed` holds the runs whose pid was looked at
while it was not there. The handlers are installed without `SA_RESTART` (`app.c:439`),
so a signal that is delivered to the thread of a run interrupts its `waitpid`
(`SignalThread`): the thread then leaves its loop while the program runs. `interrupted`
holds these runs.

## 3. The runs

| run | question | states |
|---|---|---|
| `discovery` | two processes open and close data or message end-points: agreement on addresses, links and hubs find each other, end-points are connected only to peers of their topic | 1.3 M |
| `discovery_faults` | the registry lists the end-points of the connected processes, they agree with it on ids, keep their own entries, and no pointer dangles while a handler uses it, for streamers, streamer links and services, when processes end, give up or lose their connection | 1.4 M |
| `discovery_progress` | a proxy becomes ready, and catches up with every change | 11 k |
| `messagehub` | three connections, peers that stop, two broadcasts, deletion: nothing is freed early, deletion ends unless a peer holds a thread | 373 k |
| `messagelink_reconnect` | two connections in a row, a hub that may stop in the middle of a frame: one close message per end and connection, nothing left after deletion but what was overwritten, deletion ends unless a read holds a thread | 438 k |
| `messagelink_close` | one connection, texts, half frames, either process may quit: both ends close | 160 k |
| `service` | two clients ask, over a network that cuts and breaks, while resources are exported, the process is told to quit and the service is deleted: the answers are right, what `http_get` returns is whole or betrayed by its length, the service is freed last, everyone is answered, deletion ends | 265 k |
| `streamerlink` | a link connects, reconnects and is deleted while a stream of two parts arrives in pieces: the parts are whole and in order, sockets have one user and are closed, stopping ends | 166 k |
| `launch` | the registry and a node, two faults (a crash, a failed fork, an interrupted wait), four signals: who is left behind, nothing is killed unasked, what ends is restarted, stopping ends | 510 k |
| `streamer` | two clients come and go while parts are written and the streamer is deleted: the bytes, the refinement of `ByteStream`, nothing freed early, deletion ends | 692 k |
| `datapath` | a hub, a link with its thread and another peer: answers reach the sender at a live address, the hub is freed last, adding and deleting end as long as packets come | 498 k |

One run shows where the code does not do what a comment says; TLC gives the
behaviour:

* `list_race`: an event overtakes an older list; the proxy then removes an entry
  that is registered, under the comment "remove the endpoints that have
  vanished" (`proxy.c:501`), and does not get it back.

More differences are part of the models but have no run of their own. In the
discovery and the hubs:

* the registry accepts two hubs of the same type and topic, although
  `docs/protocol.md` says that type and topic are unique;
* a data hub keeps the address of a data link that was closed, because the
  `case TYPE_DATALINK: break;` in `proxy_remove_connection` comes before the call
  that would remove it; a data link keeps the address of a data hub that its own
  process closed;
* when the registration of an end-point cannot be sent, `proxy_new_entry` calls
  `registry_delete` without the mutex (`proxy.c:802-806`) and `proxy_open_*` deletes the
  end-point (`proxy.c:850`, `896`, `940`), although a handler of the reader thread may
  have cloned the entry under the mutex and be using that end-point (`proxy.c:544`,
  `565`, `586`, `615`). It is the exception of `NoDanglingEndpoint` (`failed`); without
  it the run refutes the property. The list of entries itself, which both threads then
  change at once, is not modelled at that level;
* `delete_proxy` frees the registry before it deletes the link, whose reader thread may
  still be in a handler (`proxy.c:247`). `Leave`, the end of a proxy, is one step in the
  model, so that no run shows this;
* the reader thread of a proxy may connect a message link that the application
  thread has not registered yet; the new address then reaches the registry before
  the registration and is lost, and the registry keeps 0.0.0.0:0;
* the data thread of a data hub stores the sender of a packet over the address of
  the link it happens to be at (`datahub.c:445`); that link gets no broadcast any
  more, although `datahub.h` says "Broadcast to all links.";
* a send that fails while the callback of a data hub runs frees the node of the list
  that the data thread is at (`datahub.c:450-451`, `datahub_read_next_freed`);
* the reader thread of a client link sleeps four seconds after a close message
  and then closes `link->socket` (`messagelink.c:649`), although the link may have
  been connected to a new hub meanwhile;
* `messagelink_close_socket` tests, closes and overwrites `link->socket` and
  `link->state` without a lock in the reader thread (`messagelink.c:522-533`), while
  `client_messagelink_connect` may have put a new socket there: that socket is lost, or
  its link is marked closed, and `delete_messagelink` leaves the connection open
  (`lost`, the exception of `NoSocketLeft`; without it the run refutes the property).
  Both threads may also delete the same `link->addr` there, which is not modelled;
* the wait for data is limited to a second, the read that follows is not: a peer that
  stops in the middle of a frame, or a link that is connected again between the wait
  and the read of its thread (`messagelink.c:821-824`, then 666), holds the thread and
  `delete_messagelink`, which joins it (`Held`, the exception of
  `LinkDeletionCompletes`; the run refutes it without either of the two);
* in the same way a peer holds the thread of a hub's link, and with it `delete_messagehub`,
  or the close handshake of a link that is deleted, and with it `links_mutex`: every
  broadcast and every new link then waits for that peer (`held` in `MessageHub`);
* the reader thread ends with the first connection and `link->thread` stays set
  (`messagelink.c:1031`): a link that is connected again has no thread that reads;
* a frame of exactly 65536 bytes is announced as empty (section 4).

In services and streamer links:

* `http_get` returns 0, with status 200 and a part of the body or none, when the
  connection ends early or its process is told to quit (`response.c:325`, `response.c:343`):
  even an answer 400 of which only the beginning came is a 200. `AnswerIntact` says what a
  caller can go by: if the Content-Length is that of the body, the answer is whole.
  `http_send_request` returns 0 when the headers cannot be sent;
* a process that is told to quit answers a request that it has not read with 400, and one
  of which it has read a part as if that were the whole (`request.c:344`);
* a client that connects and sends nothing holds `delete_service` in its join for
  ever; a failed `recv` makes the service send the headers of an error twice;
* `service_client_handle` hands the client to the list of finished clients and
  then uses it (`service.c:122`): `service_delete_clients` may have freed it, and
  the same socket number may be closed twice, the second time under somebody
  else's connection (`stray`);
* `delete_service` deletes the mutex of the exports before it joins the threads
  that lock it (`service.c:217`; `crashed`);
* two threads that export `a` and `/a` at the same time may both add an entry, and
  the older one can hide the newer (`service.c:414`); one thread cannot;
* after a connection that broke inside a part, the multipart parser of a link
  continues in the middle: it may reach its error state, in which
  `multipart_parser_process` loops for ever (`multipart_parser.c:269`). What the
  runs say of the stream is about a parser that starts clean;
* the last part of a stream is delivered when the next byte arrives;
* `streamerlink_stop_thread` may join a thread that has just ended and reset
  `link->thread` (`streamerlink.c:161`), and the thread may set `cont` again after
  it was told to stop (`streamerlink.c:230`): the join then lasts as long as the
  stream.

In the supervisor:

* `run_stop` that meets a pid which is not assigned yet, or a fork after the quit
  flag was read, does not stop the program; `delete_run` then joins its thread for
  ever (`missed`);
* a signal that interrupts the `waitpid` of a run's thread ends that thread ("Should not
  happen", `run.c:449`), and with it the whole group, while the program goes on:
  `run_stop` sends it one SIGHUP, finds the run finished and joins the thread, and a
  program that is slow or minds no SIGHUP is left behind (`interrupted`);
* if the registry cannot be contacted, the child exits while its thread keeps
  restarting the registry, and leaves it behind;
* a signal during start-up reaches only the monitor, which then waits for the
  child; the fourth signal exits at once and leaves the programs running;
* once all programs of the group have ended, `setpgid` fails in every new one, and
  none is started again.

Some hazards of the code have no property, because they are such differences or
their state is left out: a stale address in a data hub (`proxy.c:706`); two threads
that add the same address (`datahub.c:160`); `delete_proxy` before its reader thread
has ended (`proxy.c:247`, above); the buffer and the lock of a broadcast
(`messagehub.c:118`, `messagehub.c:394`); the lock held during a command
(`messagelink.c:826`); a late answer taken for that of the next request
(`datalink.c:306`).

### Bounds

* Two processes and two end-points besides the registry's own are enough for
  every pair (hub and link, same or different process) in either order, with
  one of them closed again. End-points in a behaviour all belong to one of the
  `Families`: events of one family do nothing in the end-points of another.
  Three addresses are needed where a message link gets a new one.
* Three link objects: one being accepted, one closed and one open. Two
  broadcasts: one of a handler and one of the application, or two of handlers.
* Two connections are the least for what a reconnect can disturb; `messagelink_reconnect`
  has no texts (`MaxTexts`), pings and binary messages, and only the first hub stops in the
  middle of a frame (`Stoppers`). `messagelink_close` has both, and processes that quit
  (`Quitters`), on one connection. `ClosesOnce` and `NoSocketIsLeft` are proved without bounds.
* A buffer of four bytes, a header of two, parts of none or one byte, two parts:
  the positions wrap, a header is split over the end of the buffer, the buffer
  fills, and a part is dropped for lack of space.
  The theorems of section 4 have no such bounds.
* Two peers of a data hub, one of them a link with a thread, two nodes and one
  packet per socket: with both nodes listed and one packet, the data thread waits for
  a second packet while it holds the mutex and a call of `datahub_add_link` waits, and
  packets come from a peer whose node it is not at. Calls beyond the second node are
  for the link. Without `HeardFrom` the run refutes `AddLinkReturns` in just that
  state. The safety properties are proved without bounds.

* Two clients of a service are one that asks and one that disturbs; an export is of a
  name that is in the table (`/`) or of one that is not (`*`, in two steps). A body of two symbols, one of
  them a CR, and a cut at any of 40 places put a cut at every place of a response.
* Two messages of a streamer in chunks of 11 or 40 symbols, and pieces of at most
  13: a part spans chunks and pieces, a chunk spans parts, and the boundaries fall at
  different places each time. One byte of a part looks like the end of a line. Two
  connections and two addresses are the least for a reconnect.
* The registry, a node and a disabled one: one program stops or starts again while
  the other runs. Two faults in all (`MaxFaults`), each a crash, a failed fork or an
  interrupted wait; four signals, as the fourth is special.

Processes, ids and addresses are interchangeable, so the safety runs of the
discovery use symmetry; runs with liveness do not.

Deadlock is not checked (`CHECK_DEADLOCK FALSE`): all these systems may stop,
when the bounded number of operations is used up or everything is deleted.
That the threads do not block each other is what the liveness properties say.

### Fairness

Weak fairness of every thread that can run: the code runs on preemptive threads
and none of its loops can be starved by another. Nothing is assumed about
applications (what they open, close, send or delete), faults, peers, or the
order in which threads get a mutex, with one exception: in `DataPath` a thread
that waits for the mutex of the hub gets it if it is free again and again (strong
fairness), since the data thread takes it in a loop. A peer may stop answering for ever, as the
sockets have no timeouts: `HubDeletionCompletes` and `DeletionCompletes` say
that deletion ends unless a thread hangs in such a call; in `MessageHub` these are a
request, the send of a broadcast, and what a link's thread or its deletion reads or sends
(`held`; the run refutes the property without that exception). For message links the
waits have limits in the code (one, four and five seconds), but not the read of a frame
that has begun: `LinkDeletionCompletes` excepts a thread that such a read holds (`Held`).
In `Discovery` a handler and the release of its mutex share a condition, as they are one
thread. In `MessageLink` a reader has ended when the owner goes on, so the two share a condition, and the
steps of connecting, accepting and sending share one, because they are finite in number. `datahub_read` waits in `recvfrom`
without a limit, once per link, and holds the mutex: `AddLinkReturns` and
`HubDeletionCompletes` of `DataPath` therefore say what happens if packets are
there again and again (`HeardFrom`), and if the process does not crash. That
`recvfrom` fails is not assumed, nor anything about the links.

In `Service` a client that has connected sends its request or leaves, and reads its
answer, and handlers return: the service waits for a silent client without a limit,
so that `DeleteReturns` cannot hold without that. An application that is told to quit
deletes its service: the main loops of the programs of the repository run while
`!app_quit()` (`rcutil.cpp:165`). `EveryoneAnswered` and
`DeleteReturns` leave aside a process that crashed, and the former what happens after
a thread used its deleted client; these two are differences of the code, listed above. In `StreamerLink` the threads of the link run and a streamer ends
its stream at some time (its process ends, or the link's connection does), for else
the join of a lost stop would last for ever. Weak fairness of reading is written
with its enabling condition spelled out (`CanRead`), which saves TLC from parsing
the piece only to know that there is one. In `Launch` the threads, the monitor and
the child run, and a program that was forked is executed; nothing is assumed about
when it ends or whether it minds a signal.

## 4. The proofs

Every theorem below holds for all values of the constants that satisfy the named
assumptions; TLC evaluates these in the runs. A safety property is seldom inductive:
each part says which invariant carries it and why. The lemma that a step preserves
the invariant has one case per action.

### Streamer and circular buffer: `StreamerProofs`

The first lemmas are about the buffer, for every size: a write of less than the space
appends (`WriteAppends`), a read of no more than the data takes from the front
(`ReadTakes`), and data and space add up to the size (`SpaceAndData`). Then, for any
number of clients, sizes and parts:

* `TypeCorrect`: `Spec => []TypeOK`;
* `RoomIsKept`: `Spec => []RoomKept`: what a thread saw in a buffer still holds
  when it acts on it, and no buffer is ever completely full;
* `StreamStaysIntact`: `Spec => []StreamIntact`: what was sent to a client and
  what is in its buffer is exactly what was written for it;
* `StreamerImplementsByteStream`: `Spec => ImplementsByteStream`;
* `PartsAreWhole`: `Spec => []WholeParts`;
* `ClientsAreFreedLast` and `StreamerIsFreedLast`: `ClientFreedLast`, `StreamerFreedLast`.

`StreamIntact` is not inductive: a write appends only if there is room, and the
room was looked at two steps earlier, under a lock that was released since. The
inductive invariant is

    IInv == TypeOK /\ PartNumber /\ RoomKept /\ StreamIntact

`RoomKept` carries what was seen from the look to the write: only the data
thread writes and only the client's thread reads, so space can only grow between
look and write, and data between look and read. The check in the code is
strict (`space > total_len`); with `>=` a buffer could become completely full,
which the positions cannot distinguish from empty, and `RoomKept` would fail.
`PartNumber` says that the part being written has a number. The assumptions are
`SizeAssumption` (sizes are natural numbers, the buffer and the chunks are not
empty) and `ByteAssumption` (the set of bytes contains all that are written).

Whole parts are about the space between two writes: the header is written, the mutex of
the buffer released, then the data. `PartsInv` says that what was written for a client
is a chain in which every byte is followed by the next of its part (`Chained`), and how
the chain ends, depending on where the data thread is (`EndsWell`). That the second
write does not fail is `RoomKept` again.

`LifeInv` follows a client from place to place: one that is alive is being added, in one
of the two lists, or about to be joined by `delete_streamer` (`ClientsLocated`); the
place says what its thread may be doing (`ClientsPlaced`); the data thread visits only
clients in the list, whose mutex it holds (`MutexKept`); and `delete_streamer` joins the
server and data threads before it takes the lists (`DeletionOrder`).

### Data hub and data links: `DataPathProofs`

For any number of links, peers, adding threads and nodes, and any capacity of the sockets:

* `TypeCorrect`: `Spec => []TypeOK`;
* `AnswersReachSenders`: `Spec => []AnswerReachesSender`;
* `ListStaysAlive`: `Spec => []ListedAlive`;
* `FreedLast`: `Spec => [](HubFreedLast /\ LinkFreedLast)`.

That the address which the callback has is alive follows from who deletes
addresses: only the data thread itself, after a failed read, and `delete_datahub`,
after it has joined the data thread. The inductive invariant adds `AtAlive` (the
node that the data thread is at exists and is not deleted, and is in the list
while the thread holds the mutex) and `DeletionOrder` (which threads have ended
at which step of `delete_datahub`). The assumptions are `UdpAssumption`,
`DataHubAssumption` and `DataLinkAssumption`: the hub is not one of its peers, the
bounds are numbers, and listeners are links.

### Message hub: `ThreadsProofs`

For any number of links and broadcasts: `TypeCorrect`, `LinksAreFreedLast`
(`LinkFreedLast`: a link is not freed while its thread or a broadcast uses it) and
`HubIsFreedLast` (`HubFreedLast`). The properties do not say where a link is, and the
induction needs it: `HubInv` says that the links which are alive are those in one of
four places (`Located`: being added by the hub's thread, in `links`, in the closed list,
or taken by `delete_messagehub`), what the thread of a link may be doing in each
(`Placed`), that links are deleted only by a thread that holds `links_mutex` and that a
broadcast holds it while it has links to send to (`Locks`), and that `delete_messagehub`
takes the list after the hub's thread was joined, so that nothing is added to it later
(`Deletion`). The order of the last two steps in the code is what makes `Located`
inductive. `HubAssumption`: the threads of links, the hub's, the deleting and the
application's thread have different names.

### Message link: `MessageLinkProofs`

For any number of connections: `ClosesOnce` (`OneClose`: no end sends two close messages
on a connection) and `NoSocketIsLeft` (`NoSocketLeft`: a deleted link has left no
connection open, but for those in `lost`). The threads look at the state and the socket of a link without a lock,
and a reader that wakes up may find the socket of the next connection, or overwrite it.
Two facts carry the proof: an end of a connection that is open belongs to a link that
has its socket, or to none yet, or is lost (`ClientHolds`, `ServerHolds`), since a socket
is closed before the thread that closed it overwrites it (`ReaderHolds`, `ConnectorHolds`),
unless it is another one by then; and whoever has sent a close message on the socket of a
link is on the way to close it, while no other thread sends one (`SentAndGone`).
`ConnInv` adds what a connection is before it begins (`Unconnected`, `Fresh`), that a
socket is in use by a link that is open or closing, or is lost (`SocketInUse`), and what
`delete_messagelink` has waited for (`DeletionOrder`). `LinkAssumption` gives the bounds
their types.

`HeaderRoundTrip`: a frame header written for any length up to 16777216, the limit of
the reader, is read back with the same opcode, mask flag and length, unless the length
is 65536. `HeaderLosesLength` shows what happens then: `frame_make_header` has
`length <= 65536` where sixteen bits hold 65535, and the reader sees an empty frame.
The two theorems together say that this is the only such length.

### Service: `ServiceProofs`

`ExportsCorrect`: a lookup finds what was exported last, for any set of names in two
spellings (`a` and `/a`), with a wildcard and an index. The inductive invariant
`ExportsInv` says that the first entry with the uri has the latest handler
(`FirstIsLatest`), that `a` stands before `/a` where both are in the table (`OrderKept`:
the lookup of `a` does not find `/a`, so `a` can only be added in front), and, between
the two critical sections, that the name which is to be added is still missing
(`StillMissing`): only one thread exports. With two exporting threads that last part
fails, and so does the theorem.

For any number of connections, `ServiceLookup` carries this to the service: every step
of the service is a step of the table or leaves it alone. `ServiceCorrect`
(`Spec => []ServiceFreedLast`) rests on `ServiceInv`, which follows a client through its
lists: a thread that may still use its client is in one of the two lists or about to be
joined, and `delete_service` frees only after it has taken and joined all of them. It
speaks of the record of the service and of the mutex of its clients. The exports and
their mutex are deleted before the joins (`service.c:217`), and a thread that looks them
up by then is in `crashed`.

`AnswersWereRight` (`Spec => []AnswerWasRight`) says that an answer is what was exported
at some moment between the request and the answer, although the lookup, the call of the
handler and the answer are separate steps. `AnswerInv` says of every place of a
client's thread that what it has found is among the answers that were right since the
request (`AnswersKnown`), unless the request was not read, or in part (`Unread`); the step of the lookup uses `ExportsInv`, and the one that
writes an index page uses that the page lists exactly what is exported (`IndexRight`).
The theorem has a hypothesis, `RequestsRead`: a request of `http_get` is read as it was
sent. It is about the HTTP parser, a recursive function over the symbols of the request,
and TLC evaluates it for the requests of the run (`MCService`).

### Streamer link: `StreamerLinkProofs`

For any number of connections, messages and pieces: `ReadersHaveSockets`
(`ReaderHasSocket`) and `NoConnectionIsLeft` (`NoConnectionLeft`). A thread that works is
the thread of the link and has its connection (`WorkersLinked`), so that a link whose
field `thread` is clear has no working thread; `stop_thread` looks at the field without
waiting and `thread_join` reads it again, and after either nothing works
(`StoppedFirst`). Then the socket may be closed, and it is closed before it is opened
again or the link is freed (`ClosedFirst`, `OpenIsLinked`). `StreamAssumption` gives the
bounds their types and says that parts are not empty.

### Supervisor: `ThreadsProofs`

`ThreadsProofs` holds the proofs of the two components that start a thread for each
thing they look after and wait for these threads; nothing of one is used for the other.
For any number of nodes, crashes and signals, `LaunchCorrect` (`LaunchSpec => []NoOrphans`):
`LaunchInv` says that a program runs only while the thread of its run is between its
fork and the end of its `waitpid`, or a signal has interrupted that (`AppHasThread`), that
a thread is started once (`NotYetStarted`), and that a run whose status is finished has no
thread any more (`FinishedIsOver`). The child exits in order only when all these threads
are done: `run_stop` joins those that it sees finished, `delete_run` the others. What is
left is the program whose thread was interrupted: every run that `run_stop` is done with
was missed, or sent a signal, or has ended without an interruption (`PassedIsAsked`, part
of `AskInv`).

`AsksFirst` (`LaunchSpec => AskedFirst`, an action property): a program that `run_stop` ends
has been sent four signals. `run_stop` counts for a run, but a run may have had several
processes. `AskInv` says that all the signals in the count went to one process
(`SentToOne`), because a pid is used only while the thread waits for its process
(`OwnIsAwaited`) and a thread that has seen its process end forks no other, since the
child was told to quit before it stops runs in order (`InOrder`).

### Discovery: `DiscoveryProofs`

For any number of processes, end-points, names, topics and addresses, with processes
that end and connections that break at any moment:

* `TypeCorrect`: `Spec => []TypeOK`;
* `CentralIdsAreUnique`: `Spec => []CentralIdsUnique`;
* `NoEndpointDangles`: `Spec => []NoDanglingEndpoint`;
* `OwnEntriesAreKept`: `Spec => []OwnEntryKept`;
* `ListedEntriesAgree`: `Spec => []EntriesAgree`;
* `ConnectionsKeepTheirTopic`: `Spec => []ConnectedToPeers`;
* `RegistryIsFollowed`: `Spec => []RegistryFollows`.

The second, third and fourth cannot be proved from the lists they are about; what
matters is what is still on its way to them. The inductive invariant is

    DInv == DTypeOK /\ RegisteredOnce /\ Owned /\ OpenIsOwned /\ Withdrawn /\ ListedOnce

`DTypeOK` says that every id that travels was given to an end-point, so that a new one
meets no trace of itself. `RegisteredOnce` says that an id is to be registered by one
process, or in one request, or in the central registry, and never in two of these:
`registry_insert` does not look for duplicates. `Owned` says that the entry with the
end-point comes before every other entry with its id (`OwnFirst`): an event may add a
second one, and `registry_delete` removes the first. `Withdrawn` says that whatever
removes an id (a request to unregister, an announcement, an event) is on its way only
after the end-point was deleted, which is why no event removes an end-point that is open.
`ListedOnce` says that the list, which removes entries too, is requested, sent and
applied once, before the proxy is ready and any end-point exists. `OpenIsOwned` is
`OwnEntryKept` in these terms.

That a pointer stays valid while a handler uses it is `UInv`, on top of `DInv`: an
end-point that a handler works on is open, and the application's thread is not at the
step between taking its entry out and deleting it (`UsedAt`), since taking it out waits
for the mutex. The open that failed does not wait, and is excepted; `FailedAt` says that
nothing else is: an end-point in `failed` that is still open is the one its process is
about to delete, over a connection that is down for good.

`EntriesAgree` and `ConnectedToPeers` follow the entries instead of the ids. `AllGenuine` says that each
entry, in the central registry, in the list of a proxy, in what a reader or an
application has in hand, or in a message on its way, is a copy of one that was made
(`Genuine`), with another address only if it is of a messagelink: addresses are updated
by id, and only ids of messagelinks are sent in these updates (`Movable`). It needs
`DInv`, for the ids in requests, and `MadeOnce`: an id was given to one end-point. So
two entries with the same id differ at most in the address of a messagelink
(`EntriesAgree`), at every moment and not only when the network is quiet. `PeersInv`
says that an open end-point was made with its type and topic, and that its `remote` and
its `links` are addresses at which a peer of its topic was opened; it is inductive
because every address that an end-point is given comes from a genuine entry. The run
`discovery` checks it with one topic besides the registry's, the theorem is for any
number of them, with faults.

`RegistryFollows` is half of the way: once nothing is in flight, the central
registry lists every end-point of a process that is connected to it and, unless a
process ended or lost its connection (its entries stay: nothing unregisters them), no
other. `FollowsInv` says where the difference is at every other moment. An end-point
that is open is in the central registry, or its process is about to send the request, or
the request is on its way (`OpenRegistered`). An id that is in the central registry or in
a request to register is of an open end-point, or a request to unregister it is on its
way (`ClosedWithdrawn`). The second can only be kept because that request is handled
last: it is behind the other in the same queue (`SentInTurn`), since it is the process of
the end-point that sends both (`SentByOwner`). A process that has not started yet has no
connection (`Started`): all that are not closed can send.

The assumptions are `AddrAssumption`,
`RegistryEntryAssumption` and `FamiliesAssumption`.

### Discovery: `AgreementProofs`

The other half, from the same assumptions and on top of the invariants above:
`ProxiesAgree`, `Spec => []Agreement`. When nothing is in flight, the proxy of a
connected process lists exactly the ids that the central registry lists. The exceptions
are those of the property: ids whose announcement overtook the list (`raced`, the subject
of the run `list_race`) and end-points that `entry_equals` cannot tell apart (`HasTwin`).

Each proxy has a copy of the central list and hears of what is done after that copy was
made. The difficulty is that neither comes in the order of the list: a handler changes
the list under the mutex and announces it later, the announcements of several handlers
mix, and the copy is taken by a handler of its own, sent later, and merged one entry at
a time into a list that already has announced entries. So the invariant,

    AgreementInv == Routes /\ ListMerged /\ ProxiesFollow

compares the central list not with what a proxy has but with what it will have.
`Copy(n)` is the copy of the list wherever it is (in the handler, in the queue, with the
reader, or merged), `After(n)` the events that will be handled after it. `Follows(n, id)`
says that an id which is in the central list is in the copy, or in an event behind it, or
about to be announced, or of an end-point of `n` itself (`WillKnow`); that an id which is
in the copy or in an event behind it is in the central list, or its removal is behind it
or about to be announced (`WillForget`); that an announcement of something that is in the
copy already adds nothing, because it is the same entry and no change of address comes
before it (`AddsNothing`); and that there is one such entry at most. The last two are
what a removal needs: `registry_delete` deletes one entry.

`Routes` is why this is inductive: an id that is not in the central registry yet is
nowhere else (`Unseen`); it is announced once, and its removal behind it
(`AnnouncedOnce`, `RemovedGone`), although handlers announce concurrently, because all
requests about an id come from one connection, of which one handler at a time is at work
(`ByOwner`); and a process whose requests are handled is in the list of links to which
is announced, until its connection has ended (`Joined`). `ListMerged` is about the two
loops of `proxy_handle_update_list`: while they run, an id may be listed twice, and then
the entry that has to go is the first of the two, the one that `registry_delete` finds.

TLC checks this invariant, as an invariant and not only its consequence, for two
processes, two end-points of a messagehub and a messagelink, and faults (1.5 million
states, five minutes, a little too long for one of the runs); the run
`discovery_faults` checks `Agreement`.

`LinksFindTheirHub` and `HubsFindTheirLinks` are `Spec => []LinksFindHub` and
`Spec => []HubFindsLinks`: what agreement is for. An end-point learns of a peer in one of
two ways: it finds the entry in the proxy when it is opened and connects, or the reader is
told of the entry (`proxy-add`) while the end-point exists, and `proxy_add_connection`
connects it. Either happens once; nothing asks again. So

    ConnInv == Linked /\ Sending /\ Bound /\ OwnAlone

says at every moment, not only when all is quiet, of what a process lists (`Mates`,
`LinksOf`): the end-point is connected to it, or will be. `Linked` says so of a link and
the only hub of its topic, `Sending` of the only datahub of a topic and the datalinks. An
end-point that is not connected yet is still being opened or closed, so that its thread
has yet to look (`Busy`); or its peer is one of the same process, which is listed before
the central registry knows it, and comes back to the reader as an announcement
(`Announcing`: about to be requested, in the request, with the handler, in the event). A
process may open the two at once and the announcement may come while a thread is between
`registry_insert` and its look at the list; each step either connects the two or leaves
one of these reasons in place. The other two parts are what the C code takes for granted.
`OwnAlone`: if an entry has the pointer to a local end-point, then every entry with its
id in that list has, so that the datahub which `list_get` finds is told, whichever of
the entries it finds. `Bound`: the entry of a hub has the address at which the hub
listens, and no two message hubs listen at the same one. With `RegistryFollows` the hub is
in the central registry, with `Agreement` in the proxy, and when the network is quiet
neither reason is left.

TLC found that `HubFindsLinks` as first stated was wrong: a datalink that `entry_equals`
takes for another one is never listed by the proxy, so no datahub hears of it
(`~HasTwin` was missing).

`AddressesAgree` is `Spec => []AddressAgreement`: when nothing is in flight, a proxy finds
for an end-point of another process the address in the central registry. A messagelink
is registered with one address and changes it when it is connected
(`proxy_connect_messagehub`), in a request of its own that is broadcast apart from the
announcement of the end-point, and neither waits for the copy of the list. So several
addresses of one id may be on their way to a proxy, and the one that it handles last must
be the last that the central registry was given. The invariant is

    AddressInv == UpdatesByOwner /\ UpdatesPresent /\ AddrsFollow

`Told(q, s, id, addr)` says that the last event of the queue `q` which says an address of
`id` says `addr`, or, if none does, that the entry of `s` has it. `AddrsFollow` says that
every proxy is `Informed`: with `After(n)` for `q` and `Copy(n)` for `s` it is told the
address in the central registry. It may be wrong about an id in two cases (`Owed`
excludes them): a handler has yet to announce the entry or its new address, and the
end-point is that of the process itself, which is left out of the broadcast and has its
own entry. That a handler which does announce leaves a proxy informed is
`UpdatesPresent`: what the handler is about to say is what the central registry has now,
not what it had when the handler released it, and only the sender is left out. It holds
because no other handler changes the address meanwhile: only the process of an end-point
moves it, and a process has one handler, which does one request at a time
(`UpdatesByOwner`). TLC checks `AddressInv`, too, on the instance above (1,470,705 states).

### What is only model-checked

* Liveness under fairness, which TLAPS does not prove.
* What a reader makes of the data: `AnswerIntact` (an HTTP response) and `PartsIntact`
  (a multipart stream). They are about recursive functions over the input, and induction
  over data is out of the prover's reach.

The following are proved for all constants and are therefore not repeated in the runs:
`StreamIntact`, `ListedAlive`, `LinkFreedLast` of `DataPath`, `LatestExportFound`,
`CentralIdsUnique` and the type invariants.

## 5. What is left out

* SHA-1, the WebSocket handshake in the headers, forms and JSON in requests, data
  packets, addresses, options, dumps, the command-line programs, the RPC
  classes, the web page and the Python client: sequential code that formats or
  computes. `PROJECT.json` gives the reason for each.
* Of the HTTP parser: addresses with a scheme or a host, HTTP/1.0, pausing and
  `http_parser_parse_url`, which nothing in the library uses.
* Memory is modelled as far as objects of threads are concerned (`object`), not
  byte by byte; running out of memory is modelled where the code has a path for
  it that changes the shared state.
* The contents of packets and frames, the synchronous calls of data links
  (`datalink_rpc_*`) and `datahub_remove_link`, which nothing reaches.
* The launch file, the web server and the privileges of `rclaunch`.

## 6. Plan

Done: discovery, message hub, message link, streamer, data hub and data links, frame
headers, HTTP, service, streamer link and supervisor, and the safety proofs of section 4.

Next, in this order:

1. Masking and the payload of frames in pieces, and frames of several senders on
   one connection under `send_mutex`, added to `WsFrame`.
2. `messagelink_send_command` and the lock of `link->out`.
