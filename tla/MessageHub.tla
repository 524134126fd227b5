----------------------------- MODULE MessageHub -----------------------------
(***************************************************************************)
(* The life of a message hub and of its server-side links                  *)
(* (librcom/src/messagehub.c and the server part of messagelink.c).        *)
(*                                                                         *)
(* The hub's thread accepts connections and starts one thread per link.    *)
(* The thread of a link reads messages and calls the onmessage handler,    *)
(* which may broadcast, as that of rcregistry does.  The application may   *)
(* broadcast too, and deletes the hub at some point.  hub->mem is locked   *)
(* around a broadcast, hub->links_mutex protects the lists of links and is *)
(* held while a broadcast sends and while closed links are deleted.        *)
(*                                                                         *)
(* A thread that reads a frame waits in recv until all of it is there, and *)
(* a send waits for room, both without a limit (net.c:171-233): the peer   *)
(* of a link holds the thread that it stopped in the middle of a frame.    *)
(***************************************************************************)
EXTENDS Naturals, FiniteSets

CONSTANTS Links,    \* the link objects that can be allocated
          App,      \* the application's thread
          MaxCasts  \* bound on the number of broadcasts

(* The threads have different names. *)
ASSUME HubAssumption ==
    /\ App \notin Links
    /\ {"none", "hub", "deleter"} \cap (Links \cup {App}) = {}
    /\ MaxCasts \in Nat

VARIABLES
    quit,       \* hub->quit
    app_quit,   \* app_quit()
    links,      \* hub->links
    closed,     \* hub->closed_links
    owner,      \* who holds links_mutex across steps: a thread or "none"
    mem,        \* who holds the lock of hub->mem: a thread or "none"
    hub,        \* where the hub's thread is
    deleter,    \* where the thread that deletes the hub is
    object,     \* object[c]: the link object
    open,       \* open[c]: link->state = WS_OPEN
    stop,       \* stop[c]: link->thread_quit
    thread,     \* thread[c]: where the thread of link c is
    held,       \* the links with a thread that waits for their peer to go on
    cast,       \* cast[t]: the broadcast that thread t is busy with
    casts       \* the number of broadcasts so far

listVars == <<links, closed>>
linkVars == <<object, open, stop, thread, held>>
castVars == <<mem, cast, casts>>
vars == <<quit, app_quit, links, closed, owner, mem, hub, deleter, object, open,
          stop, thread, held, cast, casts>>

Casters == Links \cup {App}
NoCast == [pc |-> "none"]

Init == /\ quit = FALSE /\ app_quit = FALSE
        /\ links = {} /\ closed = {}
        /\ owner = "none" /\ mem = "none"
        /\ hub = [pc |-> "accept"]
        /\ deleter = [pc |-> "none"]
        /\ object = [c \in Links |-> "none"]
        /\ open = [c \in Links |-> FALSE]
        /\ stop = [c \in Links |-> FALSE]
        /\ thread = [c \in Links |-> "none"]
        /\ held = {}
        /\ cast = [t \in Casters |-> NoCast]
        /\ casts = 0

MutexFree == owner = "none"

-----------------------------------------------------------------------------
(* The hub's thread: messagehub_run                                        *)

HubUnchanged == UNCHANGED <<quit, app_quit, deleter, stop, castVars>>

(* messagehub_wait_connection, if a link object is left in the model       *)
messagehub_wait_connection ==
    /\ hub.pc = "accept" /\ ~quit /\ ~app_quit
    /\ \E c \in Links : object[c] = "none"
    /\ hub' = [pc |-> "request"]
    /\ UNCHANGED <<listVars, owner, object, open, thread, held>> /\ HubUnchanged

(* A request that is invalid or is not for a WebSocket, or a handshake     *)
(* that fails: no link is created.                                         *)
messagehub_handle_request ==
    /\ hub.pc = "request"
    /\ hub' = [pc |-> "accept"]
    /\ UNCHANGED <<listVars, owner, object, open, thread, held>> /\ HubUnchanged

(* server_messagelink_connect, and onconnect accepts the link ...          *)
messagehub_handle_websocket ==
    /\ hub.pc = "request"
    /\ \E c \in Links :
        /\ object[c] = "none"
        /\ object' = [object EXCEPT ![c] = "alive"]
        /\ open' = [open EXCEPT ![c] = TRUE]
        /\ hub' = [pc |-> "add", link |-> c]
    /\ UNCHANGED <<listVars, owner, thread, held>> /\ HubUnchanged

(* ... or refuses it: the link is deleted.                                 *)
messagehub_refuse_websocket ==
    /\ hub.pc = "request"
    /\ \E c \in Links :
        /\ object[c] = "none"
        /\ object' = [object EXCEPT ![c] = "freed"]
    /\ hub' = [pc |-> "accept"]
    /\ UNCHANGED <<listVars, owner, open, thread, held>> /\ HubUnchanged

messagehub_add_link ==
    /\ hub.pc = "add" /\ MutexFree
    /\ links' = links \cup {hub.link}
    /\ hub' = [hub EXCEPT !.pc = "cleanup"]
    /\ UNCHANGED <<closed, owner, object, open, thread, held>> /\ HubUnchanged

(* messagehub_delete_closed_links takes links_mutex ...                    *)
LockClosedLinks(t) ==
    /\ MutexFree
    /\ owner' = t
    /\ UNCHANGED <<listVars, object, open, thread, held>>

(* Mutant: the thread of the link is not joined.                           *)
delete_messagelink_unjoined(c) ==
    /\ object' = [object EXCEPT ![c] = "freed"]
    /\ open' = [open EXCEPT ![c] = FALSE]

(* ... and deletes the links one by one: delete_messagelink joins the      *)
(* thread of the link and ends an open connection with a close handshake,  *)
(* which takes a few seconds at most unless the peer holds it.             *)
delete_messagelink(c) ==
    /\ thread[c] = "done"
    /\ object' = [object EXCEPT ![c] = "freed"]
    /\ open' = [open EXCEPT ![c] = FALSE]

DeleteClosedLink ==
    /\ \E c \in closed :
        /\ closed \cap held \subseteq {c}
        /\ delete_messagelink(c)
        /\ closed' = closed \ {c} /\ held' = held \ {c}
    /\ UNCHANGED <<links, owner, thread>>

UnlockClosedLinks ==
    /\ closed = {}
    /\ owner' = "none"
    /\ UNCHANGED <<listVars, object, open, thread, held>>

hub_lock_closed_links ==
    /\ hub.pc = "cleanup"
    /\ LockClosedLinks("hub")
    /\ hub' = [hub EXCEPT !.pc = "delete"]
    /\ HubUnchanged

hub_delete_closed_link ==
    /\ hub.pc = "delete"
    /\ DeleteClosedLink
    /\ UNCHANGED hub /\ HubUnchanged

hub_unlock_closed_links ==
    /\ hub.pc = "delete"
    /\ UnlockClosedLinks
    /\ hub' = [hub EXCEPT !.pc = "start"]
    /\ HubUnchanged

server_messagelink_read_in_background ==
    /\ hub.pc = "start"
    /\ thread' = [thread EXCEPT ![hub.link] = "read"]
    /\ hub' = [pc |-> "accept"]
    /\ UNCHANGED <<listVars, owner, object, open, held>> /\ HubUnchanged

messagehub_run_done ==
    /\ hub.pc = "accept" /\ (quit \/ app_quit)
    /\ hub' = [pc |-> "done"]
    /\ UNCHANGED <<listVars, owner, object, open, thread, held>> /\ HubUnchanged

-----------------------------------------------------------------------------
(* The thread of a link: server_messagelink_run                            *)

ThreadGoto(c, pc) ==
    /\ thread' = [thread EXCEPT ![c] = pc]
    /\ held' = held \ {c}
    /\ UNCHANGED <<quit, app_quit, owner, hub, deleter, object, stop, mem>>

(* The peer stops in the middle of a frame, or reads no more: it holds the *)
(* thread of the link, in a recv or in the send of a pong, a close message *)
(* or the answer of a handler, or who is in the close handshake of         *)
(* delete_messagelink.  It may go on later: then the thread does what it   *)
(* would have done, or ...                                                 *)
peer_stops(c) ==
    /\ c \notin held
    /\ \/ thread[c] = "read"
       \/ thread[c] = "handler" /\ cast[c] = NoCast
       \/ /\ c \in closed /\ thread[c] = "done" /\ open[c]
          /\ hub.pc = "delete" \/ deleter.pc = "delete"
          /\ closed \cap held = {}
    /\ held' = held \cup {c}
    /\ UNCHANGED <<quit, app_quit, listVars, owner, hub, deleter, object, open, stop,
                   thread, castVars>>

(* ... a frame that has no handler is complete, and the loop goes on.      *)
link_reads_on(c) ==
    /\ thread[c] = "read" /\ c \in held /\ ~stop[c] /\ ~app_quit
    /\ ThreadGoto(c, "read")
    /\ UNCHANGED <<listVars, open, cast, casts>>

(* The peer closes the connection, breaks it or breaks the protocol: when  *)
(* _messagelink_read returns, the socket is closed.                        *)
link_closed(c) ==
    /\ thread[c] = "read"
    /\ open' = [open EXCEPT ![c] = FALSE]
    /\ ThreadGoto(c, "remove")
    /\ UNCHANGED <<listVars, cast, casts>>

(* A message arrives, and its handler broadcasts.                          *)
link_onmessage(c) ==
    /\ thread[c] = "read" /\ casts < MaxCasts
    /\ cast' = [cast EXCEPT ![c] = [pc |-> "mem"]]
    /\ casts' = casts + 1
    /\ ThreadGoto(c, "handler")
    /\ UNCHANGED <<listVars, open>>

(* The handler returns.                                                    *)
link_onmessage_done(c) ==
    /\ thread[c] = "handler" /\ cast[c] = NoCast
    /\ ThreadGoto(c, "read")
    /\ UNCHANGED <<listVars, open, cast, casts>>

(* The loop ends between two messages, with the connection still open.     *)
link_stopped(c) ==
    /\ thread[c] = "read" /\ (stop[c] \/ app_quit)
    /\ ThreadGoto(c, "remove")
    /\ UNCHANGED <<listVars, open, cast, casts>>

messagehub_remove_link(c) ==
    /\ thread[c] = "remove" /\ MutexFree
    /\ links' = links \ {c}
    /\ closed' = closed \cup {c}
    /\ ThreadGoto(c, "finish")
    /\ UNCHANGED <<open, cast, casts>>

(* The thread still reads the name and topic of the link before it ends.   *)
link_finished(c) ==
    /\ thread[c] = "finish"
    /\ ThreadGoto(c, "done")
    /\ UNCHANGED <<listVars, open, cast, casts>>

-----------------------------------------------------------------------------
(* messagehub_broadcast_* in thread t                                      *)

CastUnchanged == UNCHANGED <<quit, app_quit, listVars, hub, deleter, linkVars>>

(* The application broadcasts only while it has a hub.                     *)
app_broadcast ==
    /\ cast[App] = NoCast /\ deleter.pc = "none" /\ casts < MaxCasts
    /\ cast' = [cast EXCEPT ![App] = [pc |-> "mem"]]
    /\ casts' = casts + 1
    /\ UNCHANGED <<owner, mem>> /\ CastUnchanged

(* messagehub_broadcast_text and messagehub_send_ping, called directly, do  *)
(* without hub->mem.                                                       *)
app_broadcast_text ==
    /\ cast[App] = NoCast /\ deleter.pc = "none" /\ casts < MaxCasts
    /\ cast' = [cast EXCEPT ![App] = [pc |-> "lock"]]
    /\ casts' = casts + 1
    /\ UNCHANGED <<owner, mem>> /\ CastUnchanged

(* membuf_lock(hub->mem) *)
broadcast_lock_mem(t) ==
    /\ cast[t].pc = "mem" /\ mem = "none"
    /\ mem' = t
    /\ cast' = [cast EXCEPT ![t] = [pc |-> "lock"]]
    /\ UNCHANGED <<owner, casts>> /\ CastUnchanged

(* messagehub_broadcast_text: messagehub_lock_links ...                    *)
messagehub_broadcast_text(t) ==
    /\ cast[t].pc = "lock" /\ MutexFree
    /\ owner' = t
    /\ \E exclude \in SUBSET {t} :
        cast' = [cast EXCEPT ![t] = [pc |-> "send", todo |-> links \ exclude]]
    /\ UNCHANGED <<mem, casts>> /\ CastUnchanged

(* ... messagelink_send_text to each link; its outcome is ignored ...      *)
broadcast_send(t) ==
    /\ cast[t].pc = "send"
    /\ \E c \in cast[t].todo :
        cast' = [cast EXCEPT ![t] = [pc |-> "send", todo |-> @.todo \ {c}]]
    /\ UNCHANGED <<owner, mem, casts>> /\ CastUnchanged

(* Mutant: only links_mutex is released.                                   *)
broadcast_unlock_half(t) ==
    /\ cast[t].pc = "send" /\ cast[t].todo = {}
    /\ owner' = "none"
    /\ cast' = [cast EXCEPT ![t] = NoCast]
    /\ UNCHANGED <<mem, casts>> /\ CastUnchanged

(* ... and the locks are released.                                         *)
broadcast_unlock(t) ==
    /\ cast[t].pc = "send" /\ cast[t].todo = {}
    /\ owner' = "none"
    /\ mem' = IF mem = t THEN "none" ELSE mem
    /\ cast' = [cast EXCEPT ![t] = NoCast]
    /\ UNCHANGED casts /\ CastUnchanged

-----------------------------------------------------------------------------
(* delete_messagehub                                                       *)

DeleterGoto(d) ==
    /\ deleter' = d
    /\ UNCHANGED <<app_quit, hub, castVars>>

delete_messagehub ==
    /\ deleter.pc = "none" /\ cast[App] = NoCast
    /\ quit' = TRUE
    /\ DeleterGoto([pc |-> "join_hub"])
    /\ UNCHANGED <<listVars, owner, linkVars>>

(* The hub's thread is joined, hub->mem is deleted, whether or not it is   *)
(* in use, and the server socket is closed.                                *)
join_hub ==
    /\ deleter.pc = "join_hub" /\ hub.pc = "done"
    /\ DeleterGoto([pc |-> "take"])
    /\ UNCHANGED <<quit, listVars, owner, linkVars>>

take_links ==
    /\ deleter.pc = "take" /\ MutexFree
    /\ links' = {}
    /\ DeleterGoto([pc |-> "stop", todo |-> links])
    /\ UNCHANGED <<quit, closed, owner, linkVars>>

(* "stop the active links", one after the other                            *)
messagelink_stop_thread ==
    /\ deleter.pc = "stop"
    /\ \E c \in deleter.todo :
        /\ stop' = [stop EXCEPT ![c] = TRUE]
        /\ DeleterGoto([pc |-> "join", link |-> c, todo |-> deleter.todo \ {c}])
    /\ UNCHANGED <<quit, listVars, owner, object, open, thread, held>>

(* Mutant: the thread is told to stop and not joined.                      *)
join_link_skipped ==
    /\ deleter.pc = "join"
    /\ DeleterGoto([pc |-> "stop", todo |-> deleter.todo])
    /\ UNCHANGED <<quit, listVars, owner, linkVars>>

join_link ==
    /\ deleter.pc = "join" /\ thread[deleter.link] = "done"
    /\ DeleterGoto([pc |-> "stop", todo |-> deleter.todo])
    /\ UNCHANGED <<quit, listVars, owner, linkVars>>

deleter_lock_closed_links ==
    /\ deleter.pc = "stop" /\ deleter.todo = {}
    /\ LockClosedLinks("deleter")
    /\ DeleterGoto([pc |-> "delete"])
    /\ UNCHANGED <<quit, stop>>

deleter_delete_closed_link ==
    /\ deleter.pc = "delete"
    /\ DeleteClosedLink
    /\ DeleterGoto(deleter)
    /\ UNCHANGED <<quit, stop>>

deleter_unlock_closed_links ==
    /\ deleter.pc = "delete"
    /\ UnlockClosedLinks
    /\ DeleterGoto([pc |-> "freed"])
    /\ UNCHANGED <<quit, stop>>

AppQuit ==
    /\ ~app_quit
    /\ app_quit' = TRUE
    /\ UNCHANGED <<quit, listVars, owner, hub, deleter, linkVars, castVars>>

-----------------------------------------------------------------------------
(* Steps that wait for the peer of a connection for as long as it takes    *)
HubIO == \/ messagehub_handle_request \/ messagehub_handle_websocket
         \/ messagehub_refuse_websocket

HubStep == \/ messagehub_add_link \/ hub_lock_closed_links
           \/ hub_delete_closed_link \/ hub_unlock_closed_links
           \/ server_messagelink_read_in_background \/ messagehub_run_done

LinkStep(c) == \/ link_onmessage_done(c) \/ link_stopped(c)
               \/ messagehub_remove_link(c) \/ link_finished(c)

LinkEvent(c) == \/ link_closed(c) \/ link_onmessage(c)
                \/ peer_stops(c) \/ link_reads_on(c)

CastStep(t) == \/ broadcast_lock_mem(t) \/ messagehub_broadcast_text(t)
               \/ broadcast_unlock(t)

DeleterStep == \/ join_hub \/ take_links \/ messagelink_stop_thread \/ join_link
               \/ deleter_lock_closed_links \/ deleter_delete_closed_link
               \/ deleter_unlock_closed_links

Next == \/ messagehub_wait_connection \/ HubIO \/ HubStep
        \/ \E c \in Links : LinkEvent(c) \/ LinkStep(c)
        \/ app_broadcast \/ app_broadcast_text
        \/ \E t \in Casters : CastStep(t) \/ broadcast_send(t)
        \/ delete_messagehub \/ DeleterStep \/ AppQuit

Spec == Init /\ [][Next]_vars

(* A thread that can run eventually does.  Peers may hold up a request, a  *)
(* broadcast, or the thread of a link or its deletion for ever, and nothing *)
(* is assumed of the order in which threads get a mutex: the number of     *)
(* broadcasts is bounded.                                                  *)
FairSpec == /\ Spec
            /\ WF_vars(closed \cap held = {} /\ (HubStep \/ DeleterStep))
            /\ \A c \in Links : WF_vars(c \notin held /\ LinkStep(c))
            /\ \A t \in Casters : WF_vars(CastStep(t))

-----------------------------------------------------------------------------
(* The variables have their types. *)
TypeOK ==
    /\ quit \in BOOLEAN /\ app_quit \in BOOLEAN
    /\ links \subseteq Links /\ closed \subseteq Links
    /\ owner \in {"none", "hub", "deleter"} \cup Casters
    /\ mem \in {"none"} \cup Casters
    /\ hub \in [pc: {"accept", "request", "done"}]
          \cup [pc: {"add", "cleanup", "delete", "start"}, link: Links]
    /\ deleter \in [pc: {"none", "join_hub", "take", "delete", "freed"}]
              \cup [pc: {"stop"}, todo: SUBSET Links]
              \cup [pc: {"join"}, link: Links, todo: SUBSET Links]
    /\ object \in [Links -> {"none", "alive", "freed"}]
    /\ open \in [Links -> BOOLEAN]
    /\ stop \in [Links -> BOOLEAN]
    /\ thread \in [Links -> {"none", "read", "handler", "remove", "finish", "done"}]
    /\ cast \in [Casters -> [pc: {"none", "mem", "lock"}]
                       \cup [pc: {"send"}, todo: SUBSET Links]]
    /\ held \subseteq Links
    /\ casts \in 0..MaxCasts

(* A link is freed only when no thread will use it again: its own thread   *)
(* has ended, the hub's thread is not about to start it, no broadcast is   *)
(* going to send to it and no list holds it.                               *)
LinkFreedLast ==
    \A c \in Links : object[c] = "freed" =>
        /\ thread[c] \in {"none", "done"}
        /\ hub.pc \in {"add", "cleanup", "delete", "start"} => hub.link # c
        /\ \A t \in Casters : cast[t].pc = "send" => c \notin cast[t].todo
        /\ c \notin links \cup closed

(* When the hub is freed, no thread will use it again, and no link is left.*)
HubFreedLast ==
    deleter.pc = "freed" =>
        /\ hub.pc = "done" /\ owner = "none" /\ mem = "none"
        /\ \A t \in Casters : cast[t] = NoCast
        /\ \A c \in Links : thread[c] \in {"none", "done"} /\ object[c] # "alive"

(* delete_messagehub returns, unless a thread hangs for ever in a request, *)
(* in the send of a broadcast, or with a link whose peer stopped: neither  *)
(* the two locks nor the joins block each other.                           *)
HubDeletionCompletes ==
    \/ deleter.pc = "join_hub" ~> deleter.pc = "freed"
    \/ <>[](hub.pc = "request")
    \/ \E t \in Casters : <>[](cast[t].pc = "send")
    \/ \E c \in Links : <>[](c \in held)
=============================================================================
