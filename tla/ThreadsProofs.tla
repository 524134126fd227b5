---------------------------- MODULE ThreadsProofs ----------------------------
(***************************************************************************)
(* The two components that start a thread for each thing they look after   *)
(* and wait for these threads before they end: the message hub with the    *)
(* threads of its links, and the child of rclaunch with those of its runs. *)
(* The two are independent; MessageHub has Spec, Launch has LaunchSpec.    *)
(***************************************************************************)
EXTENDS MessageHub, Launch, TLAPS

(***************************************************************************)
(* MessageHub: for every number of links and broadcasts, the hub and its   *)
(* links are freed after the last use.                                     *)
(*                                                                         *)
(* The argument follows a link from place to place.  A link that is alive  *)
(* is being added by the hub's thread, or in one of the two lists, or in   *)
(* the list that delete_messagehub goes through (Located); where it is     *)
(* says what its thread may be doing (Placed).  Links are deleted by a     *)
(* thread that holds links_mutex, and a broadcast holds it while it has    *)
(* links to send to (Locks).  delete_messagehub takes the list after it    *)
(* has joined the hub's thread, so that nothing is added to it later       *)
(* (Deletion).                                                             *)
(***************************************************************************)

(* The link that the hub's thread is setting up                            *)
Starting == IF hub.pc \in {"add", "cleanup", "delete", "start"} THEN {hub.link} ELSE {}

(* The links that delete_messagehub has taken and not joined               *)
ToJoin == CASE deleter.pc = "stop" -> deleter.todo
            [] deleter.pc = "join" -> deleter.todo \cup {deleter.link}
            [] OTHER -> {}

Alive == {c \in Links : object[c] = "alive"}

Working == {"read", "handler", "remove"}

(* A link is alive exactly when it is in one of these places.              *)
Located == Alive = links \cup closed \cup Starting \cup ToJoin

(* What the thread of a link may be doing, from where the link is          *)
Placed ==
    \A c \in Links :
        /\ object[c] = "none" => thread[c] = "none"
        /\ c \in Starting =>
            thread[c] = "none" /\ c \notin closed /\ (c \in links <=> hub.pc # "add")
        /\ c \in links => thread[c] \in Working \/ c \in Starting
        /\ c \in closed => thread[c] \in {"finish", "done"}
        /\ c \in ToJoin => thread[c] # "none"
        /\ thread[c] \in Working => c \in links \cup ToJoin
        /\ thread[c] = "finish" => c \in closed
        /\ thread[c] = "done" /\ object[c] = "alive" => c \in closed

(* Who holds the locks, and what a broadcast may send to                   *)
Locks ==
    /\ owner = "hub" <=> hub.pc = "delete"
    /\ owner = "deleter" <=> deleter.pc = "delete"
    /\ \A t \in Casters :
        /\ owner = t <=> cast[t].pc = "send"
        /\ mem = t => cast[t].pc \in {"lock", "send"}
        /\ cast[t].pc = "send" => cast[t].todo \subseteq Alive
    /\ \A c \in Links : cast[c].pc # "none" => thread[c] = "handler"

(* What delete_messagehub has waited for                                   *)
Deletion ==
    /\ deleter.pc # "none" => cast[App].pc = "none"
    /\ deleter.pc \notin {"none", "join_hub"} => hub.pc = "done"
    /\ deleter.pc \in {"stop", "join", "delete", "freed"} => links = {}
    /\ deleter.pc = "freed" => closed = {}

HubInv == TypeOK /\ Located /\ Placed /\ Locks /\ Deletion

-----------------------------------------------------------------------------
(* The pieces of a typed state that the steps below look at                *)
LEMMA Typed ==
    ASSUME TypeOK
    PROVE  /\ Starting \subseteq Links /\ ToJoin \subseteq Links
           /\ hub.pc \in {"accept", "request", "add", "cleanup", "delete", "start", "done"}
           /\ hub.pc \in {"add", "cleanup", "delete", "start"} => hub.link \in Links
           /\ deleter.pc \in {"none", "join_hub", "take", "stop", "join", "delete", "freed"}
           /\ deleter.pc \in {"stop", "join"} => deleter.todo \subseteq Links
           /\ deleter.pc = "join" => deleter.link \in Links
           /\ \A t \in Casters : /\ cast[t].pc \in {"none", "mem", "lock", "send"}
                                 /\ cast[t].pc = "none" => cast[t] = NoCast
                                 /\ cast[t].pc = "send" => cast[t].todo \subseteq Links
BY DEF TypeOK, Starting, ToJoin, NoCast

LEMMA HubInvInit == Init => HubInv
<1> SUFFICES ASSUME Init PROVE HubInv
    OBVIOUS
<1>1. TypeOK
    <2>1. hub \in [pc: {"accept", "request", "done"}]
        BY DEF Init
    <2>2. deleter \in [pc: {"none", "join_hub", "take", "delete", "freed"}]
        BY DEF Init
    <2>3. NoCast \in [pc: {"none", "mem", "lock"}]
        BY DEF NoCast
    <2>4. cast \in [Casters -> [pc: {"none", "mem", "lock"}] \cup [pc: {"send"}, todo: SUBSET Links]]
        BY <2>3 DEF Init
    <2>5. casts \in 0..MaxCasts
        BY HubAssumption DEF Init
    <2>6. /\ object \in [Links -> {"none", "alive", "freed"}]
          /\ open \in [Links -> BOOLEAN] /\ stop \in [Links -> BOOLEAN]
          /\ thread \in [Links -> {"none", "read", "handler", "remove", "finish", "done"}]
        BY DEF Init
    <2> QED BY <2>1, <2>2, <2>4, <2>5, <2>6 DEF Init, TypeOK
<1>2. Starting = {} /\ ToJoin = {} /\ Alive = {}
    BY DEF Init, Alive, Starting, ToJoin
<1>3. Located /\ Placed
    <2>1. \A c \in Links : object[c] = "none" /\ thread[c] = "none"
        BY DEF Init
    <2>2. links = {} /\ closed = {}
        BY DEF Init
    <2>3. Located
        BY <1>2, <2>2 DEF Located
    <2> QED BY <1>2, <2>1, <2>2, <2>3 DEF Placed, Working
<1>4. Locks
    BY HubAssumption DEF Init, Locks, Casters, NoCast
<1>5. Deletion
    BY DEF Init, Deletion, Casters, NoCast
<1> QED BY <1>1, <1>3, <1>4, <1>5 DEF HubInv

(* The hub's thread goes from one place where it holds nothing to another. *)
LEMMA HubWaits ==
    ASSUME HubInv, hub.pc \in {"accept", "request"},
           hub' \in [pc: {"accept", "request", "done"}],
           UNCHANGED <<listVars, owner, open, thread, held>>, HubUnchanged,
           object' = object
    PROVE  HubInv'
<1>1. Starting = {} /\ Starting' = {} /\ ToJoin' = ToJoin /\ Alive' = Alive
    BY DEF Starting, ToJoin, Alive, HubUnchanged
<1>2. TypeOK'
    BY DEF HubInv, TypeOK, HubUnchanged, listVars, castVars
<1>3. Located' /\ Placed'
    BY <1>1 DEF HubInv, Located, Placed, HubUnchanged, listVars
<1>4. Locks'
    BY <1>1 DEF HubInv, Locks, HubUnchanged, castVars
<1>5. Deletion'
    BY DEF HubInv, Deletion, HubUnchanged, listVars, castVars
<1> QED BY <1>2, <1>3, <1>4, <1>5 DEF HubInv

(* A link that is created is being added; one that is refused is nowhere.  *)
LEMMA WebSocketSteps ==
    ASSUME HubInv, messagehub_handle_websocket \/ messagehub_refuse_websocket
    PROVE  HubInv'
<1>1. PICK c \in Links :
        /\ object[c] = "none" /\ hub.pc = "request"
        /\ \/ /\ object' = [object EXCEPT ![c] = "alive"]
              /\ open' = [open EXCEPT ![c] = TRUE]
              /\ hub' = [pc |-> "add", link |-> c]
           \/ /\ object' = [object EXCEPT ![c] = "freed"]
              /\ open' = open
              /\ hub' = [pc |-> "accept"]
    BY DEF messagehub_handle_websocket, messagehub_refuse_websocket
<1>2. UNCHANGED <<quit, app_quit, deleter, stop, castVars, listVars, owner, thread, held>>
    BY DEF messagehub_handle_websocket, messagehub_refuse_websocket, HubUnchanged
<1>3. c \notin links \cup closed \cup ToJoin /\ thread[c] = "none" /\ ToJoin' = ToJoin
    BY <1>1, <1>2 DEF HubInv, Located, Placed, Alive, ToJoin
<1>4. /\ Starting = {} /\ Starting' = Alive' \ Alive /\ Alive \subseteq Alive'
      /\ Starting' \subseteq {c}
    BY <1>1 DEF HubInv, TypeOK, Starting, Alive
<1>5. TypeOK'
    <2>1. hub' \in [pc: {"accept", "request", "done"}]
              \cup [pc: {"add", "cleanup", "delete", "start"}, link: Links]
        BY <1>1
    <2>2. object' \in [Links -> {"none", "alive", "freed"}] /\ open' \in [Links -> BOOLEAN]
        BY <1>1 DEF HubInv, TypeOK
    <2> QED BY <1>2, <2>1, <2>2 DEF HubInv, TypeOK, listVars, castVars
<1>6. Located'
    BY <1>2, <1>3, <1>4 DEF HubInv, Located, listVars
<1>7. Placed'
    BY <1>1, <1>2, <1>3, <1>4 DEF HubInv, TypeOK, Placed, listVars, Starting
<1>8. Locks'
    BY <1>1, <1>2, <1>4 DEF HubInv, Locks, castVars
<1>9. Deletion'
    BY <1>1, <1>2 DEF HubInv, Deletion, listVars, castVars
<1> QED BY <1>5, <1>6, <1>7, <1>8, <1>9 DEF HubInv

(* The link that was added is in the list of the hub.                      *)
LEMMA AddLink ==
    ASSUME HubInv, messagehub_add_link
    PROVE  HubInv'
<1>1. /\ hub.pc = "add" /\ owner = "none" /\ links' = links \cup {hub.link}
      /\ hub.link \in Links
      /\ hub' = [pc |-> "cleanup", link |-> hub.link]
    BY DEF messagehub_add_link, MutexFree, HubInv, TypeOK
<1>2. UNCHANGED <<quit, app_quit, deleter, stop, castVars, closed, owner, object, open, thread, held>>
    BY DEF messagehub_add_link, HubUnchanged
<1>3. /\ Starting = {hub.link} /\ Starting' = Starting /\ Alive' = Alive
      /\ ToJoin = {} /\ ToJoin' = ToJoin
    BY <1>1, <1>2 DEF HubInv, Deletion, Starting, Alive, ToJoin
<1>4. TypeOK'
    BY <1>1, <1>2 DEF HubInv, TypeOK, castVars
<1>5. Located'
    BY <1>1, <1>2, <1>3 DEF HubInv, Located
<1>6. Placed'
    BY <1>1, <1>2, <1>3 DEF HubInv, Placed
<1>7. Locks'
    BY <1>1, <1>2, <1>3 DEF HubInv, Locks, castVars
<1>8. Deletion'
    BY <1>1, <1>2 DEF HubInv, Deletion, castVars
<1> QED BY <1>4, <1>5, <1>6, <1>7, <1>8 DEF HubInv

(* The hub's thread moves on with the link it is setting up, and takes or  *)
(* releases links_mutex.                                                   *)
LEMMA HubLocks ==
    ASSUME HubInv, hub_lock_closed_links \/ hub_unlock_closed_links
    PROVE  HubInv'
<1>1. /\ hub.pc \in {"cleanup", "delete"} /\ hub.link \in Links
      /\ hub' = [pc |-> IF hub.pc = "cleanup" THEN "delete" ELSE "start", link |-> hub.link]
      /\ owner' = IF hub.pc = "cleanup" THEN "hub" ELSE "none"
      /\ owner = IF hub.pc = "cleanup" THEN "none" ELSE "hub"
    BY DEF hub_lock_closed_links, hub_unlock_closed_links, LockClosedLinks, UnlockClosedLinks,
           MutexFree, HubInv, TypeOK, Locks
<1>2. UNCHANGED <<quit, app_quit, deleter, stop, castVars, listVars, object, open, thread, held>>
    BY DEF hub_lock_closed_links, hub_unlock_closed_links, LockClosedLinks, UnlockClosedLinks,
           HubUnchanged
<1>3. Starting' = Starting /\ Alive' = Alive /\ ToJoin' = ToJoin
    BY <1>1, <1>2 DEF Starting, Alive, ToJoin
<1>4. TypeOK'
    <2>1. hub' \in [pc: {"add", "cleanup", "delete", "start"}, link: Links]
        BY <1>1
    <2>2. owner' \in {"none", "hub", "deleter"} \cup Casters
        BY <1>1
    <2> QED BY <1>2, <2>1, <2>2 DEF HubInv, TypeOK, castVars, listVars
<1>5. Located'
    BY <1>2, <1>3 DEF HubInv, Located, listVars
<1>6. Placed'
    BY <1>1, <1>2, <1>3 DEF HubInv, Placed, listVars
<1>7. Locks'
    BY <1>1, <1>2, <1>3, HubAssumption DEF HubInv, Locks, castVars, Casters
<1>8. Deletion'
    BY <1>1, <1>2 DEF HubInv, Deletion, castVars, listVars
<1> QED BY <1>4, <1>5, <1>6, <1>7, <1>8 DEF HubInv

(* A closed link is deleted by a thread that holds links_mutex, while no   *)
(* broadcast and no one that joins has it.                                 *)
LEMMA DeleteLink ==
    ASSUME HubInv, owner \in {"hub", "deleter"}, DeleteClosedLink,
           UNCHANGED <<quit, app_quit, deleter, hub, stop, castVars>>
    PROVE  HubInv'
<1>1. PICK c \in closed :
        /\ thread[c] = "done" /\ closed' = closed \ {c}
        /\ object' = [object EXCEPT ![c] = "freed"]
        /\ open' = [open EXCEPT ![c] = FALSE]
    BY DEF DeleteClosedLink, delete_messagelink
<1>2. UNCHANGED <<links, owner, thread>>
    BY DEF DeleteClosedLink
<1>2a. held' \subseteq held
    BY DEF DeleteClosedLink
<1>3. c \in Links /\ ToJoin = {} /\ ToJoin' = {} /\ Starting' = Starting /\ Alive' = Alive \ {c}
    BY <1>1 DEF HubInv, TypeOK, Locks, Deletion, ToJoin, Starting, Alive
<1>4. c \notin links \cup Starting
    BY <1>1, <1>3 DEF HubInv, Placed, Working
<1>5. \A t \in Casters : cast[t].pc # "send"
    BY HubAssumption DEF HubInv, Locks, Casters
<1>6. TypeOK'
    BY <1>1, <1>2, <1>2a, <1>3 DEF HubInv, TypeOK, castVars
<1>7. Located'
    BY <1>1, <1>2, <1>3, <1>4 DEF HubInv, Located
<1>8. Placed'
    BY <1>1, <1>2, <1>3, <1>4 DEF HubInv, TypeOK, Placed, Working
<1>9. Locks'
    BY <1>2, <1>5 DEF HubInv, Locks, castVars
<1>10. Deletion'
    BY <1>1, <1>2 DEF HubInv, Deletion, castVars
<1> QED BY <1>6, <1>7, <1>8, <1>9, <1>10 DEF HubInv

(* The thread of the link is started; the link is in the list.             *)
LEMMA StartLink ==
    ASSUME HubInv, server_messagelink_read_in_background
    PROVE  HubInv'
<1>1. /\ hub.pc = "start" /\ hub.link \in Links
      /\ hub' = [pc |-> "accept"]
      /\ thread' = [thread EXCEPT ![hub.link] = "read"]
    BY DEF server_messagelink_read_in_background, HubInv, TypeOK
<1>2. UNCHANGED <<quit, app_quit, deleter, stop, castVars, listVars, owner, object, open, held>>
    BY DEF server_messagelink_read_in_background, HubUnchanged
<1>3. /\ Starting = {hub.link} /\ Starting' = {} /\ Alive' = Alive /\ ToJoin' = ToJoin
      /\ hub.link \in links \ closed
    BY <1>1, <1>2 DEF HubInv, Placed, Starting, Alive, ToJoin
<1>4. TypeOK'
    BY <1>1, <1>2 DEF HubInv, TypeOK, castVars, listVars
<1>5. Located'
    BY <1>2, <1>3 DEF HubInv, Located, listVars
<1>6. Placed'
    BY <1>1, <1>2, <1>3 DEF HubInv, TypeOK, Located, Placed, listVars, Working, Alive
<1>7. Locks'
    BY <1>1, <1>2, <1>3 DEF HubInv, TypeOK, Placed, Locks, castVars
<1>8. Deletion'
    BY <1>1, <1>2 DEF HubInv, Deletion, castVars, listVars
<1> QED BY <1>4, <1>5, <1>6, <1>7, <1>8 DEF HubInv

(* The thread of a link goes from one place to another of the same kind:   *)
(* it works, or it is in a handler without a broadcast.                    *)
LEMMA LinkWorks ==
    ASSUME HubInv, NEW c \in Links,
           \/ link_closed(c) \/ link_stopped(c) \/ link_onmessage(c)
           \/ link_onmessage_done(c) \/ link_reads_on(c)
    PROVE  HubInv'
<1>1. /\ thread[c] \in {"read", "handler"}
      /\ \/ thread[c] = "read" /\ thread' = [thread EXCEPT ![c] = "remove"] /\ cast' = cast
            /\ casts' = casts
         \/ thread[c] = "handler" /\ cast[c].pc = "none" /\ cast' = cast /\ casts' = casts
            /\ thread' = [thread EXCEPT ![c] = "read"]
         \/ thread[c] = "read" /\ cast' = cast /\ casts' = casts
            /\ thread' = [thread EXCEPT ![c] = "read"]
         \/ thread[c] = "read" /\ thread' = [thread EXCEPT ![c] = "handler"]
            /\ cast' = [cast EXCEPT ![c] = [pc |-> "mem"]]
            /\ casts < MaxCasts /\ casts' = casts + 1
    BY DEF link_closed, link_stopped, link_onmessage, link_onmessage_done, link_reads_on, ThreadGoto,
           NoCast
<1>2. UNCHANGED <<quit, app_quit, owner, hub, deleter, object, stop, mem, listVars>>
    BY DEF link_closed, link_stopped, link_onmessage, link_onmessage_done, link_reads_on, ThreadGoto
<1>3. (open' = open \/ open' = [open EXCEPT ![c] = FALSE]) /\ held' \subseteq held
    BY DEF link_closed, link_stopped, link_onmessage, link_onmessage_done, link_reads_on,
           ThreadGoto
<1>4. Starting' = Starting /\ Alive' = Alive /\ ToJoin' = ToJoin
    BY <1>2 DEF Starting, Alive, ToJoin
<1>5. /\ \A d \in Links \ {c} : thread'[d] = thread[d]
      /\ thread'[c] \in Working /\ thread[c] \in Working
      /\ thread' \in [Links -> {"none", "read", "handler", "remove", "finish", "done"}]
    BY <1>1 DEF HubInv, TypeOK, Working
<1>6. /\ \A t \in Casters \ {c} : cast'[t] = cast[t]
      /\ cast'[c].pc # "none" => thread'[c] = "handler"
      /\ cast'[c] = cast[c] \/ (cast[c].pc = "none" /\ cast'[c].pc = "mem")
      /\ c # App /\ c \in Casters
    BY <1>1, HubAssumption DEF HubInv, TypeOK, Locks, Casters
<1>7. TypeOK'
    <2>1. cast' \in [Casters -> [pc: {"none", "mem", "lock"}] \cup [pc: {"send"}, todo: SUBSET Links]]
        BY <1>1 DEF HubInv, TypeOK
    <2>2. casts' \in 0..MaxCasts
        BY <1>1, HubAssumption DEF HubInv, TypeOK
    <2>3. open' \in [Links -> BOOLEAN] /\ held' \subseteq Links
        BY <1>3 DEF HubInv, TypeOK
    <2> QED BY <1>2, <1>5, <2>1, <2>2, <2>3 DEF HubInv, TypeOK, listVars
<1>8. Located'
    BY <1>2, <1>4 DEF HubInv, Located, listVars
<1>9. Placed'
    BY <1>2, <1>4, <1>5 DEF HubInv, Placed, listVars, Working
<1>10. Locks'
    BY <1>2, <1>4, <1>5, <1>6 DEF HubInv, Locks, Casters
<1>11. Deletion'
    BY <1>2, <1>6 DEF HubInv, Deletion, listVars, Casters
<1> QED BY <1>7, <1>8, <1>9, <1>10, <1>11 DEF HubInv

(* Its peer stops and holds it: nothing else changes.                      *)
LEMMA PeerStops ==
    ASSUME HubInv, NEW c \in Links, peer_stops(c)
    PROVE  HubInv'
<1>1. /\ UNCHANGED <<quit, app_quit, listVars, owner, hub, deleter, object, open, stop,
                     thread, castVars>>
      /\ held' = held \cup {c}
    BY DEF peer_stops
<1>2. Starting' = Starting /\ Alive' = Alive /\ ToJoin' = ToJoin
    BY <1>1 DEF Starting, Alive, ToJoin
<1>3. TypeOK'
    BY <1>1 DEF HubInv, TypeOK, listVars, castVars
<1>4. Located' /\ Placed' /\ Locks' /\ Deletion'
    BY <1>1, <1>2 DEF HubInv, Located, Placed, Locks, Deletion, listVars, castVars
<1> QED BY <1>3, <1>4 DEF HubInv

(* It ends: it moves its link to the other list, then is done.             *)
LEMMA LinkEnds ==
    ASSUME HubInv, NEW c \in Links, messagehub_remove_link(c) \/ link_finished(c)
    PROVE  HubInv'
<1>1. \/ /\ thread[c] = "remove" /\ thread' = [thread EXCEPT ![c] = "finish"]
         /\ links' = links \ {c} /\ closed' = closed \cup {c}
      \/ /\ thread[c] = "finish" /\ thread' = [thread EXCEPT ![c] = "done"]
         /\ links' = links /\ closed' = closed
    BY DEF messagehub_remove_link, link_finished, ThreadGoto, listVars
<1>2. UNCHANGED <<quit, app_quit, owner, hub, deleter, object, stop, open, castVars>>
    BY DEF messagehub_remove_link, link_finished, ThreadGoto, castVars
<1>2a. held' \subseteq held
    BY DEF messagehub_remove_link, link_finished, ThreadGoto
<1>3. Starting' = Starting /\ Alive' = Alive /\ ToJoin' = ToJoin
    BY <1>2 DEF Starting, Alive, ToJoin
<1>4. /\ \A d \in Links \ {c} : thread'[d] = thread[d]
      /\ thread'[c] \in {"finish", "done"} /\ thread[c] \in {"remove", "finish"}
      /\ thread' \in [Links -> {"none", "read", "handler", "remove", "finish", "done"}]
      /\ c \in closed' /\ c \notin links'
    BY <1>1 DEF HubInv, TypeOK, Placed, Working
<1>5. c \in Alive /\ c \notin Starting
    BY <1>4 DEF HubInv, Placed, Located, Working
<1>6. TypeOK'
    BY <1>1, <1>2, <1>2a, <1>4 DEF HubInv, TypeOK, castVars
<1>7. Located'
    BY <1>1, <1>3, <1>5 DEF HubInv, Located
<1>8. Placed'
    BY <1>1, <1>2, <1>3, <1>4, <1>5 DEF HubInv, Placed, Alive, Working
<1>9. Locks'
    BY <1>2, <1>3, <1>4 DEF HubInv, Locks, castVars
<1>10. Deletion'
    <2>1. deleter.pc # "freed" \/ (links' = links /\ closed' = closed)
        BY <1>1 DEF HubInv, Placed, Deletion, ToJoin, Working
    <2> QED BY <1>1, <1>2, <2>1 DEF HubInv, Deletion, castVars
<1> QED BY <1>6, <1>7, <1>8, <1>9, <1>10 DEF HubInv

(* A step of a broadcast changes nothing but the broadcast and the locks.  *)
LEMMA CastUntouched ==
    ASSUME HubInv, CastUnchanged, TypeOK', Locks', cast'[App].pc = "none" \/ deleter.pc = "none"
    PROVE  HubInv'
<1>1. Starting' = Starting /\ Alive' = Alive /\ ToJoin' = ToJoin
    BY DEF CastUnchanged, linkVars, Starting, Alive, ToJoin
<1>2. Located' /\ Placed'
    BY <1>1 DEF HubInv, Located, Placed, CastUnchanged, listVars, linkVars
<1>3. Deletion'
    BY DEF HubInv, Deletion, CastUnchanged, listVars
<1> QED BY <1>2, <1>3 DEF HubInv

(* The application starts a broadcast only while it has a hub.             *)
LEMMA AppCasts ==
    ASSUME HubInv, app_broadcast \/ app_broadcast_text
    PROVE  HubInv'
<1>1. /\ cast[App].pc = "none" /\ deleter.pc = "none" /\ casts < MaxCasts /\ casts' = casts + 1
      /\ \/ cast' = [cast EXCEPT ![App] = [pc |-> "mem"]]
         \/ cast' = [cast EXCEPT ![App] = [pc |-> "lock"]]
      /\ CastUnchanged /\ UNCHANGED <<owner, mem>>
    BY DEF app_broadcast, app_broadcast_text, NoCast
<1>2. /\ App \in Casters /\ App \notin Links
      /\ \A t \in Casters \ {App} : cast'[t] = cast[t]
      /\ cast'[App].pc \in {"mem", "lock"}
    BY <1>1, HubAssumption DEF HubInv, TypeOK, Casters
<1>3. TypeOK'
    <2>1. cast' \in [Casters -> [pc: {"none", "mem", "lock"}] \cup [pc: {"send"}, todo: SUBSET Links]]
        BY <1>1 DEF HubInv, TypeOK
    <2>2. casts' \in 0..MaxCasts
        BY <1>1, HubAssumption DEF HubInv, TypeOK
    <2> QED BY <1>1, <2>1, <2>2 DEF HubInv, TypeOK, CastUnchanged, listVars, linkVars
<1>4. Alive' = Alive
    BY <1>1 DEF CastUnchanged, linkVars, Alive
<1>5. Locks'
    BY <1>1, <1>2, <1>4 DEF HubInv, Locks, CastUnchanged, linkVars, Casters
<1> QED BY <1>1, <1>3, <1>5, CastUntouched

(* A broadcast takes hub->mem, then links_mutex, with which come the links *)
(* that are in the list, all of them alive.                                *)
LEMMA CastSteps ==
    ASSUME HubInv, NEW t \in Casters, CastStep(t) \/ broadcast_send(t)
    PROVE  HubInv'
<1>1. /\ CastUnchanged /\ casts' = casts
      /\ \/ /\ cast[t].pc = "mem" /\ mem = "none" /\ mem' = t /\ owner' = owner
            /\ cast' = [cast EXCEPT ![t] = [pc |-> "lock"]]
         \/ /\ cast[t].pc = "lock" /\ owner = "none" /\ owner' = t /\ mem' = mem
            /\ \E todo \in SUBSET links :
                cast' = [cast EXCEPT ![t] = [pc |-> "send", todo |-> todo]]
         \/ /\ cast[t].pc = "send" /\ owner' = owner /\ mem' = mem
            /\ \E todo \in SUBSET cast[t].todo :
                cast' = [cast EXCEPT ![t] = [pc |-> "send", todo |-> todo]]
         \/ /\ cast[t].pc = "send" /\ owner' = "none"
            /\ mem' = IF mem = t THEN "none" ELSE mem
            /\ cast' = [cast EXCEPT ![t] = NoCast]
    BY DEF CastStep, broadcast_lock_mem, messagehub_broadcast_text, broadcast_send,
           broadcast_unlock, MutexFree, HubInv, TypeOK
<1>2. /\ \A u \in Casters \ {t} : cast'[u] = cast[u]
      /\ cast[t].pc # "none"
      /\ t \notin {"none", "hub", "deleter"} /\ links \subseteq Alive
      /\ App \in Casters
    BY <1>1, HubAssumption DEF HubInv, TypeOK, Located, Casters
<1>3. Alive' = Alive
    BY <1>1 DEF CastUnchanged, linkVars, Alive
<1>4. PICK v \in [pc: {"none", "mem", "lock"}] \cup [pc: {"send"}, todo: SUBSET Links] :
        cast' = [cast EXCEPT ![t] = v]
    <2>1. NoCast \in [pc: {"none", "mem", "lock"}]
        BY DEF NoCast
    <2>2. cast[t].pc = "send" => cast[t].todo \subseteq Links
        BY DEF HubInv, TypeOK
    <2> QED BY <1>1, <2>1, <2>2 DEF HubInv, TypeOK
<1>5. TypeOK'
    <2>1. cast' \in [Casters -> [pc: {"none", "mem", "lock"}] \cup [pc: {"send"}, todo: SUBSET Links]]
        BY <1>4 DEF HubInv, TypeOK
    <2>2. owner' \in {"none", "hub", "deleter"} \cup Casters /\ mem' \in {"none"} \cup Casters
        BY <1>1 DEF HubInv, TypeOK
    <2> QED BY <1>1, <2>1, <2>2 DEF HubInv, TypeOK, CastUnchanged, listVars, linkVars
<1>6. Locks'
    <2>1. UNCHANGED <<hub, deleter, thread>>
        BY <1>1 DEF CastUnchanged, linkVars
    <2>2. (owner' = "hub" <=> hub.pc = "delete") /\ (owner' = "deleter" <=> deleter.pc = "delete")
        BY <1>1, <1>2 DEF HubInv, Locks
    <2>3. /\ owner' = t <=> cast'[t].pc = "send"
          /\ mem' = t => cast'[t].pc \in {"lock", "send"}
          /\ cast'[t].pc = "send" => cast'[t].todo \subseteq Alive
        BY <1>1, <1>2 DEF HubInv, TypeOK, Locks, NoCast
    <2>4. ASSUME NEW u \in Casters \ {t}
          PROVE  /\ owner' = u <=> cast'[u].pc = "send"
                 /\ mem' = u => cast'[u].pc \in {"lock", "send"}
                 /\ cast'[u].pc = "send" => cast'[u].todo \subseteq Alive
        <3>1. u # "none"
            BY HubAssumption DEF Casters
        <3> QED BY <1>1, <1>2, <3>1 DEF HubInv, Locks
    <2>5. \A c \in Links : cast'[c].pc # "none" => thread[c] = "handler"
        BY <1>2 DEF HubInv, Locks, Casters
    <2> QED BY <1>3, <2>1, <2>2, <2>3, <2>4, <2>5 DEF Locks
<1>7. cast'[App].pc = "none" \/ deleter.pc = "none"
    BY <1>2 DEF HubInv, Deletion
<1> QED BY <1>1, <1>5, <1>6, <1>7, CastUntouched

(* delete_messagehub waits for the hub's thread and takes its list.        *)
LEMMA DeleteBegins ==
    ASSUME HubInv, delete_messagehub \/ join_hub \/ take_links
    PROVE  HubInv'
<1>1. \/ /\ deleter.pc = "none" /\ cast[App].pc = "none" /\ quit' = TRUE
         /\ deleter' = [pc |-> "join_hub"] /\ links' = links
      \/ /\ deleter.pc = "join_hub" /\ hub.pc = "done" /\ quit' = quit
         /\ deleter' = [pc |-> "take"] /\ links' = links
      \/ /\ deleter.pc = "take" /\ quit' = quit
         /\ deleter' = [pc |-> "stop", todo |-> links] /\ links' = {}
    BY DEF delete_messagehub, join_hub, take_links, DeleterGoto, NoCast, listVars
<1>2. UNCHANGED <<app_quit, hub, castVars, closed, owner, linkVars>>
    BY DEF delete_messagehub, join_hub, take_links, DeleterGoto, listVars
<1>3. Starting' = Starting /\ Alive' = Alive
    BY <1>2 DEF Starting, Alive, linkVars
<1>4. /\ ToJoin = {} /\ links' \cup ToJoin' = links
      /\ links' = {} \/ links' = links
      /\ links' # links \/ ToJoin' # {} => Starting = {}
    BY <1>1 DEF HubInv, Deletion, ToJoin, Starting
<1>5. TypeOK'
    <2>1. deleter' \in [pc: {"none", "join_hub", "take", "delete", "freed"}]
                  \cup [pc: {"stop"}, todo: SUBSET Links]
        BY <1>1 DEF HubInv, TypeOK
    <2>2. quit' \in BOOLEAN /\ links' \subseteq Links
        BY <1>1 DEF HubInv, TypeOK
    <2> QED BY <1>2, <2>1, <2>2 DEF HubInv, TypeOK, linkVars, castVars
<1>6. Located'
    BY <1>2, <1>3, <1>4 DEF HubInv, Located
<1>7. Placed'
    BY <1>1, <1>2, <1>3, <1>4 DEF HubInv, Placed, linkVars, Working
<1>8. Locks'
    BY <1>1, <1>2, <1>3 DEF HubInv, Locks, linkVars, castVars
<1>9. Deletion'
    BY <1>1, <1>2 DEF HubInv, Deletion, castVars
<1> QED BY <1>5, <1>6, <1>7, <1>8, <1>9 DEF HubInv

(* It stops the threads one after the other and joins them.  A link whose  *)
(* thread has ended is in the list of closed links.                        *)
LEMMA DeleteJoins ==
    ASSUME HubInv, messagelink_stop_thread \/ join_link
    PROVE  HubInv'
<1>1. /\ deleter.pc \in {"stop", "join"} /\ deleter.todo \subseteq Links
      /\ \/ \E c \in deleter.todo :
                /\ deleter.pc = "stop" /\ stop' = [stop EXCEPT ![c] = TRUE]
                /\ deleter' = [pc |-> "join", link |-> c, todo |-> deleter.todo \ {c}]
         \/ /\ deleter.pc = "join" /\ thread[deleter.link] = "done" /\ deleter.link \in Links
            /\ stop' = stop
            /\ deleter' = [pc |-> "stop", todo |-> deleter.todo]
    BY DEF messagelink_stop_thread, join_link, DeleterGoto, linkVars, HubInv, TypeOK
<1>2. UNCHANGED <<app_quit, hub, castVars, quit, listVars, owner, object, open, thread, held>>
    BY DEF messagelink_stop_thread, join_link, DeleterGoto, linkVars
<1>3. Starting' = Starting /\ Alive' = Alive
    BY <1>2 DEF Starting, Alive
<1>4. /\ ToJoin' \subseteq ToJoin
      /\ \A c \in ToJoin \ ToJoin' : thread[c] = "done"
    BY <1>1 DEF ToJoin
<1>5. \A c \in ToJoin \ ToJoin' : c \in closed
    BY <1>4 DEF HubInv, Located, Placed, Alive
<1>6. TypeOK'
    <2>1. deleter' \in [pc: {"stop"}, todo: SUBSET Links]
                  \cup [pc: {"join"}, link: Links, todo: SUBSET Links]
        BY <1>1
    <2>2. stop' \in [Links -> BOOLEAN]
        BY <1>1 DEF HubInv, TypeOK
    <2> QED BY <1>2, <2>1, <2>2 DEF HubInv, TypeOK, listVars, castVars
<1>7. Located'
    BY <1>2, <1>3, <1>4, <1>5 DEF HubInv, Located, listVars
<1>8. Placed'
    BY <1>2, <1>3, <1>4 DEF HubInv, Placed, listVars, Working
<1>9. Locks'
    BY <1>1, <1>2, <1>3 DEF HubInv, Locks, castVars
<1>10. Deletion'
    BY <1>1, <1>2 DEF HubInv, Deletion, listVars, castVars
<1> QED BY <1>6, <1>7, <1>8, <1>9, <1>10 DEF HubInv

(* It deletes the closed links, which are all the links there are.         *)
LEMMA DeleteEnds ==
    ASSUME HubInv, deleter_lock_closed_links \/ deleter_unlock_closed_links
    PROVE  HubInv'
<1>1. \/ /\ deleter.pc = "stop" /\ deleter.todo = {} /\ owner = "none" /\ owner' = "deleter"
         /\ deleter' = [pc |-> "delete"]
      \/ /\ deleter.pc = "delete" /\ closed = {} /\ owner' = "none" /\ deleter' = [pc |-> "freed"]
    BY DEF deleter_lock_closed_links, deleter_unlock_closed_links, LockClosedLinks,
           UnlockClosedLinks, DeleterGoto, MutexFree
<1>2. UNCHANGED <<app_quit, hub, castVars, quit, stop, listVars, object, open, thread, held>>
    BY DEF deleter_lock_closed_links, deleter_unlock_closed_links, LockClosedLinks,
           UnlockClosedLinks, DeleterGoto
<1>3. Starting' = Starting /\ Alive' = Alive /\ ToJoin = {} /\ ToJoin' = {}
    BY <1>1, <1>2 DEF Starting, Alive, ToJoin
<1>4. owner = "deleter" \/ owner = "none"
    BY <1>1 DEF HubInv, Locks
<1>5. TypeOK'
    <2>1. deleter' \in [pc: {"none", "join_hub", "take", "delete", "freed"}]
        BY <1>1
    <2>2. owner' \in {"none", "hub", "deleter"} \cup Casters
        BY <1>1
    <2> QED BY <1>2, <2>1, <2>2 DEF HubInv, TypeOK, listVars, castVars
<1>6. Located'
    BY <1>2, <1>3 DEF HubInv, Located, listVars
<1>7. Placed'
    BY <1>2, <1>3 DEF HubInv, Placed, listVars
<1>8. Locks'
    BY <1>1, <1>2, <1>3, <1>4, HubAssumption DEF HubInv, Locks, castVars, Casters
<1>9. Deletion'
    BY <1>1, <1>2 DEF HubInv, Deletion, listVars, castVars
<1> QED BY <1>5, <1>6, <1>7, <1>8, <1>9 DEF HubInv

LEMMA HubInvStep == HubInv /\ [Next]_vars => HubInv'
<1> SUFFICES ASSUME HubInv, [Next]_vars PROVE HubInv'
    OBVIOUS
<1>1. CASE messagehub_wait_connection \/ messagehub_handle_request \/ messagehub_run_done
    BY <1>1, HubWaits DEF messagehub_wait_connection, messagehub_handle_request,
        messagehub_run_done, HubUnchanged
<1>2. CASE messagehub_handle_websocket \/ messagehub_refuse_websocket
    BY <1>2, WebSocketSteps
<1>3. CASE messagehub_add_link
    BY <1>3, AddLink
<1>4. CASE hub_lock_closed_links \/ hub_unlock_closed_links
    BY <1>4, HubLocks
<1>5. CASE hub_delete_closed_link \/ deleter_delete_closed_link
    <2>1. owner \in {"hub", "deleter"} /\ DeleteClosedLink
        BY <1>5 DEF hub_delete_closed_link, deleter_delete_closed_link, HubInv, Locks
    <2>2. UNCHANGED <<quit, app_quit, deleter, hub, stop, castVars>>
        BY <1>5 DEF hub_delete_closed_link, deleter_delete_closed_link, HubUnchanged, DeleterGoto
    <2> QED BY <2>1, <2>2, DeleteLink
<1>6. CASE server_messagelink_read_in_background
    BY <1>6, StartLink
<1>7. ASSUME NEW c \in Links, LinkEvent(c) \/ LinkStep(c)
      PROVE  HubInv'
    BY <1>7, LinkWorks, LinkEnds, PeerStops DEF LinkEvent, LinkStep
<1>8. CASE app_broadcast \/ app_broadcast_text
    BY <1>8, AppCasts
<1>9. ASSUME NEW t \in Casters, CastStep(t) \/ broadcast_send(t)
      PROVE  HubInv'
    BY <1>9, CastSteps
<1>10. CASE delete_messagehub \/ join_hub \/ take_links
    BY <1>10, DeleteBegins
<1>11. CASE messagelink_stop_thread \/ join_link
    BY <1>11, DeleteJoins
<1>12. CASE deleter_lock_closed_links \/ deleter_unlock_closed_links
    BY <1>12, DeleteEnds
<1>13. CASE AppQuit \/ UNCHANGED vars
    <2>1. /\ app_quit' \in BOOLEAN
          /\ UNCHANGED <<quit, listVars, owner, hub, deleter, linkVars, castVars>>
        BY <1>13 DEF AppQuit, vars, listVars, linkVars, castVars, HubInv, TypeOK
    <2>2. Starting' = Starting /\ Alive' = Alive /\ ToJoin' = ToJoin
        BY <2>1 DEF Starting, Alive, ToJoin, linkVars
    <2>3. TypeOK'
        BY <2>1 DEF HubInv, TypeOK, listVars, linkVars, castVars
    <2>4. Located' /\ Placed' /\ Locks' /\ Deletion'
        BY <2>1, <2>2 DEF HubInv, Located, Placed, Locks, Deletion, listVars, linkVars, castVars
    <2> QED BY <2>3, <2>4 DEF HubInv
<1> QED
    BY <1>1, <1>2, <1>3, <1>4, <1>5, <1>6, <1>7, <1>8, <1>9, <1>10, <1>11, <1>12, <1>13
    DEF Next, HubIO, HubStep, DeleterStep

LEMMA HubInvImplies == HubInv => LinkFreedLast /\ HubFreedLast
<1> SUFFICES ASSUME HubInv PROVE LinkFreedLast /\ HubFreedLast
    OBVIOUS
<1>1. ASSUME NEW c \in Links, object[c] = "freed"
      PROVE  /\ thread[c] \in {"none", "done"}
             /\ hub.pc \in {"add", "cleanup", "delete", "start"} => hub.link # c
             /\ \A t \in Casters : cast[t].pc = "send" => c \notin cast[t].todo
             /\ c \notin links \cup closed
    <2>1. c \notin Alive /\ c \notin links \cup closed \cup Starting \cup ToJoin
        BY <1>1 DEF Alive, HubInv, Located
    <2>2. thread[c] \in {"none", "done"}
        BY <2>1 DEF HubInv, TypeOK, Placed, Working
    <2>3. hub.pc \in {"add", "cleanup", "delete", "start"} => hub.link # c
        BY <2>1 DEF Starting
    <2>4. \A t \in Casters : cast[t].pc = "send" => c \notin cast[t].todo
        BY <2>1 DEF HubInv, Locks
    <2> QED BY <2>1, <2>2, <2>3, <2>4
<1>2. ASSUME deleter.pc = "freed"
      PROVE  /\ hub.pc = "done" /\ owner = "none" /\ mem = "none"
             /\ \A t \in Casters : cast[t] = NoCast
             /\ \A c \in Links : thread[c] \in {"none", "done"} /\ object[c] # "alive"
    <2>1. hub.pc = "done" /\ Alive = {} /\ links = {} /\ closed = {} /\ ToJoin = {}
        BY <1>2 DEF HubInv, Deletion, Located, ToJoin, Starting
    <2>2. \A c \in Links : thread[c] \in {"none", "done"} /\ object[c] # "alive"
        BY <2>1 DEF HubInv, TypeOK, Placed, Working, Alive
    <2>3. \A t \in Casters : cast[t].pc = "none"
        BY <1>2, <2>2 DEF HubInv, Locks, Deletion, Casters
    <2>4. \A t \in Casters : cast[t] = NoCast
        BY <2>3, Typed DEF HubInv
    <2>5. owner = "none" /\ mem = "none"
        BY <1>2, <2>1, <2>3 DEF HubInv, TypeOK, Locks
    <2> QED BY <2>1, <2>2, <2>4, <2>5
<1> QED BY <1>1, <1>2 DEF LinkFreedLast, HubFreedLast

-----------------------------------------------------------------------------
(* The variables have their types.                                         *)
THEOREM TypeCorrect == Spec => []TypeOK
<1>1. HubInv => TypeOK
    BY DEF HubInv
<1> QED BY <1>1, HubInvInit, HubInvStep, PTL DEF Spec

(* A link object is freed (delete_messagelink) after its thread has ended, *)
(* when no list holds it, the hub's thread is not about to start it and no *)
(* broadcast is going to send to it.                                       *)
THEOREM LinksAreFreedLast == Spec => []LinkFreedLast
BY HubInvInit, HubInvStep, HubInvImplies, PTL DEF Spec

(* The hub is freed (the end of delete_messagehub) after all its threads,  *)
(* its broadcasts and its links.                                           *)
THEOREM HubIsFreedLast == Spec => []HubFreedLast
BY HubInvInit, HubInvStep, HubInvImplies, PTL DEF Spec

-----------------------------------------------------------------------------
(***************************************************************************)
(* Launch: for every number of nodes and every bound on faults and         *)
(* signals, when rclaunch's child has ended in order, no app is left       *)
(* except one whose waitpid was interrupted, which was asked to end, and   *)
(* none was killed that had not been asked four times.                     *)
(*                                                                         *)
(* The threads first (LaunchInv).  An app is only there while its thread   *)
(* is between the fork and waitpid, or has been interrupted there          *)
(* (AppHasThread); and a thread is started only once (NotYetStarted), or a *)
(* second one would find the app of the first.  The signals have an        *)
(* invariant of their own (AskInv).                                        *)
(***************************************************************************)

NoApp == {"none", "gone"}
Idle == {"none", "check", "fork", "finished", "joined"}

StopPcs == {"stop", "slept"}

(* The functions have the runs as their domain and the child has the       *)
(* fields of the place where it is.                                        *)
LaunchTypeOK ==
    /\ DOMAIN runner = Runs /\ DOMAIN status = Runs
    /\ DOMAIN app = Runs /\ DOMAIN asked = Runs
    /\ child.pc \in {"registry", "contact", "start", "loop", "hup", "stop", "slept", "exited"}
    /\ child.pc = "start" => child.i \in Nat \ {0}
    /\ child.pc \in StopPcs => child.runs \in Seq(Runs)
    /\ child.pc = "slept" => child.runs # <<>>

AppHasThread ==
    child.pc # "exited" =>
        \A r \in Runs : runner[r] \in Idle => app[r] \in NoApp \/ r \in interrupted

(* The threads that the child has not started                              *)
NotYetStarted ==
    /\ child.pc = "registry" => \A r \in Runs : runner[r] = "none"
    /\ child.pc = "contact" => \A r \in NodeSet : runner[r] = "none"
    /\ child.pc = "start" => \A j \in DOMAIN Nodes : j >= child.i => runner[Nodes[j]] = "none"

(* The status that run_stop looks at is that of a thread that has ended.   *)
FinishedIsOver ==
    \A r \in Runs : status[r] = "finished" => runner[r] \in {"finished", "joined"}

LaunchInv == LaunchTypeOK /\ AppHasThread /\ NotYetStarted /\ FinishedIsOver

-----------------------------------------------------------------------------
LEMMA NodesAreRuns ==
    /\ Registry \in Runs /\ NodeSet \subseteq Runs /\ Registry \notin NodeSet
    /\ DOMAIN Nodes = 1..Len(Nodes) /\ Len(Nodes) \in Nat
    /\ \A j \in DOMAIN Nodes : Nodes[j] \in NodeSet
    /\ \A i, j \in DOMAIN Nodes : Nodes[i] = Nodes[j] => i = j
    /\ Nodes \in Seq(Runs)
<1>1. Nodes \in Seq(NodeSet)
    BY LaunchAssumption
<1>2. NodeSet \subseteq Runs
    BY DEF Runs
<1>3. Nodes \in Seq(Runs)
    BY <1>1, <1>2
<1>4. DOMAIN Nodes = 1..Len(Nodes) /\ Len(Nodes) \in Nat
    BY <1>1
<1> QED BY <1>2, <1>3, <1>4, LaunchAssumption DEF Runs, NodeSet

LEMMA LaunchInvInit == LaunchInit => LaunchInv
BY DEF LaunchInit, LaunchInv, LaunchTypeOK, AppHasThread, NotYetStarted, FinishedIsOver, NoApp,
       StopPcs

(* A step that leaves the child and the threads as they are, and creates   *)
(* no app, keeps the invariant.                                            *)
LEMMA AppsOnly ==
    ASSUME LaunchInv, UNCHANGED <<child, runner, status, interrupted>>,
           DOMAIN app' = Runs, DOMAIN asked' = Runs,
           \A r \in Runs : app[r] \in NoApp => app'[r] \in NoApp
    PROVE LaunchInv'
BY DEF LaunchInv, LaunchTypeOK, AppHasThread, NotYetStarted, FinishedIsOver, NoApp

LEMMA AppSteps ==
    ASSUME LaunchInv, NEW r \in Runs, app_exec(r) \/ app_end(r)
    PROVE LaunchInv'
<1>1. UNCHANGED <<child, runner, status, interrupted>> /\ UNCHANGED asked /\ app[r] \notin NoApp
    BY DEF app_exec, app_end, AppStep, runVars, NoApp
<1>2. DOMAIN app' = Runs /\ \A s \in Runs \ {r} : app'[s] = app[s]
    BY DEF app_exec, app_end, LaunchInv, LaunchTypeOK
<1>3. DOMAIN asked' = Runs
    BY <1>1 DEF LaunchInv, LaunchTypeOK
<1> QED BY <1>1, <1>2, <1>3, AppsOnly

(* The thread of a run: its app is there from the fork to waitpid.         *)
LEMMA ThreadSteps ==
    ASSUME LaunchInv, NEW r \in Runs, Works(r)
    PROVE LaunchInv'
<1>1. child.pc # "exited" /\ child' = child
    BY DEF Works, run_check, run_fork, run_assign, run_waitpid, ThreadStep
<1>2. /\ DOMAIN runner' = Runs /\ DOMAIN app' = Runs /\ DOMAIN asked' = Runs
      /\ DOMAIN status' = Runs
      /\ \A s \in Runs \ {r} : runner'[s] = runner[s] /\ app'[s] = app[s]
                               /\ status'[s] = status[s]
    BY DEF Works, run_check, run_fork, run_assign, run_waitpid, ThreadGo, appVars,
           LaunchInv, LaunchTypeOK
<1>3. runner[r] # "none"
    BY DEF Works, run_check, run_fork, run_assign, run_waitpid
<1>4. /\ runner'[r] \in Idle => app'[r] \in NoApp \/ r \in interrupted'
      /\ interrupted \subseteq interrupted'
    BY <1>1 DEF Works, run_check, run_fork, run_assign, run_waitpid, ThreadGo, appVars,
           LaunchInv, LaunchTypeOK, AppHasThread, Idle, NoApp
<1>5. LaunchTypeOK'
    BY <1>1, <1>2 DEF LaunchInv, LaunchTypeOK
<1>6. AppHasThread'
    BY <1>1, <1>2, <1>4 DEF LaunchInv, AppHasThread
<1>7. NotYetStarted'
    BY <1>1, <1>2, <1>3, NodesAreRuns DEF LaunchInv, NotYetStarted
<1>9. status'[r] = "finished" => runner'[r] \in {"finished", "joined"}
    BY DEF Works, run_check, run_fork, run_assign, run_waitpid, ThreadGo,
           LaunchInv, LaunchTypeOK, FinishedIsOver
<1>10. FinishedIsOver'
    BY <1>2, <1>9 DEF LaunchInv, FinishedIsOver
<1> QED BY <1>5, <1>6, <1>7, <1>10 DEF LaunchInv

(* The child starts a thread that was not started.                         *)
LEMMA StartSteps ==
    ASSUME LaunchInv, start_registry \/ nodes_start
    PROVE LaunchInv'
<1> DEFINE r == IF child.pc = "registry" THEN Registry ELSE Nodes[child.i]
<1>1. /\ r \in Runs /\ runner[r] = "none" /\ run_start(r)
      /\ child.pc \in {"registry", "start"} /\ child'.pc \in {"contact", "start"}
    BY NodesAreRuns DEF start_registry, nodes_start, ChildGo, LaunchInv, LaunchTypeOK,
        NotYetStarted
<1>2. UNCHANGED <<app, asked, interrupted>>
    BY <1>1 DEF run_start, start_registry, nodes_start, ChildStep
<1>3. /\ DOMAIN runner' = Runs
      /\ \A s \in Runs \ {r} : runner'[s] = runner[s]
      /\ runner'[r] \in {"none", "check"}
      /\ DOMAIN status' = Runs
      /\ \A s \in Runs \ {r} : status'[s] = status[s]
      /\ status'[r] \in {status[r], "starting"}
    BY <1>1 DEF run_start, ThreadGo, LaunchInv, LaunchTypeOK
<1>4. LaunchTypeOK'
    <2>1. child'.pc = "start" => child'.i \in Nat \ {0}
        BY <1>1 DEF start_registry, nodes_start, ChildGo, LaunchInv, LaunchTypeOK
    <2> QED BY <1>1, <1>2, <1>3, <2>1 DEF LaunchInv, LaunchTypeOK, StopPcs
<1>5. AppHasThread'
    BY <1>1, <1>2, <1>3 DEF LaunchInv, AppHasThread, Idle
<1>6. NotYetStarted'
    <2>1. CASE start_registry
        <3>1. child'.pc = "contact" /\ child.pc = "registry"
            BY <2>1 DEF start_registry, ChildGo
        <3> QED BY <3>1, <1>3, NodesAreRuns DEF LaunchInv, NotYetStarted
    <2>2. CASE nodes_start
        <3>1. /\ child.pc = "start" /\ child'.pc = "start" /\ child'.i = child.i + 1
              /\ child.i \in DOMAIN Nodes
            BY <2>2, NodesAreRuns DEF nodes_start, ChildGo, LaunchInv, LaunchTypeOK
        <3>2. ASSUME NEW j \in DOMAIN Nodes, j >= child'.i PROVE runner'[Nodes[j]] = "none"
            <4>1. j >= child.i /\ j # child.i /\ Nodes[j] # Nodes[child.i]
                BY <3>1, <3>2, NodesAreRuns DEF LaunchInv, LaunchTypeOK
            <4>2. Nodes[j] \in Runs \ {r}
                BY <3>1, <4>1, NodesAreRuns
            <4> QED BY <3>1, <4>1, <4>2, <1>3 DEF LaunchInv, NotYetStarted
        <3> QED BY <3>1, <3>2 DEF NotYetStarted
    <2> QED BY <2>1, <2>2
<1>7. FinishedIsOver'
    BY <1>1, <1>3 DEF LaunchInv, FinishedIsOver
<1> QED BY <1>4, <1>5, <1>6, <1>7 DEF LaunchInv

(* A step of the child that starts and joins no thread                     *)
LEMMA ChildOnly ==
    ASSUME LaunchInv, UNCHANGED <<runner, status, interrupted>>,
           DOMAIN app' = Runs, DOMAIN asked' = Runs,
           \A r \in Runs : app[r] \in NoApp => app'[r] \in NoApp,
           child.pc # "exited",
           child'.pc \in {"contact", "start", "loop", "hup", "stop", "slept"},
           child'.pc = "start" => child.pc = "contact" /\ child'.i = 1,
           child'.pc = "contact" => child.pc = "contact",
           child'.pc \in StopPcs => child'.runs \in Seq(Runs),
           child'.pc = "slept" => child'.runs # <<>>
    PROVE LaunchInv'
<1>1. LaunchTypeOK'
    BY DEF LaunchInv, LaunchTypeOK
<1>2. AppHasThread' /\ FinishedIsOver'
    BY DEF LaunchInv, AppHasThread, FinishedIsOver, NoApp
<1>3. NotYetStarted'
    BY NodesAreRuns DEF LaunchInv, NotYetStarted
<1> QED BY <1>1, <1>2, <1>3 DEF LaunchInv

LEMMA SignalKeeps ==
    ASSUME LaunchInv, NEW r \in Runs, Signal(r, Hup) \/ Signal(r, stop_signal)
    PROVE /\ DOMAIN app' = Runs /\ DOMAIN asked' = Runs
          /\ \A s \in Runs : app[s] \in NoApp => app'[s] \in NoApp
<1>1. Hup(r) \/ Kill(r) \/ UNCHANGED <<app, asked>>
    BY DEF Signal, stop_signal
<1>2. DOMAIN app = Runs /\ DOMAIN asked = Runs
    BY DEF LaunchInv, LaunchTypeOK
<1> QED BY <1>1, <1>2 DEF Hup, Kill, NoApp, Living

LEMMA ContactSteps ==
    ASSUME LaunchInv, start_registry_contact \/ child_regroup \/ child_loop_end
    PROVE LaunchInv'
<1>1. /\ UNCHANGED <<runner, status, app, asked, interrupted>>
      /\ child.pc \in {"contact", "start", "loop"}
      /\ child'.pc \in {"contact", "start", "loop", "hup", "stop"}
      /\ child'.pc = "start" => child.pc = "contact" /\ child'.i = 1
      /\ child'.pc = "contact" => child.pc = "contact"
      /\ child'.pc = "stop" => child'.runs = <<Registry>>
    BY DEF start_registry_contact, child_regroup, child_loop_end, ChildGo, ChildStep, runVars, appVars
<1>2. <<Registry>> \in Seq(Runs)
    BY NodesAreRuns
<1> QED BY <1>1, <1>2, ChildOnly DEF LaunchInv, LaunchTypeOK, StopPcs

LEMMA StopSteps ==
    ASSUME LaunchInv, nodes_send_stop \/ run_stop
    PROVE LaunchInv'
<1>1. CASE nodes_send_stop
    <2>1. UNCHANGED <<runner, status, interrupted>> /\ child.pc = "hup"
        BY <1>1 DEF nodes_send_stop, runVars, ChildStep
    <2>2. CASE child.i <= Len(Nodes)
        <3>1. child'.pc = "hup" /\ Signal(Nodes[child.i], Hup)
            BY <1>1, <2>2 DEF nodes_send_stop, ChildGo
        <3>2. UNCHANGED <<app, asked>> \/ Hup(Nodes[child.i])
            BY <3>1 DEF Signal
        <3>3. DOMAIN app' = Runs /\ DOMAIN asked' = Runs
            BY <3>2 DEF Hup, LaunchInv, LaunchTypeOK
        <3>4. \A s \in Runs : app[s] \in NoApp => app'[s] \in NoApp
            BY <3>2 DEF Hup, LaunchInv, LaunchTypeOK, NoApp
        <3> QED BY <2>1, <3>1, <3>3, <3>4, ChildOnly DEF StopPcs
    <2>3. CASE ~(child.i <= Len(Nodes))
        <3>1. /\ child'.pc = "stop" /\ child'.runs = Append(Nodes, Registry)
              /\ UNCHANGED <<app, asked>>
            BY <1>1, <2>3 DEF nodes_send_stop, ChildGo
        <3>2. child'.runs \in Seq(Runs)
            BY <3>1, NodesAreRuns
        <3> QED BY <2>1, <3>1, <3>2, ChildOnly DEF LaunchInv, LaunchTypeOK
    <2> QED BY <2>2, <2>3
<1>2. CASE run_stop
    <2>1. /\ UNCHANGED <<runner, status, interrupted>> /\ child.pc = "stop" /\ child.runs # <<>>
          /\ Signal(Head(child.runs), stop_signal)
          /\ child'.pc \in StopPcs
          /\ child'.runs \in {child.runs, Tail(child.runs)}
          /\ child'.pc = "slept" => child'.runs = child.runs
        BY <1>2 DEF run_stop, runVars, Stop, ChildGo, ChildStep, StopPcs
    <2>2. child.runs \in Seq(Runs)
        BY <2>1 DEF LaunchInv, LaunchTypeOK, StopPcs
    <2>3. Head(child.runs) \in Runs /\ Tail(child.runs) \in Seq(Runs)
        BY <2>1, <2>2
    <2>4. child'.runs \in Seq(Runs)
        BY <2>1, <2>2, <2>3
    <2> QED BY <2>1, <2>3, <2>4, SignalKeeps, ChildOnly DEF StopPcs
<1> QED BY <1>1, <1>2

(* A thread that is joined was finished, so it has no app.                 *)
LEMMA LookStep ==
    ASSUME LaunchInv, run_stop_look
    PROVE LaunchInv'
<1> DEFINE r == Head(child.runs)
<1>1. /\ child.pc = "slept" /\ UNCHANGED <<status, app, asked, interrupted>>
      /\ \/ UNCHANGED runner
         \/ runner' = [runner EXCEPT ![r] = "joined"] /\ status[r] = "finished"
      /\ child'.pc = "stop"
      /\ child'.runs \in {child.runs, Tail(child.runs)}
    BY DEF run_stop_look, ThreadGo, Stop, ChildGo, ChildStep
<1>2. child.runs \in Seq(Runs) /\ child.runs # <<>>
    BY <1>1 DEF LaunchInv, LaunchTypeOK, StopPcs
<1>3. r \in Runs /\ Tail(child.runs) \in Seq(Runs)
    BY <1>2
<1>4. child'.runs \in Seq(Runs)
    BY <1>1, <1>2, <1>3
<1> HIDE DEF r
<1>5. LaunchTypeOK'
    BY <1>1, <1>4 DEF LaunchInv, LaunchTypeOK
<1>6. \A s \in Runs : runner'[s] # runner[s] => runner[s] \in Idle /\ runner'[s] = "joined"
    BY <1>1, <1>3 DEF LaunchInv, LaunchTypeOK, FinishedIsOver, Idle
<1>7. AppHasThread' /\ FinishedIsOver'
    BY <1>1, <1>6 DEF LaunchInv, AppHasThread, FinishedIsOver
<1>8. NotYetStarted'
    BY <1>1 DEF NotYetStarted
<1> QED BY <1>5, <1>7, <1>8 DEF LaunchInv

(* The child exits in order when all the threads are finished, and without *)
(* order at the fourth signal or after a failed start.  A signal may also  *)
(* interrupt a thread that waits for its app.                              *)
LEMMA ExitSteps ==
    ASSUME LaunchInv, child_exit \/ ctrl_c
    PROVE LaunchInv'
<1>1. UNCHANGED <<status, app, asked, interrupted>>
    BY DEF child_exit, ctrl_c, ChildStep, MonitorStep, runVars
<1>2. /\ DOMAIN runner' = Runs
      /\ \A r \in Runs : \/ runner'[r] = runner[r]
                         \/ runner[r] = "wait" /\ runner'[r] = "interrupted"
    BY DEF child_exit, ctrl_c, SignalThread, ThreadGo, runVars, LaunchInv, LaunchTypeOK
<1>3. child' = child \/ child'.pc = "exited"
    BY DEF child_exit, ctrl_c, Exit, ChildGo
<1>4. LaunchTypeOK'
    BY <1>1, <1>2, <1>3 DEF LaunchInv, LaunchTypeOK, StopPcs
<1>5. AppHasThread'
    BY <1>1, <1>2, <1>3 DEF LaunchInv, AppHasThread, Idle
<1>6. NotYetStarted'
    BY <1>2, <1>3, NodesAreRuns DEF LaunchInv, NotYetStarted
<1>7. FinishedIsOver'
    BY <1>1, <1>2 DEF LaunchInv, FinishedIsOver
<1> QED BY <1>4, <1>5, <1>6, <1>7 DEF LaunchInv

LEMMA LaunchInvNext == LaunchInv /\ [LaunchNext]_launchVars => LaunchInv'
<1> SUFFICES ASSUME LaunchInv, [LaunchNext]_launchVars PROVE LaunchInv'
    OBVIOUS
<1>1. CASE Child
    BY <1>1, StartSteps, ContactSteps, StopSteps, LookStep, ExitSteps DEF Child
<1>2. CASE Monitor \/ UNCHANGED launchVars
    <2>1. UNCHANGED <<child, runner, status, app, asked, interrupted>>
        BY <1>2 DEF Monitor, monitor_watch, monitor_wait, MonitorStep, launchVars
    <2> QED BY <2>1 DEF LaunchInv, LaunchTypeOK, AppHasThread, NotYetStarted, FinishedIsOver
<1>3. CASE ctrl_c
    BY <1>3, ExitSteps
<1>4. ASSUME NEW r \in Runs, app_exec(r) \/ app_end(r) \/ Works(r) PROVE LaunchInv'
    BY <1>4, AppSteps, ThreadSteps
<1> QED BY <1>1, <1>2, <1>3, <1>4 DEF LaunchNext

-----------------------------------------------------------------------------
(* The apps are asked before they are killed.  run_stop counts the signals *)
(* of a run, and not of a process: the invariant is that those it counts   *)
(* went to one process (SentToOne).  A pid is only used while the thread   *)
(* waits for its process, or has been interrupted (OwnIsAwaited), and a    *)
(* thread that has seen its process end forks no other one, since the      *)
(* child was told to quit (InOrder).  The runs that run_stop is done with  *)
(* have been asked to end, have no app, or were not found (PassedIsAsked): *)
(* with AppHasThread, this is what is known when the child exits.          *)
AskTypeOK ==
    /\ DOMAIN pid = Runs
    /\ asked \in [Runs -> Nat]
    /\ signals.child \in Nat
    /\ child.pc \in StopPcs => child.count \in Nat

Ended == {"check", "finished", "joined"}

OwnIsAwaited ==
    \A r \in Runs :
        /\ pid[r] = "own" => \/ runner[r] = "wait"
                             \/ Quit /\ runner[r] \in {"interrupted"} \cup Ended
        /\ pid[r] # "own" => runner[r] \in {"none", "fork", "assign"} \cup Ended
        /\ r \in interrupted => pid[r] = "own" /\ Quit /\ runner[r] \in Ended

InOrder == child.pc \in StopPcs \cup {"hup"} /\ child.code = 0 => Quit

(* The signals that run_stop has sent for the run at the head of its list  *)
Sent == IF child.pc = "slept" THEN child.count + 1 ELSE child.count

Stopping == child.pc \in StopPcs /\ child.code = 0 /\ child.runs # <<>> /\ Sent > 0

SentToOne ==
    Stopping =>
        LET r == Head(child.runs) IN
        IF pid[r] = "own" THEN asked[r] >= Sent \/ asked[r] >= 4 ELSE runner[r] \in Ended

(* A run that run_stop is done with                                        *)
Passed(r) ==
    child.pc \in StopPcs /\ child.code = 0 /\ \A i \in DOMAIN child.runs : child.runs[i] # r

Over(r) == runner[r] \in {"none"} \cup Ended /\ r \notin interrupted

PassedIsAsked == \A r \in Runs : Passed(r) => r \in missed \/ asked[r] >= 1 \/ Over(r)

AskInv ==
    LaunchInv /\ AskTypeOK /\ OwnIsAwaited /\ InOrder /\ SentToOne /\ PassedIsAsked /\ NoOrphans

LEMMA AskInvInit == LaunchInit => AskInv
<1> SUFFICES ASSUME LaunchInit PROVE AskInv
    OBVIOUS
<1>1. AskTypeOK /\ OwnIsAwaited
    BY DEF LaunchInit, AskTypeOK, OwnIsAwaited, StopPcs
<1>2. InOrder /\ SentToOne /\ PassedIsAsked /\ NoOrphans
    BY DEF LaunchInit, InOrder, SentToOne, Stopping, PassedIsAsked, Passed, NoOrphans, StopPcs
<1> QED BY <1>1, <1>2, LaunchInvInit DEF AskInv

(* The head of the list is a run.                                          *)
LEMMA HeadIsRun ==
    ASSUME LaunchInv, child.pc \in StopPcs, child.runs # <<>>
    PROVE Head(child.runs) \in Runs
<1>1. child.runs \in Seq(Runs)
    BY DEF LaunchInv, LaunchTypeOK
<1> QED BY <1>1

(* A step that leaves the child where it is, or takes it to a place where  *)
(* it stops no run                                                         *)
LEMMA ChildStays ==
    ASSUME AskInv, LaunchInv', OwnIsAwaited', NoOrphans',
           DOMAIN pid' = Runs, asked' \in [Runs -> Nat],
           signals'.child \in Nat, signals'.child >= signals.child,
           missed \subseteq missed',
           child' = child \/ child'.pc \notin StopPcs \cup {"hup"},
           \A r \in Runs :
               Quit =>
               /\ pid[r] = "own" => \/ pid'[r] = "own" /\ asked'[r] >= asked[r]
                                    \/ pid'[r] # "own" /\ runner'[r] \in Ended
               /\ pid[r] # "own" /\ runner[r] \in Ended =>
                      pid'[r] # "own" /\ runner'[r] \in Ended
               /\ asked'[r] >= asked[r] \/ Over(r)'
               /\ Over(r) => Over(r)'
    PROVE AskInv'
<1>1. AskTypeOK'
    BY DEF AskInv, AskTypeOK
<1>2. Quit => Quit'
    BY DEF Quit, AskInv, AskTypeOK
<1>3. InOrder'
    BY <1>2 DEF InOrder, AskInv
<1>4. SentToOne'
    <2> SUFFICES ASSUME Stopping' PROVE SentToOne'
        BY DEF SentToOne
    <2>1. child' = child /\ Stopping /\ Sent' = Sent
        BY DEF Stopping, Sent
    <2>2. Head(child.runs) \in Runs
        BY <2>1, HeadIsRun DEF AskInv, Stopping
    <2>3. Quit
        BY <2>1 DEF Stopping, AskInv, InOrder
    <2> DEFINE r == Head(child.runs)
    <2>4. Sent \in Nat
        BY <2>1 DEF Sent, Stopping, AskInv, AskTypeOK
    <2>5. asked[r] \in Nat /\ asked'[r] \in Nat
        BY <2>2 DEF AskInv, AskTypeOK
    <2>6. IF pid[r] = "own" THEN asked[r] >= Sent \/ asked[r] >= 4 ELSE runner[r] \in Ended
        BY <2>1 DEF AskInv, SentToOne
    <2> HIDE DEF r
    <2>7. r \in Runs
        BY <2>2 DEF r
    <2>8. IF pid'[r] = "own" THEN asked'[r] >= Sent \/ asked'[r] >= 4 ELSE runner'[r] \in Ended
        BY <2>3, <2>4, <2>5, <2>6, <2>7
    <2> QED BY <2>1, <2>8 DEF SentToOne, r
<1>5. PassedIsAsked'
    <2> SUFFICES ASSUME NEW r \in Runs, Passed(r)'
                 PROVE r \in missed' \/ asked'[r] >= 1 \/ Over(r)'
        BY DEF PassedIsAsked
    <2>1. child' = child /\ Passed(r)
        BY DEF Passed
    <2>2. Quit
        BY <2>1 DEF Passed, AskInv, InOrder
    <2>3. r \in missed \/ asked[r] >= 1 \/ Over(r)
        BY <2>1 DEF AskInv, PassedIsAsked
    <2>4. asked[r] \in Nat /\ asked'[r] \in Nat
        BY DEF AskInv, AskTypeOK
    <2>5. CASE asked[r] >= 1
        BY <2>2, <2>4, <2>5
    <2> QED BY <2>2, <2>3, <2>5
<1> QED BY <1>1, <1>3, <1>4, <1>5 DEF AskInv

LEMMA AskAppSteps ==
    ASSUME AskInv, LaunchInv', NEW r \in Runs, app_exec(r) \/ app_end(r)
    PROVE AskInv'
<1>1. UNCHANGED <<child, runner, pid, signals, asked, missed, interrupted>> /\ app[r] \notin NoApp
    BY DEF app_exec, app_end, AppStep, runVars, sigVars, NoApp
<1>2. \A s \in Runs : app[s] \in NoApp => app'[s] \in NoApp
    BY <1>1 DEF app_exec, app_end, AskInv, LaunchInv, LaunchTypeOK
<1>3. NoOrphans'
    BY <1>1, <1>2 DEF AskInv, NoOrphans, NoApp
<1>4. asked \in [Runs -> Nat] /\ \A s \in Runs : asked'[s] >= asked[s]
    BY <1>1 DEF AskInv, AskTypeOK
<1> QED BY <1>1, <1>3, <1>4, ChildStays DEF AskInv, AskTypeOK, OwnIsAwaited, Over, Quit

LEMMA AskThreadSteps ==
    ASSUME AskInv, LaunchInv', NEW r \in Runs, Works(r)
    PROVE AskInv'
<1>1. UNCHANGED <<child, signals, missed>> /\ child.pc # "exited" /\ (Quit' <=> Quit)
    BY DEF Works, run_check, run_fork, run_assign, run_waitpid, ThreadStep, sigVars, Quit
<1>2. /\ DOMAIN pid' = Runs /\ asked' \in [Runs -> Nat]
      /\ \A s \in Runs \ {r} : /\ UNCHANGED <<runner[s], pid[s], asked[s]>>
                               /\ s \in interrupted' <=> s \in interrupted
    BY DEF Works, run_check, run_fork, run_assign, run_waitpid, ThreadGo, appVars,
           AskInv, AskTypeOK, LaunchInv, LaunchTypeOK
<1>3. /\ pid[r] = "own" => \/ runner[r] = "wait"
                           \/ Quit /\ runner[r] \in {"interrupted"} \cup Ended
      /\ pid[r] # "own" => runner[r] \in {"none", "fork", "assign"} \cup Ended
      /\ r \in interrupted => pid[r] = "own" /\ Quit /\ runner[r] \in Ended
      /\ asked[r] \in Nat /\ DOMAIN pid = Runs /\ DOMAIN runner = Runs /\ DOMAIN asked = Runs
    BY DEF AskInv, OwnIsAwaited, AskTypeOK, LaunchInv, LaunchTypeOK
<1> DEFINE Awaited == /\ pid'[r] = "own" => \/ runner'[r] = "wait"
                                            \/ Quit /\ runner'[r] \in {"interrupted"} \cup Ended
                      /\ pid'[r] # "own" => runner'[r] \in {"none", "fork", "assign"} \cup Ended
                      /\ r \in interrupted' => pid'[r] = "own" /\ Quit /\ runner'[r] \in Ended
           Kept == /\ pid[r] = "own" => \/ pid'[r] = "own" /\ asked'[r] >= asked[r]
                                        \/ pid'[r] # "own" /\ runner'[r] \in Ended
                   /\ pid[r] # "own" /\ runner[r] \in Ended =>
                          pid'[r] # "own" /\ runner'[r] \in Ended
                   /\ asked'[r] >= asked[r] \/ Over(r)'
                   /\ Over(r) => Over(r)'
<1>4. Awaited /\ (Quit => Kept)
    <2>1. CASE run_check(r)
        BY <1>3, <2>1 DEF run_check, ThreadGo, appVars, Ended, Over
    <2>2. CASE run_fork(r)
        BY <1>3, <2>2 DEF run_fork, ThreadGo, Ended, Over
    <2>3. CASE run_assign(r)
        BY <1>3, <2>3 DEF run_assign, ThreadGo, appVars, Ended, Over
    <2>4. CASE run_waitpid(r) /\ runner[r] = "wait"
        BY <1>3, <2>4 DEF run_waitpid, ThreadGo, Ended, Over
    <2>5. CASE run_waitpid(r) /\ runner[r] = "interrupted"
        <3>1. Quit
            BY <1>3, <2>5 DEF Ended
        <3> QED BY <1>3, <2>5, <3>1 DEF run_waitpid, ThreadGo, Ended, Over
    <2> QED BY <2>1, <2>2, <2>3, <2>4, <2>5 DEF Works, run_waitpid
<1>5. OwnIsAwaited'
    BY <1>1, <1>2, <1>4 DEF AskInv, OwnIsAwaited
<1>6. \A s \in Runs \ {r} : asked[s] \in Nat /\ asked'[s] >= asked[s]
    BY <1>2 DEF AskInv, AskTypeOK
<1>7. signals'.child \in Nat /\ signals'.child >= signals.child
    BY <1>1 DEF AskInv, AskTypeOK
<1>8. NoOrphans'
    BY <1>1 DEF NoOrphans
<1>9. \A s \in Runs \ {r} : pid'[s] = pid[s] /\ runner'[s] = runner[s] /\ (Over(s)' <=> Over(s))
    BY <1>2 DEF Over
<1> QED BY <1>1, <1>2, <1>4, <1>5, <1>6, <1>7, <1>8, <1>9, ChildStays

(* The steps of the child up to its loop and the signals of the user       *)
LEMMA AskOtherSteps ==
    ASSUME AskInv, LaunchInv',
           start_registry \/ nodes_start \/ ctrl_c
    PROVE AskInv'
<1>1. UNCHANGED <<pid, asked, missed, interrupted>> /\ app' = app
    BY DEF start_registry, nodes_start, ctrl_c, run_start, ChildStep, MonitorStep
<1>2. /\ child' = child \/ child'.pc \notin StopPcs \cup {"hup"}
      /\ child' = child \/ child'.pc # "exited" \/ child'.code = 1
      /\ signals'.child \in {signals.child, signals.child + 1}
    BY DEF start_registry, nodes_start, ctrl_c, ChildGo, ChildStep, Exit, StopPcs, sigVars
<1>3. /\ signals'.child \in Nat /\ signals'.child >= signals.child
      /\ Quit => Quit'
    BY <1>2 DEF AskInv, AskTypeOK, Quit
<1>4. \A r \in Runs : \/ runner'[r] = runner[r]
                      \/ runner[r] = "none" /\ runner'[r] = "check"
                      \/ runner[r] = "wait" /\ runner'[r] = "interrupted" /\ Quit'
    <2>1. CASE start_registry
        BY <2>1 DEF start_registry, run_start, ThreadGo, AskInv, LaunchInv, LaunchTypeOK,
                    NotYetStarted
    <2>2. CASE nodes_start
        <3>1. child.pc = "start" /\ child.i \in DOMAIN Nodes /\ child.i >= child.i
            BY <2>2, NodesAreRuns DEF nodes_start, AskInv, LaunchInv, LaunchTypeOK
        <3>2. runner[Nodes[child.i]] = "none"
            BY <3>1 DEF AskInv, LaunchInv, NotYetStarted
        <3>3. DOMAIN runner = Runs
            BY DEF AskInv, LaunchInv, LaunchTypeOK
        <3>4. \/ UNCHANGED runner
              \/ runner' = [runner EXCEPT ![Nodes[child.i]] = "check"]
            BY <2>2 DEF nodes_start, run_start, ThreadGo
        <3> QED BY <3>2, <3>3, <3>4
    <2>3. CASE ctrl_c
        <3>1. UNCHANGED runner \/ (SignalThread /\ signals'.child = signals.child + 1)
            BY <2>3 DEF ctrl_c
        <3>2. SignalThread =>
                  \A r \in Runs : \/ runner'[r] = runner[r]
                                  \/ runner[r] = "wait" /\ runner'[r] = "interrupted"
            <4>1. DOMAIN runner = Runs
                BY DEF AskInv, LaunchInv, LaunchTypeOK
            <4>2. SignalThread =>
                      \/ runner' = runner
                      \/ \E r \in Runs : runner[r] = "wait" /\
                                          runner' = [runner EXCEPT ![r] = "interrupted"]
                BY DEF SignalThread, ThreadGo
            <4> QED BY <4>1, <4>2
        <3>3. signals'.child = signals.child + 1 => Quit'
            BY DEF AskInv, AskTypeOK, Quit
        <3> QED BY <3>1, <3>2, <3>3
    <2> QED BY <2>1, <2>2, <2>3
<1>5. OwnIsAwaited'
    BY <1>1, <1>3, <1>4 DEF AskInv, OwnIsAwaited, Ended
<1>6. DOMAIN pid' = Runs /\ asked' \in [Runs -> Nat] /\ \A r \in Runs : asked'[r] >= asked[r]
    BY <1>1 DEF AskInv, AskTypeOK
<1>7. NoOrphans'
    BY <1>1, <1>2 DEF AskInv, NoOrphans
<1>8. \A r \in Runs :
          /\ pid[r] = "own" => pid'[r] = "own" /\ asked'[r] >= asked[r]
          /\ pid[r] # "own" /\ runner[r] \in Ended => pid'[r] # "own" /\ runner'[r] \in Ended
          /\ Over(r) => Over(r)'
    BY <1>1, <1>4, <1>6 DEF Over, Ended
<1> QED BY <1>1, <1>2, <1>3, <1>5, <1>6, <1>7, <1>8, ChildStays

(* The child exits in order: run_stop is done with all the runs.           *)
LEMMA AskExitStep ==
    ASSUME AskInv, LaunchInv', child_exit
    PROVE AskInv'
<1>1. /\ UNCHANGED <<pid, asked, missed, interrupted, app, runner, signals>>
      /\ child.pc = "stop" /\ child.runs = <<>> /\ child'.pc = "exited" /\ child'.code = child.code
      /\ child.code = 0 => \A r \in Runs : runner[r] \in {"none", "finished", "joined"}
    BY DEF child_exit, ChildStep, runVars, sigVars, Exit, ChildGo
<1>2. OwnIsAwaited'
    BY <1>1 DEF AskInv, OwnIsAwaited, Quit
<1>3. NoOrphans'
    <2> SUFFICES ASSUME child.code = 0, NEW r \in Runs, app[r] \notin NoApp
                 PROVE r \in interrupted /\ (asked[r] >= 1 \/ r \in missed)
        BY <1>1 DEF NoOrphans, NoApp
    <2>1. r \in interrupted
        BY <1>1 DEF AskInv, LaunchInv, AppHasThread, Idle
    <2>2. Passed(r)
        BY <1>1 DEF Passed, StopPcs
    <2> QED BY <2>1, <2>2 DEF AskInv, PassedIsAsked, Over
<1>4. asked \in [Runs -> Nat] /\ DOMAIN pid = Runs /\ signals.child \in Nat
    BY DEF AskInv, AskTypeOK
<1>5. \A r \in Runs : asked'[r] >= asked[r] /\ (Over(r) => Over(r)')
    BY <1>1, <1>4 DEF Over
<1> QED BY <1>1, <1>2, <1>3, <1>4, <1>5, ChildStays DEF StopPcs

(* The child turns to stopping the runs: in order only after a signal, and *)
(* no signal of run_stop has been sent.                                    *)
LEMMA AskTurnSteps ==
    ASSUME AskInv, LaunchInv',
           start_registry_contact \/ child_regroup \/ child_loop_end \/ nodes_send_stop
    PROVE AskInv'
<1>1. UNCHANGED <<pid, runner, signals, interrupted>>
    BY DEF start_registry_contact, child_regroup, child_loop_end, nodes_send_stop, ChildStep, runVars,
           sigVars
<1>2. asked' \in [Runs -> Nat]
    <2>1. UNCHANGED asked \/ \E r \in Runs : asked' = [asked EXCEPT ![r] = @ + 1]
        <3>1. CASE nodes_send_stop
            <4>1. CASE child.i <= Len(Nodes) /\ pid[Nodes[child.i]] = "own"
                BY <3>1, <4>1 DEF nodes_send_stop, Signal, Hup, AskInv, AskTypeOK
            <4> QED BY <3>1, <4>1 DEF nodes_send_stop, Signal
        <3> QED BY <3>1 DEF start_registry_contact, child_regroup, child_loop_end, appVars
    <2> QED BY <2>1 DEF AskInv, AskTypeOK
<1>3. /\ child'.pc \in {"contact", "start", "loop", "hup", "stop"}
      /\ child'.pc = "stop" => child'.count = 0
      /\ child'.pc \in {"hup", "stop"} /\ child'.code = 0 =>
             Quit \/ (child.pc = "hup" /\ child.code = 0)
    BY DEF start_registry_contact, child_regroup, child_loop_end, nodes_send_stop, ChildGo
<1>4. AskTypeOK'
    BY <1>1, <1>2, <1>3 DEF AskInv, AskTypeOK, StopPcs
<1>5. OwnIsAwaited'
    BY <1>1 DEF AskInv, OwnIsAwaited, Quit
<1>6. InOrder'
    BY <1>1, <1>3 DEF AskInv, InOrder, Quit, StopPcs
<1>7. SentToOne'
    BY <1>3 DEF SentToOne, Stopping, Sent, StopPcs
<1>8. NoOrphans'
    BY <1>3 DEF NoOrphans
<1>9. PassedIsAsked'
    <2> SUFFICES ASSUME NEW r \in Runs, child'.pc = "stop", child'.code = 0
                 PROVE \E i \in DOMAIN child'.runs : child'.runs[i] = r
        BY <1>3 DEF PassedIsAsked, Passed, StopPcs
    <2>1. child'.runs = Append(Nodes, Registry)
        BY DEF start_registry_contact, child_regroup, child_loop_end, nodes_send_stop, ChildGo
    <2>2. PICK n \in Nat : n = Len(Nodes)
        BY NodesAreRuns
    <2>3. /\ DOMAIN child'.runs = 1..(n + 1) /\ child'.runs[n + 1] = Registry
          /\ \A i \in 1..n : child'.runs[i] = Nodes[i]
        BY <2>1, <2>2, NodesAreRuns
    <2>4. CASE r = Registry
        BY <2>2, <2>3, <2>4
    <2>5. CASE r \in NodeSet
        <3>1. PICK i \in DOMAIN Nodes : Nodes[i] = r
            BY <2>5 DEF NodeSet
        <3> QED BY <2>2, <2>3, <3>1, NodesAreRuns
    <2> QED BY <2>4, <2>5 DEF Runs
<1> QED BY <1>4, <1>5, <1>6, <1>7, <1>8, <1>9 DEF AskInv

(* The run at the head of the list is done with.                           *)
LEMMA RunPasses ==
    ASSUME LaunchInv, child.pc \in StopPcs, child.runs # <<>>, NEW r \in Runs, Passed(r)',
           child'.runs \in {child.runs, Tail(child.runs)}, child'.code = child.code
    PROVE Passed(r) \/ (r = Head(child.runs) /\ child'.runs = Tail(child.runs))
<1>1. child.runs \in Seq(Runs)
    BY DEF LaunchInv, LaunchTypeOK
<1> SUFFICES ASSUME ~Passed(r) PROVE r = Head(child.runs) /\ child'.runs = Tail(child.runs)
    OBVIOUS
<1>2. PICK i \in DOMAIN child.runs : child.runs[i] = r
    BY DEF Passed
<1>3. child'.runs = Tail(child.runs)
    BY <1>2 DEF Passed
<1>4. ASSUME i # 1 PROVE FALSE
    <2>1. i - 1 \in DOMAIN Tail(child.runs) /\ Tail(child.runs)[i - 1] = child.runs[i]
        BY <1>1, <1>2, <1>4
    <2> QED BY <1>2, <1>3, <2>1 DEF Passed
<1> QED BY <1>1, <1>2, <1>3, <1>4

(* A signal that is sent is one more for the process that is waited for.   *)
LEMMA AskStopStep ==
    ASSUME AskInv, LaunchInv', run_stop
    PROVE AskInv'
<1> DEFINE r == Head(child.runs)
           c == child.count
<1>1. /\ child.pc = "stop" /\ child.runs # <<>>
      /\ UNCHANGED <<pid, runner, signals, interrupted>>
      /\ Signal(r, stop_signal)
      /\ IF pid[r] = "own" THEN Stop("slept", child.runs, c) ELSE Stop("stop", Tail(child.runs), 0)
    BY DEF run_stop, ChildStep, sigVars, runVars
<1>2. r \in Runs /\ c \in Nat
    BY <1>1, HeadIsRun DEF AskInv, AskTypeOK, StopPcs
<1>3. asked \in [Runs -> Nat] /\ DOMAIN pid = Runs
    BY DEF AskInv, AskTypeOK
<1>4. \/ UNCHANGED asked
      \/ asked' = [asked EXCEPT ![r] = @ + 1]
    BY <1>1 DEF Signal, stop_signal, Hup, Kill
<1>5. asked' \in [Runs -> Nat]
    BY <1>3, <1>4, <1>2
<1>6. child'.code = child.code /\ child'.pc \in StopPcs /\ child'.count \in Nat
    BY <1>1, <1>2 DEF Stop, ChildGo, StopPcs
<1>7. AskTypeOK'
    BY <1>1, <1>3, <1>5, <1>6 DEF AskInv, AskTypeOK
<1>8. OwnIsAwaited' /\ InOrder' /\ NoOrphans'
    BY <1>1, <1>6 DEF AskInv, OwnIsAwaited, InOrder, NoOrphans, Quit, StopPcs
<1>9. SentToOne'
    <2>1. CASE pid[r] # "own"
        BY <1>1, <2>1 DEF SentToOne, Stopping, Sent, Stop, ChildGo
    <2>2. CASE pid[r] = "own"
        <3> SUFFICES ASSUME Stopping' PROVE SentToOne'
            BY DEF SentToOne
        <3>1. child'.pc = "slept" /\ child'.runs = child.runs /\ child'.count = c
            BY <1>1, <2>2 DEF Stop, ChildGo
        <3>2. pid'[r] = "own"
            BY <1>1, <2>2
        <3>3. asked'[r] >= c + 1 \/ asked'[r] >= 4
            <4>1. asked[r] \in Nat
                BY <1>2, <1>3
            <4>2. c = 0 \/ asked[r] >= c \/ asked[r] >= 4
                <5>1. Sent = c
                    BY <1>1 DEF Sent
                <5>2. c > 0 => Stopping
                    BY <1>1, <1>6, <5>1 DEF Stopping, StopPcs
                <5> QED BY <1>2, <2>2, <5>1, <5>2 DEF AskInv, SentToOne
            <4>3. CASE c > 3
                <5>1. UNCHANGED asked
                    BY <1>1, <2>2, <4>3 DEF Signal, stop_signal, Kill
                <5> QED BY <1>2, <4>1, <4>2, <4>3, <5>1
            <4>4. CASE ~(c > 3)
                <5>1. asked'[r] = asked[r] + 1
                    BY <1>1, <1>2, <1>3, <2>2, <4>4 DEF Signal, stop_signal, Hup
                <5> QED BY <1>2, <4>1, <4>2, <4>4, <5>1
            <4> QED BY <4>3, <4>4
        <3>4. Sent' = c + 1
            BY <3>1 DEF Sent
        <3> QED BY <3>1, <3>2, <3>3, <3>4 DEF SentToOne
    <2> QED BY <2>1, <2>2
<1>10. PassedIsAsked'
    <2> SUFFICES ASSUME NEW s \in Runs, Passed(s)'
                 PROVE s \in missed' \/ asked'[s] >= 1 \/ Over(s)'
        BY DEF PassedIsAsked
    <2>1. child'.runs \in {child.runs, Tail(child.runs)} /\ missed \subseteq missed'
        BY <1>1 DEF Stop, ChildGo, Signal, stop_signal, Hup, Kill
    <2>2. CASE Passed(s)
        <3>1. s \in missed \/ asked[s] >= 1 \/ Over(s)
            BY <2>2 DEF AskInv, PassedIsAsked
        <3>2. asked[s] \in Nat /\ asked'[s] >= asked[s]
            BY <1>2, <1>3, <1>4
        <3>3. Over(s) => Over(s)'
            BY <1>1 DEF Over
        <3> QED BY <1>5, <2>1, <3>1, <3>2, <3>3
    <2>3. CASE s = r /\ child'.runs = Tail(child.runs)
        <3>1. pid[r] # "own"
            <4>1. child.runs \in Seq(Runs)
                BY <1>1 DEF AskInv, LaunchInv, LaunchTypeOK, StopPcs
            <4>2. 1 \in DOMAIN child.runs /\ child.runs[1] = s
                BY <1>1, <2>3, <4>1
            <4>3. child'.runs # child.runs
                BY <4>2 DEF Passed
            <4> QED BY <1>1, <4>3 DEF Stop, ChildGo
        <3>2. missed' = IF runner[r] \in {"fork", "assign"} THEN missed \cup {r} ELSE missed
            BY <1>1, <3>1 DEF Signal
        <3>3. runner[r] \in {"none", "fork", "assign"} \cup Ended /\ r \notin interrupted
            BY <1>2, <3>1 DEF AskInv, OwnIsAwaited, LaunchInv, LaunchTypeOK, Ended
        <3> QED BY <1>1, <2>3, <3>2, <3>3 DEF Over
    <2> QED BY <1>1, <1>6, <2>1, <2>2, <2>3, RunPasses DEF AskInv, StopPcs
<1> QED BY <1>7, <1>8, <1>9, <1>10 DEF AskInv

LEMMA AskLookStep ==
    ASSUME AskInv, LaunchInv', run_stop_look
    PROVE AskInv'
<1> DEFINE r == Head(child.runs)
           c == child.count
<1>1. /\ child.pc = "slept" /\ child.runs # <<>>
      /\ UNCHANGED <<pid, signals, asked, missed, interrupted>>
      /\ \/ /\ status[r] = "finished"
            /\ runner' = [runner EXCEPT ![r] = "joined"]
            /\ Stop("stop", Tail(child.runs), 0)
         \/ /\ UNCHANGED runner
            /\ Stop("stop", Tail(child.runs), 0) \/ Stop("stop", child.runs, c + 1)
    BY DEF run_stop_look, ThreadGo, ChildStep, sigVars, AskInv, LaunchInv, LaunchTypeOK
<1>2. r \in Runs /\ c \in Nat
    BY <1>1, HeadIsRun DEF AskInv, AskTypeOK, StopPcs
<1>3. child'.code = child.code /\ child'.pc = "stop" /\ child'.count \in Nat
    BY <1>1, <1>2 DEF Stop, ChildGo
<1>4. AskTypeOK' /\ InOrder' /\ NoOrphans'
    BY <1>1, <1>3 DEF AskInv, AskTypeOK, InOrder, NoOrphans, Quit, StopPcs
<1>5. /\ DOMAIN runner = Runs
      /\ \A s \in Runs : \/ runner'[s] = runner[s]
                         \/ runner[s] \in Ended /\ runner'[s] = "joined"
    BY <1>1, <1>2 DEF AskInv, LaunchInv, LaunchTypeOK, FinishedIsOver, Ended
<1>6. OwnIsAwaited'
    BY <1>1, <1>5 DEF AskInv, OwnIsAwaited, Ended, Quit
<1>7. SentToOne'
    <2>1. CASE Stop("stop", Tail(child.runs), 0)
        BY <2>1 DEF SentToOne, Stopping, Sent, Stop, ChildGo
    <2>2. CASE UNCHANGED runner /\ Stop("stop", child.runs, c + 1)
        <3>1. child'.runs = child.runs /\ Sent' = Sent /\ Sent = c + 1
            BY <1>1, <2>2 DEF Sent, Stop, ChildGo
        <3>2. Stopping' => Stopping
            BY <1>1, <1>3, <3>1 DEF Stopping, StopPcs
        <3> QED BY <1>1, <2>2, <3>1, <3>2 DEF AskInv, SentToOne
    <2> QED BY <1>1, <2>1, <2>2
<1>8. PassedIsAsked'
    <2> SUFFICES ASSUME NEW s \in Runs, Passed(s)' PROVE s \in missed \/ asked[s] >= 1 \/ Over(s)'
        BY <1>1 DEF PassedIsAsked
    <2>1. Over(s) => Over(s)'
        BY <1>1, <1>5 DEF Over, Ended
    <2>2. CASE Passed(s)
        BY <2>1, <2>2 DEF AskInv, PassedIsAsked
    <2>3. CASE s = r
        <3>1. child.code = 0
            BY <1>3 DEF Passed
        <3>2. Stopping /\ Sent = c + 1
            BY <1>1, <1>2, <3>1 DEF Stopping, Sent, StopPcs
        <3>3. IF pid[r] = "own" THEN asked[r] >= Sent \/ asked[r] >= 4 ELSE runner[r] \in Ended
            BY <3>2 DEF AskInv, SentToOne
        <3>4. asked[r] \in Nat /\ (r \in interrupted => pid[r] = "own")
            BY <1>2 DEF AskInv, AskTypeOK, OwnIsAwaited
        <3>5. asked[r] >= 1 \/ Over(r)
            BY <1>2, <3>2, <3>3, <3>4 DEF Over
        <3> QED BY <2>1, <2>3, <3>5
    <2>4. child'.runs \in {child.runs, Tail(child.runs)}
        BY <1>1 DEF Stop, ChildGo
    <2> QED BY <1>1, <1>3, <2>2, <2>3, <2>4, RunPasses DEF AskInv, StopPcs
<1> QED BY <1>4, <1>6, <1>7, <1>8 DEF AskInv

LEMMA AskInvNext == AskInv /\ [LaunchNext]_launchVars => AskInv'
<1> SUFFICES ASSUME AskInv, [LaunchNext]_launchVars PROVE AskInv'
    OBVIOUS
<1>1. LaunchInv'
    BY LaunchInvNext DEF AskInv
<1>2. CASE Child
    BY <1>1, <1>2, AskOtherSteps, AskTurnSteps, AskStopStep, AskLookStep,
       AskExitStep DEF Child
<1>3. CASE Monitor \/ UNCHANGED launchVars
    <2>1. UNCHANGED <<child, runner, pid, signals, asked, app, missed, interrupted>>
        BY <1>3 DEF Monitor, monitor_watch, monitor_wait, MonitorStep, launchVars
    <2>2. NoOrphans' /\ OwnIsAwaited'
        BY <2>1 DEF AskInv, NoOrphans, OwnIsAwaited, Quit
    <2>3. asked \in [Runs -> Nat] /\ DOMAIN pid = Runs /\ signals.child \in Nat
        BY DEF AskInv, AskTypeOK
    <2>4. \A r \in Runs : asked'[r] >= asked[r] /\ (Over(r) => Over(r)')
        BY <2>1, <2>3 DEF Over
    <2> QED BY <1>1, <2>1, <2>2, <2>3, <2>4, ChildStays
<1>4. CASE ctrl_c
    BY <1>1, <1>4, AskOtherSteps
<1>5. ASSUME NEW r \in Runs, app_exec(r) \/ app_end(r) \/ Works(r) PROVE AskInv'
    BY <1>1, <1>5, AskAppSteps, AskThreadSteps
<1> QED BY <1>2, <1>3, <1>4, <1>5 DEF LaunchNext

(* A step of the child that ends an app is run_stop's, and the app was     *)
(* asked before.                                                           *)
LEMMA EndingStep ==
    ASSUME AskInv, LaunchNext, NEW r \in Runs,
           app[r] \in {"running", "told"}, app'[r] = "zombie",
           child.pc = "stop", child' # child, child.code = 0
    PROVE asked'[r] >= 4
<1>1. run_stop
    <2>1. app' # app
        OBVIOUS
    <2>2. Child \/ ctrl_c
        BY DEF LaunchNext, Works, Monitor, monitor_watch, monitor_wait, app_exec, app_end, run_check,
               run_fork, run_assign, run_waitpid, AppStep, ThreadStep
    <2> QED BY <2>1, <2>2 DEF Child, ctrl_c, start_registry, start_registry_contact, nodes_start,
            child_regroup, child_loop_end, nodes_send_stop, run_stop_look, child_exit,
            MonitorStep, appVars
<1>2. asked \in [Runs -> Nat] /\ child.count \in Nat /\ DOMAIN app = Runs
    BY DEF AskInv, AskTypeOK, StopPcs, LaunchInv, LaunchTypeOK
<1>3. child.runs # <<>> /\ Signal(Head(child.runs), stop_signal)
    BY <1>1 DEF run_stop
<1>4. pid[Head(child.runs)] = "own" /\ stop_signal(Head(child.runs))
    BY <1>3 DEF Signal
<1>5. r = Head(child.runs)
    BY <1>2, <1>4 DEF stop_signal, Hup, Kill
<1>7. asked[r] \in Nat
    BY <1>2
<1>8. CASE child.count > 3
    <2>1. asked'[r] = asked[r]
        BY <1>4, <1>5, <1>8 DEF stop_signal, Kill
    <2>2. Stopping /\ Sent = child.count
        BY <1>2, <1>3, <1>8 DEF Stopping, Sent, StopPcs
    <2>3. asked[r] >= child.count \/ asked[r] >= 4
        BY <1>4, <1>5, <2>2 DEF AskInv, SentToOne
    <2> QED BY <1>2, <1>7, <1>8, <2>1, <2>3
<1>9. CASE ~(child.count > 3)
    <2>1. Hup(r)
        BY <1>4, <1>5, <1>9 DEF stop_signal
    <2>2. asked'[r] = asked[r] + 1
        BY <1>2, <2>1 DEF Hup
    <2>3. asked[r] >= 3
        BY <1>2, <2>1 DEF Hup
    <2> QED BY <1>7, <2>2, <2>3
<1> QED BY <1>8, <1>9

(* rclaunch's child leaves no app behind when it ends in order, except one *)
(* whose waitpid was interrupted by a signal, which it has asked to end.   *)
THEOREM LaunchCorrect == LaunchSpec => []NoOrphans
<1>1. AskInv => NoOrphans
    BY DEF AskInv
<1> QED BY <1>1, AskInvInit, AskInvNext, PTL DEF LaunchSpec

(* In order, rclaunch's child kills no process that it has not asked four  *)
(* times: run_stop never carries its count over to another process.        *)
THEOREM AsksFirst == LaunchSpec => AskedFirst
<1> DEFINE Asks ==
        \A r \in Runs :
            /\ app[r] \in {"running", "told"} /\ app'[r] = "zombie"
            /\ child.pc = "stop" /\ child' # child /\ child.code = 0
            => asked'[r] >= 4
<1>1. AskInv /\ [LaunchNext]_launchVars => [Asks]_launchVars
    BY EndingStep
<1>2. [][Asks]_launchVars <=> AskedFirst
    BY DEF AskedFirst
<1> HIDE DEF Asks
<1> QED BY <1>1, <1>2, AskInvInit, AskInvNext, PTL DEF LaunchSpec
=============================================================================
