----------------------------- MODULE Discovery -----------------------------
(***************************************************************************)
(* The discovery protocol: the central registry and the proxies of the     *)
(* processes, connected by their registry links.  The question is whether  *)
(* the proxies' copies of the registry, and the connections they make from *)
(* them, follow what processes open and close, although the handlers of    *)
(* the registry run concurrently and announce what they did only later.    *)
(***************************************************************************)
EXTENDS RcRegistry, Proxy

CONSTANTS Families      \* sets of types: the end-points that processes open
                        \* in a behaviour all belong to one of them

ASSUME FamiliesAssumption == Families \subseteq SUBSET Types

VARIABLE raced  \* history: raced[n] holds the ids announced to n while the
                \* list for n was copied but not yet sent

(* What the steps of the protocol look at, and the rest                    *)
stateVars == <<netVars, rcVars, proxyVars, raced>>
vars == <<stateVars, useVars>>

Init == NetInit /\ RcInit /\ ProxyInit /\ raced = [n \in Nodes |-> {}]

(* While n's list waits to be sent, an event overtakes it.                 *)
RcAnnounce(n) ==
    /\ rcregistry_announce(n)
    /\ raced' = [m \in Nodes |-> IF handler[m].pc = "list"
                                 THEN raced[m] \cup {EventId(handler[n].event)}
                                 ELSE raced[m]]
    /\ UNCHANGED <<proxyVars, useVars>>

RcStep(n) ==
    /\ \/ messagehub_add_link(n)
       \/ messagehub_remove_link(n)
       \/ rcregistry_register(n)
       \/ rcregistry_unregister(n)
       \/ rcregistry_update_address(n)
       \/ rcregistry_select_list(n)
       \/ rcregistry_send_list(n)
    /\ UNCHANGED <<proxyVars, useVars, raced>>

ReaderStep(n) ==
    /\ \/ proxy_handle_register_add(n)
       \/ proxy_connect_datalink(n)
       \/ proxy_connect_datahub(n)
       \/ proxy_connect_streamer(n)
       \/ proxy_connect_messagehub(n)
       \/ proxy_handle_register_remove(n)
       \/ proxy_handle_update_address(n)
       \/ proxy_onresponse(n)
       \/ proxy_handle_update_list(n)
       \/ update_list_insert(n)
       \/ update_list_select(n)
       \/ update_list_prune(n)
       \/ update_list_ready(n)
    /\ UNCHANGED <<rcVars, raced>>

ReaderUnlock(n) == proxy_mutex_unlock(n) /\ UNCHANGED stateVars

(* What the application's thread does once it has started an operation     *)
AppStep(n) ==
    /\ \/ proxy_send_register_request(n)
       \/ proxy_new_entry_failed(n)
       \/ proxy_open_failed(n)
       \/ proxy_open_datalink(n)
       \/ proxy_open_streamerlink(n)
       \/ proxy_open_datahub(n)
       \/ proxy_open_messagelink(n)
       \/ proxy_send_unregister_request(n)
    /\ UNCHANGED <<rcVars, raced>>

(* What the application, or its environment, may or may not do             *)
Start(n) == new_proxy(n) /\ UNCHANGED <<rcVars, raced>>

Open(n) == /\ \E family \in Families :
                /\ {e.type : e \in made \ {RegistryEntry}} \subseteq family
                /\ \E type \in family, name \in Names,
                      topic \in Topics \ {RegistryEntry.topic} :
                      proxy_new_entry(n, type, topic, name)
           /\ UNCHANGED <<rcVars, raced>>

Close(n) == /\ \E id \in Ids : proxy_delete_entry(n, id)
            /\ UNCHANGED <<rcVars, raced>>

Fault(n) == /\ \/ new_proxy_timeout(n)
               \/ Exit(n)
               \/ LinkBreaks(n)
            /\ UNCHANGED <<rcVars, raced>>

SystemStep(n) == \/ RcStep(n) \/ RcAnnounce(n)
                 \/ ReaderStep(n) \/ ReaderUnlock(n) \/ AppStep(n)

Next == \E n \in Nodes : \/ SystemStep(n)
                         \/ Start(n) \/ Open(n) \/ Close(n) \/ Fault(n)

(* The behaviours in which no process ends and no connection breaks        *)
NextNoFault == \E n \in Nodes : SystemStep(n) \/ Start(n) \/ Open(n) \/ Close(n)

Spec == Init /\ [][Next]_vars

SpecNoFault == Init /\ [][NextNoFault]_vars

(* A thread that can run eventually runs; what applications do, and when   *)
(* something fails, is left open.                                          *)
Fairness == \A n \in Nodes : /\ WF_vars(RcStep(n)) /\ WF_vars(RcAnnounce(n))
                             /\ WF_vars(ReaderStep(n) \/ ReaderUnlock(n))
                             /\ WF_vars(AppStep(n))

FairSpec == Spec /\ Fairness

-----------------------------------------------------------------------------
(* Types and the safety of pointers                                        *)

(* The variables have their types. *)
TypeOK == /\ NetTypeOK
          /\ RcTypeOK
          /\ ProxyTypeOK
          /\ raced \in [Nodes -> SUBSET Ids]

(* An entry with an end-point pointer is in the registry of a proxy only   *)
(* as long as the end-point exists, so a handler that takes such a pointer *)
(* takes a valid one; and until the handler releases the mutex nobody      *)
(* deletes the end-point, whatever is closed, fails or breaks meanwhile,   *)
(* but an open whose registration failed, which does not take the mutex    *)
(* (proxy.c:802-806, then 850, 896, 940).                                  *)
NoDanglingEndpoint ==
    \A n \in Nodes :
        /\ \A i \in 1..Len(preg[n]) :
            preg[n][i].endpoint =>
                /\ IsOpen(preg[n][i].id)
                /\ ep[preg[n][i].id].node = n
                /\ ep[preg[n][i].id].type = preg[n][i].type
        /\ \A id \in using[n] \ failed : IsOpen(id) /\ ep[id].node = n

(* An end-point that a process has open is in its own registry: no event   *)
(* of the central registry removes it.  Only the end-point that is being   *)
(* closed, or whose open has failed, is already out.                       *)
OwnEntryKept ==
    \A id \in Ids : IsOpen(id) =>
        \/ \E i \in 1..Len(preg[ep[id].node]) :
              preg[ep[id].node][i].id = id /\ preg[ep[id].node][i].endpoint
        \/ /\ app[ep[id].node].pc = "unregister"
           /\ app[ep[id].node].entry.id = id

(* The central registry holds an id at most once, although                 *)
(* registry_insert does not look for duplicates.                           *)
CentralIdsUnique ==
    \A i, j \in 1..Len(central) : central[i].id = central[j].id => i = j

-----------------------------------------------------------------------------
(* Agreement when the network is quiet                                     *)

Quiet == \A n \in Nodes : /\ up[n] = <<>> /\ down[n] = <<>>
                          /\ handler[n].pc \in {"none", "idle", "done"}
                          /\ reader[n] = IdleReader
                          /\ app[n] = IdleApp

(* Once the network is quiet, the central registry lists every end-point   *)
(* of a process that is connected to it and, unless a process has ended or *)
(* lost its connection, no other: no request is lost, and none is handled  *)
(* before the one it takes back.                                           *)
RegistryFollows ==
    Quiet =>
        /\ \A id \in Ids : IsOpen(id) /\ conn[ep[id].node] = "open" => id \in IdsOf(central)
        /\ (\A n \in Nodes : conn[n] # "closed") =>
                \A id \in IdsOf(central) \ {RegistryEntry.id} : IsOpen(id)

(* Two end-points that a proxy cannot tell apart were registered under     *)
(* different ids.                                                          *)
HasTwin(id) == \E e, f \in made : e.id = id /\ f.id # id /\ entry_equals(e, f)

InStep(n) == status[n] = "ready" /\ conn[n] = "open"

(* Once the network is quiet, the proxy of a connected process lists       *)
(* exactly the ids that the central registry lists, in spite of requests   *)
(* handled concurrently, leaving aside events that overtook the list       *)
(* response and end-points with the same name, topic, type and address.    *)
Agreement ==
    Quiet => \A n \in {m \in Nodes : InStep(m)} :
                \A id \in Ids : id \notin raced[n] /\ ~HasTwin(id) =>
                    (id \in IdsOf(central) <=> id \in IdsOf(preg[n]))

(* Moreover the address that a proxy finds for an end-point of another     *)
(* process is the one in the central registry, although a messagelink      *)
(* changes its address when it is connected and the update is broadcast    *)
(* separately.                                                             *)
AddressAgreement ==
    Quiet => \A n \in {m \in Nodes : InStep(m)} :
                \A id \in IdsOf(central) \cap IdsOf(preg[n]) :
                    /\ id \notin raced[n] /\ ~HasTwin(id)
                    /\ IsOpen(id) => ep[id].node # n
                    => central[FirstId(central, id)].addr
                            = preg[n][FirstId(preg[n], id)].addr

HubType == [datalink |-> "datahub", messagelink |-> "messagehub",
            streamerlink |-> "streamer"]

Made(type, topic) == {m \in made : m.type = type /\ m.topic = topic}

(* A link is connected only to an address at which a hub or streamer of    *)
(* its own topic was opened, and a datahub sends only to datalinks of its  *)
(* topic, although addresses change hands, come from lists that may be     *)
(* out of date, and are updated by id in messages of their own.            *)
ConnectedToPeers ==
    \A id \in {i \in Ids : IsOpen(i)} :
        /\ ep[id].type \in LinkTypes /\ ep[id].remote # NoAddr
           => \E hub \in Made(HubType[ep[id].type], ep[id].topic) : hub.addr = ep[id].remote
        /\ \A a \in ep[id].links : \E link \in Made("datalink", ep[id].topic) : link.addr = a

(* If one hub was ever opened for a topic and it is still open, then once  *)
(* the network is quiet every open link of the topic is connected to it,   *)
(* in whichever order the two processes opened hub and link.               *)
LinksFindHub ==
    Quiet => \A n \in {m \in Nodes : InStep(m)} :
      \A id \in {i \in Ids : IsOpen(i) /\ ep[i].node = n /\ ep[i].type \in LinkTypes} :
        \A hub \in Made(HubType[ep[id].type], ep[id].topic) :
            /\ Made(HubType[ep[id].type], ep[id].topic) = {hub}
            /\ IsOpen(hub.id) /\ InStep(ep[hub.id].node)
            /\ hub.id \notin raced[n]
            => ep[id].remote = hub.addr

(* Likewise a datahub sends to all the datalinks of its topic, leaving     *)
(* aside those that its proxy may take for another that was opened at the  *)
(* same address, and so never lists.                                       *)
HubFindsLinks ==
    Quiet => \A n \in {m \in Nodes : InStep(m)} :
      \A id \in {i \in Ids : IsOpen(i) /\ ep[i].node = n /\ ep[i].type = "datahub"} :
        (\A h \in Made("datahub", ep[id].topic) : h.id = id) =>
        \A i \in 1..Len(central) :
            /\ central[i].type = "datalink" /\ central[i].topic = ep[id].topic
            /\ central[i].id \notin raced[n] /\ ~HasTwin(central[i].id)
            => central[i].addr \in ep[id].links

-----------------------------------------------------------------------------
(* Progress                                                                *)

(* A process that starts its proxy gets the list and becomes ready, or     *)
(* gives up.                                                               *)
ProxyBecomesReady ==
    \A n \in Nodes : status[n] = "initializing" ~> status[n] \in {"ready", "gone"}

(* A proxy that is connected catches up with the central registry on every *)
(* end-point, whatever opens, closes, ends or breaks in other processes.   *)
ProxyCatchesUp ==
    \A n \in Nodes, id \in Ids :
        InStep(n) ~> \/ ~InStep(n) \/ id \in raced[n]
                     \/ (id \in IdsOf(central) <=> id \in IdsOf(preg[n]))

-----------------------------------------------------------------------------
(* What the documentation and the comments say                             *)

(* proxy.c: "remove the endpoints that have vanished".  What               *)
(* proxy_handle_update_list removes is not in the central registry.        *)
OnlyVanishedRemoved ==
    [][\A n \in Nodes : update_list_prune(n) =>
          (IdsOf(preg[n]) \ IdsOf(preg'[n])) \cap IdsOf(central) = {}]_vars
=============================================================================
