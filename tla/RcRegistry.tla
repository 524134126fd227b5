----------------------------- MODULE RcRegistry -----------------------------
(***************************************************************************)
(* The central registry process (librcom/src/rcregistry.c).  Its message   *)
(* hub runs one thread per link (server_messagelink_run), and each thread  *)
(* handles the requests of its link one after the other.  The threads run  *)
(* concurrently.  registry->mutex makes one operation on the list atomic,  *)
(* hub->links_mutex makes one broadcast atomic, and nothing makes the two  *)
(* atomic together: a handler is modelled as one step per critical section.*)
(***************************************************************************)
EXTENDS RegistryLinks

VARIABLES
    central,    \* rcregistry->registry->entries
    handler     \* handler[n]: where the thread of n's server-side link is

rcVars == <<central, handler>>

Idle == [pc |-> "idle"]

HandlerStates == [pc: {"none", "idle", "done"}]
            \cup [pc: {"announce"}, response: {"register", "unregister", "update-address"},
                  event: Events, exclude: SUBSET Nodes]
            \cup [pc: {"list"}, list: Seq(Entry)]

RcTypeOK == /\ central \in Seq(Entry)
            /\ handler \in [Nodes -> HandlerStates]

(* new_rcregistry inserts its own hub.  The end-point pointer it stores is *)
(* never looked at, and never leaves the process.                          *)
RcInit == /\ central = <<RegistryEntry>>
          /\ handler = [n \in Nodes |-> [pc |-> "none"]]

(* messagelink_send_text to the link of n: a message to a broken link is   *)
(* lost, and its sender only logs the error.                               *)
SendTo(targets, msg) ==
    [m \in Nodes |-> IF m \in targets /\ CanSend(m) THEN Append(down[m], msg)
                                                  ELSE down[m]]

HasRequest(n, kind) == /\ handler[n] = Idle
                       /\ up[n] # <<>>
                       /\ Head(up[n]).kind = kind

Announce(n, req, ev, exclude) ==
    handler' = [handler EXCEPT ![n] = [pc |-> "announce", response |-> req,
                                       event |-> ev, exclude |-> exclude]]

(* Mutant: the thread is started but the link is not in hub->links.        *)
messagehub_add_link_lost(n) ==
    /\ handler[n].pc = "none" /\ CanSend(n)
    /\ handler' = [handler EXCEPT ![n] = Idle]
    /\ UNCHANGED <<conn, links, up, down, central>>

(* messagehub_handle_websocket: the upgraded link is added to hub->links   *)
(* and then its thread is started.                                         *)
messagehub_add_link(n) ==
    /\ handler[n].pc = "none" /\ CanSend(n)
    /\ links' = links \cup {n}
    /\ handler' = [handler EXCEPT ![n] = Idle]
    /\ UNCHANGED <<conn, up, down, central>>

(* The thread of a broken link has read what had arrived and ends in       *)
(* messagehub_remove_link.  rcregistry_onclose keeps the entries.          *)
messagehub_remove_link(n) ==
    /\ conn[n] = "closed" /\ handler[n] = Idle /\ up[n] = <<>>
    /\ links' = links \ {n}
    /\ handler' = [handler EXCEPT ![n] = [pc |-> "done"]]
    /\ UNCHANGED <<conn, up, down, central>>

(* The list may already hold other entries of the same type and topic.     *)
rcregistry_register(n) ==
    /\ HasRequest(n, "register")
    /\ LET e == Head(up[n]).entry IN
       /\ central' = registry_insert(central, e)
       /\ Announce(n, "register", AddEvent(e), {})
    /\ up' = [up EXCEPT ![n] = Tail(@)]
    /\ UNCHANGED <<conn, links, down>>

(* Mutant: a removal is not announced.                                     *)
rcregistry_unregister_silent(n) ==
    /\ HasRequest(n, "unregister")
    /\ LET id == Head(up[n]).id IN
       /\ central' = registry_delete(central, id)
       /\ down' = SendTo({n}, Response("unregister", id \in IdsOf(central)))
    /\ up' = [up EXCEPT ![n] = Tail(@)]
    /\ UNCHANGED <<conn, links, handler>>

(* An unknown id is answered with a failure and is not announced.          *)
rcregistry_unregister(n) ==
    /\ HasRequest(n, "unregister")
    /\ LET id == Head(up[n]).id IN
       /\ central' = registry_delete(central, id)
       /\ IF id \in IdsOf(central)
          THEN Announce(n, "unregister", RemoveEvent(id), {}) /\ UNCHANGED down
          ELSE down' = SendTo({n}, Response("unregister", FALSE)) /\ UNCHANGED handler
    /\ up' = [up EXCEPT ![n] = Tail(@)]
    /\ UNCHANGED <<conn, links>>

(* Mutant: a change of address is not announced.                           *)
rcregistry_update_address_silent(n) ==
    /\ HasRequest(n, "update-address")
    /\ central' = registry_update_addr(central, Head(up[n]).id, Head(up[n]).addr)
    /\ down' = SendTo({n}, Response("update-address", TRUE))
    /\ up' = [up EXCEPT ![n] = Tail(@)]
    /\ UNCHANGED <<conn, links, handler>>

(* The sender of the update is excluded from its broadcast.                *)
rcregistry_update_address(n) ==
    /\ HasRequest(n, "update-address")
    /\ LET id == Head(up[n]).id
           a  == Head(up[n]).addr IN
       /\ central' = registry_update_addr(central, id, a)
       /\ Announce(n, "update-address", UpdateAddressEvent(id, a), {n})
    /\ up' = [up EXCEPT ![n] = Tail(@)]
    /\ UNCHANGED <<conn, links, down>>

(* The second part of the three handlers above: rcregistry_success, then   *)
(* messagehub_broadcast_f under hub->links_mutex.                          *)
rcregistry_announce(n) ==
    /\ handler[n].pc = "announce"
    /\ LET h == handler[n] IN
       down' = [m \in Nodes |->
                  (IF m = n /\ CanSend(m)
                   THEN Append(down[m], Response(h.response, TRUE)) ELSE down[m])
                  \o (IF m \in links \ h.exclude /\ CanSend(m) THEN <<h.event>> ELSE <<>>)]
    /\ handler' = [handler EXCEPT ![n] = Idle]
    /\ UNCHANGED <<conn, links, up, central>>

(* rcregistry_send_list, first part: registry_select_all copies the list.  *)
(* Encoding and parsing it each keep or undo the reversal of the select:   *)
(* the proxy sees the entries in their order in the registry.              *)
rcregistry_select_list(n) ==
    /\ HasRequest(n, "list")
    /\ handler' = [handler EXCEPT ![n] =
                     [pc |-> "list", list |-> registry_entry_encode_list(central)]]
    /\ up' = [up EXCEPT ![n] = Tail(@)]
    /\ UNCHANGED <<conn, links, down, central>>

(* Mutant: the copy is freed and not sent.                                 *)
rcregistry_send_list_lost(n) ==
    /\ handler[n].pc = "list"
    /\ handler' = [handler EXCEPT ![n] = Idle]
    /\ UNCHANGED <<conn, links, up, down, central>>

(* rcregistry_send_list, second part: the copy is sent.                    *)
rcregistry_send_list(n) ==
    /\ handler[n].pc = "list"
    /\ down' = SendTo({n}, ListResponse(handler[n].list))
    /\ handler' = [handler EXCEPT ![n] = Idle]
    /\ UNCHANGED <<conn, links, up, central>>
=============================================================================
