--------------------------- MODULE DataPathProofs ---------------------------
(***************************************************************************)
(* Proofs about DataPath, for any number of links, of threads that add     *)
(* links and of nodes, and any capacity of the sockets.                    *)
(***************************************************************************)
EXTENDS DataPath, TLAPS

(* The node that the data thread is at exists and its address is alive;    *)
(* while the thread waits in recvfrom, with the mutex, the node is in the  *)
(* list.                                                                   *)
AtAlive ==
    /\ reader \in {"recv", "ondata", "relock"} => at \in 1..adds /\ at \notin freed
    /\ reader = "recv" => at \in links

(* How far deletion has come, and who has ended by then.                   *)
DeletionOrder ==
    /\ deleter \in {"join_broadcast", "free", "freed"} => reader = "done"
    /\ deleter \in {"free", "freed"} => caster = "done"
    /\ deleter # "none" => \A t \in Callers : call[t] = Idle

(* What is said of the hub, and the whole invariant.                       *)
HubInv == /\ HubTypeOK /\ AtAlive /\ ListedAlive /\ AnswerReachesSender
          /\ DeletionOrder

IInv == UdpTypeOK /\ LinkTypeOK /\ LinkFreedLast /\ HubInv

-----------------------------------------------------------------------------
(* Every initial state satisfies the invariant.                            *)
LEMMA InitInvariant == Init => IInv
<1> SUFFICES ASSUME Init PROVE IInv
  OBVIOUS
<1>1. UdpTypeOK
  BY DEF Init, UdpInit, UdpTypeOK, Sockets
<1>2. LinkTypeOK /\ LinkFreedLast
  BY DEF Init, LinkInit, LinkTypeOK, LinkFreedLast
<1>3. HubTypeOK
  <2>1. call \in [Callers -> [pc : {"idle"}] \cup [pc : {"find", "append"}, addr : Peers]]
    BY DEF Init, HubInit, Idle
  <2>2. stored \in [Nodes -> Peers \cup {Hub}]
    BY DEF Init, HubInit
  <2>3. adds \in Nat /\ adds <= MaxAdds /\ at \in 0..adds
    BY DataHubAssumption DEF Init, HubInit
  <2> QED
    BY <2>1, <2>2, <2>3 DEF Init, HubInit, HubTypeOK, Pcs
<1>4. AtAlive /\ ListedAlive /\ AnswerReachesSender /\ DeletionOrder
  BY DEF Init, HubInit, AtAlive, ListedAlive, AnswerReachesSender, DeletionOrder
<1> QED
  BY <1>1, <1>2, <1>3, <1>4 DEF IInv, HubInv

(* Sending keeps the types of the queues and the sockets.                  *)
LEMMA SendTypes ==
  ASSUME queue \in [Sockets -> Seq(Peers \cup {Hub})], open \subseteq Sockets,
         NEW from \in Peers \cup {Hub}, NEW S, udp_socket_send(from, S)
  PROVE  queue' \in [Sockets -> Seq(Peers \cup {Hub})] /\ open' = open
<1>1. PICK D \in SUBSET (S \cap open) :
          queue' = [a \in Sockets |-> IF a \in D /\ Len(queue[a]) < MaxQueue
                                      THEN Append(queue[a], from) ELSE queue[a]]
  BY DEF udp_socket_send
<1>2. \A a \in Sockets : Append(queue[a], from) \in Seq(Peers \cup {Hub})
  OBVIOUS
<1> QED
  BY <1>1, <1>2 DEF udp_socket_send

(* Receiving keeps them, and the packet is from a peer or the hub.         *)
LEMMA ReadTypes ==
  ASSUME queue \in [Sockets -> Seq(Peers \cup {Hub})], open \subseteq Sockets,
         NEW a \in Sockets, NEW sender, udp_socket_read(a, sender)
  PROVE  /\ queue' \in [Sockets -> Seq(Peers \cup {Hub})] /\ open' = open
         /\ sender \in Peers \cup {Hub}
  BY DEF udp_socket_read

(* Visiting the next node, or the end of the list.                         *)
LEMMA VisitNext ==
  ASSUME NEW n \in Nat, NEW L \in SUBSET Nat, Visit(n, L)
  PROVE  /\ \/ reader' = "wait" /\ at' = 0
            \/ reader' = "recv" /\ at' \in L /\ at' > n
         /\ ReaderUnchanged
  BY DEF Visit, Following, ReaderGoto

-----------------------------------------------------------------------------
(* The steps of the threads that add links keep the invariant of the hub.  *)
LEMMA CallerStepInvariant ==
  ASSUME HubInv, CallerStep
  PROVE  HubInv' /\ UNCHANGED udpVars
<1> USE DEF HubInv
<1>1. PICK t \in Callers : \/ \E a \in Peers : call_add_link(t, a)
                           \/ add_link_find(t)
                           \/ add_link_append(t)
                           \/ add_link_append_dropped(t)
  BY DEF CallerStep
<1>2. ASSUME NEW a \in Peers, call_add_link(t, a)
      PROVE  HubInv' /\ UNCHANGED udpVars
  <2>1. HubTypeOK'
    BY <1>2 DEF call_add_link, CallerGoto, listVars, HubTypeOK
  <2>2. AtAlive' /\ ListedAlive' /\ AnswerReachesSender'
    BY <1>2 DEF call_add_link, CallerGoto, listVars, AtAlive, ListedAlive, AnswerReachesSender
  <2>3. DeletionOrder'
    BY <1>2 DEF call_add_link, CallerGoto, DeletionOrder
  <2> QED
    BY <1>2, <2>1, <2>2, <2>3 DEF call_add_link, CallerGoto
<1>3. CASE add_link_find(t)
  <2>1. call[t] \in [pc : {"find", "append"}, addr : Peers]
    BY <1>3 DEF add_link_find, HubTypeOK
  <2>2. HubTypeOK'
    BY <1>3, <2>1 DEF add_link_find, CallerGoto, listVars, HubTypeOK, Idle
  <2>3. AtAlive' /\ ListedAlive' /\ AnswerReachesSender'
    BY <1>3 DEF add_link_find, CallerGoto, listVars, AtAlive, ListedAlive, AnswerReachesSender
  <2>4. deleter = "none"
    BY <1>3 DEF add_link_find, DeletionOrder, Idle
  <2>5. DeletionOrder'
    BY <1>3, <2>4 DEF add_link_find, CallerGoto, DeletionOrder
  <2> QED
    BY <1>3, <2>2, <2>3, <2>5 DEF add_link_find, CallerGoto
<1>4. CASE add_link_append(t)
  <2>1. call[t] \in [pc : {"find", "append"}, addr : Peers]
    BY <1>4 DEF add_link_append, HubTypeOK
  <2>2. adds + 1 \in Nodes /\ adds + 1 \notin freed /\ adds + 1 # at
    BY <1>4, DataHubAssumption DEF add_link_append, HubTypeOK, Nodes
  <2>3. HubTypeOK'
    <3>1. adds' \in Nat /\ adds' <= MaxAdds /\ links' \subseteq 1..adds'
          /\ freed' \subseteq 1..adds' /\ at' \in 0..adds'
      BY <1>4, DataHubAssumption DEF add_link_append, CallerGoto, HubTypeOK
    <3>2. stored' \in [Nodes -> Peers \cup {Hub}]
      BY <1>4, <2>1, <2>2 DEF add_link_append, HubTypeOK
    <3>3. call' \in [Callers -> [pc : {"idle"}] \cup [pc : {"find", "append"}, addr : Peers]]
      BY <1>4 DEF add_link_append, CallerGoto, HubTypeOK, Idle
    <3> QED
      BY <1>4, <3>1, <3>2, <3>3 DEF add_link_append, CallerGoto, HubTypeOK
  <2>4. AtAlive'
    BY <1>4 DEF add_link_append, CallerGoto, HubTypeOK, AtAlive
  <2>5. ListedAlive'
    BY <1>4, <2>2 DEF add_link_append, ListedAlive
  <2>6. AnswerReachesSender'
    BY <1>4, <2>2 DEF add_link_append, CallerGoto, HubTypeOK, AnswerReachesSender
  <2>7. deleter = "none"
    BY <1>4 DEF add_link_append, DeletionOrder, Idle
  <2>8. DeletionOrder'
    BY <1>4, <2>7 DEF add_link_append, CallerGoto, DeletionOrder
  <2> QED
    BY <1>4, <2>3, <2>4, <2>5, <2>6, <2>8 DEF add_link_append, CallerGoto
<1>5. CASE add_link_append_dropped(t)
  <2>1. HubTypeOK'
    BY <1>5 DEF add_link_append_dropped, CallerGoto, listVars, HubTypeOK, Idle
  <2>2. AtAlive' /\ ListedAlive' /\ AnswerReachesSender'
    BY <1>5 DEF add_link_append_dropped, CallerGoto, listVars, AtAlive, ListedAlive,
                AnswerReachesSender
  <2>3. deleter = "none"
    BY <1>5 DEF add_link_append_dropped, DeletionOrder, Idle
  <2>4. DeletionOrder'
    BY <1>5, <2>3 DEF add_link_append_dropped, CallerGoto, DeletionOrder
  <2> QED
    BY <1>5, <2>1, <2>2, <2>4 DEF add_link_append_dropped, CallerGoto
<1> QED
  BY <1>1, <1>2, <1>3, <1>4, <1>5

(* Sending to a set of nodes keeps the list within itself.                 *)
LEMMA SendSteps ==
  ASSUME NEW N, SendTo(N), UdpTypeOK
  PROVE  /\ links' \subseteq links
         /\ UNCHANGED <<stored, adds, freed, open>>
         /\ UdpTypeOK'
<1>1. PICK F \in SUBSET N : /\ udp_socket_send(Hub, {stored[n] : n \in N \ F})
                            /\ DropFailed(F \cap links)
  BY DEF SendTo
<1>2. queue' \in [Sockets -> Seq(Peers \cup {Hub})] /\ open' = open
  BY <1>1, SendTypes DEF UdpTypeOK
<1> QED
  BY <1>1, <1>2 DEF DropFailed, UdpTypeOK

(* So do the steps of the broadcast thread.                                *)
LEMMA CasterStepInvariant ==
  ASSUME HubInv, UdpTypeOK, CasterStep
  PROVE  HubInv' /\ UdpTypeOK' /\ UNCHANGED open
<1>1. CASE datahub_broadcast
  <2>1. /\ links' \subseteq links
        /\ UNCHANGED <<stored, adds, freed, open>>
        /\ UdpTypeOK'
    BY <1>1, SendSteps DEF datahub_broadcast, datahub_broadcast_locked
  <2>2. reader # "recv" /\ UNCHANGED <<reader, at, input, caster, call, quit, deleter>>
    BY <1>1 DEF datahub_broadcast, datahub_broadcast_locked, MutexFree
  <2>3. HubTypeOK'
    BY <2>1, <2>2 DEF HubInv, HubTypeOK
  <2>4. AtAlive' /\ ListedAlive' /\ AnswerReachesSender'
    BY <2>1, <2>2 DEF HubInv, AtAlive, ListedAlive, AnswerReachesSender
  <2>5. DeletionOrder'
    BY <2>2 DEF HubInv, DeletionOrder
  <2> QED
    BY <2>1, <2>3, <2>4, <2>5 DEF HubInv
<1>2. CASE datahub_run_broadcast_done
  <2>1. HubTypeOK'
    BY <1>2 DEF datahub_run_broadcast_done, listVars, HubInv, HubTypeOK
  <2>2. AtAlive' /\ ListedAlive' /\ AnswerReachesSender' /\ DeletionOrder'
    BY <1>2 DEF datahub_run_broadcast_done, listVars, HubInv, AtAlive, ListedAlive,
                AnswerReachesSender, DeletionOrder
  <2>3. UdpTypeOK' /\ UNCHANGED open
    BY <1>2 DEF datahub_run_broadcast_done, udpVars, UdpTypeOK
  <2> QED
    BY <2>1, <2>2, <2>3 DEF HubInv
<1> QED
  BY <1>1, <1>2 DEF CasterStep

(* The steps of deletion: addresses are deleted when the data thread has   *)
(* ended.                                                                  *)
LEMMA DeleterStepInvariant ==
  ASSUME HubInv, DeleterStep
  PROVE  HubInv' /\ UNCHANGED udpVars
<1>1. CASE app_set_quit
  BY <1>1 DEF app_set_quit, listVars, HubInv, HubTypeOK, AtAlive, ListedAlive,
              AnswerReachesSender, DeletionOrder
<1>2. CASE delete_datahub
  BY <1>2 DEF delete_datahub, DeleterUnchanged, listVars, HubInv, HubTypeOK, AtAlive,
              ListedAlive, AnswerReachesSender, DeletionOrder
<1>3. CASE join_data_thread
  BY <1>3 DEF join_data_thread, DeleterUnchanged, listVars, HubInv, HubTypeOK, AtAlive,
              ListedAlive, AnswerReachesSender, DeletionOrder
<1>4. CASE join_broadcast_thread
  BY <1>4 DEF join_broadcast_thread, DeleterUnchanged, listVars, HubInv, HubTypeOK,
              AtAlive, ListedAlive, AnswerReachesSender, DeletionOrder
<1>5. CASE delete_links
  <2>1. reader = "done" /\ caster = "done" /\ \A t \in Callers : call[t] = Idle
    BY <1>5 DEF delete_links, HubInv, DeletionOrder
  <2>2. HubTypeOK'
    BY <1>5 DEF delete_links, DeleterUnchanged, HubInv, HubTypeOK
  <2>3. AtAlive' /\ ListedAlive' /\ AnswerReachesSender' /\ DeletionOrder'
    BY <1>5, <2>1 DEF delete_links, DeleterUnchanged, AtAlive, ListedAlive,
                      AnswerReachesSender, DeletionOrder
  <2> QED
    BY <1>5, <2>2, <2>3 DEF delete_links, DeleterUnchanged, HubInv
<1> QED
  BY <1>1, <1>2, <1>3, <1>4, <1>5 DEF DeleterStep

-----------------------------------------------------------------------------
(* A step of the data thread that only visits the next node.               *)
LEMMA VisitInvariant ==
  ASSUME HubInv, Visit(at, links) \/ Visit(0, links),
         reader \in {"lock", "relock"},
         UNCHANGED <<links, stored, freed, input>>
  PROVE  HubInv'
<1>1. /\ \/ reader' = "wait" /\ at' = 0
         \/ reader' = "recv" /\ at' \in links
      /\ UNCHANGED <<adds, caster, call, quit, deleter>>
  BY VisitNext DEF HubInv, HubTypeOK, ReaderUnchanged
<1>2. HubTypeOK'
  <2>1. adds \in Nat /\ links \subseteq 1..adds
    BY DEF HubInv, HubTypeOK
  <2>2. at' \in 0..adds
    <3>1. CASE at' = 0
      BY <2>1, <3>1
    <3>2. CASE at' \in links
      BY <2>1, <3>2
    <3> QED
      BY <1>1, <3>1, <3>2
  <2> QED
    BY <1>1, <2>2 DEF HubInv, HubTypeOK, Pcs
<1>3. AtAlive'
  BY <1>1 DEF HubInv, HubTypeOK, AtAlive, ListedAlive
<1>4. ListedAlive' /\ AnswerReachesSender'
  BY <1>1 DEF HubInv, ListedAlive, AnswerReachesSender
<1>5. DeletionOrder'
  BY <1>1 DEF HubInv, DeletionOrder
<1> QED
  BY <1>2, <1>3, <1>4, <1>5 DEF HubInv

(* The steps of the data thread.                                           *)
LEMMA ReaderStepInvariant ==
  ASSUME HubInv, UdpTypeOK, ReaderStep \/ datahub_read_error
  PROVE  HubInv' /\ UdpTypeOK' /\ UNCHANGED open
<1>1. CASE datahub_run_data \/ datahub_run_data_done
  <2>1. /\ reader = "wait" /\ reader' \in {"lock", "done"} /\ at' = 0
        /\ UNCHANGED <<links, stored, freed, input, adds, caster, call, quit, deleter, udpVars>>
    BY <1>1 DEF datahub_run_data, datahub_run_data_done, ReaderGoto, ReaderUnchanged
  <2>2. HubTypeOK'
    BY <2>1 DEF HubInv, HubTypeOK, Pcs
  <2>3. AtAlive' /\ ListedAlive' /\ AnswerReachesSender' /\ DeletionOrder'
    BY <2>1 DEF HubInv, AtAlive, ListedAlive, AnswerReachesSender, DeletionOrder
  <2> QED
    BY <2>1, <2>2, <2>3 DEF HubInv, UdpTypeOK, udpVars
<1>2. CASE datahub_read_lock \/ datahub_read_next
  <2>1. HubInv'
    BY <1>2, VisitInvariant DEF datahub_read_lock, datahub_read_next
  <2> QED
    BY <1>2, <2>1 DEF datahub_read_lock, datahub_read_next, UdpTypeOK, udpVars
<1>3. CASE datahub_read_recv
  <2>1. PICK sender \in Peers : ReceiveFrom(at, sender) /\ input' = sender
    BY <1>3 DEF datahub_read_recv
  <2>2. /\ reader = "recv" /\ reader' = "ondata"
        /\ UNCHANGED <<at, links, freed, adds, caster, call, quit, deleter>>
    BY <1>3 DEF datahub_read_recv, ReaderGoto, ReaderUnchanged
  <2>3. at \in Nodes /\ at \notin freed /\ at \in 1..adds
    BY <2>2, DataHubAssumption DEF HubInv, HubTypeOK, AtAlive, Nodes
  <2>4. UdpTypeOK' /\ UNCHANGED open
    BY <2>1, ReadTypes DEF ReceiveFrom, UdpTypeOK, Sockets
  <2>5. stored' \in [Nodes -> Peers \cup {Hub}] /\ stored'[at] = sender
    BY <2>1, <2>3 DEF ReceiveFrom, HubInv, HubTypeOK
  <2>6. HubTypeOK'
    BY <2>1, <2>2, <2>5 DEF HubInv, HubTypeOK, Pcs
  <2>7. AtAlive' /\ ListedAlive' /\ AnswerReachesSender'
    BY <2>1, <2>2, <2>3, <2>5 DEF HubInv, AtAlive, ListedAlive, AnswerReachesSender
  <2>8. DeletionOrder'
    BY <2>2 DEF HubInv, DeletionOrder
  <2> QED
    BY <2>4, <2>6, <2>7, <2>8 DEF HubInv
<1>4. CASE datahub_read_error
  <2>1. /\ reader = "recv" /\ freed' = freed \cup {at} /\ links' = links \ {at}
        /\ UNCHANGED <<stored, input, udpVars>>
    BY <1>4 DEF datahub_read_error
  <2>2. /\ \/ reader' = "wait" /\ at' = 0
           \/ reader' = "recv" /\ at' \in links /\ at' > at
        /\ UNCHANGED <<adds, caster, call, quit, deleter>>
    BY <1>4, VisitNext DEF datahub_read_error, HubInv, HubTypeOK, ReaderUnchanged
  <2>3. at \in 1..adds
    BY <2>1 DEF HubInv, AtAlive
  <2>4. HubTypeOK'
    <3>1. adds \in Nat /\ links \subseteq 1..adds
      BY DEF HubInv, HubTypeOK
    <3>2. at' \in 0..adds
      <4>1. CASE at' = 0
        BY <3>1, <4>1
      <4>2. CASE at' \in links
        BY <3>1, <4>2
      <4> QED
        BY <2>2, <4>1, <4>2
    <3>3. links' \subseteq 1..adds /\ freed' \subseteq 1..adds
      BY <2>1, <2>3 DEF HubInv, HubTypeOK
    <3> QED
      BY <2>1, <2>2, <3>2, <3>3 DEF HubInv, HubTypeOK, Pcs
  <2>5. ListedAlive' /\ AnswerReachesSender'
    BY <2>1, <2>2 DEF HubInv, ListedAlive, AnswerReachesSender
  <2>6. AtAlive'
    <3>1. CASE reader' = "wait"
      BY <3>1 DEF AtAlive
    <3>2. CASE reader' = "recv" /\ at' \in links /\ at' > at
      <4>1. at' # at
        BY <2>3, <3>2
      <4>2. at' \in 1..adds /\ at' \notin freed
        BY <3>2 DEF HubInv, HubTypeOK, ListedAlive
      <4> QED
        BY <2>1, <2>2, <3>2, <4>1, <4>2 DEF AtAlive
    <3> QED
      BY <2>2, <3>1, <3>2
  <2>7. DeletionOrder'
    BY <2>1, <2>2 DEF HubInv, DeletionOrder
  <2> QED
    BY <2>1, <2>4, <2>5, <2>6, <2>7 DEF HubInv, UdpTypeOK, udpVars
<1>5. CASE ondata_send
  <2>1. /\ links' \subseteq links
        /\ UNCHANGED <<stored, adds, freed, open>>
        /\ UdpTypeOK'
    BY <1>5, SendSteps DEF ondata_send, datahub_send_locked, datahub_broadcast_locked
  <2>2. /\ reader = "ondata" /\ reader' = "relock" /\ input' = Hub
        /\ UNCHANGED <<at, caster, call, quit, deleter>>
    BY <1>5 DEF ondata_send
  <2>3. HubTypeOK'
    BY <2>1, <2>2 DEF HubInv, HubTypeOK, Pcs
  <2>4. AtAlive' /\ ListedAlive' /\ AnswerReachesSender' /\ DeletionOrder'
    BY <2>1, <2>2 DEF HubInv, AtAlive, ListedAlive, AnswerReachesSender, DeletionOrder
  <2> QED
    BY <2>1, <2>3, <2>4 DEF HubInv
<1>6. CASE ondata_return
  <2>1. /\ reader = "ondata" /\ reader' = "relock" /\ input' = Hub
        /\ UNCHANGED <<at, links, stored, freed, adds, caster, call, quit, deleter, udpVars>>
    BY <1>6 DEF ondata_return, ReaderGoto, ReaderUnchanged
  <2>2. HubTypeOK'
    BY <2>1 DEF HubInv, HubTypeOK, Pcs
  <2>3. AtAlive' /\ ListedAlive' /\ AnswerReachesSender' /\ DeletionOrder'
    BY <2>1 DEF HubInv, AtAlive, ListedAlive, AnswerReachesSender, DeletionOrder
  <2> QED
    BY <2>1, <2>2, <2>3 DEF HubInv, UdpTypeOK, udpVars
<1>7. CASE datahub_read_next_freed
  <2>1. /\ reader = "relock" /\ reader' \in {"wait", "crashed"} /\ at' = 0
        /\ UNCHANGED <<links, stored, freed, input, adds, caster, call, quit, deleter, udpVars>>
    BY <1>7 DEF datahub_read_next_freed, ReaderGoto, ReaderUnchanged
  <2>2. HubTypeOK'
    BY <2>1 DEF HubInv, HubTypeOK, Pcs
  <2>3. AtAlive' /\ ListedAlive' /\ AnswerReachesSender' /\ DeletionOrder'
    BY <2>1 DEF HubInv, AtAlive, ListedAlive, AnswerReachesSender, DeletionOrder
  <2> QED
    BY <2>1, <2>2, <2>3 DEF HubInv, UdpTypeOK, udpVars
<1> QED
  BY <1>1, <1>2, <1>3, <1>4, <1>5, <1>6, <1>7 DEF ReaderStep

(* The steps of a link.                                                    *)
LEMMA LinkStepInvariant ==
  ASSUME UdpTypeOK, LinkTypeOK, LinkFreedLast, NEW l \in Links, LinkStep(l)
  PROVE  UdpTypeOK' /\ LinkTypeOK' /\ LinkFreedLast'
<1> USE DEF LinkTypeOK, LinkFreedLast
<1>1. ASSUME SendToHub(l) PROVE UdpTypeOK' /\ UNCHANGED open
  BY <1>1, SendTypes DEF SendToHub, UdpTypeOK, udpVars, Peers
<1>2. ASSUME NEW sender, udp_socket_read(l, sender) PROVE UdpTypeOK' /\ UNCHANGED open
  BY <1>2, ReadTypes DEF UdpTypeOK, Sockets
<1>3. ASSUME UNCHANGED udpVars PROVE UdpTypeOK' /\ UNCHANGED open
  BY <1>3 DEF udpVars, UdpTypeOK
<1>4. CASE datalink_set_remote_addr(l)
  BY <1>3, <1>4 DEF datalink_set_remote_addr
<1>5. CASE datalink_send(l)
  BY <1>1, <1>5 DEF datalink_send, linkVars
<1>6. CASE datalink_handle_input(l)
  BY <1>3, <1>6 DEF datalink_handle_input, ThreadGoto
<1>7. CASE datalink_read(l)
  BY <1>2, <1>7 DEF datalink_read, ThreadGoto
<1>8. CASE datalink_read_timeout(l)
  BY <1>3, <1>8 DEF datalink_read_timeout, ThreadGoto
<1>9. CASE datalink_ondata(l)
  BY <1>1, <1>3, <1>9 DEF datalink_ondata, ThreadGoto
<1>10. CASE datalink_run_done(l)
  BY <1>3, <1>10 DEF datalink_run_done, ThreadGoto
<1>11. CASE link_app_quit(l)
  BY <1>3, <1>11 DEF link_app_quit
<1>12. CASE datalink_stop_thread(l)
  BY <1>3, <1>12 DEF datalink_stop_thread
<1>13. CASE delete_datalink(l)
  <2>1. UdpTypeOK'
    <3>1. open' \subseteq Sockets /\ queue' = [queue EXCEPT ![l] = <<>>]
      BY <1>13 DEF delete_datalink, close_udp_socket, UdpTypeOK
    <3>2. <<>> \in Seq(Peers \cup {Hub})
      OBVIOUS
    <3> QED
      BY <3>1, <3>2 DEF UdpTypeOK
  <2> QED
    BY <1>13, <2>1 DEF delete_datalink, close_udp_socket
<1> QED
  BY <1>4, <1>5, <1>6, <1>7, <1>8, <1>9, <1>10, <1>11, <1>12, <1>13 DEF LinkStep

(* Every step keeps the invariant.                                         *)
LEMMA StepInvariant == IInv /\ [Next]_vars => IInv'
<1> SUFFICES ASSUME IInv, [Next]_vars PROVE IInv'
  OBVIOUS
<1> USE DEF IInv
<1>1. ASSUME UNCHANGED linkVars, UNCHANGED open PROVE LinkTypeOK' /\ LinkFreedLast'
  BY <1>1 DEF linkVars, LinkTypeOK, LinkFreedLast
<1>2. ASSUME UNCHANGED udpVars PROVE UdpTypeOK' /\ UNCHANGED open
  BY <1>2 DEF udpVars, UdpTypeOK
<1>3. ASSUME UNCHANGED hubVars PROVE HubInv'
  BY <1>3 DEF hubVars, HubInv, HubTypeOK, AtAlive, ListedAlive, AnswerReachesSender,
              DeletionOrder
<1>4. CASE CallerStep /\ UNCHANGED linkVars
  BY <1>1, <1>2, <1>4, CallerStepInvariant
<1>5. CASE CasterStep /\ UNCHANGED linkVars
  BY <1>1, <1>5, CasterStepInvariant
<1>6. CASE (ReaderStep \/ datahub_read_error) /\ UNCHANGED linkVars
  BY <1>1, <1>6, ReaderStepInvariant
<1>7. CASE DeleterStep /\ UNCHANGED linkVars
  BY <1>1, <1>2, <1>7, DeleterStepInvariant
<1>8. CASE \E l \in Links : LinkStep(l) /\ UNCHANGED hubVars
  BY <1>3, <1>8, LinkStepInvariant
<1>9. CASE \E a \in Others : other_send(a) /\ UNCHANGED hubVars
  <2>1. UdpTypeOK' /\ UNCHANGED open
    BY <1>9, SendTypes DEF other_send, UdpTypeOK, Peers
  <2> QED
    BY <1>1, <1>3, <1>9, <2>1 DEF other_send
<1>10. CASE UNCHANGED vars
  BY <1>1, <1>2, <1>3, <1>10 DEF vars
<1> QED
  BY <1>4, <1>5, <1>6, <1>7, <1>8, <1>9, <1>10 DEF Next

-----------------------------------------------------------------------------
(* The invariant holds in every reachable state.                           *)
LEMMA Invariant == Spec => []IInv
  BY InitInvariant, StepInvariant, PTL DEF Spec

(* Every reachable state is well typed; the data thread never goes beyond  *)
(* the list of links (datahub_read).                                       *)
THEOREM TypeCorrect == Spec => []TypeOK
<1>1. IInv => TypeOK
  BY DEF IInv, HubInv, TypeOK
<1> QED
  BY <1>1, Invariant, PTL

(* ondata gets the live address of the sender of the packet, for any       *)
(* number of links and of concurrent broadcasts and additions              *)
(* (datahub_read).                                                         *)
THEOREM AnswersReachSenders == Spec => []AnswerReachesSender
<1>1. IInv => AnswerReachesSender
  BY DEF IInv, HubInv
<1> QED
  BY <1>1, Invariant, PTL

(* The list of a hub holds live addresses only.                            *)
THEOREM ListStaysAlive == Spec => []ListedAlive
<1>1. IInv => ListedAlive
  BY DEF IInv, HubInv
<1> QED
  BY <1>1, Invariant, PTL

(* delete_datahub and delete_datalink free their objects last.             *)
THEOREM FreedLast == Spec => [](HubFreedLast /\ LinkFreedLast)
<1>1. IInv => HubFreedLast /\ LinkFreedLast
  BY DEF IInv, HubInv, DeletionOrder, HubFreedLast
<1> QED
  BY <1>1, Invariant, PTL
=============================================================================
