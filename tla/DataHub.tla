------------------------------ MODULE DataHub ------------------------------
(***************************************************************************)
(* A data hub (librcom/src/datahub.c): the list of the addresses of its    *)
(* links, the thread that reads packets and hands them to ondata, the      *)
(* thread that calls onbroadcast, the threads that add links (the reader   *)
(* of the proxy and the application in proxy_open_datahub), and deletion.  *)
(*                                                                         *)
(* Links are appended to the list, so the nodes of the list are numbered   *)
(* in the order of appending, and the list is the set of the nodes that    *)
(* are in it.  hub->mutex is held across steps only by the data thread,    *)
(* while it waits in recvfrom.                                             *)
(***************************************************************************)
EXTENDS Udp

CONSTANTS Callers,  \* the threads that call datahub_add_link
          MaxAdds   \* bound on the nodes that the list is given

ASSUME DataHubAssumption == MaxAdds \in Nat

VARIABLES
    links,      \* hub->links: the nodes that are in the list
    stored,     \* stored[n]: the address that node n refers to
    adds,       \* the number of nodes appended so far
    freed,      \* the nodes whose address was deleted
    reader,     \* where the data thread is
    at,         \* the node that datahub_read is at
    input,      \* hub->input: the sender of the packet that ondata handles, or Hub
    caster,     \* where the broadcast thread is
    call,       \* call[t]: where thread t is in datahub_add_link
    quit,       \* hub->quit_thread, or app_quit()
    deleter     \* where delete_datahub is

hubVars == <<links, stored, adds, freed, reader, at, input, caster, call,
             quit, deleter>>
listVars == <<links, stored, adds, freed>>

Nodes == 1..MaxAdds
Idle == [pc |-> "idle"]

(* new_datahub starts the data thread if there is an ondata handler, and   *)
(* the broadcast thread if there is an onbroadcast handler.                *)
HubInit == /\ links = {} /\ adds = 0 /\ freed = {}
           /\ stored = [n \in Nodes |-> Hub]
           /\ reader \in {"wait", "done"} /\ at = 0 /\ input = Hub
           /\ caster \in {"run", "done"}
           /\ call = [t \in Callers |-> Idle]
           /\ quit = FALSE
           /\ deleter = "none"

(* The process has not crashed and hub->mutex is free.                     *)
Running == reader # "crashed"
MutexFree == reader # "recv" /\ Running

-----------------------------------------------------------------------------
(* datahub_add_link                                                        *)

datahub_find(a) == \E n \in links : stored[n] = a

CallerGoto(t, c) ==
    /\ call' = [call EXCEPT ![t] = c]
    /\ UNCHANGED <<reader, at, input, caster, quit, deleter, udpVars>>

(* The proxy calls it for a link that it knows of, as long as the entry of *)
(* the hub has its pointer.  Bound: once the list was given MaxAdds nodes, *)
(* calls are for Links.                                                    *)
call_add_link(t, a) ==
    /\ call[t] = Idle /\ Running
    /\ deleter = "none"
    /\ adds < MaxAdds \/ a \in Links
    /\ CallerGoto(t, [pc |-> "find", addr |-> a])
    /\ UNCHANGED listVars

add_link_find(t) ==
    /\ call[t].pc = "find" /\ MutexFree
    /\ CallerGoto(t, IF datahub_find(call[t].addr) THEN Idle
                     ELSE [pc |-> "append", addr |-> call[t].addr])
    /\ UNCHANGED listVars

(* The mutex was released in between: the address may be listed by now.    *)
add_link_append(t) ==
    /\ call[t].pc = "append" /\ MutexFree
    /\ adds < MaxAdds
    /\ adds' = adds + 1
    /\ links' = links \cup {adds + 1}
    /\ stored' = [stored EXCEPT ![adds + 1] = call[t].addr]
    /\ CallerGoto(t, Idle)
    /\ UNCHANGED freed

(* Beyond the bound, a node is dropped again as soon as it is appended, as *)
(* by a send that fails.                                                   *)
add_link_append_dropped(t) ==
    /\ call[t].pc = "append" /\ MutexFree
    /\ adds = MaxAdds
    /\ CallerGoto(t, Idle)
    /\ UNCHANGED listVars

-----------------------------------------------------------------------------
(* Sending                                                                 *)

(* Mutant: the address is deleted.                                         *)
DropFailed_freed(F) ==
    /\ links' = links \ F
    /\ freed' = freed \cup F
    /\ UNCHANGED <<stored, adds>>

(* A failed send removes the node from the list; its address is never      *)
(* deleted.                                                                *)
DropFailed(F) ==
    /\ links' = links \ F
    /\ UNCHANGED <<stored, adds, freed>>

(* A packet to each of the nodes N; sending to the nodes F fails.          *)
SendTo(N) ==
    \E F \in SUBSET N :
        /\ udp_socket_send(Hub, {stored[n] : n \in N \ F})
        /\ DropFailed(F \cap links)

datahub_send_locked(n) == MutexFree /\ SendTo({n})

datahub_broadcast_locked(exclude) == MutexFree /\ SendTo(links \ exclude)

(* datahub_run_broadcast: onbroadcast broadcasts ...                       *)
datahub_broadcast ==
    /\ caster = "run" /\ Running
    /\ datahub_broadcast_locked({})
    /\ UNCHANGED <<reader, at, input, caster, call, quit, deleter>>

(* ... until the hub is deleted.                                           *)
datahub_run_broadcast_done ==
    /\ caster = "run" /\ quit /\ Running
    /\ caster' = "done"
    /\ UNCHANGED <<listVars, reader, at, input, call, quit, deleter, udpVars>>

-----------------------------------------------------------------------------
(* The data thread: datahub_run_data                                       *)

ReaderUnchanged == UNCHANGED <<adds, caster, call, quit, deleter>>

ReaderGoto(pc, n) ==
    /\ reader' = pc
    /\ at' = n
    /\ ReaderUnchanged

(* select says that there is a packet.                                     *)
datahub_run_data ==
    /\ reader = "wait" /\ ~quit
    /\ queue[Hub] # <<>>
    /\ ReaderGoto("lock", 0)
    /\ UNCHANGED <<links, stored, freed, input, udpVars>>

datahub_run_data_done ==
    /\ reader = "wait" /\ quit
    /\ ReaderGoto("done", 0)
    /\ UNCHANGED <<links, stored, freed, input, udpVars>>

Following(n, L) == {m \in L : m > n}

(* The node after n in the list L, or the end: datahub_read waits in       *)
(* recvfrom for each node, and releases the mutex at the end.              *)
Visit(n, L) ==
    IF Following(n, L) = {} THEN ReaderGoto("wait", 0)
    ELSE \E m \in Following(n, L) :
            /\ \A k \in Following(n, L) : m <= k
            /\ ReaderGoto("recv", m)

datahub_read_lock ==
    /\ reader = "lock"
    /\ Visit(0, links)
    /\ UNCHANGED <<links, stored, freed, input, udpVars>>

(* The address of the node itself is passed to recvfrom.                   *)
ReceiveFrom(n, sender) ==
    /\ udp_socket_read(Hub, sender)
    /\ stored' = [stored EXCEPT ![n] = sender]

(* Mutant: the packets of a link are read until recvfrom fails, and each is *)
(* handled with the mutex held.                                            *)
datahub_read_recv_all ==
    /\ reader = "recv"
    /\ \E sender \in Peers : ReceiveFrom(at, sender)
    /\ ReaderGoto("recv", at)
    /\ UNCHANGED <<links, freed, input>>

datahub_read_recv ==
    /\ reader = "recv"
    /\ \E sender \in Peers : ReceiveFrom(at, sender) /\ input' = sender
    /\ ReaderGoto("ondata", at)
    /\ UNCHANGED <<links, freed>>

(* recvfrom fails: the link is removed and its address deleted.            *)
datahub_read_error ==
    /\ reader = "recv"
    /\ freed' = freed \cup {at}
    /\ links' = links \ {at}
    /\ Visit(at, links)
    /\ UNCHANGED <<stored, input, udpVars>>

(* ondata may answer the sender, or pass the packet on to the others, ...  *)
ondata_send ==
    /\ reader = "ondata"
    /\ datahub_send_locked(at) \/ datahub_broadcast_locked({at})
    /\ reader' = "relock"
    /\ input' = Hub
    /\ UNCHANGED <<at, caster, call, quit, deleter>>

(* ... and returns.                                                        *)
ondata_return ==
    /\ reader = "ondata"
    /\ ReaderGoto("relock", at)
    /\ input' = Hub
    /\ UNCHANGED <<links, stored, freed, udpVars>>

datahub_read_next ==
    /\ reader = "relock" /\ at \in links
    /\ Visit(at, links)
    /\ UNCHANGED <<links, stored, freed, input, udpVars>>

(* The node was removed, and freed, while the mutex was released: list_next *)
(* reads freed memory and ends the list or crashes the process.            *)
datahub_read_next_freed ==
    /\ reader = "relock" /\ at \notin links
    /\ \E pc \in {"wait", "crashed"} : ReaderGoto(pc, 0)
    /\ UNCHANGED <<links, stored, freed, input, udpVars>>

-----------------------------------------------------------------------------
(* The process is told to quit: the threads of the hub end by themselves.  *)
app_set_quit ==
    /\ ~quit /\ Running
    /\ quit' = TRUE
    /\ UNCHANGED <<listVars, reader, at, input, caster, call, deleter, udpVars>>

(* delete_datahub.  The application has removed the entry of the hub, so   *)
(* no thread calls datahub_add_link any more.                              *)

DeleterUnchanged == UNCHANGED <<reader, at, input, caster, call, udpVars>>

(* Mutant: the threads are not told to end.                                *)
delete_datahub_unflagged ==
    /\ deleter = "none" /\ Running
    /\ \A t \in Callers : call[t] = Idle
    /\ deleter' = "join_data"
    /\ UNCHANGED <<listVars, quit>> /\ DeleterUnchanged

delete_datahub ==
    /\ deleter = "none" /\ Running
    /\ \A t \in Callers : call[t] = Idle
    /\ quit' = TRUE
    /\ deleter' = "join_data"
    /\ UNCHANGED listVars /\ DeleterUnchanged

(* Mutant: the data thread is not joined.                                  *)
join_data_thread_skipped ==
    /\ deleter = "join_data" /\ Running
    /\ deleter' = "join_broadcast"
    /\ UNCHANGED <<listVars, quit>> /\ DeleterUnchanged

join_data_thread ==
    /\ deleter = "join_data" /\ reader = "done"
    /\ deleter' = "join_broadcast"
    /\ UNCHANGED <<listVars, quit>> /\ DeleterUnchanged

join_broadcast_thread ==
    /\ deleter = "join_broadcast" /\ caster = "done" /\ Running
    /\ deleter' = "free"
    /\ UNCHANGED <<listVars, quit>> /\ DeleterUnchanged

(* The addresses and the hub are deleted; the socket is left open.         *)
delete_links ==
    /\ deleter = "free" /\ MutexFree
    /\ freed' = freed \cup links
    /\ links' = {}
    /\ deleter' = "freed"
    /\ UNCHANGED <<stored, adds, quit>> /\ DeleterUnchanged
=============================================================================
