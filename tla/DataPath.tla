------------------------------ MODULE DataPath ------------------------------
(***************************************************************************)
(* A data hub and its data links, connected by UDP.                        *)
(***************************************************************************)
EXTENDS DataHub, DataLink

vars == <<udpVars, hubVars, linkVars>>

Init == UdpInit /\ HubInit /\ LinkInit

CallerStep == \E t \in Callers :
                 \/ \E a \in Peers : call_add_link(t, a)
                 \/ add_link_find(t)
                 \/ add_link_append(t) \/ add_link_append_dropped(t)

CasterStep == datahub_broadcast \/ datahub_run_broadcast_done

ReaderStep == \/ datahub_run_data \/ datahub_run_data_done
              \/ datahub_read_lock
              \/ datahub_read_recv
              \/ ondata_send \/ ondata_return
              \/ datahub_read_next \/ datahub_read_next_freed

DeleterStep == \/ app_set_quit
               \/ delete_datahub
               \/ join_data_thread \/ join_broadcast_thread
               \/ delete_links

LinkStep(l) == \/ datalink_set_remote_addr(l)
               \/ datalink_send(l)
               \/ datalink_handle_input(l)
               \/ datalink_read(l) \/ datalink_read_timeout(l)
               \/ datalink_ondata(l)
               \/ datalink_run_done(l)
               \/ link_app_quit(l)
               \/ datalink_stop_thread(l) \/ delete_datalink(l)

Next == \/ CallerStep /\ UNCHANGED linkVars
        \/ CasterStep /\ UNCHANGED linkVars
        \/ (ReaderStep \/ datahub_read_error) /\ UNCHANGED linkVars
        \/ DeleterStep /\ UNCHANGED linkVars
        \/ \E l \in Links : LinkStep(l) /\ UNCHANGED hubVars
        \/ \E a \in Others : other_send(a) /\ UNCHANGED hubVars

Spec == Init /\ [][Next]_vars

-----------------------------------------------------------------------------
Pcs == {"wait", "lock", "recv", "ondata", "relock", "done", "crashed"}

UdpTypeOK == queue \in [Sockets -> Seq(Peers \cup {Hub})] /\ open \subseteq Sockets

HubTypeOK ==
    /\ adds \in Nat /\ adds <= MaxAdds
    /\ links \subseteq 1..adds /\ freed \subseteq 1..adds
    /\ stored \in [Nodes -> Peers \cup {Hub}]
    /\ reader \in Pcs /\ at \in 0..adds /\ input \in Peers \cup {Hub}
    /\ caster \in {"run", "done"}
    /\ call \in [Callers -> [pc : {"idle"}] \cup [pc : {"find", "append"}, addr : Peers]]
    /\ quit \in BOOLEAN
    /\ deleter \in {"none", "join_data", "join_broadcast", "free", "freed"}

LinkTypeOK ==
    /\ remote \in [Links -> BOOLEAN] /\ thread_quit \in [Links -> BOOLEAN]
    /\ thread \in [Links -> {"idle", "read", "ondata", "done"}]
    /\ link \in [Links -> {"open", "stop", "freed"}]

(* The types of the variables: the data thread in particular never goes    *)
(* beyond the end of the list (datahub_read).                              *)
TypeOK == UdpTypeOK /\ HubTypeOK /\ LinkTypeOK

(* While ondata handles a packet, the address it is given is alive and is  *)
(* that of the sender, so that datahub_send answers the sender, although   *)
(* the mutex is released and other threads add, drop and broadcast         *)
(* (datahub_read).                                                         *)
AnswerReachesSender ==
    reader = "ondata" => at \notin freed /\ stored[at] = input

(* No address in the list is deleted: broadcasts and datahub_find read     *)
(* live memory whatever datahub_read has removed.                          *)
ListedAlive == links \cap freed = {}

(* delete_datahub frees the hub when none of its threads is running and no *)
(* call is in progress.                                                    *)
HubFreedLast ==
    deleter = "freed" => /\ reader = "done" /\ caster = "done"
                         /\ \A t \in Callers : call[t] = Idle

(* delete_datalink frees a link, and closes its socket, when its thread    *)
(* has ended.                                                              *)
LinkFreedLast ==
    \A l \in Links : link[l] = "freed" => thread[l] = "done" /\ l \notin open

-----------------------------------------------------------------------------
(* Fairness: the threads of the hub run, what waits for the mutex gets it  *)
(* if it is free again and again, callbacks return, and who deletes goes   *)
(* on.  recvfrom need not fail, no link or peer needs to do anything, and  *)
(* no call or deletion needs to start.                                     *)
HubFairness ==
    /\ WF_vars(ReaderStep /\ UNCHANGED linkVars)
    /\ WF_vars(datahub_run_broadcast_done /\ UNCHANGED linkVars)
    /\ \A t \in Callers : SF_vars((\/ add_link_find(t) \/ add_link_append(t)
                                   \/ add_link_append_dropped(t))
                                  /\ UNCHANGED linkVars)
    /\ SF_vars((join_data_thread \/ join_broadcast_thread \/ delete_links)
               /\ UNCHANGED linkVars)

FairSpec == Spec /\ HubFairness

(* datahub_read waits in recvfrom with the mutex: the hub goes on only as  *)
(* long as packets come, and if it does not crash.                         *)
HeardFrom == []<>(queue[Hub] # <<>>) /\ []Running

(* As long as packets come, datahub_add_link returns.                      *)
AddLinkReturns ==
    HeardFrom => \A t \in Callers : call[t] # Idle ~> call[t] = Idle

(* As long as packets come, delete_datahub returns: the data thread        *)
(* notices hub->quit_thread after at most one packet per link.             *)
HubDeletionCompletes ==
    HeardFrom => (deleter # "none" ~> deleter = "freed")

=============================================================================
