------------------------------ MODULE DataLink ------------------------------
(***************************************************************************)
(* The data links of a hub (librcom/src/datalink.c).  The proxy tells a    *)
(* link the address of the hub, the application sends packets and deletes  *)
(* the link, and the thread of a link with a callback reads packets and    *)
(* may answer them.  link->mutex is never held across a wait, so that what *)
(* it protects is one step.                                                *)
(***************************************************************************)
EXTENDS Udp

CONSTANT Listeners  \* the links with an ondata callback

ASSUME DataLinkAssumption == Listeners \subseteq Links

VARIABLES
    remote,     \* remote[l]: link->remote_addr is set
    thread,     \* thread[l]: where the thread of link l is
    thread_quit,\* thread_quit[l]: link->thread_quit, or app_quit()
    link        \* link[l]: "open", "stop" (being deleted) or "freed"

linkVars == <<remote, thread, thread_quit, link>>

(* new_datalink starts a thread if the link has a callback.                *)
LinkInit == /\ remote = [l \in Links |-> FALSE]
            /\ thread = [l \in Links |-> IF l \in Listeners THEN "idle" ELSE "done"]
            /\ thread_quit = [l \in Links |-> FALSE]
            /\ link = [l \in Links |-> "open"]

(* By the proxy, as long as the entry of the link has its pointer: the hub *)
(* has appeared or disappeared.                                            *)
datalink_set_remote_addr(l) ==
    /\ link[l] = "open"
    /\ remote' = [remote EXCEPT ![l] = ~@]
    /\ UNCHANGED <<thread, thread_quit, link, udpVars>>

(* datalink_send, if the address of the hub is known                       *)
SendToHub(l) == IF remote[l] THEN udp_socket_send(l, {Hub}) ELSE UNCHANGED udpVars

datalink_send(l) ==
    /\ link[l] = "open"
    /\ SendToHub(l)
    /\ UNCHANGED linkVars

(* A link of another process sends whenever it likes.                      *)
other_send(a) ==
    /\ udp_socket_send(a, {Hub})
    /\ UNCHANGED linkVars

ThreadGoto(l, pc) ==
    /\ thread' = [thread EXCEPT ![l] = pc]
    /\ UNCHANGED <<remote, thread_quit, link>>

(* datalink_handle_input: with a remote address the thread waits for a     *)
(* packet for a second, without it sleeps.                                 *)
datalink_handle_input(l) ==
    /\ thread[l] = "idle" /\ ~thread_quit[l]
    /\ remote[l]
    /\ ThreadGoto(l, "read")
    /\ UNCHANGED udpVars

datalink_read(l) ==
    /\ thread[l] = "read"
    /\ udp_socket_read(l, Head(queue[l]))
    /\ ThreadGoto(l, "ondata")

datalink_read_timeout(l) ==
    /\ thread[l] = "read" /\ queue[l] = <<>>
    /\ ThreadGoto(l, "idle")
    /\ UNCHANGED udpVars

(* ondata returns, and what it wrote to link->out, if anything, is sent.   *)
datalink_ondata(l) ==
    /\ thread[l] = "ondata"
    /\ SendToHub(l) \/ UNCHANGED udpVars
    /\ ThreadGoto(l, "idle")

datalink_run_done(l) ==
    /\ thread[l] = "idle" /\ thread_quit[l]
    /\ ThreadGoto(l, "done")
    /\ UNCHANGED udpVars

(* The process of the link is told to quit.                                *)
link_app_quit(l) ==
    /\ ~thread_quit[l] /\ l \in Listeners
    /\ thread_quit' = [thread_quit EXCEPT ![l] = TRUE]
    /\ UNCHANGED <<remote, thread, link, udpVars>>

(* delete_datalink: datalink_stop_thread ...                               *)
datalink_stop_thread(l) ==
    /\ link[l] = "open"
    /\ thread_quit' = [thread_quit EXCEPT ![l] = TRUE]
    /\ link' = [link EXCEPT ![l] = "stop"]
    /\ UNCHANGED <<remote, thread, udpVars>>

(* ... joins the thread, and the socket is closed and the link freed.      *)
delete_datalink(l) ==
    /\ link[l] = "stop" /\ thread[l] = "done"
    /\ link' = [link EXCEPT ![l] = "freed"]
    /\ close_udp_socket(l)
    /\ UNCHANGED <<remote, thread, thread_quit>>
=============================================================================
