------------------------------- MODULE Launch -------------------------------
(***************************************************************************)
(* rclaunch (applications/rclaunch): the monitor forks a child, which      *)
(* starts the registry and the nodes of the configuration, one thread of   *)
(* _run for each, and restarts those that end until it is told to quit.    *)
(* It then sends them stop signals and waits for their threads.            *)
(*                                                                         *)
(* A run is a run_t; app[r] is the process that its thread forked last.    *)
(* The pid that the run holds is another thing: it is set some time after  *)
(* the fork, and it stays when the process has been waited for.            *)
(***************************************************************************)
EXTENDS Integers, Sequences, FiniteSets

CONSTANTS
    Registry,       \* the run of the registry
    Nodes,          \* the runs of the nodes, in the order of the list
    Disabled,       \* those that are disabled
    MaxFaults,      \* bound on the apps that end by themselves, the forks that
                    \* fail and the waits that are interrupted, together
    MaxSignals      \* bound on the signals that the user sends

NodeSet == {Nodes[i] : i \in DOMAIN Nodes}
Runs == {Registry} \cup NodeSet

ASSUME LaunchAssumption ==
    /\ Nodes \in Seq(NodeSet)
    /\ \A i, j \in DOMAIN Nodes : Nodes[i] = Nodes[j] => i = j
    /\ Registry \notin NodeSet
    /\ Disabled \subseteq NodeSet
    /\ MaxFaults \in Nat /\ MaxSignals \in Nat

VARIABLES
    monitor,    \* where the monitor is
    child,      \* where the child is
    signals,    \* interrupt_count of the two
    regrouped,  \* the child is in the group of the monitor
    status,     \* status[r]: run_status
    pid,        \* pid[r]: "none" (-1), "own" (of app[r]) or "stale"
    runner,     \* runner[r]: where the thread of the run is (r->thread)
    app,        \* app[r]: the process
    asked,      \* history: the HUP signals that the process was sent
    missed,     \* history: runs that were stopped by a wrong pid
    interrupted,\* history: runs whose waitpid was interrupted by a signal
    left        \* what is left of MaxFaults

launchVars == <<monitor, child, signals, regrouped, status, pid, runner, app, asked, missed,
                interrupted, left>>

Living == {"forked", "running", "told"}
InGroup == {"running", "told", "zombie"}

LaunchInit ==
    /\ monitor = "watch"
    /\ child = [pc |-> "registry"]
    /\ signals = [monitor |-> 0, child |-> 0]
    /\ regrouped = FALSE
    /\ status = [r \in Runs |-> "created"]
    /\ pid = [r \in Runs |-> "none"]
    /\ runner = [r \in Runs |-> "none"]
    /\ app = [r \in Runs |-> "none"]
    /\ asked = [r \in Runs |-> 0]
    /\ missed = {}
    /\ interrupted = {}
    /\ left = MaxFaults

sigVars == <<signals, regrouped>>
runVars == <<status, pid, runner>>
appVars == <<app, asked, left>>

(* app_quit() in the child: the handler of a signal has called app_set_quit *)
Quit == signals.child > 0

-----------------------------------------------------------------------------
(* The apps                                                                *)

AppStep == UNCHANGED <<monitor, child, sigVars, runVars, missed, interrupted>>

(* The forked process joins the group of the nodes, which must have a      *)
(* member, and calls exec; it exits if one of them fails.                  *)
app_exec(r) ==
    /\ app[r] = "forked"
    /\ AppStep
    /\ app' = [app EXCEPT ![r] =
                   IF \/ child.pc # "exited" /\ ~regrouped
                      \/ \E s \in Runs : app[s] \in InGroup
                   THEN "running" ELSE "zombie"]
    /\ UNCHANGED <<asked, left>>

(* An app ends: by itself, or because it was told to.                      *)
app_end(r) ==
    /\ AppStep
    /\ \/ app[r] = "running" /\ left > 0 /\ left' = left - 1
       \/ app[r] = "told" /\ UNCHANGED left
    /\ app' = [app EXCEPT ![r] = "zombie"]
    /\ UNCHANGED asked

(* kill.  A HUP before exec is lost; the fourth makes the handler of the   *)
(* apps exit.                                                              *)
Hup(r) ==
    /\ asked' = [asked EXCEPT ![r] = @ + 1]
    /\ app' = [app EXCEPT ![r] = IF @ \notin {"running", "told"} THEN @
                                 ELSE IF asked[r] >= 3 THEN "zombie" ELSE "told"]

Kill(r) ==
    /\ app' = [app EXCEPT ![r] = IF @ \in Living THEN "zombie" ELSE @]
    /\ UNCHANGED asked

-----------------------------------------------------------------------------
(* The thread of a run: _run                                               *)

ThreadStep == child.pc # "exited" /\ UNCHANGED <<monitor, child, sigVars, missed>>

ThreadGo(r, pc) == runner' = [runner EXCEPT ![r] = pc]

(* Mutant: the loop does not ask.                                          *)
run_check_never(r) ==
    /\ runner[r] = "check"
    /\ ThreadStep
    /\ ThreadGo(r, "fork")
    /\ UNCHANGED <<status, pid, appVars, interrupted>>

(* app_quit, at the head of the loop                                       *)
run_check(r) ==
    /\ runner[r] = "check"
    /\ ThreadStep
    /\ ThreadGo(r, IF Quit THEN "finished" ELSE "fork")
    /\ status' = [status EXCEPT ![r] = IF Quit THEN "finished" ELSE @]
    /\ UNCHANGED <<pid, appVars, interrupted>>

(* _run_start: fork, which may fail                                        *)
run_fork(r) ==
    /\ runner[r] = "fork"
    /\ ThreadStep
    /\ \/ /\ app' = [app EXCEPT ![r] = "forked"]
          /\ ThreadGo(r, "assign")
          /\ UNCHANGED <<pid, left>>
       \/ /\ left > 0
          /\ left' = left - 1
          /\ pid' = [pid EXCEPT ![r] = "none"]
          /\ ThreadGo(r, "check")
          /\ UNCHANGED app
    /\ UNCHANGED <<status, asked, interrupted>>

run_assign(r) ==
    /\ runner[r] = "assign"
    /\ ThreadStep
    /\ pid' = [pid EXCEPT ![r] = "own"]
    /\ status' = [status EXCEPT ![r] = "running"]
    /\ ThreadGo(r, "wait")
    /\ UNCHANGED <<appVars, interrupted>>

(* Mutant: an app is started only once.                                    *)
run_waitpid_once(r) ==
    /\ \/ /\ runner[r] = "wait" /\ app[r] = "zombie"
          /\ app' = [app EXCEPT ![r] = "gone"]
          /\ asked' = [asked EXCEPT ![r] = 0]
          /\ pid' = [pid EXCEPT ![r] = "stale"]
          /\ UNCHANGED interrupted
       \/ /\ runner[r] = "interrupted"
          /\ interrupted' = interrupted \cup {r}
          /\ UNCHANGED <<app, asked, pid>>
    /\ ThreadStep
    /\ ThreadGo(r, "finished")
    /\ UNCHANGED <<status, left>>

(* waitpid; the thread then sleeps a second.  If a signal has interrupted  *)
(* it, the app lives on and its pid stays; the thread sets the flag quit,  *)
(* which the handler of the signal has set before.                         *)
run_waitpid(r) ==
    /\ \/ /\ runner[r] = "wait" /\ app[r] = "zombie"
          /\ app' = [app EXCEPT ![r] = "gone"]
          /\ asked' = [asked EXCEPT ![r] = 0]
          /\ pid' = [pid EXCEPT ![r] = "stale"]
          /\ UNCHANGED interrupted
       \/ /\ runner[r] = "interrupted"
          /\ interrupted' = interrupted \cup {r}
          /\ UNCHANGED <<app, asked, pid>>
    /\ ThreadStep
    /\ ThreadGo(r, "check")
    /\ UNCHANGED <<status, left>>

-----------------------------------------------------------------------------
(* The child: child_main                                                   *)

ChildGo(r) == child' = r

Exit(code) == ChildGo([pc |-> "exited", code |-> code])

ChildStep == UNCHANGED <<monitor, sigVars, left, interrupted>>

(* run_start *)
run_start(r) ==
    /\ IF r \in Disabled
       THEN UNCHANGED <<status, runner>>
       ELSE /\ status' = [status EXCEPT ![r] = "starting"]
            /\ ThreadGo(r, "check")
    /\ UNCHANGED <<pid, app, asked, missed>>

start_registry ==
    /\ child.pc = "registry"
    /\ ChildStep
    /\ run_start(Registry)
    /\ ChildGo([pc |-> "contact", tries |-> 1])

(* Three times proxy_get asks for the registry.  If it never answers the   *)
(* registry is stopped, but its thread is not told to quit.                *)
start_registry_contact ==
    /\ child.pc = "contact"
    /\ ChildStep
    /\ \/ /\ app[Registry] = "running"
          /\ ChildGo([pc |-> "start", i |-> 1])
       \/ /\ child.tries < 3
          /\ ChildGo([pc |-> "contact", tries |-> child.tries + 1])
       \/ /\ child.tries = 3
          /\ ChildGo([pc |-> "stop", runs |-> <<Registry>>, count |-> 0, code |-> 1])
    /\ UNCHANGED <<runVars, app, asked, missed>>

nodes_start ==
    /\ child.pc = "start" /\ child.i <= Len(Nodes)
    /\ ChildStep
    /\ run_start(Nodes[child.i])
    /\ ChildGo([pc |-> "start", i |-> child.i + 1])

(* The child leaves the group of the nodes for that of the monitor, which  *)
(* is no more if the monitor has exited.                                   *)
child_regroup ==
    /\ child.pc = "start" /\ child.i > Len(Nodes)
    /\ regrouped' = (monitor # "gone")
    /\ ChildGo(IF regrouped' THEN [pc |-> "loop"] ELSE [pc |-> "hup", i |-> 1, code |-> 1])
    /\ UNCHANGED <<monitor, signals, runVars, appVars, missed, interrupted>>

child_loop_end ==
    /\ child.pc = "loop" /\ Quit
    /\ ChildStep
    /\ ChildGo([pc |-> "hup", i |-> 1, code |-> 0])
    /\ UNCHANGED <<runVars, app, asked, missed>>

(* A signal for a run goes to the process that its pid names.  missed says *)
(* that this is not the process that the thread has forked or will fork.   *)
Signal(r, Sent(_)) ==
    IF pid[r] = "own" THEN Sent(r) /\ UNCHANGED missed
    ELSE /\ missed' = IF runner[r] \in {"fork", "assign"} THEN missed \cup {r} ELSE missed
         /\ UNCHANGED <<app, asked>>

(* nodes_stop: run_send_stop for all the nodes                             *)
nodes_send_stop ==
    /\ child.pc = "hup"
    /\ ChildStep
    /\ IF child.i <= Len(Nodes)
       THEN /\ Signal(Nodes[child.i], Hup)
            /\ ChildGo([pc |-> "hup", i |-> child.i + 1, code |-> child.code])
       ELSE /\ ChildGo([pc |-> "stop", runs |-> Append(Nodes, Registry), count |-> 0,
                        code |-> child.code])
            /\ UNCHANGED <<app, asked, missed>>
    /\ UNCHANGED runVars

Stop(pc, runs, count) ==
    ChildGo([pc |-> pc, runs |-> runs, count |-> count, code |-> child.code])

(* Mutant: the second signal kills.                                        *)
stop_signal_early(r) == IF child.count > 0 THEN Kill(r) ELSE Hup(r)

(* The first four signals ask, the others kill.                            *)
stop_signal(r) == IF child.count > 3 THEN Kill(r) ELSE Hup(r)

(* run_stop: a signal, if there is a pid and a process of that pid         *)
run_stop ==
    /\ child.pc = "stop" /\ child.runs # <<>>
    /\ ChildStep
    /\ Signal(Head(child.runs), stop_signal)
    /\ IF pid[Head(child.runs)] = "own" THEN Stop("slept", child.runs, child.count)
       ELSE Stop("stop", Tail(child.runs), 0)
    /\ UNCHANGED runVars

(* Three seconds later: the thread is joined if it is finished, or it is   *)
(* given up after seven signals.                                           *)
run_stop_look ==
    /\ child.pc = "slept"
    /\ ChildStep
    /\ IF status[Head(child.runs)] = "finished"
       THEN ThreadGo(Head(child.runs), "joined") /\ Stop("stop", Tail(child.runs), 0)
       ELSE /\ IF child.count = 6 THEN Stop("stop", Tail(child.runs), 0)
               ELSE Stop("stop", child.runs, child.count + 1)
            /\ UNCHANGED runner
    /\ UNCHANGED <<status, pid, app, asked, missed>>

(* Mutant: delete_run does not wait.                                       *)
child_exit_now ==
    /\ child.pc = "stop" /\ child.runs = <<>>
    /\ ChildStep
    /\ Exit(child.code)
    /\ UNCHANGED <<runVars, app, asked, missed>>

(* delete_run joins the threads that run_stop has left.  When something    *)
(* went wrong the child exits without that.                                *)
child_exit ==
    /\ child.pc = "stop" /\ child.runs = <<>>
    /\ child.code = 0 => \A r \in Runs : runner[r] \in {"none", "finished", "joined"}
    /\ ChildStep
    /\ Exit(child.code)
    /\ UNCHANGED <<runVars, app, asked, missed>>

-----------------------------------------------------------------------------
(* The monitor: main                                                       *)

MonitorStep == UNCHANGED <<regrouped, status, pid, app, asked, missed, interrupted>>

(* The handler runs in any thread of the child.  It is installed without   *)
(* SA_RESTART: if the thread is waiting in waitpid, that returns -1.       *)
SignalThread ==
    \/ UNCHANGED <<runner, left>>
    \/ \E r \in Runs : /\ runner[r] = "wait" /\ app[r] \in Living
                       /\ left > 0 /\ left' = left - 1
                       /\ ThreadGo(r, "interrupted")

(* The user types ctrl-C: those in the group of the monitor get it.  The   *)
(* handler exits at the fourth signal.                                     *)
ctrl_c ==
    /\ monitor # "gone" /\ signals.monitor < MaxSignals
    /\ MonitorStep
    /\ LET hit == regrouped /\ child.pc # "exited" IN
       /\ signals' = [monitor |-> signals.monitor + 1,
                      child |-> IF hit THEN signals.child + 1 ELSE signals.child]
       /\ IF hit /\ signals.child = 3 THEN Exit(1) ELSE UNCHANGED child
       /\ IF hit THEN SignalThread ELSE UNCHANGED <<runner, left>>
    /\ monitor' = IF signals.monitor = 3 THEN "gone" ELSE monitor

monitor_watch ==
    /\ monitor = "watch"
    /\ signals.monitor > 0 \/ child.pc = "exited"
    /\ MonitorStep
    /\ monitor' = "wait"
    /\ UNCHANGED <<child, signals, runner, left>>

monitor_wait ==
    /\ monitor = "wait" /\ child.pc = "exited"
    /\ MonitorStep
    /\ monitor' = "gone"
    /\ UNCHANGED <<child, signals, runner, left>>

-----------------------------------------------------------------------------
Child == \/ start_registry \/ start_registry_contact \/ nodes_start \/ child_regroup
         \/ child_loop_end \/ nodes_send_stop \/ run_stop \/ run_stop_look \/ child_exit

Monitor == monitor_watch \/ monitor_wait

Works(r) == run_check(r) \/ run_fork(r) \/ run_assign(r) \/ run_waitpid(r)

LaunchNext == \/ Child \/ Monitor \/ ctrl_c
              \/ \E r \in Runs : app_exec(r) \/ app_end(r) \/ Works(r)

(* Processes and threads go on; nothing makes an app end.                  *)
Fairness == /\ WF_launchVars(Child) /\ WF_launchVars(Monitor)
            /\ \A r \in Runs : WF_launchVars(Works(r)) /\ WF_launchVars(app_exec(r))

LaunchSpec == LaunchInit /\ [][LaunchNext]_launchVars /\ Fairness

-----------------------------------------------------------------------------
(* When the child has finished in order, delete_run has waited for the     *)
(* threads that run_stop has given up or has not found, so that no app is  *)
(* left, except one whose thread a signal has interrupted in waitpid: it   *)
(* is not waited for, but it was asked to end at least once, unless its    *)
(* run was stopped by a wrong pid.                                         *)
NoOrphans ==
    child.pc = "exited" /\ child.code = 0 =>
        \A r \in Runs :
            \/ app[r] \in {"none", "gone"}
            \/ r \in interrupted /\ (asked[r] >= 1 \/ r \in missed)

(* In order means that an app was asked four times before it is killed,    *)
(* and not only its run: the count is for one and the same process.        *)
AskedFirst ==
    [][\A r \in Runs :
         /\ app[r] \in {"running", "told"} /\ app'[r] = "zombie"
         /\ child.pc = "stop" /\ child' # child /\ child.code = 0
         => asked'[r] >= 4]_launchVars

(* The child ends after a signal, whatever the apps do, unless it looked   *)
(* at the pid of a run while the thread of the run was forking.            *)
StopEnds == (child.pc = "loop" /\ Quit) ~> (child.pc = "exited" \/ missed # {})

(* An app that has ended is started again until the child is told to quit, *)
(* unless at some moment no app was left in the group that it must join.   *)
Restarted ==
    \A r \in Runs \ Disabled :
        app[r] = "zombie" ~>
            \/ app[r] = "running" \/ Quit \/ child.pc = "exited"
            \/ regrouped /\ \A s \in Runs : app[s] \notin InGroup
=============================================================================
