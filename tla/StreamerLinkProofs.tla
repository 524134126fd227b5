------------------------- MODULE StreamerLinkProofs -------------------------
(***************************************************************************)
(* A streamer link, for any number of connections, messages and pieces:    *)
(* the thread that reads has the socket of the link to itself, and a       *)
(* deleted link leaves no connection open.                                 *)
(*                                                                         *)
(* Both hang on the wait for the thread, which is not done under the       *)
(* mutex: stop_thread looks at link->thread, thread_join reads it again.   *)
(* A thread that works is the thread of the link (WorkersLinked), so       *)
(* neither a link without a thread nor one whose thread was joined has a   *)
(* thread that works (StoppedFirst), and the socket may be closed.         *)
(***************************************************************************)
EXTENDS StreamerLink, TLAPS

Working == {"request", "respond", "read", "stuck", "cleanup"}
Stopped == {"set", "disconnect", "free"}

LinkType == [cont : BOOLEAN, thread : 0..MaxConns, socket : 0..MaxConns, remote : BOOLEAN]

CtlType ==
    [pc : {"idle", "open", "freed"}, calls : Nat]
      \cup [pc : {"stop", "join"} \cup Stopped, next : Stopped, calls : Nat]
      \cup [pc : {"deref", "joining"}, joins : 0..MaxConns, next : Stopped, calls : Nat]

LinkTypeOK ==
    /\ link \in LinkType
    /\ ctl \in CtlType
    /\ thread \in [Conns -> {"none", "done"} \cup Working]
    /\ DOMAIN server = Conns

(* A thread that works has the link and its connection.                    *)
WorkersLinked ==
    \A k \in Conns : thread[k] \in Working =>
        link.thread = k /\ link.socket = k /\ server[k].pc # "gone"

(* The connection that is open is that of the link.                        *)
OpenIsLinked ==
    \A k \in Conns : server[k].pc \notin {"none", "gone"} => link.socket = k

(* Nothing works once stop_thread has returned, and while it waits only    *)
(* the thread that it waits for.                                           *)
StoppedFirst ==
    /\ ctl.pc \in Stopped \cup {"open", "freed"} =>
            \A k \in Conns : thread[k] \notin Working
    /\ ctl.pc \in {"deref", "joining"} /\ ~crashed =>
            /\ ctl.joins \in Conns
            /\ \A k \in Conns : thread[k] \in Working => k = ctl.joins

(* The socket is closed before it is opened, and before the link is freed. *)
ClosedFirst == ctl.pc \in {"open", "freed"} => link.socket = 0

LinkInv == LinkTypeOK /\ WorkersLinked /\ OpenIsLinked /\ StoppedFirst /\ ClosedFirst

Invs == <<link, ctl, thread, server, crashed>>

-----------------------------------------------------------------------------
LEMMA LinkInit == Init => LinkInv
BY StreamAssumption
   DEF Init, LinkInv, LinkTypeOK, LinkType, CtlType, WorkersLinked, OpenIsLinked, StoppedFirst,
       ClosedFirst, Working, Stopped, Conns

LEMMA LinkAlone ==
    ASSUME LinkInv, UNCHANGED Invs
    PROVE  LinkInv'
BY DEF LinkInv, LinkTypeOK, WorkersLinked, OpenIsLinked, StoppedFirst, ClosedFirst, Invs

(* The streamer's end of an open connection changes.                       *)
LEMMA ServerMoves ==
    ASSUME LinkInv, NEW k \in Conns, NEW s, UNCHANGED <<link, ctl, thread, crashed>>,
           server[k].pc \notin {"none", "gone"}, s.pc \notin {"none", "gone"}, ServerGo(k, s)
    PROVE  LinkInv'
<1>1. /\ DOMAIN server' = Conns /\ server'[k] = s
      /\ \A j \in Conns \ {k} : server'[j] = server[j]
  BY DEF ServerGo, LinkInv, LinkTypeOK
<1>2. LinkTypeOK' /\ StoppedFirst' /\ ClosedFirst'
  BY <1>1 DEF LinkInv, LinkTypeOK, StoppedFirst, ClosedFirst
<1>3. WorkersLinked' /\ OpenIsLinked'
  BY <1>1 DEF LinkInv, WorkersLinked, OpenIsLinked
<1> QED
  BY <1>2, <1>3 DEF LinkInv

LEMMA StreamingSteps ==
    ASSUME LinkInv, NEW k \in Conns, Streaming(k)
    PROVE  LinkInv'
<1>1. UNCHANGED <<link, ctl, thread, crashed>>
  BY DEF Streaming, streamer_start_stream, streamer_send_chunk, streamer_client_end, ServerStep,
         threadVars
<1>2. server[k].pc \in {"requested", "streaming", "refused"}
  BY DEF Streaming, streamer_start_stream, streamer_send_chunk, streamer_client_end
<1>3. PICK s : ServerGo(k, s) /\ s.pc \in {"streaming", "refused", "closed"}
  <2>1. CASE streamer_start_stream(k)
    BY <2>1 DEF streamer_start_stream
  <2>2. CASE streamer_send_chunk(k)
    <3>1. PICK n : ServerGo(k, [pc |-> "streaming", sent |-> n])
      BY <2>2 DEF streamer_send_chunk
    <3> QED
      BY <3>1
  <2>3. CASE streamer_client_end(k)
    BY <2>3 DEF streamer_client_end
  <2> QED
    BY <2>1, <2>2, <2>3 DEF Streaming
<1> QED
  BY <1>1, <1>2, <1>3, ServerMoves

(* The thread of a connection goes on.                                     *)
LEMMA ThreadMoves ==
    ASSUME LinkInv, NEW k \in Conns, NEW pc \in Working,
           thread[k] \in Working, ThreadGo(k, pc), UNCHANGED <<ctl, crashed, server>>,
           link' \in {link, [link EXCEPT !.cont = TRUE]}
    PROVE  LinkInv'
<1>1. /\ thread' \in [Conns -> {"none", "done"} \cup Working]
      /\ \A j \in Conns : thread'[j] \in Working <=> thread[j] \in Working
  BY DEF ThreadGo, LinkInv, LinkTypeOK
<1>2. link' \in LinkType /\ link'.thread = link.thread /\ link'.socket = link.socket
  BY DEF LinkInv, LinkTypeOK, LinkType
<1>3. LinkTypeOK' /\ ClosedFirst' /\ OpenIsLinked'
  BY <1>1, <1>2 DEF LinkInv, LinkTypeOK, ClosedFirst, OpenIsLinked
<1>4. WorkersLinked' /\ StoppedFirst'
  BY <1>1, <1>2 DEF LinkInv, WorkersLinked, StoppedFirst
<1> QED
  BY <1>3, <1>4 DEF LinkInv

LEMMA ReadSteps ==
    ASSUME LinkInv, NEW k \in Conns, Reads(k)
    PROVE  LinkInv'
<1>1. thread[k] \in Working /\ UNCHANGED <<link, ctl, crashed, server>>
  BY DEF Reads, streamerlink_recv, streamerlink_end_of_stream, serverVars, Working
<1>2. PICK data : Receive(k, data)
  BY DEF Reads, streamerlink_recv, streamerlink_end_of_stream
<1>3. PICK pc \in Working : ThreadGo(k, pc)
  BY <1>2 DEF Receive, Working
<1> QED
  BY <1>1, <1>3, ThreadMoves

(* The thread ends: it has closed the connection, which is its own.        *)
LEMMA CleanupStep ==
    ASSUME LinkInv, NEW k \in Conns, streamerlink_cleanup(k)
    PROVE  LinkInv'
<1>1. /\ thread[k] = "cleanup" /\ link.thread = k /\ link.socket = k
      /\ UNCHANGED <<ctl, crashed>>
  BY DEF streamerlink_cleanup, LinkInv, WorkersLinked, Working
<1>2. /\ link' \in LinkType /\ link'.socket = 0 /\ link'.thread = 0
  <2>1. link' = [link EXCEPT !.socket = 0, !.thread = 0] /\ link \in LinkType
    BY DEF streamerlink_cleanup, LinkInv, LinkTypeOK
  <2>2. 0 \in 0..MaxConns
    BY StreamAssumption
  <2> QED
    BY <2>1, <2>2 DEF LinkType
<1>3. /\ DOMAIN server' = Conns /\ server'[k].pc = "gone"
      /\ \A j \in Conns \ {k} : server'[j] = server[j]
  BY <1>1 DEF streamerlink_cleanup, streamerlink_close_connection, Disconnect
<1>4. /\ thread' \in [Conns -> {"none", "done"} \cup Working] /\ thread'[k] = "done"
      /\ \A j \in Conns \ {k} : thread'[j] = thread[j]
  BY DEF streamerlink_cleanup, ThreadGo, LinkInv, LinkTypeOK
<1>5. \A j \in Conns : thread'[j] \notin Working
  BY <1>1, <1>4 DEF LinkInv, WorkersLinked, Working
<1>6. LinkTypeOK' /\ ClosedFirst'
  BY <1>1, <1>2, <1>3, <1>4 DEF LinkInv, LinkTypeOK, ClosedFirst
<1>7. WorkersLinked' /\ StoppedFirst'
  BY <1>1, <1>5 DEF LinkInv, WorkersLinked, StoppedFirst
<1>8. OpenIsLinked'
  BY <1>1, <1>3 DEF LinkInv, OpenIsLinked
<1> QED
  BY <1>6, <1>7, <1>8 DEF LinkInv

LEMMA WorkSteps ==
    ASSUME LinkInv, NEW k \in Conns, Works(k)
    PROVE  LinkInv'
<1>1. CASE streamerlink_send_request(k)
  <2>1. thread[k] = "request" /\ UNCHANGED <<link, ctl, crashed>>
    BY <1>1 DEF streamerlink_send_request
  <2>2. CASE server[k].pc = "closed"
    <3>1. ThreadGo(k, "cleanup") /\ UNCHANGED server
      BY <1>1, <2>2 DEF streamerlink_send_request
    <3> QED
      BY <2>1, <3>1, ThreadMoves DEF Working
  <2>3. CASE server[k].pc = "connected"
    <3>1. ThreadGo(k, "respond") /\ ServerGo(k, [pc |-> "requested"])
      BY <1>1, <2>3 DEF streamerlink_send_request
    <3>2. /\ DOMAIN server' = Conns /\ server'[k].pc = "requested"
          /\ \A j \in Conns \ {k} : server'[j] = server[j]
      BY <3>1 DEF ServerGo, LinkInv, LinkTypeOK
    <3>3. /\ thread' \in [Conns -> {"none", "done"} \cup Working]
          /\ \A j \in Conns : thread'[j] \in Working <=> thread[j] \in Working
      BY <2>1, <3>1 DEF ThreadGo, LinkInv, LinkTypeOK, Working
    <3>4. LinkTypeOK' /\ ClosedFirst' /\ StoppedFirst'
      BY <2>1, <3>2, <3>3 DEF LinkInv, LinkTypeOK, ClosedFirst, StoppedFirst
    <3>5. WorkersLinked' /\ OpenIsLinked'
      BY <2>1, <2>3, <3>2, <3>3 DEF LinkInv, WorkersLinked, OpenIsLinked
    <3> QED
      BY <3>4, <3>5 DEF LinkInv
  <2> QED
    BY <1>1, <2>2, <2>3 DEF streamerlink_send_request
<1>2. CASE streamerlink_start_response(k)
  <2>1. /\ thread[k] = "respond" /\ ThreadGo(k, "read") /\ UNCHANGED <<ctl, crashed, server>>
        /\ link' = [link EXCEPT !.cont = TRUE]
    BY <1>2 DEF streamerlink_start_response, serverVars
  <2> QED
    BY <2>1, ThreadMoves DEF Working
<1>3. CASE streamerlink_quit(k)
  <2>1. /\ thread[k] = "read" /\ ThreadGo(k, "cleanup")
        /\ UNCHANGED <<link, ctl, crashed, server>>
    BY <1>3 DEF streamerlink_quit, serverVars
  <2> QED
    BY <2>1, ThreadMoves DEF Working
<1> QED
  BY <1>1, <1>2, <1>3, CleanupStep DEF Works

-----------------------------------------------------------------------------
(* The controlling thread begins a call, or is told to quit.               *)
LEMMA CallSteps ==
    ASSUME LinkInv, streamerlink_set_remote \/ delete_streamerlink
    PROVE  LinkInv'
<1>1. /\ UNCHANGED <<link, thread, server, crashed>>
      /\ ctl' \in CtlType /\ ctl'.pc = "stop"
  BY DEF streamerlink_set_remote, delete_streamerlink, CtlStep, threadVars, serverVars,
         LinkInv, LinkTypeOK, CtlType, Stopped
<1> QED
  BY <1>1 DEF LinkInv, LinkTypeOK, WorkersLinked, OpenIsLinked, StoppedFirst, ClosedFirst, Stopped

(* A link without a thread has no thread that works.                       *)
LEMMA StopStep ==
    ASSUME LinkInv, streamerlink_stop_thread
    PROVE  LinkInv'
<1>1. UNCHANGED <<thread, server, crashed>>
  BY DEF streamerlink_stop_thread, CtlStep, threadVars, serverVars
<1>2. link' \in LinkType /\ link'.thread = link.thread /\ link'.socket = link.socket
  BY DEF streamerlink_stop_thread, LinkInv, LinkTypeOK, LinkType
<1>3. /\ ctl' \in CtlType /\ ctl'.pc \in {"join"} \cup Stopped
      /\ link.thread # 0 => ctl'.pc = "join"
  BY DEF streamerlink_stop_thread, CtlGo, LinkInv, LinkTypeOK, CtlType, Stopped
<1>4. ASSUME link.thread = 0, NEW k \in Conns PROVE thread[k] \notin Working
  BY <1>4 DEF LinkInv, WorkersLinked, Conns
<1> QED
  BY <1>1, <1>2, <1>3, <1>4
  DEF LinkInv, LinkTypeOK, WorkersLinked, OpenIsLinked, StoppedFirst, ClosedFirst, Stopped

(* If link->thread is still set it is that of the only thread that works.  *)
LEMMA JoinSteps ==
    ASSUME LinkInv, thread_join \/ thread_join_deref \/ thread_joined
    PROVE  LinkInv'
<1>1. UNCHANGED <<link, thread, server>> /\ ~crashed
  BY DEF thread_join, thread_join_deref, thread_joined, CtlStep, threadVars, serverVars
<1>2. WorkersLinked' /\ OpenIsLinked'
  BY <1>1 DEF LinkInv, WorkersLinked, OpenIsLinked
<1>3. CASE thread_join
  <2>1. /\ ctl' \in CtlType /\ ctl'.pc = "deref" /\ ctl'.joins = link.thread
        /\ ~crashed' => link.thread \in Conns
    <3>1. ctl' = [pc |-> "deref", joins |-> link.thread, next |-> ctl.next, calls |-> ctl.calls]
      BY <1>3 DEF thread_join
    <3>2. ctl.next \in Stopped /\ ctl.calls \in Nat
      BY <1>3 DEF thread_join, LinkInv, LinkTypeOK, CtlType, Stopped
    <3>3. link.thread \in 0..MaxConns
      BY DEF LinkInv, LinkTypeOK, LinkType
    <3>4. ~crashed' => link.thread # 0
      BY <1>3 DEF thread_join
    <3>5. ~crashed' => link.thread \in Conns
      BY <3>3, <3>4, StreamAssumption DEF Conns
    <3> QED
      BY <3>1, <3>2, <3>3, <3>5 DEF CtlType
  <2>2. \A k \in Conns : thread[k] \in Working => k = link.thread
    BY DEF LinkInv, WorkersLinked
  <2> QED
    BY <1>1, <1>2, <2>1, <2>2 DEF LinkInv, LinkTypeOK, StoppedFirst, ClosedFirst, Stopped
<1>4. CASE thread_join_deref
  <2>1. /\ ctl' \in CtlType /\ ctl'.pc = "joining" /\ ctl'.joins = ctl.joins
        /\ ctl.pc = "deref"
    BY <1>4 DEF thread_join_deref, CtlGo, LinkInv, LinkTypeOK, CtlType, Stopped
  <2> QED
    BY <1>1, <1>2, <2>1 DEF LinkInv, LinkTypeOK, StoppedFirst, ClosedFirst, Stopped
<1>5. CASE thread_joined
  <2>1. /\ ctl' \in CtlType /\ ctl'.pc \in Stopped
        /\ ctl.pc = "joining" /\ thread[ctl.joins] = "done"
    BY <1>5 DEF thread_joined, LinkInv, LinkTypeOK, CtlType, Stopped
  <2>2. \A k \in Conns : thread[k] \notin Working
    BY <1>1, <2>1 DEF LinkInv, StoppedFirst, Working
  <2> QED
    BY <1>1, <1>2, <2>1, <2>2 DEF LinkInv, LinkTypeOK, StoppedFirst, ClosedFirst, Stopped
<1> QED
  BY <1>3, <1>4, <1>5

LEMMA CloseStep ==
    ASSUME LinkInv, streamerlink_close
    PROVE  LinkInv'
<1>1. ctl.pc \in Stopped /\ UNCHANGED <<thread, crashed>>
  BY DEF streamerlink_close, CtlStep, threadVars, Stopped
<1>2. \A k \in Conns : thread[k] \notin Working
  BY <1>1 DEF LinkInv, StoppedFirst
<1>3. link' \in LinkType /\ link'.socket = 0
  <2>1. link' = [link EXCEPT !.socket = 0, !.remote = (ctl.pc # "free")] /\ link \in LinkType
    BY DEF streamerlink_close, LinkInv, LinkTypeOK
  <2>2. 0 \in 0..MaxConns /\ (ctl.pc # "free") \in BOOLEAN
    BY StreamAssumption
  <2> QED
    BY <2>1, <2>2 DEF LinkType
<1>4. ctl' \in CtlType /\ ctl'.pc \in {"stop", "open", "freed"}
  BY <1>1 DEF streamerlink_close, LinkInv, LinkTypeOK, CtlType, Stopped
<1>5. /\ DOMAIN server' = Conns
      /\ \A k \in Conns : server'[k].pc \in {"none", "gone"}
  <2>1. server' = [k \in Conns |-> IF k = link.socket THEN [pc |-> "gone"] ELSE server[k]]
    BY DEF streamerlink_close, streamerlink_close_connection, Disconnect
  <2> QED
    BY <2>1 DEF LinkInv, OpenIsLinked
<1> QED
  BY <1>1, <1>2, <1>3, <1>4, <1>5
  DEF LinkInv, LinkTypeOK, WorkersLinked, OpenIsLinked, StoppedFirst, ClosedFirst, Stopped

(* A connection is opened when no other is, and nothing works.             *)
LEMMA ConnectStep ==
    ASSUME LinkInv, streamerlink_connect
    PROVE  LinkInv'
<1>1. /\ ctl.pc = "open" /\ ctl' \in CtlType /\ ctl'.pc = "idle" /\ UNCHANGED crashed
  BY DEF streamerlink_connect, LinkInv, LinkTypeOK, CtlType, Stopped
<1>2. link.socket = 0 /\ \A k \in Conns : thread[k] \notin Working
  BY <1>1 DEF LinkInv, ClosedFirst, StoppedFirst
<1>3. CASE UNCHANGED <<link, thread, server>>
  BY <1>1, <1>3
  DEF LinkInv, LinkTypeOK, WorkersLinked, OpenIsLinked, StoppedFirst, ClosedFirst, Stopped
<1>4. ASSUME NEW k \in Conns,
             link' = [link EXCEPT !.socket = k, !.thread = k],
             thread' = [thread EXCEPT ![k] = "request"],
             server' = [server EXCEPT ![k] = [pc |-> "connected"]]
      PROVE  LinkInv'
  <2>1. k \in 0..MaxConns
    BY StreamAssumption DEF Conns
  <2>2. link' \in LinkType /\ link'.socket = k /\ link'.thread = k
    BY <1>4, <2>1 DEF LinkInv, LinkTypeOK, LinkType
  <2>3. /\ thread' \in [Conns -> {"none", "done"} \cup Working] /\ thread'[k] = "request"
        /\ \A j \in Conns \ {k} : thread'[j] = thread[j]
    BY <1>4 DEF LinkInv, LinkTypeOK, Working
  <2>4. /\ DOMAIN server' = Conns /\ server'[k].pc = "connected"
        /\ \A j \in Conns \ {k} : server'[j] = server[j]
    BY <1>4 DEF LinkInv, LinkTypeOK
  <2>5. \A j \in Conns \ {k} : server[j].pc \in {"none", "gone"}
    BY <1>2 DEF LinkInv, OpenIsLinked, Conns
  <2>6. LinkTypeOK' /\ StoppedFirst' /\ ClosedFirst'
    BY <1>1, <2>2, <2>3, <2>4 DEF LinkTypeOK, StoppedFirst, ClosedFirst, Stopped
  <2>7. WorkersLinked' /\ OpenIsLinked'
    BY <1>2, <2>2, <2>3, <2>4, <2>5 DEF WorkersLinked, OpenIsLinked
  <2> QED
    BY <2>6, <2>7 DEF LinkInv
<1> QED
  BY <1>3, <1>4 DEF streamerlink_connect

LEMMA LinkStep == LinkInv /\ [Next]_vars => LinkInv'
<1> SUFFICES ASSUME LinkInv, [Next]_vars PROVE LinkInv'
  OBVIOUS
<1>1. CASE streamerlink_set_remote \/ delete_streamerlink
  BY <1>1, CallSteps
<1>2. CASE Controller
  BY <1>2, StopStep, JoinSteps, CloseStep, ConnectStep DEF Controller
<1>3. CASE \E k \in Conns : Works(k) \/ Reads(k) \/ Streaming(k)
  BY <1>3, WorkSteps, ReadSteps, StreamingSteps
<1>4. CASE app_quit \/ Finished \/ UNCHANGED vars
  <2>1. UNCHANGED Invs
    BY <1>4 DEF app_quit, Finished, vars, Invs, threadVars, serverVars
  <2> QED
    BY <2>1, LinkAlone
<1> QED
  BY <1>1, <1>2, <1>3, <1>4 DEF Next

(* While the thread of a connection sends its request and reads, the       *)
(* socket of the link is its own and open: set_remote, which closes and    *)
(* replaces it, and delete wait for the thread first, although they look   *)
(* at link->thread twice and the second time without the mutex.            *)
THEOREM ReadersHaveSockets == Spec => []ReaderHasSocket
<1>1. LinkInv => ReaderHasSocket
  BY DEF LinkInv, WorkersLinked, ReaderHasSocket, Working
<1> QED
  BY <1>1, LinkInit, LinkStep, PTL DEF Spec

(* delete_streamerlink leaves no connection open, whichever of the link's  *)
(* thread and the caller closes it, and however often set_remote was       *)
(* called.                                                                 *)
THEOREM NoConnectionIsLeft == Spec => []NoConnectionLeft
<1>1. LinkInv => NoConnectionLeft
  BY DEF LinkInv, ClosedFirst, OpenIsLinked, NoConnectionLeft, Conns
<1> QED
  BY <1>1, LinkInit, LinkStep, PTL DEF Spec
=============================================================================
