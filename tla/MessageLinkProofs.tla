------------------------- MODULE MessageLinkProofs -------------------------
(***************************************************************************)
(* Messagelinks, for any number of connections and links: every end sends  *)
(* at most one close message on a connection, and a link that is deleted   *)
(* leaves no socket open.  And the headers of WebSocket frames, for every  *)
(* length.                                                                 *)
(*                                                                         *)
(* The threads look at link->state and link->socket without a lock, the    *)
(* socket may be another one when a reader closes it, and yet another one  *)
(* when the reader overwrites it.  Two facts carry the proof.  A socket    *)
(* that a link has lost was closed before it was lost, but for those of    *)
(* link 0 that are in `lost' (ClientHolds, ServerHolds), so that the open  *)
(* ones are those of links; and whoever has sent a close message on the    *)
(* socket of a link is on the way to close it, and no other thread sends   *)
(* one meanwhile (SentAndGone).                                            *)
(***************************************************************************)
EXTENDS MessageLink, WsFrame, TLAPS

States == {"CREATED", "CLIENT_CONNECTING", "OPEN", "CLOSED"}
Reading == {"loop", "wait", "read", "recv", "mark"}
Closing == {"remote", "oneway", "protocol", "protocol_recv", "forget"}
Ended == {"none", "done"}
Joined == {"wait", "recv", "sleep"}
Upgrading == {"upgrade", "spoiled", "upgraded"}
Forgetting == {"forget", "forget_failed"}
Connecting == Upgrading \cup {"forget_failed", "mark_failed"}

WireType == [in : [Sides -> Seq(Frames)], up : [Sides -> BOOLEAN]]

LinkTypeOK ==
    /\ state \in [Links -> States]
    /\ socket \in [Links -> 0..MaxConns]
    /\ DOMAIN reader = Links /\ \A x \in Links : reader[x].pc \in Reading \cup Closing \cup Ended
    /\ owner \in [Links -> {"idle", "join", "freed"} \cup Joined]
    /\ connector \in {"idle", "background", "open", "forget", "mark"} \cup Connecting
    /\ wire \in [Conns -> WireType]
    /\ next \in Nat \ {0} /\ (connector \notin {"idle", "background"} => next \in Conns)
    /\ closes \in [Links -> [Conns -> Nat]]

(* Link 0 has a socket that it was made to forget the state of.            *)
Forgotten(x) == x = 0 /\ socket[0] \in lost

(* The open end of a connection belongs to a link, or to none yet, or to   *)
(* none any more.                                                          *)
ClientHolds == \A k \in Conns : wire[k].up["client"] => socket[0] = k \/ k \in lost
ServerHolds == \A k \in Conns : wire[k].up["server"] => socket[k] = k \/ state[k] = "CREATED"

(* A server-side link has nothing before it is connected, and no other     *)
(* socket than that of its connection.                                     *)
Unconnected ==
    \A k \in Conns :
        /\ state[k] = "CREATED" =>
                reader[k].pc = "none" /\ owner[k] = "idle" /\ (\A j \in Conns : closes[k][j] = 0)
        /\ socket[k] \in {0, k}

(* The connections that are still to come                                  *)
Fresh ==
    \A k \in Conns : k > next \/ (k = next /\ connector \notin Connecting) =>
        /\ state[k] = "CREATED" /\ closes[0][k] = 0 /\ socket[0] # k
        /\ reader[0].pc = "forget" => reader[0].socket # k
        /\ \A s \in Sides : ~wire[k].up[s]

(* A thread overwrites link->socket after it has closed the socket that it *)
(* found; nobody else changes that of a server-side link.                  *)
ReaderHolds ==
    \A x \in Links :
        /\ reader[x].pc = "forget" =>
                /\ \A k \in Conns : reader[x].socket = k => ~wire[k].up[Side(x)]
                /\ x \in Conns => reader[x].socket = x
        /\ reader[x].pc = "mark" /\ x \in Conns => socket[x] = 0

ConnectorHolds ==
    /\ connector \in {"open", "mark", "mark_failed"} => socket[0] = 0
    /\ connector \in Forgetting =>
            \A k \in Conns : socket[0] = k => ~wire[k].up["client"]

(* A socket is that of an open link, or is about to be closed or to open,  *)
(* or was forgotten.                                                       *)
SocketInUse ==
    \A x \in Links : socket[x] # 0 =>
        \/ state[x] = "OPEN" \/ reader[x].pc \in {"oneway", "forget"} \/ Forgotten(x)
        \/ IsClient(x) /\ connector \in Upgrading \cup Forgetting

(* delete_messagelink waits for connect and for the thread.                *)
DeletionOrder ==
    /\ owner[0] # "idle" => connector = "idle"
    /\ \A x \in Links : /\ owner[x] \in Joined \cup {"freed"} => reader[x].pc \in Ended
                        /\ owner[x] = "freed" => socket[x] = 0 \/ Forgotten(x)

(* A thread that has sent a close message closes the socket next.          *)
SentAndGone ==
    \A x \in Links, k \in Conns :
        closes[x][k] > 0 /\ socket[x] = k => reader[x].pc \in Closing \/ owner[x] \in Joined

ConnInv == /\ LinkTypeOK /\ ClientHolds /\ ServerHolds /\ Unconnected /\ Fresh
           /\ ReaderHolds /\ ConnectorHolds
           /\ SocketInUse /\ DeletionOrder /\ SentAndGone /\ OneClose

-----------------------------------------------------------------------------
LEMMA LinkNumbers ==
    /\ 0 \in Links /\ 0 \in 0..MaxConns /\ 0 \notin Conns
    /\ Links = 0..MaxConns /\ Conns \subseteq Links /\ Conns = (0..MaxConns) \ {0}
BY LinkAssumption DEF Links, Conns

LEMMA ConnInit == Init => ConnInv
BY LinkNumbers, LinkAssumption
   DEF Init, Down, ConnInv, LinkTypeOK, States, Ended, WireType, ClientHolds, ServerHolds,
       Unconnected, Fresh, ReaderHolds, ConnectorHolds, Forgetting, SocketInUse, DeletionOrder,
       Joined, SentAndGone, OneClose, Sides

(* What is sent, read and closed does not open the end of a connection.    *)
Shut(w, v) ==
    /\ v \in [Conns -> WireType]
    /\ \A k \in Conns, s \in Sides : v[k].up[s] => w[k].up[s]

LEMMA ShutTwice ==
    ASSUME NEW u, NEW v, NEW w, Shut(u, v), Shut(v, w)
    PROVE  Shut(u, w)
BY DEF Shut

LEMMA WireParts ==
    ASSUME NEW w \in [Conns -> WireType], NEW k \in Conns
    PROVE  /\ w[k] = [in |-> w[k].in, up |-> w[k].up]
           /\ w[k].in \in [Sides -> Seq(Frames)]
           /\ w[k].up \in [Sides -> BOOLEAN]
<1> DEFINE A == [Sides -> Seq(Frames)]
           B == [Sides -> BOOLEAN]
<1>1. w[k] \in [in : A, up : B]
  BY DEF WireType
<1> HIDE DEF A, B
<1>2. w[k] = [in |-> w[k].in, up |-> w[k].up] /\ w[k].in \in A /\ w[k].up \in B
  BY <1>1
<1> QED
  BY <1>2 DEF A, B

(* What an end of a connection has not read is replaced.                   *)
WithIn(w, k, s, a) == [w EXCEPT ![k].in[s] = a]

LEMMA InReplaced ==
    ASSUME NEW w \in [Conns -> WireType], NEW k \in Conns, NEW s \in Sides,
           NEW a \in Seq(Frames)
    PROVE  Shut(w, WithIn(w, k, s, a))
<1> DEFINE i == w[k].in
           u == w[k].up
           v == WithIn(w, k, s, a)
<1>0. i \in [Sides -> Seq(Frames)] /\ u \in [Sides -> BOOLEAN]
  BY WireParts
<1>1. w[k] = [in |-> i, up |-> u]
  BY WireParts
<1> HIDE DEF i, u
<1>2. [w[k] EXCEPT !.in[s] = a] = [in |-> [i EXCEPT ![s] = a], up |-> u]
  BY <1>1
<1>3. v = [w EXCEPT ![k] = [w[k] EXCEPT !.in[s] = a]]
  BY DEF WithIn
<1>4. [i EXCEPT ![s] = a] \in [Sides -> Seq(Frames)]
  BY <1>0
<1>5. [in |-> [i EXCEPT ![s] = a], up |-> u] \in WireType
  BY <1>0, <1>4 DEF WireType
<1> HIDE DEF v
<1>6. v \in [Conns -> WireType] /\ v[k].up = u /\ \A j \in Conns \ {k} : v[j] = w[j]
  BY <1>2, <1>3, <1>5
<1>7. \A j \in Conns : v[j].up = w[j].up
  BY <1>6 DEF u
<1> QED
  BY <1>6, <1>7 DEF Shut, v

(* An end of a connection is closed.                                       *)
WithUp(w, k, s, b) == [w EXCEPT ![k].up[s] = b]

LEMMA UpReplaced ==
    ASSUME NEW w \in [Conns -> WireType], NEW k \in Conns, NEW s \in Sides,
           NEW b \in BOOLEAN, b => w[k].up[s]
    PROVE  Shut(w, WithUp(w, k, s, b)) /\ WithUp(w, k, s, b)[k].up[s] = b
<1> DEFINE i == w[k].in
           u == w[k].up
           v == WithUp(w, k, s, b)
           d == [u EXCEPT ![s] = b]
<1>0. i \in [Sides -> Seq(Frames)] /\ u \in [Sides -> BOOLEAN]
  BY WireParts
<1>1. w[k] = [in |-> i, up |-> u]
  BY WireParts
<1> HIDE DEF i, u
<1>2. [w[k] EXCEPT !.up[s] = b] = [in |-> i, up |-> d]
  BY <1>1
<1>3. v = [w EXCEPT ![k] = [w[k] EXCEPT !.up[s] = b]]
  BY DEF WithUp
<1>4. d \in [Sides -> BOOLEAN] /\ d[s] = b /\ \A r \in Sides : d[r] => u[r]
  BY <1>0 DEF u
<1> HIDE DEF d
<1>5. [in |-> i, up |-> d] \in WireType
  BY <1>0, <1>4 DEF WireType
<1> HIDE DEF v
<1>6. v \in [Conns -> WireType] /\ v[k].up = d /\ \A j \in Conns \ {k} : v[j] = w[j]
  BY <1>2, <1>3, <1>5
<1>7. \A j \in Conns, r \in Sides : v[j].up[r] => w[j].up[r]
  BY <1>4, <1>6 DEF u
<1> QED
  BY <1>4, <1>6, <1>7 DEF Shut, v

LEMMA SentWire ==
    ASSUME NEW w \in [Conns -> WireType], NEW x, NEW k \in 0..MaxConns, NEW f \in Frames
    PROVE  Shut(w, Sent(w, x, k, f))
<1>1. CASE Sent(w, x, k, f) = w
  BY <1>1 DEF Shut
<1>2. CASE k # 0 /\ Sent(w, x, k, f) = [w EXCEPT ![k].in[Peer(x)] = Append(@, f)]
  <2>1. k \in Conns /\ Peer(x) \in Sides
    BY <1>2, LinkNumbers DEF Peer, Sides
  <2>2. w[k].in[Peer(x)] \in Seq(Frames)
    BY <2>1, WireParts
  <2>3. Append(w[k].in[Peer(x)], f) \in Seq(Frames)
    BY <2>2
  <2>4. Sent(w, x, k, f) = WithIn(w, k, Peer(x), Append(w[k].in[Peer(x)], f))
    BY <1>2 DEF WithIn
  <2> QED
    BY <2>1, <2>3, <2>4, InReplaced
<1> QED
  BY <1>1, <1>2 DEF Sent

LEMMA PoppedWire ==
    ASSUME NEW x \in Links, wire \in [Conns -> WireType], socket[x] \in 0..MaxConns,
           HasFrame(x, socket[x])
    PROVE  Shut(wire, Popped(x))
<1> DEFINE a == wire[socket[x]].in[Side(x)]
<1>1. socket[x] \in Conns /\ Side(x) \in Sides /\ a # <<>>
  BY LinkNumbers DEF HasFrame, Empty, Side, Sides
<1>2. a \in Seq(Frames)
  <2>1. wire[socket[x]].in \in [Sides -> Seq(Frames)]
    BY <1>1, WireParts
  <2> QED
    BY <1>1, <2>1
<1>3. Popped(x) = WithIn(wire, socket[x], Side(x), Tail(a))
  BY DEF Popped, WithIn
<1> HIDE DEF a
<1>4. Tail(a) \in Seq(Frames)
  BY <1>1, <1>2
<1> QED
  BY <1>1, <1>3, <1>4, InReplaced

LEMMA ClosedWire ==
    ASSUME NEW w \in [Conns -> WireType], NEW x, NEW k \in 0..MaxConns
    PROVE  /\ Shut(w, Closed(w, x, k))
           /\ k # 0 => ~Closed(w, x, k)[k].up[Side(x)]
<1>1. CASE k = 0
  BY <1>1 DEF Closed, Shut
<1>2. CASE k # 0
  <2> DEFINE v == WithUp(w, k, Side(x), FALSE)
  <2>1. k \in Conns /\ Side(x) \in Sides /\ <<>> \in Seq(Frames)
    BY <1>2, LinkNumbers DEF Side, Sides
  <2>2. Shut(w, v) /\ ~v[k].up[Side(x)]
    BY <2>1, UpReplaced
  <2>3. Closed(w, x, k) = WithIn(v, k, Side(x), <<>>)
    BY <1>2 DEF Closed, WithIn, WithUp
  <2> HIDE DEF v
  <2>4. Shut(v, Closed(w, x, k))
    <3>1. v \in [Conns -> WireType]
      BY <2>2 DEF Shut
    <3> QED
      BY <2>1, <2>3, <3>1, InReplaced
  <2> QED
    BY <2>1, <2>2, <2>4, ShutTwice DEF Shut
<1> QED
  BY <1>1, <1>2

-----------------------------------------------------------------------------
(* Connecting goes on, or not at all.                                      *)
ConnectorKept ==
    /\ connector' = connector \/ (connector \in Upgrading /\ connector' \in Upgrading)
    /\ next' = next

(* The thread of a link goes on; one that closes the socket still does,    *)
(* until it finds no socket or has closed it.                              *)
EndClosed(x) ==
    socket[x] # 0 /\ reader'[x].socket = socket[x] /\ ~wire'[socket[x]].up[Side(x)]

ThreadKept(x) ==
    \/ reader'[x] = reader[x]
    \/ /\ reader[x].pc \in (Reading \cup Closing) \ {"forget", "mark"}
       /\ reader'[x].pc \in (Reading \cup Closing \cup {"done"}) \ {"mark"}
       /\ reader[x].pc \in Closing => reader'[x].pc \in Closing \/ socket[x] = 0
       /\ reader[x].pc = "oneway" => reader'[x].pc = "forget" \/ socket[x] = 0
       /\ reader'[x].pc = "forget" => EndClosed(x)

ThreadsKept == DOMAIN reader' = Links /\ \A x \in Links : ThreadKept(x)

(* A step that changes no link and sends no close                          *)
LEMMA Quiet ==
    ASSUME ConnInv, UNCHANGED <<state, socket, owner, closes, lost>>,
           ConnectorKept, ThreadsKept, Shut(wire, wire')
    PROVE  ConnInv'
<1>1. LinkTypeOK'
  BY DEF ConnInv, LinkTypeOK, ConnectorKept, ThreadsKept, ThreadKept, Shut, Upgrading, Connecting,
     Ended
<1>2. ClientHolds' /\ ServerHolds'
  BY DEF ConnInv, ClientHolds, ServerHolds, Shut, Sides
<1>3. Unconnected'
  BY LinkNumbers DEF ConnInv, Unconnected, ThreadsKept, ThreadKept, Reading, Closing
<1>4. OneClose'
  BY DEF ConnInv, OneClose
<1>5. Fresh'
  <2> SUFFICES ASSUME NEW k \in Conns, k > next \/ (k = next /\ connector \notin Connecting)
               PROVE  /\ state[k] = "CREATED" /\ closes[0][k] = 0 /\ socket[0] # k
                      /\ reader'[0].pc = "forget" => reader'[0].socket # k
                      /\ \A s \in Sides : ~wire'[k].up[s]
    BY DEF Fresh, ConnectorKept, Upgrading, Connecting
  <2>1. /\ state[k] = "CREATED" /\ closes[0][k] = 0 /\ socket[0] # k
        /\ reader[0].pc = "forget" => reader[0].socket # k
        /\ \A s \in Sides : ~wire[k].up[s]
    BY DEF ConnInv, Fresh
  <2> QED
    BY <2>1, LinkNumbers DEF Shut, ThreadsKept, ThreadKept, EndClosed
<1>6. ReaderHolds'
  <2> SUFFICES ASSUME NEW x \in Links
               PROVE  /\ reader'[x].pc = "forget" =>
                           /\ \A k \in Conns : reader'[x].socket = k => ~wire'[k].up[Side(x)]
                           /\ x \in Conns => reader'[x].socket = x
                      /\ reader'[x].pc = "mark" /\ x \in Conns => socket[x] = 0
    BY DEF ReaderHolds
  <2>1. CASE reader'[x] = reader[x]
    BY <2>1 DEF ConnInv, ReaderHolds, Shut, Side, Sides
  <2>2. CASE reader'[x] # reader[x]
    BY <2>2 DEF ConnInv, Unconnected, ThreadsKept, ThreadKept, EndClosed
  <2> QED
    BY <2>1, <2>2
<1>7. ConnectorHolds'
  BY DEF ConnInv, ConnectorHolds, ConnectorKept, Upgrading, Forgetting, Shut, Sides
<1>8. SocketInUse'
  BY DEF ConnInv, SocketInUse, Forgotten, ConnectorKept, ThreadsKept, ThreadKept, Upgrading
<1>9. DeletionOrder'
  BY LinkNumbers DEF ConnInv, DeletionOrder, Forgotten, ConnectorKept, ThreadsKept, ThreadKept,
     Reading, Closing, Ended, Upgrading
<1>10. SentAndGone'
  BY LinkNumbers DEF ConnInv, SentAndGone, ThreadsKept, ThreadKept
<1> QED
  BY <1>1, <1>2, <1>3, <1>4, <1>5, <1>6, <1>7, <1>8, <1>9, <1>10 DEF ConnInv

LEMMA Closes ==
    ASSUME ConnInv, NEW x \in Links, NEW k \in 0..MaxConns, CountClose(x, k)
    PROVE  /\ closes' \in [Links -> [Conns -> Nat]]
           /\ \A y \in Links, j \in Conns :
                  closes'[y][j] = IF y = x /\ j = k THEN closes[y][j] + 1 ELSE closes[y][j]
<1>1. closes \in [Links -> [Conns -> Nat]]
  BY DEF ConnInv, LinkTypeOK
<1>2. CASE k = 0
  BY <1>1, <1>2, LinkNumbers DEF CountClose
<1>3. CASE k # 0
  <2>1. k \in Conns /\ closes' = [closes EXCEPT ![x][k] = closes[x][k] + 1]
    BY <1>3, LinkNumbers DEF CountClose
  <2>2. closes[x] \in [Conns -> Nat] /\ closes[x][k] \in Nat
    BY <1>1, <2>1
  <2>3. closes' = [closes EXCEPT ![x] = [closes[x] EXCEPT ![k] = closes[x][k] + 1]]
    BY <2>1
  <2>4. [closes[x] EXCEPT ![k] = closes[x][k] + 1] \in [Conns -> Nat]
    <3>1. closes[x][k] + 1 \in Nat
      BY <2>2
    <3> QED
      BY <2>2, <3>1, Zenon
  <2> QED
    BY <1>1, <2>1, <2>3, <2>4
<1> QED
  BY <1>2, <1>3

(* A thread that was reading sends a close message; it is the first of     *)
(* this end on the connection, and the thread goes on to close the socket. *)
LEMMA ReaderSendsClose ==
    ASSUME ConnInv, NEW x \in Links, UNCHANGED <<socket, owner, lost>>, ConnectorKept,
           reader[x].pc \in {"read", "recv"}, CountClose(x, socket[x]), Shut(wire, wire'),
           NEW r, reader' = [reader EXCEPT ![x] = r], r.pc \in Closing \ {"forget"},
           \/ state' = state
           \/ state' = [state EXCEPT ![x] = "CLOSED"] /\ r.pc = "oneway"
    PROVE  ConnInv'
<1>1. /\ x \in Conns => state[x] # "CREATED"
      /\ owner[x] \notin Joined \cup {"freed"}
  BY DEF ConnInv, Unconnected, DeletionOrder, Ended
<1>2. /\ DOMAIN reader' = Links /\ reader'[x] = r
      /\ \A y \in Links \ {x} : reader'[y] = reader[y]
  BY DEF ConnInv, LinkTypeOK
<1>3. /\ state' \in [Links -> States]
      /\ \A y \in Links : state'[y] = state[y] \/ (y = x /\ state'[y] = "CLOSED" /\ r.pc = "oneway")
  BY DEF ConnInv, LinkTypeOK, States
<1>4. socket[x] \in 0..MaxConns
  BY DEF ConnInv, LinkTypeOK
<1>5. /\ closes' \in [Links -> [Conns -> Nat]]
      /\ \A y \in Links, j \in Conns :
            closes'[y][j] = IF y = x /\ j = socket[x] THEN closes[y][j] + 1 ELSE closes[y][j]
  BY <1>4, Closes
<1>6. LinkTypeOK'
  BY <1>2, <1>3, <1>5
  DEF ConnInv, LinkTypeOK, ConnectorKept, Shut, Upgrading, Connecting
<1>7. ClientHolds'
  BY DEF ConnInv, ClientHolds, Shut, Sides
<1>8. \A k \in Conns : state[k] = "CREATED" => state'[k] = "CREATED"
  BY <1>1, <1>3, LinkNumbers
<1>9. ServerHolds'
  BY <1>8 DEF ConnInv, ServerHolds, Shut, Sides
<1>10. Unconnected'
  <2>1. \A k \in Conns : state'[k] = "CREATED" => k # x /\ state[k] = "CREATED"
    BY <1>1, <1>3, LinkNumbers
  <2>2. \A k \in Conns \ {x}, j \in Conns : closes'[k][j] = closes[k][j]
    BY <1>5, LinkNumbers
  <2> QED
    BY <1>2, <2>1, <2>2, LinkNumbers DEF ConnInv, Unconnected
<1>11. Fresh'
  <2> SUFFICES ASSUME NEW k \in Conns, k > next \/ (k = next /\ connector \notin Connecting)
               PROVE  /\ state'[k] = "CREATED" /\ closes'[0][k] = 0 /\ socket[0] # k
                      /\ reader'[0].pc = "forget" => reader'[0].socket # k
                      /\ \A s \in Sides : ~wire'[k].up[s]
    BY DEF Fresh, ConnectorKept, Upgrading, Connecting
  <2>1. /\ state[k] = "CREATED" /\ closes[0][k] = 0 /\ socket[0] # k
        /\ reader[0].pc = "forget" => reader[0].socket # k
        /\ \A s \in Sides : ~wire[k].up[s]
    BY DEF ConnInv, Fresh
  <2>2. closes'[0][k] = closes[0][k]
    <3>1. 0 \in Links /\ ~(0 = x /\ k = socket[x])
      BY <2>1, LinkNumbers
    <3>2. closes'[0][k] = IF 0 = x /\ k = socket[x] THEN closes[0][k] + 1 ELSE closes[0][k]
      BY <1>5, <3>1
    <3> QED
      BY <3>1, <3>2
  <2>3. \A s \in Sides : ~wire'[k].up[s]
    BY <2>1 DEF Shut
  <2>4. reader'[0].pc = "forget" => reader'[0] = reader[0]
    BY <1>2, LinkNumbers
  <2> QED
    BY <1>8, <2>1, <2>2, <2>3, <2>4
<1>12. ReaderHolds'
  BY <1>2 DEF ConnInv, ReaderHolds, Closing, Shut, Side, Sides
<1>13. ConnectorHolds'
  BY DEF ConnInv, ConnectorHolds, ConnectorKept, Upgrading, Forgetting, Shut, Sides
<1>14. SocketInUse'
  BY <1>2, <1>3 DEF ConnInv, SocketInUse, Forgotten, ConnectorKept, Upgrading
<1>15. DeletionOrder'
  BY <1>1, <1>2, LinkNumbers DEF ConnInv, DeletionOrder, Forgotten, ConnectorKept, Upgrading
<1>16. SentAndGone'
  BY <1>2, <1>5 DEF ConnInv, SentAndGone
<1>17. OneClose'
  <2>1. \A k \in Conns : socket[x] = k => closes[x][k] = 0
    <3>1. \A k \in Conns : closes[x][k] \in Nat
      BY DEF ConnInv, LinkTypeOK
    <3> QED
      BY <1>1, <3>1 DEF ConnInv, SentAndGone, Closing
  <2> QED
    BY <1>5, <2>1 DEF ConnInv, OneClose
<1> QED
  BY <1>6, <1>7, <1>9, <1>10, <1>11, <1>12, <1>13, <1>14, <1>15, <1>16, <1>17 DEF ConnInv

(* The thread writes WS_CLOSED: before it closes the socket, or afterwards *)
(* and perhaps over the state of another connection.                       *)
LEMMA ReaderMarks ==
    ASSUME ConnInv, NEW x \in Links, UNCHANGED <<socket, owner, connector, wire, next, closes>>,
           state' = [state EXCEPT ![x] = "CLOSED"], lost \subseteq lost',
           NEW pc, reader' = [reader EXCEPT ![x] = [pc |-> pc]],
           \/ reader[x].pc = "remote" /\ pc = "oneway"
           \/ /\ reader[x].pc = "mark" /\ pc = "loop"
              /\ socket[x] # 0 /\ state[x] = "OPEN" => socket[x] \in lost'
    PROVE  ConnInv'
<1>1. /\ state' \in [Links -> States] /\ state'[x] = "CLOSED"
      /\ \A y \in Links \ {x} : state'[y] = state[y]
  BY DEF ConnInv, LinkTypeOK, States
<1>2. /\ DOMAIN reader' = Links /\ reader'[x].pc = pc
      /\ \A y \in Links \ {x} : reader'[y] = reader[y]
  BY DEF ConnInv, LinkTypeOK
<1>3. /\ \A k \in Conns : state[k] = "CREATED" <=> state'[k] = "CREATED"
      /\ \A k \in Conns : state'[k] = "CREATED" => k # x
  BY <1>1, LinkNumbers DEF ConnInv, Unconnected
<1>4. LinkTypeOK'
  BY <1>1, <1>2 DEF ConnInv, LinkTypeOK, Reading, Closing
<1>5. ClientHolds' /\ ServerHolds' /\ OneClose' /\ ConnectorHolds'
  BY <1>3 DEF ConnInv, ClientHolds, ServerHolds, OneClose, ConnectorHolds
<1>6. Unconnected'
  BY <1>2, <1>3, LinkNumbers DEF ConnInv, Unconnected
<1>7. Fresh'
  BY <1>2, <1>3, LinkNumbers DEF ConnInv, Fresh
<1>8. ReaderHolds'
  BY <1>2 DEF ConnInv, ReaderHolds
<1>9. SocketInUse'
  <2> SUFFICES ASSUME NEW y \in Links, socket[y] # 0
               PROVE  \/ state'[y] = "OPEN" \/ reader'[y].pc \in {"oneway", "forget"}
                      \/ y = 0 /\ socket[0] \in lost'
                      \/ IsClient(y) /\ connector \in Upgrading \cup Forgetting
    BY DEF SocketInUse, Forgotten
  <2>1. \/ state[y] = "OPEN" \/ reader[y].pc \in {"oneway", "forget"}
        \/ y = 0 /\ socket[0] \in lost
        \/ IsClient(y) /\ connector \in Upgrading \cup Forgetting
    BY DEF ConnInv, SocketInUse, Forgotten
  <2>2. CASE y # x
    BY <1>1, <1>2, <2>1, <2>2
  <2>3. CASE y = x /\ pc = "oneway"
    BY <1>2, <2>3
  <2>4. CASE y = x /\ reader[x].pc = "mark"
    <3>1. x = 0
      BY <2>4, LinkNumbers DEF ConnInv, ReaderHolds
    <3> QED
      BY <2>1, <2>4, <3>1
  <2> QED
    BY <2>2, <2>3, <2>4
<1>10. DeletionOrder'
  BY <1>2 DEF ConnInv, DeletionOrder, Forgotten, Ended
<1>11. SentAndGone'
  <2> SUFFICES ASSUME NEW y \in Links, NEW k \in Conns, closes[y][k] > 0, socket[y] = k
               PROVE  reader'[y].pc \in Closing \/ owner[y] \in Joined
    BY DEF SentAndGone
  <2>1. reader[y].pc \in Closing \/ owner[y] \in Joined
    BY DEF ConnInv, SentAndGone
  <2> QED
    BY <1>2, <2>1 DEF Closing
<1> QED
  BY <1>4, <1>5, <1>6, <1>7, <1>8, <1>9, <1>10, <1>11 DEF ConnInv

(* A link has no socket any more: the end of the connection was closed, or *)
(* it is forgotten.                                                        *)
LosesSocket(x) ==
    /\ Shut(wire, wire')
    /\ socket[x] # 0 => ~wire'[socket[x]].up[Side(x)] \/ (x = 0 /\ socket[x] \in lost')
    /\ lost \subseteq lost'
    /\ socket' = [socket EXCEPT ![x] = 0]
    /\ state' \in {state, [state EXCEPT ![x] = "CLOSED"]}
    /\ UNCHANGED closes

(* It is the thread, the owner or client_messagelink_connect that does so. *)
ThreadsGo(x) ==
    /\ DOMAIN reader' = Links /\ \A y \in Links \ {x} : reader'[y] = reader[y]
    /\ reader'[x] = reader[x] \/ (reader[x].pc = "forget" /\ reader'[x].pc = "mark")
    /\ owner' = owner \/ (owner[x] = "sleep" /\ owner' = [owner EXCEPT ![x] = "freed"])

ConnectorGoes(x) ==
    /\ next' = next
    /\ \/ connector' = connector
       \/ x = 0 /\ connector = "forget" /\ connector' = "mark"
       \/ x = 0 /\ connector = "forget_failed" /\ connector' = "mark_failed"

LEMMA SocketLost ==
    ASSUME ConnInv, NEW x \in Links, x \in Conns => state[x] # "CREATED",
           LosesSocket(x), ThreadsGo(x), ConnectorGoes(x)
    PROVE  ConnInv'
<1>1. /\ state' \in [Links -> States] /\ \A y \in Links \ {x} : state'[y] = state[y]
      /\ \A k \in Conns : state'[k] = "CREATED" <=> state[k] = "CREATED"
  <2>1. state \in [Links -> States]
    BY DEF ConnInv, LinkTypeOK
  <2>2. CASE state' = state
    BY <2>1, <2>2
  <2>3. CASE state' = [state EXCEPT ![x] = "CLOSED"]
    BY <2>1, <2>3, LinkNumbers DEF States
  <2> QED
    BY <2>2, <2>3 DEF LosesSocket
<1>2. /\ socket' \in [Links -> 0..MaxConns] /\ socket'[x] = 0
      /\ \A y \in Links \ {x} : socket'[y] = socket[y]
  BY LinkNumbers DEF ConnInv, LinkTypeOK, LosesSocket
<1>3. owner' \in [Links -> {"idle", "join", "freed"} \cup Joined]
  BY DEF ConnInv, LinkTypeOK, ThreadsGo
<1>4. LinkTypeOK'
  <2>1. /\ connector' \in {"idle", "background", "open", "forget", "mark"} \cup Connecting
        /\ connector' \notin {"idle", "background"} => next' \in Conns
    BY DEF ConnInv, LinkTypeOK, ConnectorGoes, Connecting
  <2> QED
    BY <1>1, <1>2, <1>3, <2>1
    DEF ConnInv, LinkTypeOK, LosesSocket, ThreadsGo, ConnectorGoes, Shut, Reading
<1>5. ClientHolds'
  <2> SUFFICES ASSUME NEW k \in Conns, wire'[k].up["client"]
               PROVE  socket'[0] = k \/ k \in lost'
    BY DEF ClientHolds
  <2>1. socket[0] = k \/ k \in lost
    BY DEF ConnInv, ClientHolds, LosesSocket, Shut, Sides
  <2>2. CASE x = 0
    BY <2>1, <2>2, LinkNumbers DEF LosesSocket, Side, IsClient
  <2>3. CASE x # 0
    BY <1>2, <2>1, <2>3, LinkNumbers DEF LosesSocket
  <2> QED
    BY <2>2, <2>3
<1>6. ServerHolds'
  <2> SUFFICES ASSUME NEW k \in Conns, wire'[k].up["server"]
               PROVE  socket'[k] = k \/ state'[k] = "CREATED"
    BY DEF ServerHolds
  <2>1. socket[k] = k \/ state[k] = "CREATED"
    BY DEF ConnInv, ServerHolds, LosesSocket, Shut, Sides
  <2>2. k # 0 /\ k \in Links
    BY LinkNumbers
  <2>3. CASE x = k
    BY <2>1, <2>2, <2>3 DEF LosesSocket, Side, IsClient
  <2>4. CASE x # k
    BY <1>1, <1>2, <2>1, <2>2, <2>4
  <2> QED
    BY <2>3, <2>4
<1>7. Unconnected'
  <2> SUFFICES ASSUME NEW k \in Conns
               PROVE  /\ state'[k] = "CREATED" =>
                            /\ reader'[k].pc = "none" /\ owner'[k] = "idle"
                            /\ \A j \in Conns : closes'[k][j] = 0
                      /\ socket'[k] \in {0, k}
    BY DEF Unconnected
  <2>1. k \in Links /\ socket'[k] \in {0, k}
    BY <1>2, LinkNumbers DEF ConnInv, Unconnected
  <2>2. ASSUME state'[k] = "CREATED"
        PROVE  k # x /\ reader'[k] = reader[k] /\ owner'[k] = owner[k]
    BY <1>1, <2>1, <2>2 DEF ThreadsGo, ConnInv, LinkTypeOK
  <2>3. state'[k] = "CREATED" =>
            reader[k].pc = "none" /\ owner[k] = "idle" /\ \A j \in Conns : closes[k][j] = 0
    BY <1>1 DEF ConnInv, Unconnected
  <2>4. closes' = closes
    BY DEF LosesSocket
  <2> QED
    BY <2>1, <2>2, <2>3, <2>4
<1>8. Fresh'
  <2> SUFFICES ASSUME NEW k \in Conns, k > next' \/ (k = next' /\ connector' \notin Connecting)
               PROVE  /\ state'[k] = "CREATED" /\ closes'[0][k] = 0 /\ socket'[0] # k
                      /\ reader'[0].pc = "forget" => reader'[0].socket # k
                      /\ \A s \in Sides : ~wire'[k].up[s]
    BY DEF Fresh
  <2>1. k > next \/ (k = next /\ connector \notin Connecting)
    BY DEF ConnectorGoes, Connecting, Upgrading
  <2>2. /\ state[k] = "CREATED" /\ closes[0][k] = 0 /\ socket[0] # k
        /\ reader[0].pc = "forget" => reader[0].socket # k
        /\ \A s \in Sides : ~wire[k].up[s]
    BY <2>1 DEF ConnInv, Fresh
  <2>3. socket'[0] # k /\ (reader'[0].pc = "forget" => reader'[0] = reader[0])
    BY <1>2, <2>2, LinkNumbers DEF ThreadsGo
  <2> QED
    BY <1>1, <2>2, <2>3 DEF LosesSocket, Shut
<1>9. ReaderHolds'
  <2> SUFFICES ASSUME NEW y \in Links
               PROVE  /\ reader'[y].pc = "forget" =>
                           /\ \A k \in Conns : reader'[y].socket = k => ~wire'[k].up[Side(y)]
                           /\ y \in Conns => reader'[y].socket = y
                      /\ reader'[y].pc = "mark" /\ y \in Conns => socket'[y] = 0
    BY DEF ReaderHolds
  <2>1. CASE reader'[y] = reader[y]
    BY <1>2, <2>1 DEF ConnInv, ReaderHolds, LosesSocket, Shut, Side, Sides
  <2>2. CASE y = x /\ reader'[x].pc = "mark"
    BY <1>2, <2>2
  <2> QED
    BY <2>1, <2>2 DEF ThreadsGo
<1>10. ConnectorHolds'
  <2>1. x = 0 => socket'[0] = 0
    BY <1>2
  <2>2. x # 0 => socket'[0] = socket[0] /\ connector' = connector
    BY <1>2, LinkNumbers DEF ConnectorGoes
  <2>3. CASE x = 0
    BY <2>1, <2>3, LinkNumbers DEF ConnectorHolds
  <2>4. CASE x # 0
    BY <2>2, <2>4 DEF ConnInv, ConnectorHolds, LosesSocket, Shut, Sides
  <2> QED
    BY <2>3, <2>4
<1>11. SocketInUse'
  <2> SUFFICES ASSUME NEW y \in Links, socket'[y] # 0
               PROVE  \/ state'[y] = "OPEN" \/ reader'[y].pc \in {"oneway", "forget"}
                      \/ y = 0 /\ socket'[0] \in lost'
                      \/ IsClient(y) /\ connector' \in Upgrading \cup Forgetting
    BY DEF SocketInUse, Forgotten
  <2>1. y # x /\ socket'[y] = socket[y] /\ state'[y] = state[y] /\ reader'[y] = reader[y]
    BY <1>1, <1>2 DEF ThreadsGo
  <2>2. \/ state[y] = "OPEN" \/ reader[y].pc \in {"oneway", "forget"}
        \/ y = 0 /\ socket[0] \in lost
        \/ IsClient(y) /\ connector \in Upgrading \cup Forgetting
    BY <2>1 DEF ConnInv, SocketInUse, Forgotten
  <2>3. IsClient(y) => connector' = connector
    BY <2>1 DEF ConnectorGoes, IsClient
  <2> QED
    BY <2>1, <2>2, <2>3 DEF LosesSocket
<1>12. DeletionOrder'
  <2>1. owner'[0] # "idle" => connector' = "idle"
    BY LinkNumbers DEF ConnInv, DeletionOrder, LinkTypeOK, ThreadsGo, ConnectorGoes
  <2>2. ASSUME NEW y \in Links, owner'[y] \in Joined \cup {"freed"}
        PROVE  reader'[y].pc \in Ended
    <3>1. owner[y] \in Joined \cup {"freed"}
      BY <2>2 DEF ThreadsGo, ConnInv, LinkTypeOK, Joined
    <3>2. reader[y].pc \in Ended
      BY <3>1 DEF ConnInv, DeletionOrder
    <3> QED
      BY <3>2 DEF ThreadsGo, Ended
  <2>3. ASSUME NEW y \in Links, owner'[y] = "freed"
        PROVE  socket'[y] = 0 \/ (y = 0 /\ socket'[0] \in lost')
    <3>1. CASE y = x
      BY <1>2, <3>1
    <3>2. CASE y # x
      <4>1. owner[y] = "freed" /\ socket'[y] = socket[y]
        BY <1>2, <2>3, <3>2 DEF ThreadsGo, ConnInv, LinkTypeOK
      <4>2. socket[y] = 0 \/ (y = 0 /\ socket[0] \in lost)
        BY <4>1 DEF ConnInv, DeletionOrder, Forgotten
      <4> QED
        BY <4>1, <4>2 DEF LosesSocket
    <3> QED
      BY <3>1, <3>2
  <2> QED
    BY <2>1, <2>2, <2>3 DEF DeletionOrder, Forgotten
<1>13. SentAndGone'
  <2> SUFFICES ASSUME NEW y \in Links, NEW k \in Conns, closes'[y][k] > 0, socket'[y] = k
               PROVE  reader'[y].pc \in Closing \/ owner'[y] \in Joined
    BY DEF SentAndGone
  <2>1. y # x
    BY <1>2, LinkNumbers
  <2>2. reader'[y] = reader[y] /\ owner'[y] = owner[y] /\ socket[y] = k /\ closes[y][k] > 0
    BY <1>2, <2>1 DEF ThreadsGo, ConnInv, LinkTypeOK, LosesSocket
  <2> QED
    BY <2>2 DEF ConnInv, SentAndGone
<1>14. OneClose'
  BY DEF ConnInv, OneClose, LosesSocket
<1> QED
  BY <1>4, <1>5, <1>6, <1>7, <1>8, <1>9, <1>10, <1>11, <1>12, <1>13, <1>14 DEF ConnInv

-----------------------------------------------------------------------------
(* The thread that reads for a link                                        *)

LEMMA WireOK ==
    ASSUME ConnInv, NEW x \in Links
    PROVE  /\ wire \in [Conns -> WireType] /\ socket[x] \in 0..MaxConns /\ Shut(wire, wire)
           /\ \A f \in Frames : Shut(wire, Sent(wire, x, socket[x], f))
           /\ HasFrame(x, socket[x]) => Shut(wire, Popped(x))
           /\ HasFrame(x, socket[x]) =>
                    \A f \in Frames : Shut(wire, Sent(Popped(x), x, socket[x], f))
<1>1. wire \in [Conns -> WireType] /\ socket[x] \in 0..MaxConns
  BY DEF ConnInv, LinkTypeOK
<1>2. \A f \in Frames : Shut(wire, Sent(wire, x, socket[x], f))
  BY <1>1, SentWire
<1>3. ASSUME HasFrame(x, socket[x]) PROVE Shut(wire, Popped(x))
  BY <1>1, <1>3, PoppedWire
<1>4. ASSUME HasFrame(x, socket[x]), NEW f \in Frames
      PROVE  Shut(wire, Sent(Popped(x), x, socket[x], f))
  <2>1. Popped(x) \in [Conns -> WireType]
    BY <1>3, <1>4 DEF Shut
  <2> QED
    BY <1>1, <1>3, <1>4, <2>1, SentWire, ShutTwice
<1> QED
  BY <1>1, <1>2, <1>3, <1>4 DEF Shut

LEMMA ReaderGoes ==
    ASSUME ConnInv, NEW x \in Links, NEW r, ReaderGoto(x, r),
           reader[x].pc \in (Reading \cup Closing) \ {"oneway", "forget", "mark"},
           r.pc \in (Reading \cup Closing \cup {"done"}) \ {"forget", "mark"},
           reader[x].pc \in Closing => r.pc \in Closing,
           UNCHANGED <<state, socket, closes, lost>>, ConnectorKept, Shut(wire, wire')
    PROVE  ConnInv'
<1>1. DOMAIN reader = Links
  BY DEF ConnInv, LinkTypeOK
<1>2. ThreadsKept /\ owner' = owner
  BY <1>1 DEF ReaderGoto, ThreadsKept, ThreadKept
<1> QED
  BY <1>2, Quiet

(* The steps that only go somewhere                                        *)
LEMMA WaitSteps ==
    ASSUME ConnInv, NEW x \in Links,
           \/ messagelink_loop(x) \/ messagelink_wait_timeout(x) \/ messagelink_wait_data(x)
           \/ messagelink_read_waits(x) \/ messagelink_read_resumes(x)
           \/ reader_wait_close_waits(x) \/ reader_wait_close_end(x)
    PROVE  ConnInv'
<1>1. UNCHANGED <<state, socket, connector, wire, closes, lost>>
  BY DEF messagelink_loop, messagelink_wait_timeout, messagelink_wait_data, history,
     messagelink_read_waits, messagelink_read_resumes, reader_wait_close_waits,
     reader_wait_close_end
<1>2. PICK r : /\ ReaderGoto(x, r)
               /\ \/ /\ reader[x].pc \in {"loop", "wait", "read", "recv"}
                     /\ r.pc \in {"loop", "wait", "read", "recv", "done"}
                  \/ /\ reader[x].pc \in {"protocol", "protocol_recv"}
                     /\ r.pc \in {"protocol", "protocol_recv", "oneway"}
  <2>1. CASE messagelink_loop(x)
    <3>1. CASE Continue(x)
      BY <2>1, <3>1 DEF messagelink_loop
    <3>2. CASE ~Continue(x)
      BY <2>1, <3>2 DEF messagelink_loop
    <3> QED
      BY <3>1, <3>2
  <2>2. CASE messagelink_wait_timeout(x) \/ messagelink_wait_data(x)
    BY <2>2 DEF messagelink_wait_timeout, messagelink_wait_data
  <2>3. CASE messagelink_read_waits(x)
    BY <2>3 DEF messagelink_read_waits
  <2>4. CASE messagelink_read_resumes(x)
    BY <2>4 DEF messagelink_read_resumes
  <2>5. CASE reader_wait_close_waits(x)
    BY <2>5 DEF reader_wait_close_waits
  <2>6. CASE reader_wait_close_end(x)
    BY <2>6 DEF reader_wait_close_end
  <2> QED
    BY <2>1, <2>2, <2>3, <2>4, <2>5, <2>6
<1>3. ConnectorKept /\ Shut(wire, wire')
  BY <1>1, <1>2, WireOK DEF ConnectorKept, ReaderGoto
<1> QED
  BY <1>1, <1>2, <1>3, ReaderGoes DEF Reading, Closing

LEMMA ReadSteps ==
    ASSUME ConnInv, NEW x \in Links, messagelink_read_text(x) \/ messagelink_send_pong(x)
    PROVE  ConnInv'
<1>1. /\ UNCHANGED <<state, socket, connector, closes, lost>> /\ reader[x].pc = "read"
      /\ ReaderGoto(x, [pc |-> "loop"]) /\ HasFrame(x, socket[x])
  BY DEF messagelink_read_text, messagelink_send_pong, history, Reads
<1>2. wire' = Popped(x) \/ wire' = Sent(Popped(x), x, socket[x], "pong")
  BY DEF messagelink_read_text, messagelink_send_pong
<1>3. Shut(wire, wire')
  BY <1>1, <1>2, WireOK DEF Frames
<1>4. ConnectorKept
  BY <1>1 DEF ConnectorKept, ReaderGoto
<1> QED
  BY <1>1, <1>3, <1>4, ReaderGoes DEF Reading, Closing

LEMMA RemoteStep ==
    ASSUME ConnInv, NEW x \in Links, remote_messagelink_close(x)
    PROVE  ConnInv'
<1>1. /\ UNCHANGED <<state, socket, connector, lost>> /\ reader[x].pc = "read"
      /\ ReaderGoto(x, [pc |-> "remote"]) /\ HasFrame(x, socket[x])
  BY DEF remote_messagelink_close, Reads
<1>2. ConnectorKept /\ owner' = owner /\ reader' = [reader EXCEPT ![x] = [pc |-> "remote"]]
  BY <1>1 DEF ConnectorKept, ReaderGoto
<1>3. CASE state[x] = "OPEN"
  <2>1. wire' = Sent(Popped(x), x, socket[x], "close") /\ CountClose(x, socket[x])
    BY <1>3 DEF remote_messagelink_close
  <2>2. Shut(wire, wire')
    BY <1>1, <2>1, WireOK DEF Frames
  <2> QED
    BY <1>1, <1>2, <2>1, <2>2, ReaderSendsClose DEF Closing
<1>4. CASE state[x] # "OPEN"
  <2>1. wire' = Popped(x) /\ UNCHANGED closes
    BY <1>4 DEF remote_messagelink_close
  <2>2. Shut(wire, wire')
    BY <1>1, <2>1, WireOK
  <2> QED
    BY <1>1, <1>2, <2>1, <2>2, ReaderGoes DEF Reading, Closing
<1> QED
  BY <1>3, <1>4

LEMMA OnewayStep ==
    ASSUME ConnInv, NEW x \in Links, owner_messagelink_close_oneway(x)
    PROVE  ConnInv'
<1>1. /\ UNCHANGED <<socket, connector, lost>> /\ reader[x].pc \in {"read", "recv"}
      /\ ReaderGoto(x, [pc |-> "oneway"]) /\ state' = [state EXCEPT ![x] = "CLOSED"]
      /\ wire' = Sent(wire, x, socket[x], "close") /\ CountClose(x, socket[x])
  BY DEF owner_messagelink_close_oneway, ReadFails
<1>2. ConnectorKept /\ owner' = owner /\ reader' = [reader EXCEPT ![x] = [pc |-> "oneway"]]
  BY <1>1 DEF ConnectorKept, ReaderGoto
<1>3. Shut(wire, wire')
  BY <1>1, WireOK DEF Frames
<1> QED
  BY <1>1, <1>2, <1>3, ReaderSendsClose DEF Closing

LEMMA ProtocolStep ==
    ASSUME ConnInv, NEW x \in Links, reader_messagelink_close(x)
    PROVE  ConnInv'
<1>1. /\ UNCHANGED <<state, socket, connector, lost>> /\ reader[x].pc = "read"
      /\ HasFrame(x, socket[x])
  BY DEF reader_messagelink_close, Reads
<1>2. CASE state[x] = "CLOSED"
  <2>1. wire' = Popped(x) /\ UNCHANGED closes /\ ReaderGoto(x, [pc |-> "loop"])
    BY <1>2 DEF reader_messagelink_close
  <2>2. Shut(wire, wire')
    BY <1>1, <2>1, WireOK
  <2>3. ConnectorKept
    BY <1>1, <2>1 DEF ConnectorKept, ReaderGoto
  <2> QED
    BY <1>1, <2>1, <2>2, <2>3, ReaderGoes DEF Reading, Closing
<1>3. CASE state[x] # "CLOSED"
  <2>1. wire' = Sent(Popped(x), x, socket[x], "close") /\ CountClose(x, socket[x])
    BY <1>3 DEF reader_messagelink_close
  <2>2. PICK r : ReaderGoto(x, r) /\ r.pc \in {"oneway", "protocol"}
    <3>1. PICK failed \in SendFails(x) :
             ReaderGoto(x, [pc |-> IF failed THEN "oneway" ELSE "protocol", socket |-> socket[x]])
      BY <1>3 DEF reader_messagelink_close
    <3>2. CASE failed
      BY <3>1, <3>2
    <3>3. CASE ~failed
      BY <3>1, <3>3
    <3> QED
      BY <3>2, <3>3
  <2>3. Shut(wire, wire')
    BY <1>1, <2>1, WireOK DEF Frames
  <2>4. ConnectorKept /\ owner' = owner /\ reader' = [reader EXCEPT ![x] = r]
    BY <1>1, <2>2 DEF ConnectorKept, ReaderGoto
  <2> QED
    BY <1>1, <2>1, <2>2, <2>3, <2>4, ReaderSendsClose DEF Closing
<1> QED
  BY <1>2, <1>3

LEMMA DropStep ==
    ASSUME ConnInv, NEW x \in Links, reader_wait_close(x)
    PROVE  ConnInv'
<1>1. /\ UNCHANGED <<state, socket, connector, closes, lost>> /\ reader[x].pc = "protocol"
      /\ wire' = Popped(x) /\ HasFrame(x, socket[x])
  BY DEF reader_wait_close, history
<1>2. PICK r : ReaderGoto(x, r) /\ r.pc \in {"oneway", "protocol"}
  BY DEF reader_wait_close
<1>3. Shut(wire, wire') /\ ConnectorKept
  BY <1>1, <1>2, WireOK DEF ConnectorKept, ReaderGoto
<1> QED
  BY <1>1, <1>2, <1>3, ReaderGoes DEF Reading, Closing

(* The socket that the link has by then is closed, and overwritten later.  *)
LEMMA CloseStep ==
    ASSUME ConnInv, NEW x \in Links, reader_close_socket(x)
    PROVE  ConnInv'
<1>1. /\ UNCHANGED <<state, socket, owner, connector, next, closes, lost>>
      /\ reader[x].pc = "oneway" /\ wire' = Closed(wire, x, socket[x])
  BY DEF reader_close_socket, ReaderGoto, history
<1>2. Shut(wire, wire') /\ (socket[x] # 0 => ~wire'[socket[x]].up[Side(x)])
  BY <1>1, WireOK, ClosedWire
<1>3. DOMAIN reader = Links
  BY DEF ConnInv, LinkTypeOK
<1>4. CASE socket[x] = 0
  <2>1. reader' = [reader EXCEPT ![x] = [pc |-> "loop"]]
    BY <1>4 DEF reader_close_socket, ReaderGoto
  <2>2. ThreadsKept
    BY <1>1, <1>3, <1>4, <2>1 DEF ThreadsKept, ThreadKept, Reading, Closing
  <2> QED
    BY <1>1, <1>2, <2>2, Quiet DEF ConnectorKept
<1>5. CASE socket[x] # 0
  <2>1. reader' = [reader EXCEPT ![x] = [pc |-> "forget", socket |-> socket[x]]]
    BY <1>5 DEF reader_close_socket, ReaderGoto
  <2>2. ThreadsKept
    BY <1>1, <1>2, <1>3, <1>5, <2>1 DEF ThreadsKept, ThreadKept, EndClosed, Reading, Closing
  <2> QED
    BY <1>1, <1>2, <2>2, Quiet DEF ConnectorKept
<1> QED
  BY <1>4, <1>5

LEMMA ForgetStep ==
    ASSUME ConnInv, NEW x \in Links, reader_forget_socket(x)
    PROVE  ConnInv'
<1>1. /\ reader[x].pc = "forget" /\ reader' = [reader EXCEPT ![x] = [pc |-> "mark"]]
      /\ socket' = [socket EXCEPT ![x] = 0]
      /\ lost' = lost \cup ({socket[x]} \ {0, reader[x].socket})
      /\ UNCHANGED <<state, owner, connector, next, wire, closes>>
  BY DEF reader_forget_socket, ReaderGoto
<1>2. x \in Conns => state[x] # "CREATED"
  BY <1>1 DEF ConnInv, Unconnected
<1>3. ASSUME socket[x] # 0
      PROVE  ~wire[socket[x]].up[Side(x)] \/ (x = 0 /\ socket[x] \in lost')
  <2>1. socket[x] \in Conns
    BY <1>3, LinkNumbers DEF ConnInv, LinkTypeOK
  <2>2. CASE reader[x].socket = socket[x]
    BY <1>1, <2>1, <2>2 DEF ConnInv, ReaderHolds
  <2>3. CASE reader[x].socket # socket[x]
    <3>1. x \notin Conns
      BY <1>1, <1>3, <2>3 DEF ConnInv, ReaderHolds, Unconnected
    <3>2. x = 0
      BY <3>1, LinkNumbers
    <3> QED
      BY <1>1, <1>3, <2>3, <3>2
  <2> QED
    BY <2>2, <2>3
<1>4. Shut(wire, wire')
  BY <1>1, WireOK
<1>5. LosesSocket(x)
  BY <1>1, <1>3, <1>4 DEF LosesSocket
<1>6. ThreadsGo(x) /\ ConnectorGoes(x)
  BY <1>1 DEF ThreadsGo, ConnectorGoes, ConnInv, LinkTypeOK
<1> QED
  BY <1>2, <1>5, <1>6, SocketLost

LEMMA MarkSteps ==
    ASSUME ConnInv, NEW x \in Links, remote_messagelink_closed(x) \/ reader_mark_closed(x)
    PROVE  ConnInv'
<1>1. CASE remote_messagelink_closed(x)
  <2>1. /\ UNCHANGED <<socket, owner, connector, wire, next, closes, lost>>
        /\ state' = [state EXCEPT ![x] = "CLOSED"] /\ reader[x].pc = "remote"
        /\ reader' = [reader EXCEPT ![x] = [pc |-> "oneway"]]
    BY <1>1 DEF remote_messagelink_closed, ReaderGoto, history
  <2> QED
    BY <2>1, ReaderMarks
<1>2. CASE reader_mark_closed(x)
  <2>1. /\ UNCHANGED <<socket, owner, connector, wire, next, closes>>
        /\ state' = [state EXCEPT ![x] = "CLOSED"] /\ reader[x].pc = "mark"
        /\ reader' = [reader EXCEPT ![x] = [pc |-> "loop"]]
        /\ lost' = lost \cup {k \in {socket[x]} \ {0} : state[x] = "OPEN"}
    BY <1>2 DEF reader_mark_closed, ReaderGoto
  <2> QED
    BY <2>1, ReaderMarks
<1> QED
  BY <1>1, <1>2

LEMMA ResponseStep ==
    ASSUME ConnInv, reader_reads_response
    PROVE  ConnInv'
<1>1. /\ reader[0].pc = "read" /\ connector = "upgrade" /\ connector' = "spoiled"
      /\ socket[0] = next /\ UNCHANGED <<socket, lost>>
  BY DEF reader_reads_response
<1>2. PICK r : /\ ReaderGoto(0, r) /\ r.pc \in {"loop", "remote", "recv", "oneway", "protocol"}
               /\ \/ state' = state /\ closes' = closes
                     /\ wire' \in {wire, Sent(wire, 0, next, "pong")}
                  \/ /\ state' = state \/ (state' = [state EXCEPT ![0] = "CLOSED"] /\ r.pc = "oneway")
                     /\ r.pc \in {"oneway", "protocol"}
                     /\ wire' = Sent(wire, 0, next, "close") /\ CountClose(0, next)
  <2>1. CASE /\ ReaderGoto(0, [pc |-> "loop"])
             /\ wire' \in {wire, Sent(wire, 0, next, "pong")}
             /\ UNCHANGED <<state, closes>>
    BY <2>1
  <2>2. CASE /\ \/ ReaderGoto(0, [pc |-> "remote"])
                \/ ReaderGoto(0, [pc |-> "recv", socket |-> next])
             /\ UNCHANGED <<state, wire, closes>>
    BY <2>2
  <2>3. CASE /\ ReaderGoto(0, [pc |-> "oneway"])
             /\ state' = [state EXCEPT ![0] = "CLOSED"]
             /\ wire' = Sent(wire, 0, next, "close")
             /\ CountClose(0, next)
    BY <2>3
  <2>4. CASE /\ \E failed \in SendFails(0) :
                   ReaderGoto(0, [pc |-> IF failed THEN "oneway" ELSE "protocol",
                                  socket |-> next])
             /\ UNCHANGED state
             /\ wire' = Sent(wire, 0, next, "close")
             /\ CountClose(0, next)
    <3>1. PICK failed \in SendFails(0) :
                   ReaderGoto(0, [pc |-> IF failed THEN "oneway" ELSE "protocol",
                                  socket |-> next])
      BY <2>4
    <3> QED
      BY <2>4, <3>1
  <2> QED
    BY <2>1, <2>2, <2>3, <2>4 DEF reader_reads_response
<1>3. ConnectorKept /\ owner' = owner /\ reader' = [reader EXCEPT ![0] = r]
  BY <1>1, <1>2 DEF ConnectorKept, ReaderGoto, Upgrading
<1>4. Shut(wire, wire')
  BY <1>1, <1>2, WireOK, LinkNumbers DEF Frames
<1>5. CASE state' = state /\ closes' = closes
  BY <1>1, <1>2, <1>3, <1>4, <1>5, LinkNumbers, ReaderGoes DEF Reading, Closing
<1>6. CASE ~(state' = state /\ closes' = closes)
  BY <1>1, <1>2, <1>3, <1>4, <1>6, LinkNumbers, ReaderSendsClose DEF Closing
<1> QED
  BY <1>5, <1>6

-----------------------------------------------------------------------------
(* Deleting a link                                                         *)

LEMMA OwnerGoes ==
    ASSUME ConnInv, NEW x \in Links,
           NEW pc \in {"join", "freed"} \cup Joined, OwnerGoto(x, pc),
           UNCHANGED <<state, socket, lost>>, Shut(wire, wire'),
           x = 0 => connector = "idle", x \in Conns => state[x] # "CREATED",
           pc # "join" => reader[x].pc \in Ended,
           pc = "freed" => socket[x] = 0 \/ Forgotten(x),
           \/ UNCHANGED closes /\ (owner[x] \in Joined => pc \in Joined)
           \/ /\ CountClose(x, socket[x]) /\ pc \in Joined
              /\ owner[x] = "join" /\ reader[x].pc \in Ended
    PROVE  ConnInv'
<1>1. /\ owner' \in [Links -> {"idle", "join", "freed"} \cup Joined] /\ owner'[x] = pc
      /\ \A y \in Links \ {x} : owner'[y] = owner[y]
      /\ UNCHANGED <<reader, connector, next>>
  BY DEF OwnerGoto, ConnInv, LinkTypeOK
<1>2. socket[x] \in 0..MaxConns /\ \A y \in Links, j \in Conns : closes[y][j] \in Nat
  BY DEF ConnInv, LinkTypeOK
<1>3. /\ closes' \in [Links -> [Conns -> Nat]]
      /\ \A y \in Links, j \in Conns :
            \/ closes'[y][j] = closes[y][j]
            \/ /\ y = x /\ j = socket[x] /\ closes'[y][j] = closes[y][j] + 1
               /\ pc \in Joined /\ owner[x] = "join" /\ reader[x].pc \in Ended
  <2>1. CASE UNCHANGED closes
    BY <2>1 DEF ConnInv, LinkTypeOK
  <2>2. CASE CountClose(x, socket[x]) /\ closes' # closes
    BY <1>2, <2>2, Closes
  <2> QED
    BY <2>1, <2>2
<1>4. LinkTypeOK'
  BY <1>1, <1>3 DEF ConnInv, LinkTypeOK, Shut
<1>5. ClientHolds' /\ ServerHolds' /\ ConnectorHolds'
  BY <1>1 DEF ConnInv, ClientHolds, ServerHolds, ConnectorHolds, Shut, Sides
<1>6. ReaderHolds'
  BY <1>1 DEF ConnInv, ReaderHolds, Shut, Side, Sides
<1>7. Unconnected'
  <2> SUFFICES ASSUME NEW k \in Conns
               PROVE  /\ state[k] = "CREATED" =>
                            /\ reader[k].pc = "none" /\ owner'[k] = "idle"
                            /\ \A j \in Conns : closes'[k][j] = 0
                      /\ socket[k] \in {0, k}
    BY <1>1 DEF Unconnected
  <2>1. state[k] = "CREATED" => k # x /\ k \in Links
    BY LinkNumbers
  <2> QED
    BY <1>1, <1>3, <2>1 DEF ConnInv, Unconnected
<1>8. Fresh'
  <2>1. \A k \in Conns : socket[0] # k => closes'[0][k] = closes[0][k]
    BY <1>3, LinkNumbers
  <2>2. \A k \in Conns : (\A s \in Sides : ~wire[k].up[s]) => \A s \in Sides : ~wire'[k].up[s]
    BY DEF Shut
  <2> QED
    BY <1>1, <2>1, <2>2 DEF ConnInv, Fresh
<1>9. SocketInUse'
  BY <1>1 DEF ConnInv, SocketInUse, Forgotten
<1>10. DeletionOrder'
  <2>1. owner'[0] # "idle" => connector' = "idle"
    BY <1>1, LinkNumbers DEF ConnInv, DeletionOrder
  <2>2. \A y \in Links : owner'[y] \in Joined \cup {"freed"} => reader[y].pc \in Ended
    BY <1>1 DEF ConnInv, DeletionOrder, Joined
  <2>3. \A y \in Links : owner'[y] = "freed" => socket[y] = 0 \/ Forgotten(y)
    BY <1>1 DEF ConnInv, DeletionOrder
  <2> QED
    BY <1>1, <2>1, <2>2, <2>3 DEF DeletionOrder, Forgotten
<1>11. SentAndGone'
  <2> SUFFICES ASSUME NEW y \in Links, NEW k \in Conns, closes'[y][k] > 0, socket[y] = k
               PROVE  reader[y].pc \in Closing \/ owner'[y] \in Joined
    BY <1>1 DEF SentAndGone
  <2>1. CASE closes'[y][k] = closes[y][k]
    <3>1. reader[y].pc \in Closing \/ owner[y] \in Joined
      BY <2>1 DEF ConnInv, SentAndGone
    <3>2. CASE y = x
      <4>1. owner[x] \in Joined => pc \in Joined
        OBVIOUS
      <4> QED
        BY <1>1, <3>1, <3>2, <4>1
    <3>3. CASE y # x
      BY <1>1, <3>1, <3>3
    <3> QED
      BY <3>2, <3>3
  <2>2. CASE closes'[y][k] # closes[y][k]
    BY <1>1, <1>3, <2>2
  <2> QED
    BY <2>1, <2>2
<1>12. OneClose'
  <2> SUFFICES ASSUME NEW y \in Links, NEW k \in Conns, closes'[y][k] # closes[y][k]
               PROVE  closes'[y][k] <= 1
    BY <1>3 DEF ConnInv, OneClose
  <2>1. y = x /\ k = socket[x] /\ closes'[y][k] = closes[y][k] + 1
        /\ owner[x] = "join" /\ reader[x].pc \in Ended
    BY <1>3
  <2>2. ~(closes[x][k] > 0)
    BY <2>1 DEF ConnInv, SentAndGone, Closing, Ended, Joined
  <2> QED
    BY <1>2, <2>1, <2>2
<1> QED
  BY <1>4, <1>5, <1>6, <1>7, <1>8, <1>9, <1>10, <1>11, <1>12 DEF ConnInv

LEMMA DeleteStep ==
    ASSUME ConnInv, NEW x \in Links, delete_messagelink(x)
    PROVE  ConnInv'
<1>1. /\ OwnerGoto(x, "join") /\ owner[x] = "idle"
      /\ UNCHANGED <<state, socket, closes, lost, wire>>
      /\ IF x = 0 THEN connector = "idle" ELSE reader[x].pc # "none"
  BY DEF delete_messagelink, history, IsClient
<1>2. x \in Conns => state[x] # "CREATED"
  BY <1>1, LinkNumbers DEF ConnInv, Unconnected
<1>3. Shut(wire, wire') /\ owner[x] \notin Joined
  BY <1>1, WireOK DEF Joined
<1> QED
  BY <1>1, <1>2, <1>3, OwnerGoes

(* What is known once delete_messagelink has begun                         *)
LEMMA Deleting ==
    ASSUME ConnInv, NEW x \in Links, owner[x] # "idle"
    PROVE  (x = 0 => connector = "idle") /\ (x \in Conns => state[x] # "CREATED")
BY DEF ConnInv, DeletionOrder, Unconnected

LEMMA OwnerSteps ==
    ASSUME ConnInv, NEW x \in Links, OwnerStep(x)
    PROVE  ConnInv'
<1>1. owner[x] \in {"join"} \cup Joined
  BY DEF OwnerStep, owner_messagelink_close, owner_messagelink_wait_close, Joined,
     owner_wait_close_waits, owner_wait_close_end, owner_close_socket
<1>2. (x = 0 => connector = "idle") /\ (x \in Conns => state[x] # "CREATED")
  BY <1>1, Deleting DEF Joined
<1>3. reader[x].pc \in Ended
  BY <1>1 DEF ConnInv, DeletionOrder, OwnerStep, owner_messagelink_close, Ended, Joined,
     owner_messagelink_wait_close, owner_wait_close_waits, owner_wait_close_end,
     owner_close_socket
<1>4. CASE owner_messagelink_close(x)
  <2>1. owner[x] = "join" /\ owner[x] \notin Joined /\ UNCHANGED <<state, socket, lost>>
    BY <1>4 DEF owner_messagelink_close, linkVars, Joined
  <2>2. CASE state[x] = "OPEN"
    <3>1. PICK failed \in SendFails(x) : OwnerGoto(x, IF failed THEN "sleep" ELSE "wait")
      BY <1>4, <2>2 DEF owner_messagelink_close
    <3>2. PICK pc \in Joined : OwnerGoto(x, pc)
      BY <3>1 DEF Joined
    <3>3. wire' = Sent(wire, x, socket[x], "close") /\ CountClose(x, socket[x])
      BY <1>4, <2>2 DEF owner_messagelink_close
    <3>4. Shut(wire, wire')
      BY <3>3, WireOK DEF Frames
    <3>5. pc \in {"join", "freed"} \cup Joined /\ pc # "freed"
      BY <3>2 DEF Joined
    <3> QED
      BY <1>2, <1>3, <2>1, <3>2, <3>3, <3>4, <3>5, OwnerGoes
  <2>3. CASE state[x] # "OPEN"
    <3>1. OwnerGoto(x, "freed") /\ UNCHANGED <<wire, closes>>
      BY <1>4, <2>3 DEF owner_messagelink_close
    <3>2. socket[x] = 0 \/ Forgotten(x)
      BY <1>2, <1>3, <2>3
      DEF ConnInv, SocketInUse, Ended, IsClient, Upgrading, Forgetting
    <3>3. Shut(wire, wire')
      BY <3>1, WireOK
    <3> QED
      BY <1>2, <1>3, <2>1, <3>1, <3>2, <3>3, OwnerGoes
  <2> QED
    BY <2>2, <2>3
<1>5. CASE \/ owner_messagelink_wait_close(x) \/ owner_wait_close_waits(x)
           \/ owner_wait_close_end(x)
  <2>1. UNCHANGED <<state, socket, closes, lost>>
    BY <1>5 DEF owner_messagelink_wait_close, owner_wait_close_waits, owner_wait_close_end,
       linkVars, history
  <2>2. PICK pc \in Joined : OwnerGoto(x, pc)
    BY <1>5 DEF owner_messagelink_wait_close, owner_wait_close_waits, owner_wait_close_end, Joined
  <2>3. Shut(wire, wire')
    BY <1>5, WireOK
    DEF owner_messagelink_wait_close, owner_wait_close_waits, owner_wait_close_end
  <2>4. pc \in {"join", "freed"} \cup Joined /\ pc # "freed"
    BY <2>2 DEF Joined
  <2> QED
    BY <1>2, <1>3, <2>1, <2>2, <2>3, <2>4, OwnerGoes
<1>6. CASE owner_close_socket(x)
  <2>1. /\ owner[x] = "sleep" /\ OwnerGoto(x, "freed")
        /\ wire' = Closed(wire, x, socket[x]) /\ socket' = [socket EXCEPT ![x] = 0]
        /\ state' \in {state, [state EXCEPT ![x] = "CLOSED"]} /\ UNCHANGED <<closes, lost>>
    BY <1>6 DEF owner_close_socket, history
  <2>2. LosesSocket(x)
    BY <2>1, ClosedWire DEF LosesSocket, ConnInv, LinkTypeOK
  <2>3. ThreadsGo(x) /\ ConnectorGoes(x)
    BY <2>1 DEF ThreadsGo, ConnectorGoes, OwnerGoto, ConnInv, LinkTypeOK
  <2> QED
    BY <1>2, <2>2, <2>3, SocketLost
<1> QED
  BY <1>4, <1>5, <1>6 DEF OwnerStep

-----------------------------------------------------------------------------
(* Connecting                                                              *)

(* client_messagelink_connect goes on: with no socket, or with one that it *)
(* has closed and overwrites next.                                         *)
LEMMA ConnectorMoves ==
    ASSUME ConnInv, UNCHANGED <<socket, reader, owner, closes, lost>>, owner[0] = "idle",
           Shut(wire, wire'),
           state' \in {state, [state EXCEPT ![0] = "CLOSED"]},
           connector' \in {"idle", "open"} \cup Forgetting,
           \/ socket[0] = 0
           \/ /\ connector' \in Forgetting /\ state' = state
              /\ ~wire'[socket[0]].up["client"],
           \/ next' = next /\ next \in Conns /\ (connector \in Connecting => connector' \in Connecting)
           \/ next' = next + 1 /\ connector' = "idle"
    PROVE  ConnInv'
<1>1. /\ state' \in [Links -> States]
      /\ \A k \in Conns : state'[k] = state[k] /\ k # 0 /\ k \in Links
  BY LinkNumbers DEF ConnInv, LinkTypeOK, States
<1>2. next \in Nat \ {0} /\ next' \in Nat \ {0} /\ next <= next'
  BY LinkAssumption DEF ConnInv, LinkTypeOK
<1>3. LinkTypeOK'
  BY <1>1, <1>2 DEF ConnInv, LinkTypeOK, Shut, Forgetting, Connecting
<1>4. ClientHolds' /\ ServerHolds' /\ OneClose' /\ SentAndGone'
  BY <1>1 DEF ConnInv, ClientHolds, ServerHolds, OneClose, SentAndGone, Shut, Sides
<1>5. Unconnected'
  BY <1>1 DEF ConnInv, Unconnected
<1>6. Fresh'
  <2> SUFFICES ASSUME NEW k \in Conns, k > next' \/ (k = next' /\ connector' \notin Connecting)
               PROVE  /\ state'[k] = "CREATED" /\ closes[0][k] = 0 /\ socket[0] # k
                      /\ reader[0].pc = "forget" => reader[0].socket # k
                      /\ \A s \in Sides : ~wire'[k].up[s]
    BY DEF Fresh
  <2>1. k > next \/ (k = next /\ connector \notin Connecting)
    BY <1>2 DEF Conns
  <2> QED
    BY <1>1, <2>1 DEF ConnInv, Fresh, Shut
<1>7. ReaderHolds'
  BY DEF ConnInv, ReaderHolds, Shut, Side, Sides
<1>8. ConnectorHolds'
  BY LinkNumbers DEF ConnectorHolds, Forgetting
<1>9. SocketInUse'
  <2> SUFFICES ASSUME NEW y \in Links, socket[y] # 0
               PROVE  \/ state'[y] = "OPEN" \/ reader[y].pc \in {"oneway", "forget"}
                      \/ Forgotten(y)
                      \/ IsClient(y) /\ connector' \in Upgrading \cup Forgetting
    BY DEF SocketInUse, Forgotten
  <2>1. CASE y = 0
    BY <2>1 DEF IsClient
  <2>2. CASE y # 0
    <3>1. state'[y] = state[y]
      BY <1>1, <2>2, LinkNumbers
    <3> QED
      BY <2>2, <3>1 DEF ConnInv, SocketInUse, IsClient
  <2> QED
    BY <2>1, <2>2
<1>10. DeletionOrder'
  BY DEF ConnInv, DeletionOrder, Forgotten
<1> QED
  BY <1>3, <1>4, <1>5, <1>6, <1>7, <1>8, <1>9, <1>10 DEF ConnInv

(* While it is under way, nobody deletes the link.                         *)
LEMMA UnderWay ==
    ASSUME ConnInv, connector \notin {"idle", "background"}
    PROVE  owner[0] = "idle" /\ next \in Conns
BY LinkNumbers DEF ConnInv, DeletionOrder, LinkTypeOK

LEMMA ConnectStep ==
    ASSUME ConnInv, client_messagelink_connect
    PROVE  ConnInv'
<1>1. /\ UNCHANGED <<state, socket, reader, owner, closes, lost, next>> /\ owner[0] = "idle"
      /\ next \in Conns /\ connector = "idle" /\ wire' = Closed(wire, 0, socket[0])
      /\ connector' = IF socket[0] = 0 THEN "open" ELSE "forget"
  BY DEF client_messagelink_connect, ConnectorGoto, history
<1>2. Shut(wire, wire') /\ (socket[0] # 0 => ~wire'[socket[0]].up["client"])
  BY <1>1, WireOK, ClosedWire, LinkNumbers DEF Side, IsClient
<1>3. /\ connector' \in {"idle", "open"} \cup Forgetting /\ connector \notin Connecting
      /\ socket[0] # 0 => connector' \in Forgetting
  BY <1>1 DEF Forgetting, Connecting, Upgrading
<1> QED
  BY <1>1, <1>2, <1>3, ConnectorMoves

LEMMA ConnectorForgets ==
    ASSUME ConnInv, client_messagelink_forget_socket
    PROVE  ConnInv'
<1>1. /\ connector \in Forgetting
      /\ \/ connector = "forget" /\ connector' = "mark"
         \/ connector = "forget_failed" /\ connector' = "mark_failed"
      /\ socket' = [socket EXCEPT ![0] = 0]
      /\ UNCHANGED <<state, reader, owner, wire, next, closes, lost>>
  BY DEF client_messagelink_forget_socket, ConnectorGoto, history, Forgetting
<1>2. Shut(wire, wire') /\ socket[0] \in 0..MaxConns
  BY <1>1, WireOK, LinkNumbers
<1>3. socket[0] # 0 => ~wire'[socket[0]].up["client"]
  BY <1>1, <1>2, LinkNumbers DEF ConnInv, ConnectorHolds
<1>4. LosesSocket(0)
  BY <1>1, <1>2, <1>3 DEF LosesSocket, Side, IsClient
<1>5. ThreadsGo(0) /\ ConnectorGoes(0)
  BY <1>1 DEF ThreadsGo, ConnectorGoes, ConnInv, LinkTypeOK
<1> QED
  BY <1>4, <1>5, LinkNumbers, SocketLost

LEMMA ConnectorMarks ==
    ASSUME ConnInv, client_messagelink_mark_closed \/ client_messagelink_mark_failed
    PROVE  ConnInv'
<1>1. /\ connector \in {"mark", "mark_failed"}
      /\ state' = [state EXCEPT ![0] = "CLOSED"]
      /\ UNCHANGED <<socket, reader, owner, wire, closes, lost>>
      /\ \/ connector = "mark" /\ connector' = "open" /\ next' = next
         \/ connector' = "idle" /\ next' = next + 1
  BY DEF client_messagelink_mark_closed, client_messagelink_mark_failed, ConnectorGoto, history
<1>2. socket[0] = 0 /\ owner[0] = "idle" /\ next \in Conns
  BY <1>1, UnderWay DEF ConnInv, ConnectorHolds
<1>3. Shut(wire, wire') /\ "mark" \notin Connecting
  BY <1>1, WireOK, LinkNumbers DEF Connecting, Upgrading
<1> QED
  BY <1>1, <1>2, <1>3, ConnectorMoves

LEMMA OpenFailedStep ==
    ASSUME ConnInv, client_messagelink_open_socket_failed
    PROVE  ConnInv'
<1>1. /\ connector = "open" /\ connector' = "idle" /\ next' = next + 1
      /\ UNCHANGED <<state, socket, reader, owner, wire, closes, lost>>
  BY DEF client_messagelink_open_socket_failed, ConnectorGoto, history
<1>2. socket[0] = 0 /\ owner[0] = "idle"
  BY <1>1, UnderWay DEF ConnInv, ConnectorHolds
<1>3. Shut(wire, wire')
  BY <1>1, WireOK, LinkNumbers
<1> QED
  BY <1>1, <1>2, <1>3, ConnectorMoves

(* Both ends of the new connection are open; the one at the hub is that of *)
(* a link that is not connected yet.                                       *)
LEMMA OpenStep ==
    ASSUME ConnInv, client_messagelink_open_socket
    PROVE  ConnInv'
<1>1. /\ connector = "open" /\ connector' = "upgrade" /\ next \in Conns /\ next # 0
      /\ socket' = [socket EXCEPT ![0] = next]
      /\ wire' = [wire EXCEPT ![next].up = [s \in Sides |-> TRUE]]
      /\ state' = [state EXCEPT ![0] = "CLIENT_CONNECTING"]
      /\ UNCHANGED <<reader, owner, next, closes, lost>>
  BY UnderWay, LinkNumbers DEF client_messagelink_open_socket, ConnectorGoto, history
<1>2. /\ socket[0] = 0 /\ owner[0] = "idle" /\ state[next] = "CREATED" /\ closes[0][next] = 0
      /\ reader[0].pc = "forget" => reader[0].socket # next
      /\ reader[next].pc = "none"
  BY <1>1, UnderWay
  DEF ConnInv, ConnectorHolds, Fresh, Connecting, Upgrading, Unconnected
<1>3. /\ state' \in [Links -> States] /\ \A k \in Conns : state'[k] = state[k]
      /\ socket' \in [Links -> 0..MaxConns] /\ socket'[0] = next
      /\ \A k \in Conns : socket'[k] = socket[k]
  BY <1>1, LinkNumbers DEF ConnInv, LinkTypeOK, States
<1>4. /\ wire' \in [Conns -> WireType] /\ \A k \in Conns \ {next} : wire'[k] = wire[k]
  <2> DEFINE u == [s \in Sides |-> TRUE]
             i == wire[next].in
  <2>1. wire \in [Conns -> WireType]
    BY DEF ConnInv, LinkTypeOK
  <2>2. i \in [Sides -> Seq(Frames)] /\ wire[next] = [in |-> i, up |-> wire[next].up]
    BY <1>1, <2>1, WireParts
  <2>3. u \in [Sides -> BOOLEAN]
    OBVIOUS
  <2>4. wire' = [wire EXCEPT ![next] = [wire[next] EXCEPT !.up = u]]
    BY <1>1
  <2> HIDE DEF u, i
  <2>5. [wire[next] EXCEPT !.up = u] = [in |-> i, up |-> u]
    BY <2>2
  <2>6. [in |-> i, up |-> u] \in WireType
    BY <2>2, <2>3 DEF WireType
  <2> QED
    BY <2>1, <2>4, <2>5, <2>6
<1>5. LinkTypeOK'
  BY <1>1, <1>3, <1>4 DEF ConnInv, LinkTypeOK, Upgrading, Connecting
<1>6. ClientHolds'
  BY <1>1, <1>2, <1>3, <1>4, LinkNumbers DEF ConnInv, ClientHolds
<1>7. ServerHolds' /\ Unconnected'
  BY <1>1, <1>2, <1>3, <1>4, LinkNumbers DEF ConnInv, ServerHolds, Unconnected
<1>8. Fresh'
  <2> SUFFICES ASSUME NEW k \in Conns, k > next
               PROVE  /\ state[k] = "CREATED" /\ closes[0][k] = 0 /\ next # k
                      /\ reader[0].pc = "forget" => reader[0].socket # k
                      /\ \A s \in Sides : ~wire'[k].up[s]
    BY <1>1, <1>3 DEF Fresh, Upgrading, Connecting
  <2>1. k # next
    BY <1>1 DEF Conns
  <2> QED
    BY <1>4, <2>1 DEF ConnInv, Fresh
<1>9. ReaderHolds'
  <2> SUFFICES ASSUME NEW x \in Links
               PROVE  /\ reader[x].pc = "forget" =>
                           /\ \A k \in Conns : reader[x].socket = k => ~wire'[k].up[Side(x)]
                           /\ x \in Conns => reader[x].socket = x
                      /\ reader[x].pc = "mark" /\ x \in Conns => socket'[x] = 0
    BY <1>1 DEF ReaderHolds
  <2>1. ASSUME reader[x].pc = "forget" PROVE reader[x].socket # next
    BY <1>2, <2>1, LinkNumbers DEF ConnInv, ReaderHolds
  <2> QED
    BY <1>3, <1>4, <2>1 DEF ConnInv, ReaderHolds
<1>10. ConnectorHolds'
  BY <1>1 DEF ConnectorHolds, Forgetting
<1>11. SocketInUse'
  BY <1>1, <1>3, LinkNumbers DEF ConnInv, SocketInUse, Forgotten, IsClient, Upgrading
<1>12. DeletionOrder'
  BY <1>1, <1>2, <1>3, LinkNumbers DEF ConnInv, DeletionOrder, Forgotten
<1>13. SentAndGone' /\ OneClose'
  <2>1. \A k \in Conns : socket'[0] = k => ~(closes[0][k] > 0)
    BY <1>2, <1>3
  <2> QED
    BY <1>1, <1>3, <2>1, LinkNumbers DEF ConnInv, SentAndGone, OneClose
<1> QED
  BY <1>5, <1>6, <1>7, <1>8, <1>9, <1>10, <1>11, <1>12, <1>13 DEF ConnInv

(* The hub takes its end of the connection.                                *)
LEMMA ServerStep ==
    ASSUME ConnInv, NEW n \in Conns, server_messagelink_connect(n)
    PROVE  ConnInv'
<1>1. /\ n \in Links /\ n # 0 /\ state[n] = "CREATED" /\ wire[n].up["server"]
      /\ socket' = [socket EXCEPT ![n] = n] /\ state' = [state EXCEPT ![n] = "OPEN"]
      /\ reader' = [reader EXCEPT ![n] = [pc |-> "loop"]]
      /\ UNCHANGED <<owner, connector, wire, next, closes, lost>>
  BY LinkNumbers DEF server_messagelink_connect, history
<1>2. /\ owner[n] = "idle" /\ \A j \in Conns : closes[n][j] = 0
  BY <1>1 DEF ConnInv, Unconnected
<1>3. /\ state' \in [Links -> States] /\ state'[n] = "OPEN"
      /\ \A y \in Links \ {n} : state'[y] = state[y]
  BY <1>1 DEF ConnInv, LinkTypeOK, States
<1>4. /\ socket' \in [Links -> 0..MaxConns] /\ socket'[n] = n
      /\ \A y \in Links \ {n} : socket'[y] = socket[y]
  BY <1>1, LinkNumbers DEF ConnInv, LinkTypeOK
<1>5. /\ DOMAIN reader' = Links /\ reader'[n].pc = "loop"
      /\ \A y \in Links \ {n} : reader'[y] = reader[y]
  BY <1>1 DEF ConnInv, LinkTypeOK
<1>6. LinkTypeOK'
  BY <1>1, <1>3, <1>4, <1>5 DEF ConnInv, LinkTypeOK, Reading
<1>7. ClientHolds' /\ ServerHolds'
  BY <1>1, <1>3, <1>4, LinkNumbers DEF ConnInv, ClientHolds, ServerHolds
<1>8. Unconnected'
  BY <1>1, <1>3, <1>4, <1>5, LinkNumbers DEF ConnInv, Unconnected
<1>9. Fresh'
  <2> SUFFICES ASSUME NEW k \in Conns, k > next \/ (k = next /\ connector \notin Connecting)
               PROVE  /\ state'[k] = "CREATED" /\ closes[0][k] = 0 /\ socket'[0] # k
                      /\ reader'[0].pc = "forget" => reader'[0].socket # k
                      /\ \A s \in Sides : ~wire[k].up[s]
    BY <1>1 DEF Fresh
  <2>1. /\ state[k] = "CREATED" /\ closes[0][k] = 0 /\ socket[0] # k
        /\ reader[0].pc = "forget" => reader[0].socket # k
        /\ \A s \in Sides : ~wire[k].up[s]
    BY DEF ConnInv, Fresh
  <2>2. k # n
    BY <1>1, <2>1 DEF Sides
  <2> QED
    BY <1>1, <1>3, <1>4, <1>5, <2>1, <2>2, LinkNumbers
<1>10. ReaderHolds' /\ ConnectorHolds'
  BY <1>1, <1>4, <1>5, LinkNumbers DEF ConnInv, ReaderHolds, ConnectorHolds
<1>11. SocketInUse'
  BY <1>1, <1>3, <1>4, <1>5, LinkNumbers DEF ConnInv, SocketInUse, Forgotten
<1>12. DeletionOrder'
  BY <1>1, <1>2, <1>4, <1>5, LinkNumbers DEF ConnInv, DeletionOrder, Forgotten, Joined
<1>13. SentAndGone' /\ OneClose'
  <2>1. \A k \in Conns : ~(closes[n][k] > 0)
    BY <1>2
  <2> QED
    BY <1>1, <1>4, <1>5, <2>1 DEF ConnInv, SentAndGone, OneClose
<1> QED
  BY <1>6, <1>7, <1>8, <1>9, <1>10, <1>11, <1>12, <1>13 DEF ConnInv

LEMMA UpgradedStep ==
    ASSUME ConnInv, client_messagelink_open_websocket
    PROVE  ConnInv'
<1>1. /\ connector = "upgrade" /\ connector' = "upgraded"
      /\ UNCHANGED <<state, socket, owner, closes, lost, reader, wire, next>>
  BY DEF client_messagelink_open_websocket, ConnectorGoto, history
<1>2. ConnectorKept /\ ThreadsKept /\ Shut(wire, wire')
  BY <1>1, WireOK, LinkNumbers
  DEF ConnectorKept, ThreadsKept, ThreadKept, Upgrading, ConnInv, LinkTypeOK
<1> QED
  BY <1>1, <1>2, Quiet

LEMMA UpgradeFailedStep ==
    ASSUME ConnInv, client_messagelink_open_websocket_failed
    PROVE  ConnInv'
<1>1. /\ connector \in {"upgrade", "spoiled"} /\ next \in Conns /\ owner[0] = "idle"
      /\ socket[0] \in 0..MaxConns /\ wire \in [Conns -> WireType]
      /\ UNCHANGED <<state, socket, reader, owner, closes, lost>>
      /\ \/ socket[0] = 0 /\ connector' = "idle" /\ next' = next + 1
         \/ socket[0] # 0 /\ connector' = "forget_failed" /\ next' = next
  <2>1. connector \in {"upgrade", "spoiled"} /\ connector \notin {"idle", "background"}
    BY DEF client_messagelink_open_websocket_failed
  <2> QED
    BY <2>1, UnderWay, LinkNumbers
    DEF client_messagelink_open_websocket_failed, ConnectorGoto, history, ConnInv, LinkTypeOK
<1> DEFINE w == Closed(wire, 0, socket[0])
           b == w[next].up["server"] /\ (state[next] # "CREATED" \/ w[next].up["client"])
<1>2. Shut(wire, w) /\ (socket[0] # 0 => ~w[socket[0]].up["client"])
  BY <1>1, ClosedWire DEF Side, IsClient
<1>3. wire' = WithUp(w, next, "server", b)
  BY DEF client_messagelink_open_websocket_failed, WithUp
<1>4. b \in BOOLEAN /\ (b => w[next].up["server"])
  BY <1>1, <1>2
<1> HIDE DEF b
<1>5. Shut(w, wire')
  BY <1>1, <1>2, <1>3, <1>4, UpReplaced DEF Shut, Sides
<1> HIDE DEF w
<1>6. Shut(wire, wire')
  BY <1>2, <1>5, ShutTwice
<1>7. socket[0] # 0 => ~wire'[socket[0]].up["client"]
  BY <1>1, <1>2, <1>5, LinkNumbers DEF Shut, Sides
<1>8. "forget_failed" \in Forgetting /\ "forget_failed" \in Connecting
  BY DEF Forgetting, Connecting
<1> QED
  BY <1>1, <1>6, <1>7, <1>8, ConnectorMoves

LEMMA ConnectedStep ==
    ASSUME ConnInv, client_messagelink_connected
    PROVE  ConnInv'
<1>1. /\ connector = "upgraded" /\ connector' = "background" /\ next' = next + 1 /\ next \in Nat
      /\ state' = [state EXCEPT ![0] = "OPEN"]
      /\ UNCHANGED <<socket, reader, owner, wire, closes, lost>>
  BY DEF client_messagelink_connected, ConnectorGoto, history, ConnInv, LinkTypeOK
<1>2. /\ state' \in [Links -> States] /\ state'[0] = "OPEN"
      /\ \A y \in Links \ {0} : state'[y] = state[y] /\ \A k \in Conns : k \in Links \ {0}
  BY <1>1, LinkNumbers DEF ConnInv, LinkTypeOK, States
<1>3. owner[0] = "idle"
  BY <1>1, UnderWay
<1>4. LinkTypeOK'
  BY <1>1, <1>2 DEF ConnInv, LinkTypeOK
<1>5. ClientHolds' /\ ServerHolds' /\ Unconnected' /\ SentAndGone' /\ OneClose'
  BY <1>1, <1>2, LinkNumbers
  DEF ConnInv, ClientHolds, ServerHolds, Unconnected, SentAndGone, OneClose
<1>6. Fresh'
  <2>1. \A k \in Conns : k > next + 1 \/ k = next + 1 => k > next
    BY <1>1 DEF Conns
  <2> QED
    BY <1>1, <1>2, <2>1, LinkNumbers DEF ConnInv, Fresh
<1>7. ReaderHolds' /\ ConnectorHolds'
  BY <1>1 DEF ConnInv, ReaderHolds, ConnectorHolds, Forgetting
<1>8. SocketInUse' /\ DeletionOrder'
  BY <1>1, <1>2, <1>3 DEF ConnInv, SocketInUse, DeletionOrder, Forgotten, IsClient
<1> QED
  BY <1>4, <1>5, <1>6, <1>7, <1>8 DEF ConnInv

LEMMA BackgroundStep ==
    ASSUME ConnInv, client_messagelink_read_in_background
    PROVE  ConnInv'
<1>1. /\ connector = "background" /\ connector' = "idle"
      /\ UNCHANGED <<state, socket, owner, wire, next, closes, lost>>
      /\ reader' = reader \/ (reader[0].pc = "none" /\ reader' = [reader EXCEPT ![0] = [pc |-> "loop"]])
  BY DEF client_messagelink_read_in_background, history
<1>2. owner[0] = "idle"
  BY <1>1, LinkNumbers DEF ConnInv, DeletionOrder, LinkTypeOK
<1>3. /\ DOMAIN reader' = Links /\ \A y \in Links \ {0} : reader'[y] = reader[y]
      /\ reader'[0] = reader[0] \/ (reader[0].pc = "none" /\ reader'[0].pc = "loop")
  <2>1. DOMAIN reader = Links /\ 0 \in Links
    BY LinkNumbers DEF ConnInv, LinkTypeOK
  <2>2. CASE reader' = reader
    BY <2>1, <2>2
  <2>3. CASE reader[0].pc = "none" /\ reader' = [reader EXCEPT ![0] = [pc |-> "loop"]]
    BY <2>1, <2>3
  <2> QED
    BY <1>1, <2>2, <2>3
<1>4. LinkTypeOK'
  BY <1>1, <1>3 DEF ConnInv, LinkTypeOK, Reading
<1>5. ClientHolds' /\ ServerHolds' /\ OneClose'
  BY <1>1 DEF ConnInv, ClientHolds, ServerHolds, OneClose
<1>6. Unconnected' /\ Fresh'
  BY <1>1, <1>3, LinkNumbers DEF ConnInv, Unconnected, Fresh, Upgrading, Connecting
<1>7. ReaderHolds' /\ ConnectorHolds'
  BY <1>1, <1>3, LinkNumbers DEF ConnInv, ReaderHolds, ConnectorHolds, Forgetting
<1>8. SocketInUse' /\ DeletionOrder'
  BY <1>1, <1>2, <1>3 DEF ConnInv, SocketInUse, DeletionOrder, Forgotten, Upgrading, Forgetting, Joined
<1>9. SentAndGone'
  BY <1>1, <1>3 DEF ConnInv, SentAndGone, Closing
<1> QED
  BY <1>4, <1>5, <1>6, <1>7, <1>8, <1>9 DEF ConnInv

-----------------------------------------------------------------------------
(* Sending, and what happens outside                                       *)
LEMMA OtherSteps ==
    ASSUME ConnInv,
           \/ \E x \in Links : \/ messagelink_send_text(x) \/ send_text(x) \/ send_other(x)
                              \/ Stop(x) \/ AppQuit(x)
           \/ \E k \in Conns : Break(k)
           \/ UNCHANGED vars
    PROVE  ConnInv'
<1>1. UNCHANGED <<state, socket, reader, owner, connector, next, closes, lost>>
  BY DEF messagelink_send_text, send_text, send_other, Stop, AppQuit, Break, vars, linkVars, history
<1>2. Shut(wire, wire')
  <2>1. ASSUME NEW x \in Links, send_text(x) PROVE Shut(wire, wire')
    BY <2>1, WireOK DEF send_text, Frames
  <2>2. ASSUME NEW x \in Links, send_other(x) PROVE Shut(wire, wire')
    BY <2>2, WireOK DEF send_other, Frames
  <2>3. ASSUME NEW x \in Links, Stop(x) PROVE Shut(wire, wire')
    BY <2>3, WireOK DEF Stop, Frames
  <2>4. ASSUME NEW x \in Links, messagelink_send_text(x) \/ AppQuit(x) PROVE Shut(wire, wire')
    BY <2>4, WireOK DEF messagelink_send_text, AppQuit
  <2>5. ASSUME NEW k \in Conns, Break(k) PROVE Shut(wire, wire')
    <3>1. Down \in WireType /\ \A s \in Sides : ~Down.up[s]
      BY DEF Down, WireType
    <3>2. wire' = [wire EXCEPT ![k] = Down] /\ wire \in [Conns -> WireType]
      BY <2>5 DEF Break, ConnInv, LinkTypeOK
    <3> QED
      BY <3>1, <3>2 DEF Shut
  <2>6. ASSUME UNCHANGED vars PROVE Shut(wire, wire')
    BY <2>6, WireOK, LinkNumbers DEF vars
  <2> QED
    BY <2>1, <2>2, <2>3, <2>4, <2>5, <2>6
<1>3. ConnectorKept /\ ThreadsKept
  BY <1>1 DEF ConnectorKept, ThreadsKept, ThreadKept, ConnInv, LinkTypeOK
<1> QED
  BY <1>1, <1>2, <1>3, Quiet

LEMMA ConnStep == ConnInv /\ [Next]_vars => ConnInv'
<1> SUFFICES ASSUME ConnInv, [Next]_vars PROVE ConnInv'
  OBVIOUS
<1>1. CASE client_messagelink_connect
  BY <1>1, ConnectStep
<1>2. CASE ConnectorStep
  BY <1>2, ConnectorForgets, ConnectorMarks, OpenStep, OpenFailedStep, UpgradedStep,
     UpgradeFailedStep, ConnectedStep, BackgroundStep DEF ConnectorStep
<1>3. CASE reader_reads_response
  BY <1>3, ResponseStep
<1>4. ASSUME NEW x \in Links, ReaderStep(x) PROVE ConnInv'
  BY <1>4, WaitSteps, ReadSteps, RemoteStep, OnewayStep, ProtocolStep, DropStep, CloseStep,
     ForgetStep, MarkSteps DEF ReaderStep
<1>5. ASSUME NEW x \in Links, OwnerStep(x) \/ delete_messagelink(x) PROVE ConnInv'
  BY <1>5, OwnerSteps, DeleteStep
<1>6. ASSUME NEW k \in Conns, server_messagelink_connect(k) PROVE ConnInv'
  BY <1>6, ServerStep
<1>7. CASE \/ \E x \in Links : \/ messagelink_send_text(x) \/ send_text(x) \/ send_other(x)
                              \/ Stop(x) \/ AppQuit(x)
           \/ \E k \in Conns : Break(k)
           \/ UNCHANGED vars
  BY <1>7, OtherSteps
<1> QED
  BY <1>1, <1>2, <1>3, <1>4, <1>5, <1>6, <1>7 DEF Next

(* Neither end of a connection sends two close messages on it, whether its *)
(* thread or its owner sends them, and although the thread may be behind   *)
(* while the client link is connected again.                               *)
THEOREM ClosesOnce == Spec => []OneClose
<1>1. ConnInv => OneClose
  BY DEF ConnInv
<1> QED
  BY <1>1, ConnInit, ConnStep, PTL DEF Spec

(* When delete_messagelink has freed a link, its thread has ended, and no  *)
(* connection that it ever had is open at its end, but for those that its  *)
(* thread made a client link forget (messagelink_close_socket overwrites   *)
(* the socket and the state of the next connection).                       *)
THEOREM NoSocketIsLeft == Spec => []NoSocketLeft
<1>1. ConnInv => NoSocketLeft
  <2> SUFFICES ASSUME ConnInv, NEW x \in Links, owner[x] = "freed"
               PROVE  /\ reader[x].pc \in Ended
                      /\ \A k \in Conns : x \in {0, k} => \/ ~wire[k].up[Side(x)]
                                                          \/ IsClient(x) /\ k \in lost
    BY DEF NoSocketLeft, Ended
  <2>1. (socket[x] = 0 \/ Forgotten(x)) /\ reader[x].pc \in Ended
    BY DEF ConnInv, DeletionOrder
  <2>2. ASSUME NEW k \in Conns, x \in {0, k}
        PROVE  ~wire[k].up[Side(x)] \/ (IsClient(x) /\ k \in lost)
    <3>1. CASE x = 0
      BY <2>1, <3>1, LinkNumbers DEF ConnInv, ClientHolds, Forgotten, Side, IsClient
    <3>2. CASE x # 0
      BY <2>1, <2>2, <3>2, LinkNumbers
      DEF ConnInv, ServerHolds, Unconnected, Forgotten, Side, IsClient
    <3> QED
      BY <3>1, <3>2
  <2> QED
    BY <2>1, <2>2
<1> QED
  BY <1>1, ConnInit, ConnStep, PTL DEF Spec

-----------------------------------------------------------------------------
(* The headers of WebSocket frames                                         *)

(* The first two bytes of a header are read back.                          *)
LEMMA FirstBytesRead ==
  ASSUME NEW opcode \in Opcodes, NEW masked \in Flags, NEW l \in Nat, l < 128, NEW b,
         b[1] = 128 + opcode, b[2] = 128 * masked + l
  PROVE  messagelink_read_frame(b)
            = [fin |-> 1, opcode |-> opcode, mask |-> masked, length |-> l]
<1>1. b[1] \div 128 = 1 /\ b[1] % 16 = opcode
  BY SMT DEF Opcodes
<1>2. b[2] \div 128 = masked /\ b[2] % 128 = l
  <2>1. CASE masked = 0
    BY <2>1, SMT
  <2>2. CASE masked = 1
    BY <2>2, SMT
  <2> QED
    BY <2>1, <2>2, SMT DEF Flags
<1> QED
  BY <1>1, <1>2, SMT DEF messagelink_read_frame

(* A length that the reader accepts is put into the record of the frame.   *)
LEMMA Accepted ==
  ASSUME NEW b, NEW opcode, NEW masked, NEW l, NEW length \in Nat, length <= MaxLength,
         messagelink_read_frame(b)
            = [fin |-> 1, opcode |-> opcode, mask |-> masked, length |-> l],
         HeaderLength(b) = length
  PROVE  messagelink_read_message(b)
            = [fin |-> 1, opcode |-> opcode, mask |-> masked, length |-> length]
  BY SMT DEF messagelink_read_message, MaxLength

(* Lengths below 126 are in the first two bytes.                           *)
LEMMA TinyReadsBack ==
  ASSUME NEW opcode \in Opcodes, NEW masked \in Flags, NEW length \in Nat, length < 126
  PROVE  ReadsBack(opcode, masked, length)
<1> SUFFICES ASSUME NEW b, b = frame_make_header(opcode, masked, length)
             PROVE  messagelink_read_message(b)
                      = [fin |-> 1, opcode |-> opcode, mask |-> masked, length |-> length]
  BY DEF ReadsBack
<1>1. b[1] = 128 + opcode /\ b[2] = 128 * masked + length
  BY SMT DEF frame_make_header
<1>2. messagelink_read_frame(b)
        = [fin |-> 1, opcode |-> opcode, mask |-> masked, length |-> length]
  BY <1>1, FirstBytesRead, SMT
<1>3. HeaderLength(b) = length
  BY <1>2, SMT DEF HeaderLength
<1> QED
  BY <1>2, <1>3, Accepted, SMT DEF MaxLength

(* The two longer forms: what is in the header is the length modulo 65536, *)
(* and the length.                                                         *)
LEMMA ShortHeader ==
  ASSUME NEW opcode \in Opcodes, NEW masked \in Flags, NEW length \in Nat,
         length >= 126, length <= 65536, NEW b, b = frame_make_header(opcode, masked, length)
  PROVE  /\ messagelink_read_frame(b)
               = [fin |-> 1, opcode |-> opcode, mask |-> masked, length |-> 126]
         /\ HeaderLength(b) = length % 65536
<1>1. b = <<128 + opcode, 128 * masked + 126, Byte1(length), Byte0(length)>>
  BY SMT DEF frame_make_header
<1>2. messagelink_read_frame(b)
        = [fin |-> 1, opcode |-> opcode, mask |-> masked, length |-> 126]
  BY <1>1, FirstBytesRead, SMT
<1>3. HeaderLength(b) = Byte1(length) * 256 + Byte0(length)
  BY <1>1, <1>2, SMT DEF HeaderLength
<1>4. Byte1(length) * 256 + Byte0(length) = length % 65536
  BY SMT DEF Byte1, Byte0
<1> QED
  BY <1>2, <1>3, <1>4

LEMMA LongHeader ==
  ASSUME NEW opcode \in Opcodes, NEW masked \in Flags, NEW length \in Nat,
         length > 65536, length <= MaxLength, NEW b, b = frame_make_header(opcode, masked, length)
  PROVE  /\ messagelink_read_frame(b)
               = [fin |-> 1, opcode |-> opcode, mask |-> masked, length |-> 127]
         /\ HeaderLength(b) = length
<1>1. b = <<128 + opcode, 128 * masked + 127, 0, 0, 0, 0,
            Byte3(length), Byte2(length), Byte1(length), Byte0(length)>>
  BY SMT DEF frame_make_header
<1>2. messagelink_read_frame(b)
        = [fin |-> 1, opcode |-> opcode, mask |-> masked, length |-> 127]
  BY <1>1, FirstBytesRead, SMT
<1>3. HeaderLength(b)
        = ((Byte3(length) * 256 + Byte2(length)) * 256 + Byte1(length)) * 256 + Byte0(length)
  BY <1>1, <1>2, SMT DEF HeaderLength
<1>4. ((Byte3(length) * 256 + Byte2(length)) * 256 + Byte1(length)) * 256 + Byte0(length)
        = length
  <2>1. PICK q1 \in Nat : q1 = length \div 256
    BY SMT
  <2>2. PICK q2 \in Nat : q2 = q1 \div 256
    BY SMT
  <2>3. PICK q3 \in Nat : q3 = q2 \div 256
    BY SMT
  <2>4. q3 < 256
    BY <2>1, <2>2, <2>3, SMT DEF MaxLength
  <2>5. length = q1 * 256 + Byte0(length)
    BY <2>1, SMT DEF Byte0
  <2>6. q1 = q2 * 256 + Byte1(length)
    BY <2>1, <2>2, SMT DEF Byte1
  <2>7. q2 = q3 * 256 + Byte2(length)
    BY <2>1, <2>2, <2>3, SMT DEF Byte2
  <2>8. q3 = Byte3(length)
    BY <2>1, <2>2, <2>3, <2>4, SMT DEF Byte3
  <2> QED
    BY <2>5, <2>6, <2>7, <2>8
<1> QED
  BY <1>2, <1>3, <1>4

(* Every header that the library writes for a message that it accepts is   *)
(* read back as it was meant, whatever the opcode, the mask flag and the   *)
(* length (frame_make_header, messagelink_read_message), but for the one   *)
(* length of the next theorem.                                             *)
THEOREM HeaderRoundTrip ==
  \A opcode \in Opcodes, masked \in Flags, length \in Nat :
     length <= MaxLength /\ length # 65536 => ReadsBack(opcode, masked, length)
<1> SUFFICES ASSUME NEW opcode \in Opcodes, NEW masked \in Flags, NEW length \in Nat,
                    length <= MaxLength, length # 65536
             PROVE  ReadsBack(opcode, masked, length)
  OBVIOUS
<1>1. CASE length < 126
  BY <1>1, TinyReadsBack
<1>2. CASE length >= 126
  <2>1. PICK b : b = frame_make_header(opcode, masked, length)
    OBVIOUS
  <2>2. PICK l : messagelink_read_frame(b)
                   = [fin |-> 1, opcode |-> opcode, mask |-> masked, length |-> l]
                 /\ HeaderLength(b) = length
    <3>1. CASE length < 65536
      <4>1. length % 65536 = length
        BY <3>1, SMT
      <4> QED
        BY <1>2, <2>1, <3>1, <4>1, ShortHeader, SMT
    <3>2. CASE length > 65536
      BY <2>1, <3>2, LongHeader, SMT
    <3> QED
      BY <3>1, <3>2, SMT
  <2> QED
    BY <2>1, <2>2, Accepted, SMT DEF ReadsBack
<1> QED
  BY <1>1, <1>2, SMT

(* A message of 65536 bytes is announced as empty, because                 *)
(* frame_make_header compares with <= 65536 and sixteen bits hold no more  *)
(* than 65535: the reader takes its payload for the next headers.          *)
THEOREM HeaderLosesLength ==
  \A opcode \in Opcodes, masked \in Flags :
     messagelink_read_message(frame_make_header(opcode, masked, 65536))
        = [fin |-> 1, opcode |-> opcode, mask |-> masked, length |-> 0]
<1> SUFFICES ASSUME NEW opcode \in Opcodes, NEW masked \in Flags, NEW b,
                    b = frame_make_header(opcode, masked, 65536)
             PROVE  messagelink_read_message(b)
                      = [fin |-> 1, opcode |-> opcode, mask |-> masked, length |-> 0]
  BY SMT
<1>1. /\ messagelink_read_frame(b)
            = [fin |-> 1, opcode |-> opcode, mask |-> masked, length |-> 126]
      /\ HeaderLength(b) = 65536 % 65536
  BY ShortHeader, SMT
<1>2. HeaderLength(b) = 0
  BY <1>1, SMT
<1> QED
  BY <1>1, <1>2, Accepted, SMT DEF MaxLength
=============================================================================
