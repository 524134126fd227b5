-------------------------- MODULE AgreementProofs --------------------------
(***************************************************************************)
(* Agreement, for any number of processes, end-points, names, topics and   *)
(* addresses, with processes that end and connections that break: once the *)
(* network is quiet, the proxy of a connected process lists the ids that   *)
(* the central registry lists.                                             *)
(*                                                                         *)
(* DiscoveryProofs relates the processes to the central registry; here it  *)
(* is the central registry and the proxies.  The handlers of the central   *)
(* registry announce what they have done after they have released it, so   *)
(* that a proxy may be told of several end-points in an order that is not  *)
(* that of the list.  The invariant compares the list with what a proxy    *)
(* will have when everything that is on its way has arrived (Follows): its *)
(* copy of the list, which may itself be on its way or half merged, the    *)
(* events behind that copy, and those that a handler has yet to send.      *)
(*                                                                         *)
(* This is only true because of the routes that ids can take (Routes): an  *)
(* id is announced once and its removal after it, what is not registered   *)
(* yet is nowhere but in its own process, all requests about an id come    *)
(* from one connection.  ListMerged is about the two loops that merge the  *)
(* list of the central registry into that of the proxy.                    *)
(*                                                                         *)
(* A further part is what agreement is for: links find their hub and hubs  *)
(* their links (ConnInv).  An end-point is told of an entry once, when it  *)
(* is announced, or finds it when it is opened.  So at every moment it is  *)
(* connected to what its process lists, or the news is still to come.      *)
(*                                                                         *)
(* The last part is about the addresses (AddressInv): only the process of  *)
(* an end-point moves it, what a handler is about to say is what the       *)
(* central registry has, and each proxy has or will be told that, unless a *)
(* handler has yet to say it (Owed, Informed).                             *)
(***************************************************************************)
EXTENDS DiscoveryProofs

-----------------------------------------------------------------------------
(* Where an id is between the central registry and a proxy                 *)

(* The ids of the events in a queue, and of those that a handler has yet   *)
(* to send                                                                 *)
OfKind(q, kind) == {m \in Items(q) : m.kind = kind}

AddedIds(q) == {m.entry.id : m \in OfKind(q, "proxy-add")}
UpdatedIds(q) == {m.id : m \in OfKind(q, "proxy-update-address")}
UpdIds(q) == {m.id : m \in OfKind(q, "update-address")}
Adds(h) == h.pc = "announce" /\ h.event.kind = "proxy-add"
ToAdd(h) == IF Adds(h) THEN {h.event.entry.id} ELSE {}
ToUpdate(h) == IF h.pc = "announce" /\ h.event.kind = "proxy-update-address"
               THEN {h.event.id} ELSE {}

(* The entries with this id that came from the central registry            *)
Entries(s, id) == {e \in Items(s) : e.id = id /\ ~e.endpoint}
ForeignIds(s) == {e.id : e \in {f \in Items(s) : ~f.endpoint}}
Of(s, id) == {i \in 1..Len(s) : s[i].id = id /\ ~s[i].endpoint}

(* The ids in the copies of the list                                       *)
ListIds(q) == UNION {IdsOf(m.list) : m \in OfKind(q, "list")}
CopyIds(n) == (IF handler[n].pc = "list" THEN IdsOf(handler[n].list) ELSE {})
              \cup ListIds(down[n])
              \cup (IF reader[n] = IdleReader THEN {} ELSE IdsOf(reader[n].todo) \cup IdsOf(reader[n].list))

Unsent(n) == Pending(n) \cup RegIds(up[n])

(* What the central registry has not seen, nobody has.                     *)
Seen(n) == ToAdd(handler[n]) \cup ToRemove(handler[n]) \cup AddedIds(down[n])
           \cup RemovedIds(down[n]) \cup CopyIds(n) \cup ForeignIds(preg[n])

Unseen == \A m, n \in Nodes : Unsent(m) \cap Seen(n) = {}

(* An end-point is announced once.                                         *)
AddsOnce(q) == \A i, j \in 1..Len(q) :
    q[i].kind = "proxy-add" /\ q[j].kind = "proxy-add" /\ q[i].entry.id = q[j].entry.id => i = j

AnnouncedOnce ==
    \A n \in Nodes :
        /\ AddsOnce(down[n])
        /\ \A m \in Nodes : /\ ToAdd(handler[m]) \cap AddedIds(down[n]) = {}
                            /\ m # n => ToAdd(handler[m]) \cap ToAdd(handler[n]) = {}

(* Its removal is announced when the central registry has removed it, and  *)
(* after it was announced.                                                 *)
InOrder(q) == \A i, j \in 1..Len(q) :
    q[i].kind = "proxy-remove" /\ q[j].kind = "proxy-add" /\ q[j].entry.id = q[i].id => j < i

RemovedGone ==
    \A n \in Nodes :
        /\ InOrder(down[n])
        /\ (ToRemove(handler[n]) \cup RemovedIds(down[n])) \cap IdsOf(central) = {}

(* What is about to be announced is in the central registry.               *)
ToAddPresent ==
    \A n \in Nodes : Adds(handler[n]) =>
        \E e \in Items(central) : /\ e.id = handler[n].event.entry.id
                                 /\ entry_equals(e, handler[n].event.entry)

(* The requests about an end-point are those of one process.               *)
ByOwner ==
    \A m \in Nodes :
        /\ \A id \in ToAdd(handler[m]) : IsOpen(id) => ep[id].node = m
        /\ \A n \in Nodes \ {m} :
              (Unsent(m) \cup ToAdd(handler[m]))
                \cap (UpdIds(up[n]) \cup UnregIds(up[n]) \cup ToUpdate(handler[n])) = {}

(* The links that a broadcast reaches                                      *)
Joined ==
    \A n \in Nodes :
        /\ handler[n].pc \in {"idle", "announce", "list"} => n \in links
        /\ handler[n].pc = "done" => conn[n] = "closed"
        /\ handler[n].pc = "none" /\ conn[n] = "open" => Lists(up[n]) # {}
        /\ handler[n].pc = "announce" /\ handler[n].event.kind # "proxy-update-address"
            => handler[n].exclude = {}

(* Until the list arrives a proxy has only what was announced.             *)
EarlyOnce ==
    \A n \in Nodes : status[n] \in {"none", "initializing"} /\ reader[n] = IdleReader =>
        /\ IdsOnce(preg[n])
        /\ IdsOf(preg[n]) \cap AddedIds(down[n]) = {}
        /\ \A m \in Nodes : IdsOf(preg[n]) \cap ToAdd(handler[m]) = {}

CopiesOnce ==
    \A n \in Nodes :
        /\ handler[n].pc = "list" => IdsOnce(handler[n].list)
        /\ \A m \in OfKind(down[n], "list") : IdsOnce(m.list)
        /\ reader[n] # IdleReader => IdsOnce(reader[n].list)

Routes == Unseen /\ AnnouncedOnce /\ RemovedGone /\ ToAddPresent /\ ByOwner /\ Joined
          /\ EarlyOnce /\ CopiesOnce

-----------------------------------------------------------------------------
(* The list is merged into what the proxy has.                             *)

(* The entries with this id that are in the list, and those that are not   *)
InList(s, list, id) == {i \in Of(s, id) : Known(list, s[i])}
Surplus(s, list, id) == {i \in Of(s, id) : ~Known(list, s[i])}

AtMostOne(S) == \A i, j \in S : i = j

(* While the reader merges the list: the proxy has an id twice at most,    *)
(* and then the entry that is not in the list, which will be deleted, is   *)
(* the first with the id; each entry of the list is there or still to be   *)
(* inserted; and what is not in the list is still to be deleted.           *)
MergingAt(r, s, id) ==
    /\ AtMostOne(InList(s, r.list, id)) /\ AtMostOne(Surplus(s, r.list, id))
    /\ \A i \in Surplus(s, r.list, id), j \in InList(s, r.list, id) : i < j
    /\ \A e \in Items(r.list) : e.id = id =>
            Known(s, e) \/ (r.pc = "insert" /\ e \in Items(r.todo))
    /\ r.pc = "insert" => Items(r.todo) \subseteq Items(r.list)
    /\ r.pc = "prune" => /\ AtMostOne(Surplus(r.todo, r.list, id))
                         /\ Surplus(s, r.list, id) = {} <=> Surplus(r.todo, r.list, id) = {}

ListMerged == \A n \in Nodes : reader[n] # IdleReader =>
                  \A id \in Ids : ~HasTwin(id) => MergingAt(reader[n], preg[n], id)

-----------------------------------------------------------------------------
(* What a proxy has, and what is on its way to it                          *)

(* The proxy has sent its request for the list and it was taken.           *)
Synced(n) == conn[n] = "open" /\ handler[n].pc # "none" /\ Lists(up[n]) = {}

(* The ids that Agreement is about                                         *)
Good(n, id) == id \notin raced[n] /\ ~HasTwin(id)

(* The copy of the list that the proxy has or will have, and the events    *)
(* that it will handle after it                                            *)
TheList(q) == CHOOSE i \in Lists(q) : TRUE

Behind(q) == IF Lists(q) = {} THEN q ELSE SubSeq(q, TheList(q) + 1, Len(q))

After(n) == IF handler[n].pc = "list" THEN <<>> ELSE Behind(down[n])

Copy(n) == IF handler[n].pc = "list" THEN handler[n].list
           ELSE IF Lists(down[n]) # {} THEN down[n][TheList(down[n])].list
           ELSE IF reader[n] # IdleReader THEN reader[n].list
           ELSE preg[n]

AllToAdd == UNION {ToAdd(handler[m]) : m \in Nodes}
AllToRemove == UNION {ToRemove(handler[m]) : m \in Nodes}

Mine(n, id) == (IsOpen(id) /\ ep[id].node = n) \/ id \in UnregIds(up[n])

(* What the central registry lists, the proxy has or will be told of,      *)
(* unless the end-point is its own; what it has or will be told of is      *)
(* listed, or its removal will be announced.                               *)
WillKnow(n, id) ==
    id \in IdsOf(central) =>
        Entries(Copy(n), id) # {} \/ id \in AddedIds(After(n)) \cup AllToAdd \/ Mine(n, id)

WillForget(n, id) ==
    Entries(Copy(n), id) # {} \/ id \in AddedIds(After(n)) =>
        id \in IdsOf(central) \cup RemovedIds(After(n)) \cup AllToRemove

(* An address is updated after the end-point was announced.                *)
UpdatesBehind(q, id) ==
    \A i, j \in 1..Len(q) :
        /\ q[i].kind = "proxy-add" /\ q[i].entry.id = id
        /\ q[j].kind = "proxy-update-address" /\ q[j].id = id
        => i < j

(* An entry that is announced although the proxy has it is known as it is. *)
AddsNothing(n, id) ==
    \A f \in Entries(Copy(n), id) :
        /\ \A m \in OfKind(After(n), "proxy-add") : m.entry.id = id => entry_equals(f, m.entry)
        /\ UpdatesBehind(After(n), id)
        /\ \A k \in Nodes : id \in ToAdd(handler[k]) =>
              entry_equals(f, handler[k].event.entry) /\ id \notin UpdatedIds(After(n))

(* All of it leaves one entry with the id at most.                         *)
Follows(n, id) == /\ WillKnow(n, id) /\ WillForget(n, id) /\ AddsNothing(n, id)
                  /\ AtMostOne(Of(Copy(n), id))

ProxiesFollow == \A n \in Nodes, id \in Ids : Synced(n) /\ Good(n, id) => Follows(n, id)

-----------------------------------------------------------------------------
(* The events in a queue                                                   *)

LEMMA KindsOfItems ==
    ASSUME NEW q, NEW id
    PROVE /\ id \in AddedIds(q) <=> \E m \in Items(q) : m.kind = "proxy-add" /\ m.entry.id = id
          /\ id \in UpdatedIds(q) <=> \E m \in Items(q) : m.kind = "proxy-update-address" /\ m.id = id
          /\ id \in UpdIds(q) <=> \E m \in Items(q) : m.kind = "update-address" /\ m.id = id
          /\ id \in RemovedIds(q) <=> \E m \in Items(q) : m.kind = "proxy-remove" /\ m.id = id
          /\ id \in UnregIds(q) <=> \E m \in Items(q) : m.kind = "unregister" /\ m.id = id
<1>1. /\ id \in AddedIds(q) <=> \E m \in Items(q) : m.kind = "proxy-add" /\ m.entry.id = id
      /\ id \in UpdatedIds(q) <=> \E m \in Items(q) : m.kind = "proxy-update-address" /\ m.id = id
      /\ id \in UpdIds(q) <=> \E m \in Items(q) : m.kind = "update-address" /\ m.id = id
    BY DEF AddedIds, UpdatedIds, UpdIds, OfKind
<1>2. /\ id \in RemovedIds(q) <=> \E m \in Items(q) : m.kind = "proxy-remove" /\ m.id = id
      /\ id \in UnregIds(q) <=> \E m \in Items(q) : m.kind = "unregister" /\ m.id = id
    BY DEF RemovedIds, UnregIds, Items
<1> QED BY <1>1, <1>2

(* A queue t with fewer items than the queue q                             *)
FewerItems(q, t) ==
    /\ AddedIds(t) \subseteq AddedIds(q) /\ UpdatedIds(t) \subseteq UpdatedIds(q)
    /\ UpdIds(t) \subseteq UpdIds(q) /\ ListIds(t) \subseteq ListIds(q)
    /\ RemovedIds(t) \subseteq RemovedIds(q) /\ UnregIds(t) \subseteq UnregIds(q)
    /\ OfKind(t, "list") \subseteq OfKind(q, "list")
    /\ AddsOnce(q) => AddsOnce(t)
    /\ InOrder(q) => InOrder(t)
    /\ \A id : UpdatesBehind(q, id) => UpdatesBehind(t, id)

LEMMA FewerOfItems ==
    ASSUME NEW q, NEW t, Items(t) \subseteq Items(q)
    PROVE /\ AddedIds(t) \subseteq AddedIds(q) /\ UpdatedIds(t) \subseteq UpdatedIds(q)
          /\ UpdIds(t) \subseteq UpdIds(q) /\ ListIds(t) \subseteq ListIds(q)
          /\ RemovedIds(t) \subseteq RemovedIds(q) /\ UnregIds(t) \subseteq UnregIds(q)
          /\ OfKind(t, "list") \subseteq OfKind(q, "list")
<1>1. OfKind(t, "list") \subseteq OfKind(q, "list")
    BY DEF OfKind
<1>2. ListIds(t) \subseteq ListIds(q)
    BY <1>1 DEF ListIds
<1> QED BY <1>1, <1>2, KindsOfItems

LEMMA ShiftedIsFewer ==
    ASSUME NEW q, NEW t, NEW d \in {0, 1}, ShiftedBy(q, t, d)
    PROVE FewerItems(q, t)
<1>1. \A i \in 1..Len(t) : i + d \in 1..Len(q) /\ t[i] = q[i + d]
    BY DEF ShiftedBy
<1>2. Items(t) \subseteq Items(q)
    BY <1>1 DEF Items
<1>3. ASSUME AddsOnce(q) PROVE AddsOnce(t)
    <2> SUFFICES ASSUME NEW i \in 1..Len(t), NEW j \in 1..Len(t), t[i].kind = "proxy-add",
                        t[j].kind = "proxy-add", t[i].entry.id = t[j].entry.id
                 PROVE i = j
        BY DEF AddsOnce
    <2>1. /\ i + d \in 1..Len(q) /\ j + d \in 1..Len(q) /\ t[i] = q[i + d] /\ t[j] = q[j + d]
        BY <1>1
    <2>2. i + d = j + d
        BY <1>3, <2>1 DEF AddsOnce
    <2> QED BY <2>2
<1>4. ASSUME InOrder(q) PROVE InOrder(t)
    <2> SUFFICES ASSUME NEW i \in 1..Len(t), NEW j \in 1..Len(t), t[i].kind = "proxy-remove",
                        t[j].kind = "proxy-add", t[j].entry.id = t[i].id
                 PROVE j < i
        BY DEF InOrder
    <2>1. /\ i + d \in 1..Len(q) /\ j + d \in 1..Len(q) /\ t[i] = q[i + d] /\ t[j] = q[j + d]
        BY <1>1
    <2>2. j + d < i + d
        BY <1>4, <2>1 DEF InOrder
    <2> QED BY <2>2
<1>5. ASSUME NEW id, UpdatesBehind(q, id) PROVE UpdatesBehind(t, id)
    <2> SUFFICES ASSUME NEW i \in 1..Len(t), NEW j \in 1..Len(t), t[i].kind = "proxy-add",
                        t[i].entry.id = id, t[j].kind = "proxy-update-address", t[j].id = id
                 PROVE i < j
        BY DEF UpdatesBehind
    <2>1. /\ i + d \in 1..Len(q) /\ j + d \in 1..Len(q) /\ t[i] = q[i + d] /\ t[j] = q[j + d]
        BY <1>1
    <2>2. i + d < j + d
        BY <1>5, <2>1 DEF UpdatesBehind
    <2> QED BY <2>2
<1> QED BY <1>2, <1>3, <1>4, <1>5, FewerOfItems DEF FewerItems

LEMMA FewerInTail ==
    ASSUME NEW S, NEW q \in Seq(S), q # <<>>
    PROVE /\ ShiftedBy(q, Tail(q), 1) /\ FewerItems(q, Tail(q))
          /\ AddsOnce(q) /\ Head(q).kind = "proxy-add" =>
                Head(q).entry.id \notin AddedIds(Tail(q))
          /\ InOrder(q) /\ Head(q).kind = "proxy-remove" => Head(q).id \notin AddedIds(Tail(q))
          /\ \A id : /\ UpdatesBehind(q, id)
                     /\ Head(q).kind = "proxy-update-address" /\ Head(q).id = id
                     => id \notin AddedIds(Tail(q))
<1> DEFINE t == Tail(q)
<1>1. /\ Len(t) = Len(q) - 1 /\ Len(t) \in Nat /\ Len(q) \in Nat /\ Head(q) = q[1]
      /\ 1 \in 1..Len(q) /\ \A i \in 1..Len(t) : t[i] = q[i + 1]
    BY HeadTailProperties, LenProperties, EmptySeq
<1> HIDE DEF t
<1>2. \A i \in 1..Len(t) : i + 1 \in 1..Len(q) /\ t[i] = q[i + 1] /\ i + 1 # 1 /\ ~(i + 1 < 1)
    BY <1>1
<1>3. ShiftedBy(q, t, 1)
    BY <1>2 DEF ShiftedBy
<1>4. FewerItems(q, t)
    BY <1>3, ShiftedIsFewer
<1>5. \A id \in AddedIds(t) : \E i \in 1..Len(t) : /\ q[i + 1].kind = "proxy-add"
                                                 /\ q[i + 1].entry.id = id
    BY <1>2 DEF AddedIds, OfKind, Items
<1>6. ASSUME AddsOnce(q), q[1].kind = "proxy-add" PROVE q[1].entry.id \notin AddedIds(t)
    BY <1>1, <1>2, <1>5, <1>6 DEF AddsOnce
<1>7. ASSUME InOrder(q), q[1].kind = "proxy-remove" PROVE q[1].id \notin AddedIds(t)
    BY <1>1, <1>2, <1>5, <1>7 DEF InOrder
<1>8. ASSUME NEW id, UpdatesBehind(q, id), q[1].kind = "proxy-update-address", q[1].id = id
      PROVE id \notin AddedIds(t)
    BY <1>1, <1>2, <1>5, <1>8 DEF UpdatesBehind
<1> QED BY <1>1, <1>3, <1>4, <1>6, <1>7, <1>8 DEF t

LEMMA OneMoreItem ==
    ASSUME NEW S, NEW q \in Seq(S), NEW m \in S
    PROVE /\ Items(Append(q, m)) = Items(q) \cup {m}
          /\ AddsOnce(q) /\ (m.kind = "proxy-add" => m.entry.id \notin AddedIds(q))
                => AddsOnce(Append(q, m))
          /\ InOrder(q) /\ (m.kind = "proxy-add" => m.entry.id \notin RemovedIds(q))
                => InOrder(Append(q, m))
          /\ \A id : /\ UpdatesBehind(q, id)
                     /\ m.kind = "proxy-add" /\ m.entry.id = id => id \notin UpdatedIds(q)
                     => UpdatesBehind(Append(q, m), id)
<1> DEFINE t == Append(q, m)
           n == Len(q)
<1>1. /\ Len(t) = n + 1 /\ n \in Nat /\ t[n + 1] = m /\ \A i \in 1..n : t[i] = q[i]
    OBVIOUS
<1>2. \A i \in 1..Len(t) : i \in 1..n \/ i = n + 1
    BY <1>1
<1>3. \A i \in 1..n : i < n + 1 /\ q[i] \in Items(q)
    BY <1>1 DEF Items
<1> HIDE DEF t, n
<1>4. ASSUME AddsOnce(q), m.kind = "proxy-add" => m.entry.id \notin AddedIds(q)
      PROVE AddsOnce(t)
    <2> SUFFICES ASSUME NEW i \in 1..Len(t), NEW j \in 1..Len(t), t[i].kind = "proxy-add",
                        t[j].kind = "proxy-add", t[i].entry.id = t[j].entry.id
                 PROVE i = j
        BY DEF AddsOnce
    <2>1. CASE i \in 1..n /\ j \in 1..n
        BY <1>1, <1>4, <2>1 DEF AddsOnce, n
    <2>2. CASE i \in 1..n /\ j = n + 1
        BY <1>1, <1>3, <1>4, <2>2, KindsOfItems
    <2>3. CASE i = n + 1 /\ j \in 1..n
        BY <1>1, <1>3, <1>4, <2>3, KindsOfItems
    <2> QED BY <1>2, <2>1, <2>2, <2>3
<1>5. ASSUME InOrder(q), m.kind = "proxy-add" => m.entry.id \notin RemovedIds(q)
      PROVE InOrder(t)
    <2> SUFFICES ASSUME NEW i \in 1..Len(t), NEW j \in 1..Len(t), t[i].kind = "proxy-remove",
                        t[j].kind = "proxy-add", t[j].entry.id = t[i].id
                 PROVE j < i
        BY DEF InOrder
    <2>1. CASE i \in 1..n /\ j \in 1..n
        BY <1>1, <1>5, <2>1 DEF InOrder, n
    <2>2. CASE i \in 1..n /\ j = n + 1
        BY <1>1, <1>3, <1>5, <2>2, KindsOfItems
    <2>3. CASE i = n + 1 /\ j \in 1..n
        BY <1>3, <2>3
    <2>4. CASE i = n + 1 /\ j = n + 1
        BY <1>1, <2>4
    <2> QED BY <1>2, <2>1, <2>2, <2>3, <2>4
<1>6. ASSUME NEW id, UpdatesBehind(q, id),
             m.kind = "proxy-add" /\ m.entry.id = id => id \notin UpdatedIds(q)
      PROVE UpdatesBehind(t, id)
    <2> SUFFICES ASSUME NEW i \in 1..Len(t), NEW j \in 1..Len(t), t[i].kind = "proxy-add",
                        t[i].entry.id = id, t[j].kind = "proxy-update-address", t[j].id = id
                 PROVE i < j
        BY DEF UpdatesBehind
    <2>1. CASE i \in 1..n /\ j \in 1..n
        BY <1>1, <1>6, <2>1 DEF UpdatesBehind, n
    <2>2. CASE i \in 1..n /\ j = n + 1
        BY <1>3, <2>2
    <2>3. CASE i = n + 1 /\ j \in 1..n
        BY <1>1, <1>3, <1>6, <2>3, KindsOfItems
    <2>4. CASE i = n + 1 /\ j = n + 1
        BY <1>1, <2>4
    <2> QED BY <1>2, <2>1, <2>2, <2>3, <2>4
<1>7. Items(t) = Items(q) \cup {m}
    BY ItemsOfAppend DEF t
<1> QED BY <1>4, <1>5, <1>6, <1>7 DEF t

(* The messages behind the list                                            *)
LEMMA BehindIs ==
    ASSUME NEW S, NEW q \in Seq(S), \A i, j \in Lists(q) : i = j
    PROVE /\ Behind(q) \in Seq(S)
          /\ Lists(q) = {} => Behind(q) = q
          /\ Lists(q) # {} =>
                /\ TheList(q) \in 1..Len(q) /\ q[TheList(q)].kind = "list"
                /\ Lists(q) = {TheList(q)}
                /\ Behind(q) = SubSeq(q, TheList(q) + 1, Len(q))
                /\ Len(Behind(q)) = Len(q) - TheList(q)
                /\ \A i \in 1..(Len(q) - TheList(q)) : Behind(q)[i] = q[TheList(q) + i]
<1> DEFINE k == TheList(q)
           n == Len(q)
<1>1. CASE Lists(q) = {}
    BY <1>1 DEF Behind
<1>2. CASE Lists(q) # {}
    <2>1. k \in Lists(q)
        BY <1>2 DEF TheList
    <2>2. k \in 1..n /\ q[k].kind = "list" /\ Lists(q) = {k} /\ n \in Nat
        BY <2>1 DEF Lists
    <2>3. Behind(q) = SubSeq(q, k + 1, n)
        BY <1>2 DEF Behind
    <2> HIDE DEF k
    <2>4. /\ SubSeq(q, k + 1, n) \in Seq(S) /\ Len(SubSeq(q, k + 1, n)) = n - k
          /\ \A i \in 1..(n - k) : SubSeq(q, k + 1, n)[i] = q[k + i]
        BY <2>2
    <2> QED BY <1>2, <2>2, <2>3, <2>4 DEF k
<1> QED BY <1>1, <1>2

LEMMA SameSeq ==
    ASSUME NEW S, NEW s \in Seq(S), NEW t \in Seq(S), Len(s) = Len(t),
           \A i \in 1..Len(s) : s[i] = t[i]
    PROVE s = t
OBVIOUS

LEMMA BehindTail ==
    ASSUME NEW S, NEW q \in Seq(S), q # <<>>, \A i, j \in Lists(q) : i = j
    PROVE /\ Lists(q) = {} => Lists(Tail(q)) = {} /\ Behind(Tail(q)) = Tail(q)
          /\ Lists(q) # {} => Behind(Tail(q)) = Behind(q)
          /\ Lists(q) # {} /\ Head(q).kind # "list" =>
                Lists(Tail(q)) # {} /\ Tail(q)[TheList(Tail(q))] = q[TheList(q)]
          /\ Head(q).kind = "list" => Lists(Tail(q)) = {} /\ q[TheList(q)] = Head(q)
<1> DEFINE t == Tail(q)
           k == TheList(q)
           n == Len(q)
<1>1. /\ t \in Seq(S) /\ Len(t) = n - 1 /\ Len(t) \in Nat /\ n \in Nat /\ Head(q) = q[1]
      /\ 1 \in 1..n /\ \A i \in 1..(n - 1) : t[i] = q[i + 1]
    BY HeadTailProperties, LenProperties, EmptySeq
<1> HIDE DEF t
<1>2. /\ \A i \in 1..Len(t) : i + 1 \in 1..n /\ i + 1 # 1
      /\ \A i \in 1..n : i = 1 \/ (i - 1 \in 1..Len(t) /\ (i - 1) + 1 = i)
    BY <1>1
<1>3. \A i \in Lists(t) : i + 1 \in Lists(q) /\ i + 1 # 1
    BY <1>1, <1>2 DEF Lists, n
<1>4. CASE Lists(q) = {}
    <2>1. Lists(t) = {}
        BY <1>3, <1>4
    <2>2. ~(Head(q).kind = "list")
        BY <1>1, <1>4 DEF Lists, n
    <2> QED BY <1>4, <2>1, <2>2 DEF Behind, t
<1>5. CASE Lists(q) # {}
    <2>1. /\ k \in 1..n /\ q[k].kind = "list" /\ Lists(q) = {k} /\ Behind(q) \in Seq(S)
          /\ Len(Behind(q)) = n - k /\ \A i \in 1..(n - k) : Behind(q)[i] = q[k + i]
        BY <1>5, BehindIs
    <2> HIDE DEF k
    <2>2. \A i, j \in Lists(t) : i = j
        <3>1. \A i \in Lists(t) : i + 1 = k /\ i \in Nat
            BY <1>3, <2>1 DEF Lists
        <3> QED BY <2>1, <3>1
    <2>3. CASE q[1].kind = "list"
        <3>1. k = 1
            BY <1>1, <2>1, <2>3 DEF Lists, n
        <3>2. Lists(t) = {}
            BY <1>3, <2>1, <3>1
        <3>3. Behind(t) = t
            BY <3>2 DEF Behind
        <3>4. Behind(q) = t
            <4>1. Len(t) = Len(Behind(q)) /\ \A i \in 1..Len(t) : t[i] = Behind(q)[i]
                BY <1>1, <2>1, <3>1
            <4> QED BY <1>1, <2>1, <4>1, SameSeq
        <3> QED BY <1>1, <1>5, <2>3, <3>1, <3>2, <3>3, <3>4 DEF t, k
    <2>4. CASE q[1].kind # "list"
        <3>1. k # 1 /\ k - 1 \in 1..Len(t) /\ t[k - 1] = q[k]
            BY <1>1, <1>2, <2>1, <2>4
        <3>2. k - 1 \in Lists(t)
            BY <2>1, <3>1 DEF Lists
        <3>3. /\ TheList(t) \in 1..Len(t) /\ Lists(t) = {TheList(t)} /\ Behind(t) \in Seq(S)
              /\ Len(Behind(t)) = Len(t) - TheList(t)
              /\ \A i \in 1..(Len(t) - TheList(t)) : Behind(t)[i] = t[TheList(t) + i]
            BY <1>1, <2>2, <3>2, BehindIs
        <3>4. TheList(t) = k - 1
            BY <3>2, <3>3
        <3>5. Len(Behind(t)) = n - k
            BY <1>1, <2>1, <3>3, <3>4
        <3>6. ASSUME NEW i \in 1..(n - k) PROVE Behind(t)[i] = Behind(q)[i]
            <4>1. (k - 1) + i \in 1..(n - 1) /\ ((k - 1) + i) + 1 = k + i
                BY <1>1, <2>1
            <4>2. t[(k - 1) + i] = q[k + i]
                BY <1>1, <4>1
            <4>3. Behind(t)[i] = t[(k - 1) + i]
                BY <1>1, <2>1, <3>3, <3>4
            <4> QED BY <2>1, <4>2, <4>3
        <3>7. Behind(t) = Behind(q)
            BY <2>1, <3>3, <3>5, <3>6, SameSeq
        <3> QED BY <1>1, <1>5, <2>4, <3>1, <3>2, <3>4, <3>7 DEF t, k
    <2> QED BY <2>3, <2>4
<1> QED BY <1>4, <1>5

LEMMA BehindAppend ==
    ASSUME NEW S, NEW q \in Seq(S), NEW m \in S, m.kind # "list", \A i, j \in Lists(q) : i = j
    PROVE /\ Lists(Append(q, m)) = Lists(q) /\ Behind(Append(q, m)) = Append(Behind(q), m)
          /\ Lists(q) # {} => Append(q, m)[TheList(Append(q, m))] = q[TheList(q)]
<1> DEFINE t == Append(q, m)
           k == TheList(q)
           n == Len(q)
<1>1. /\ t \in Seq(S) /\ Len(t) = n + 1 /\ n \in Nat /\ t[n + 1] = m
      /\ \A i \in 1..n : t[i] = q[i] /\ i \in 1..Len(t)
    OBVIOUS
<1>2. \A i \in 1..Len(t) : i \in 1..n \/ i = n + 1
    BY <1>1
<1> HIDE DEF t
<1>3. Lists(t) = Lists(q)
    BY <1>1, <1>2 DEF Lists, n
<1>4. CASE Lists(q) = {}
    BY <1>3, <1>4 DEF Behind, t
<1>5. CASE Lists(q) # {}
    <2>1. TheList(t) = k
        BY <1>3 DEF TheList
    <2>2. /\ k \in 1..n /\ Behind(q) \in Seq(S)
          /\ Len(Behind(q)) = n - k /\ \A i \in 1..(n - k) : Behind(q)[i] = q[k + i]
        BY <1>5, BehindIs
    <2>3. /\ Behind(t) \in Seq(S) /\ Len(Behind(t)) = (n + 1) - k
          /\ \A i \in 1..((n + 1) - k) : Behind(t)[i] = t[k + i]
        <3>1. Lists(t) # {} /\ \A i, j \in Lists(t) : i = j
            BY <1>3, <1>5
        <3>2. /\ Behind(t) \in Seq(S) /\ Len(Behind(t)) = Len(t) - TheList(t)
              /\ \A i \in 1..(Len(t) - TheList(t)) : Behind(t)[i] = t[TheList(t) + i]
            BY <1>1, <3>1, BehindIs
        <3> QED BY <1>1, <2>1, <3>2
    <2> HIDE DEF k, n
    <2> DEFINE b == Behind(q)
               c == Behind(t)
               u == Append(b, m)
    <2>4. n - k \in Nat /\ (n + 1) - k = (n - k) + 1 /\ k + ((n - k) + 1) = n + 1
        BY <1>1, <2>2
    <2>5. b \in Seq(S) /\ Len(b) = n - k /\ c \in Seq(S) /\ Len(c) = (n - k) + 1
        BY <2>2, <2>3, <2>4
    <2>6. \A i \in 1..(n - k) : b[i] = q[k + i] /\ c[i] = q[k + i]
        <3>1. \A i \in 1..(n - k) : k + i \in 1..n /\ i \in 1..((n + 1) - k)
            BY <1>1, <2>2
        <3> QED BY <1>1, <2>2, <2>3, <3>1
    <2>7. c[(n - k) + 1] = m
        <3>1. (n - k) + 1 \in 1..((n + 1) - k)
            BY <2>4
        <3> QED BY <1>1, <2>3, <2>4, <3>1
    <2> HIDE DEF b, c, u
    <2>8. /\ u \in Seq(S) /\ Len(u) = (n - k) + 1 /\ u[(n - k) + 1] = m
          /\ \A i \in 1..(n - k) : u[i] = b[i]
        <3> USE DEF u
        <3>1. Len(b) + 1 = (n - k) + 1
            BY <2>5
        <3> QED BY <2>5, <3>1
    <2>9. \A i \in 1..Len(c) : c[i] = u[i]
        <3>1. \A i \in 1..Len(c) : i \in 1..(n - k) \/ i = (n - k) + 1
            BY <2>4, <2>5
        <3> QED BY <2>6, <2>7, <2>8, <3>1
    <2>10. c = u
        BY <2>5, <2>8, <2>9, SameSeq
    <2> QED BY <1>1, <1>3, <2>1, <2>2, <2>10 DEF t, k, b, c, u, n
<1> QED BY <1>4, <1>5

LEMMA BehindList ==
    ASSUME NEW S, NEW q \in Seq(S), NEW m \in S, m.kind = "list", Lists(q) = {}
    PROVE /\ Lists(Append(q, m)) # {} /\ Behind(Append(q, m)) = <<>>
          /\ Append(q, m)[TheList(Append(q, m))] = m
<1> DEFINE t == Append(q, m)
           n == Len(q)
<1>1. /\ t \in Seq(S) /\ Len(t) = n + 1 /\ n \in Nat /\ t[n + 1] = m /\ n + 1 \in 1..Len(t)
      /\ \A i \in 1..n : t[i] = q[i]
    OBVIOUS
<1>2. \A i \in 1..Len(t) : i \in 1..n \/ i = n + 1
    BY <1>1
<1> HIDE DEF t
<1>3. Lists(t) = {n + 1}
    BY <1>1, <1>2 DEF Lists, n
<1>4. TheList(t) = n + 1
    BY <1>3 DEF TheList
<1>5. Behind(t) \in Seq(S) /\ Len(Behind(t)) = 0
    BY <1>1, <1>3, <1>4, BehindIs
<1>6. Behind(t) = <<>>
    BY <1>5, EmptySeq
<1> QED BY <1>1, <1>3, <1>4, <1>6 DEF t

-----------------------------------------------------------------------------
(* The steps of a process                                                  *)

LEMMA SeenIsMade ==
    ASSUME DInv, AllGenuine, NEW n \in Nodes
    PROVE /\ Seen(n) \subseteq MadeIds /\ Unsent(n) \subseteq MadeIds
          /\ UpdIds(up[n]) \cup UnregIds(up[n]) \cup ToUpdate(handler[n]) \subseteq MadeIds
<1>1. /\ down[n] \in Seq(MessagesOf(MadeIds)) /\ handler[n] \in HandlersOf(MadeIds)
      /\ reader[n] \in ReadersOf(MadeIds)
    BY DEF DInv, DTypeOK
<1>2. \A e \in Foreign(MadeIds) \cup Listed(MadeIds) : e.id \in MadeIds
    BY DEF Foreign, Listed
<1>3. ToAdd(handler[n]) \subseteq MadeIds
    BY <1>1, <1>2, HandlerKinds, EventKinds DEF ToAdd, Adds
<1>4. Items(down[n]) \subseteq MessagesOf(MadeIds)
    BY <1>1, ItemsOfSeq
<1>5. AddedIds(down[n]) \subseteq MadeIds
    BY <1>2, <1>4, MessageKinds DEF AddedIds, OfKind
<1>6. \A s : s \in Seq(Foreign(MadeIds)) \/ s \in Seq(Listed(MadeIds)) => IdsOf(s) \subseteq MadeIds
    BY <1>2, ElementOfSeq DEF IdsOf
<1>7. CopyIds(n) \subseteq MadeIds
    <2>1. handler[n].pc = "list" => IdsOf(handler[n].list) \subseteq MadeIds
        BY <1>1, <1>6, HandlerKinds
    <2>2. ListIds(down[n]) \subseteq MadeIds
        BY <1>4, <1>6, MessageKinds DEF ListIds, OfKind
    <2>3. reader[n] # IdleReader =>
            IdsOf(reader[n].todo) \subseteq MadeIds /\ IdsOf(reader[n].list) \subseteq MadeIds
        BY <1>1, <1>6, ReaderKinds
    <2> QED BY <2>1, <2>2, <2>3 DEF CopyIds
<1>8. ForeignIds(preg[n]) \subseteq MadeIds
    BY KnownIds DEF ForeignIds, Items, IdsOf, DInv
<1>9. \A m \in Items(up[n]) : m.kind = "update-address" => m.id \in MadeIds
    BY DEF AllGenuine, Transit, Honest, Movable, MadeIds
<1>10. UpdIds(up[n]) \subseteq MadeIds
    BY <1>9 DEF UpdIds, OfKind
<1>11. ToUpdate(handler[n]) \subseteq MadeIds
    <2>1. handler[n].pc = "announce" => Honest(handler[n].event)
        BY DEF AllGenuine, Transit, Held
    <2> QED BY <2>1 DEF ToUpdate, Honest, Movable, MadeIds
<1> QED BY <1>3, <1>5, <1>7, <1>8, <1>10, <1>11, KnownQueues DEF Seen, Unsent, DInv

(* The end-points of process m                                             *)
IdsAt(m) == {id \in Ids : IsOpen(id) /\ ep[id].node = m}

(* What the steps of processes do on the routes of the ids                 *)
ProcessMoves ==
    /\ UNCHANGED <<links, central, handler>>
    /\ \A m \in Nodes :
        /\ Unsent(m)' \subseteq Unsent(m) \cup (Ids \ MadeIds)
        /\ UpdIds(up'[m]) \cup UnregIds(up'[m]) \subseteq UpdIds(up[m]) \cup UnregIds(up[m]) \cup IdsAt(m)
        /\ FewerItems(down[m], down'[m])
        /\ CopyIds(m)' \cup ForeignIds(preg'[m]) \subseteq Seen(m)
        /\ conn[m] = "closed" => conn'[m] = "closed"
        /\ conn'[m] = "open" /\ handler[m].pc = "none" /\ Lists(up'[m]) = {} =>
                conn[m] = "open" /\ Lists(up[m]) = {}
    /\ \A id \in MadeIds : IsOpen(id)' => IsOpen(id) /\ ep'[id].node = ep[id].node

LEMMA RoutesMoved ==
    ASSUME DInv, AllGenuine, FollowsInv, Routes, ProcessMoves, EarlyOnce', CopiesOnce'
    PROVE Routes'
<1>1. /\ UNCHANGED <<links, central, handler>>
      /\ \A m \in Nodes : /\ Unsent(m)' \subseteq Unsent(m) \cup (Ids \ MadeIds)
                          /\ FewerItems(down[m], down'[m])
                          /\ CopyIds(m)' \cup ForeignIds(preg'[m]) \subseteq Seen(m)
    BY DEF ProcessMoves
<1>2. \A m \in Nodes : Seen(m)' \subseteq Seen(m)
    BY <1>1 DEF Seen, FewerItems
<1>3. Unseen'
    <2>1. \A m, n \in Nodes : Unsent(m)' \cap Seen(n)' = {}
        BY <1>1, <1>2, SeenIsMade DEF Routes, Unseen
    <2> QED BY <2>1 DEF Unseen
<1>4. AnnouncedOnce'
    <2>1. \A n \in Nodes : AddedIds(down'[n]) \subseteq AddedIds(down[n]) /\ AddsOnce(down'[n])
        BY <1>1 DEF FewerItems, Routes, AnnouncedOnce
    <2> QED BY <1>1, <2>1 DEF Routes, AnnouncedOnce
<1>5. RemovedGone'
    <2>1. \A n \in Nodes : RemovedIds(down'[n]) \subseteq RemovedIds(down[n]) /\ InOrder(down'[n])
        BY <1>1 DEF FewerItems, Routes, RemovedGone
    <2> QED BY <1>1, <2>1 DEF Routes, RemovedGone
<1>6. ToAddPresent'
    BY <1>1 DEF Routes, ToAddPresent
<1>7. ByOwner'
    <2>1. ASSUME NEW m \in Nodes, NEW id \in ToAdd(handler[m]), IsOpen(id)'
          PROVE ep'[id].node = m
        <3>1. id \in MadeIds
            BY SeenIsMade DEF Seen
        <3> QED BY <2>1, <3>1 DEF ProcessMoves, Routes, ByOwner
    <2>2. ASSUME NEW m \in Nodes, NEW n \in Nodes \ {m},
                 NEW id \in UpdIds(up'[n]) \cup UnregIds(up'[n]) \cup ToUpdate(handler[n])
          PROVE id \notin Unsent(m)' \cup ToAdd(handler[m])
        <3>1. id \in MadeIds
            <4>1. IdsAt(n) \subseteq MadeIds
                BY DEF IdsAt, DInv, DTypeOK
            <4> QED BY <2>2, <4>1, SeenIsMade DEF ProcessMoves
        <3>2. CASE id \in UpdIds(up[n]) \cup UnregIds(up[n]) \cup ToUpdate(handler[n])
            BY <1>1, <3>1, <3>2 DEF Routes, ByOwner
        <3>3. CASE id \in IdsAt(n)
            <4>1. id \notin ToAdd(handler[m])
                BY <3>3 DEF IdsAt, Routes, ByOwner
            <4>2. id \notin RegIds(up[m])
                BY <3>3 DEF IdsAt, FollowsInv, SentByOwner
            <4>3. id \notin Pending(m)
                BY <3>3 DEF IdsAt, Pending, DInv, Owned, OwnedAt
            <4> QED BY <1>1, <3>1, <4>1, <4>2, <4>3 DEF Unsent
        <3> QED BY <2>2, <3>2, <3>3 DEF ProcessMoves
    <2> QED BY <1>1, <2>1, <2>2 DEF ByOwner
<1>8. Joined'
    BY <1>1 DEF ProcessMoves, Routes, Joined
<1> QED BY <1>3, <1>4, <1>5, <1>6, <1>7, <1>8 DEF Routes

-----------------------------------------------------------------------------
(* The entries with an id in a list                                        *)

LEMMA EntriesAre ==
    ASSUME NEW s, NEW id
    PROVE /\ Entries(s, id) = {s[i] : i \in Of(s, id)}
          /\ id \in ForeignIds(s) <=> Entries(s, id) # {}
          /\ Entries(s, id) = {} <=> Of(s, id) = {}
          /\ \A e : e \in Entries(s, id) <=> e \in Items(s) /\ e.id = id /\ ~e.endpoint
          /\ id \in IdsOf(s) <=> \E e \in Items(s) : e.id = id
          /\ id \in IdsOf(s) <=> id \in ForeignIds(s) \cup OwnIds(s)
<1>1. Entries(s, id) = {s[i] : i \in Of(s, id)}
    BY DEF Entries, Of, Items
<1>2. id \in ForeignIds(s) <=> Entries(s, id) # {}
    BY DEF ForeignIds, Entries
<1>3. id \in IdsOf(s) <=> \E e \in Items(s) : e.id = id
    BY DEF IdsOf, Items
<1>4. id \in IdsOf(s) <=> id \in ForeignIds(s) \cup OwnIds(s)
    BY DEF IdsOf, OwnIds, ForeignIds, Items
<1> QED BY <1>1, <1>2, <1>3, <1>4 DEF Entries

(* Positions, when the one at k is left out                                *)
Skip(k, i) == IF i < k THEN i ELSE i + 1

LEMMA SkipIs ==
    ASSUME NEW n \in Nat, NEW k \in 1..n
    PROVE /\ \A i \in 1..(n - 1) : Skip(k, i) \in 1..n /\ Skip(k, i) # k
          /\ \A i, j \in 1..(n - 1) : /\ Skip(k, i) = Skip(k, j) => i = j
                                      /\ Skip(k, i) < Skip(k, j) => i < j
          /\ \A j \in (1..n) \ {k} : \E i \in 1..(n - 1) : Skip(k, i) = j
<1>1. \A i \in 1..(n - 1) : Skip(k, i) \in 1..n /\ Skip(k, i) # k
    BY DEF Skip
<1>2. \A i, j \in 1..(n - 1) : /\ Skip(k, i) = Skip(k, j) => i = j
                               /\ Skip(k, i) < Skip(k, j) => i < j
    BY DEF Skip
<1>3. ASSUME NEW j \in (1..n) \ {k} PROVE \E i \in 1..(n - 1) : Skip(k, i) = j
    <2>1. CASE j < k
        <3>1. j \in 1..(n - 1) /\ Skip(k, j) = j
            BY <2>1 DEF Skip
        <3> QED BY <3>1
    <2>2. CASE ~(j < k)
        <3>1. j - 1 \in 1..(n - 1) /\ Skip(k, j - 1) = j
            BY <2>2 DEF Skip
        <3> QED BY <3>1
    <2> QED BY <2>1, <2>2
<1> QED BY <1>1, <1>2, <1>3

LEMMA DeleteSkips ==
    ASSUME NEW E, NEW s \in Seq(E), NEW id, id \in IdsOf(s)
    PROVE /\ registry_delete(s, id) \in Seq(E) /\ Len(registry_delete(s, id)) = Len(s) - 1
          /\ FirstId(s, id) \in 1..Len(s)
          /\ \A i \in 1..(Len(s) - 1) : registry_delete(s, id)[i] = s[Skip(FirstId(s, id), i)]
<1> DEFINE t == registry_delete(s, id)
           n == Len(s)
           k == FirstId(s, id)
           a == SubSeq(s, 1, k - 1)
           b == SubSeq(s, k + 1, n)
<1>1. k \in 1..n /\ n \in Nat
    BY FirstIdIs
<1>2. t = a \o b
    BY DEF registry_delete, RemoveAt
<1> HIDE DEF t, k, n
<1>3. a \in Seq(E) /\ Len(a) = k - 1 /\ \A i \in 1..(k - 1) : a[i] = s[i]
    BY <1>1 DEF n
<1>4. b \in Seq(E) /\ Len(b) = n - k /\ \A i \in 1..(n - k) : b[i] = s[k + i]
    BY <1>1 DEF n
<1> HIDE DEF a, b
<1>5. /\ t \in Seq(E) /\ Len(t) = (k - 1) + (n - k)
      /\ \A i \in 1..((k - 1) + (n - k)) : t[i] = IF i <= k - 1 THEN a[i] ELSE b[i - (k - 1)]
    <2>1. a \in Seq(E) /\ b \in Seq(E) /\ Len(a) = k - 1 /\ Len(b) = n - k
        BY <1>3, <1>4
    <2>2. /\ a \o b \in Seq(E) /\ Len(a \o b) = Len(a) + Len(b)
          /\ \A i \in 1..(Len(a) + Len(b)) :
                (a \o b)[i] = IF i <= Len(a) THEN a[i] ELSE b[i - Len(a)]
        BY <2>1, ConcatProperties
    <2> QED BY <1>2, <2>1, <2>2
<1>6. ASSUME NEW i \in 1..(n - 1) PROVE t[i] = s[Skip(k, i)]
    <2>1. i \in 1..((k - 1) + (n - k))
        BY <1>1
    <2>2. CASE i < k
        <3>1. i \in 1..(k - 1) /\ i <= k - 1
            BY <1>1, <2>2
        <3> QED BY <1>3, <1>5, <2>1, <2>2, <3>1 DEF Skip
    <2>3. CASE ~(i < k)
        <3>1. ~(i <= k - 1) /\ i - (k - 1) \in 1..(n - k) /\ k + (i - (k - 1)) = i + 1
            BY <1>1, <2>3
        <3> QED BY <1>4, <1>5, <2>1, <2>3, <3>1 DEF Skip
    <2> QED BY <2>2, <2>3
<1>7. Len(t) = n - 1
    BY <1>1, <1>5
<1> QED BY <1>1, <1>5, <1>6, <1>7 DEF t, k, n

(* The entries that are left when the first with an id is deleted          *)
LEMMA DeleteEntries ==
    ASSUME NEW E, NEW s \in Seq(E), NEW id, id \in IdsOf(s)
    PROVE /\ \A i : Entries(registry_delete(s, id), i) \subseteq Entries(s, i)
          /\ \A i : i # id => Entries(registry_delete(s, id), i) = Entries(s, i)
          /\ s[FirstId(s, id)].endpoint =>
                \A i : Entries(registry_delete(s, id), i) = Entries(s, i)
          /\ ~s[FirstId(s, id)].endpoint /\ AtMostOne(Of(s, id)) =>
                Entries(registry_delete(s, id), id) = {}
          /\ \A i : AtMostOne(Of(s, i)) => AtMostOne(Of(registry_delete(s, id), i))
<1> DEFINE t == registry_delete(s, id)
           n == Len(s)
           k == FirstId(s, id)
<1>1. /\ n \in Nat /\ k \in 1..n /\ Len(t) = n - 1 /\ s[k].id = id
      /\ \A i \in 1..(n - 1) : t[i] = s[Skip(k, i)]
    BY DeleteSkips, FirstIdIs
<1> HIDE DEF t, n, k
<1>2. /\ \A i \in 1..(n - 1) : Skip(k, i) \in 1..n /\ Skip(k, i) # k
      /\ \A i, j \in 1..(n - 1) : Skip(k, i) = Skip(k, j) => i = j
      /\ \A j \in (1..n) \ {k} : \E i \in 1..(n - 1) : Skip(k, i) = j
    BY <1>1, SkipIs
<1>3. \A i, x : i \in Of(t, x) => Skip(k, i) \in Of(s, x) /\ t[i] = s[Skip(k, i)]
    BY <1>1, <1>2 DEF Of, n
<1>4. \A j, x : j \in Of(s, x) /\ j # k => \E i \in Of(t, x) : Skip(k, i) = j
    <2> SUFFICES ASSUME NEW x, NEW j \in Of(s, x), j # k PROVE \E i \in Of(t, x) : Skip(k, i) = j
        OBVIOUS
    <2>1. PICK i \in 1..(n - 1) : Skip(k, i) = j
        BY <1>2 DEF Of, n
    <2>2. i \in Of(t, x)
        BY <1>1, <2>1 DEF Of
    <2> QED BY <2>1, <2>2
<1>5. \A x : Entries(t, x) \subseteq Entries(s, x)
    BY <1>3, EntriesAre
<1>6. ASSUME NEW x, k \notin Of(s, x) PROVE Entries(t, x) = Entries(s, x)
    <2>1. \A j \in Of(s, x) : \E i \in Of(t, x) : t[i] = s[j]
        BY <1>3, <1>4, <1>6
    <2>2. Entries(s, x) \subseteq Entries(t, x)
        BY <2>1, EntriesAre
    <2> QED BY <1>5, <2>2
<1>7. \A x : k \in Of(s, x) <=> x = id /\ ~s[k].endpoint
    BY <1>1 DEF Of, n
<1>8. ASSUME ~s[k].endpoint, AtMostOne(Of(s, id)) PROVE Entries(t, id) = {}
    <2>1. \A i \in Of(t, id) : Skip(k, i) = k
        BY <1>3, <1>7, <1>8 DEF AtMostOne
    <2>2. \A i \in Of(t, id) : Skip(k, i) # k
        BY <1>1, <1>2 DEF Of
    <2> QED BY <2>1, <2>2, EntriesAre
<1>9. ASSUME NEW x, AtMostOne(Of(s, x)) PROVE AtMostOne(Of(t, x))
    <2> SUFFICES ASSUME NEW i \in Of(t, x), NEW j \in Of(t, x) PROVE i = j
        BY DEF AtMostOne
    <2>1. Skip(k, i) = Skip(k, j)
        BY <1>3, <1>9 DEF AtMostOne
    <2>2. i \in 1..(n - 1) /\ j \in 1..(n - 1)
        BY <1>1 DEF Of
    <2> QED BY <1>2, <2>1, <2>2
<1> QED BY <1>1, <1>5, <1>6, <1>7, <1>8, <1>9 DEF t, k, n

(* Of an id that has an end-point here, the first entry is the own one.    *)
LEMMA FirstIsOwn ==
    ASSUME NEW E, NEW s \in Seq(E), OwnFirst(s), NEW id \in OwnIds(s)
    PROVE id \in IdsOf(s) /\ s[FirstId(s, id)].endpoint
<1>1. PICK i \in 1..Len(s) : s[i].endpoint /\ s[i].id = id
    BY DEF OwnIds
<1>2. id \in IdsOf(s)
    BY <1>1 DEF IdsOf
<1>3. /\ FirstId(s, id) \in 1..Len(s) /\ s[FirstId(s, id)].id = id
      /\ FirstId(s, id) <= i /\ i <= FirstId(s, id)
    BY <1>1, <1>2, FirstIdIs DEF OwnFirst
<1>4. i = FirstId(s, id)
    BY <1>3
<1> QED BY <1>1, <1>2, <1>4

LEMMA InsertEntries ==
    ASSUME NEW E, NEW s \in Seq(E), NEW e \in E
    PROVE /\ \A i : Entries(registry_insert(s, e), i) = Entries(s, i)
                        \cup (IF e.id = i /\ ~e.endpoint THEN {e} ELSE {})
          /\ \A i : /\ AtMostOne(Of(s, i)) /\ (e.id = i /\ ~e.endpoint => Of(s, i) = {})
                    => AtMostOne(Of(registry_insert(s, e), i))
<1> DEFINE t == Append(s, e)
           n == Len(s)
<1>1. registry_insert(s, e) = t
    BY DEF registry_insert
<1>2. /\ Len(t) = n + 1 /\ n \in Nat /\ t[n + 1] = e /\ \A i \in 1..n : t[i] = s[i]
    OBVIOUS
<1>3. \A i \in 1..Len(t) : i \in 1..n \/ i = n + 1
    BY <1>2
<1>4. Items(t) = Items(s) \cup {e}
    BY ItemsOfAppend
<1> HIDE DEF t, n
<1>5. \A i : Entries(t, i) = Entries(s, i) \cup (IF e.id = i /\ ~e.endpoint THEN {e} ELSE {})
    BY <1>4 DEF Entries
<1>6. ASSUME NEW i, AtMostOne(Of(s, i)), e.id = i /\ ~e.endpoint => Of(s, i) = {}
      PROVE AtMostOne(Of(t, i))
    <2>1. Of(t, i) \subseteq Of(s, i) \cup (IF e.id = i /\ ~e.endpoint THEN {n + 1} ELSE {})
        BY <1>2, <1>3 DEF Of, n
    <2> QED BY <1>6, <2>1 DEF AtMostOne
<1> QED BY <1>1, <1>5, <1>6

(* A list that differs in addresses                                        *)
LEMMA RenamedEntries ==
    ASSUME NEW s, NEW t, SameNames(s, t)
    PROVE /\ \A i : Of(t, i) = Of(s, i)
          /\ \A i : Entries(t, i) = {} <=> Entries(s, i) = {}
          /\ ForeignIds(t) = ForeignIds(s)
<1>1. \A i : Of(t, i) = Of(s, i)
    BY DEF SameNames, Of
<1>2. \A i : Entries(t, i) = {} <=> Entries(s, i) = {}
    BY <1>1, EntriesAre
<1>3. ForeignIds(t) = ForeignIds(s)
    <2>1. \A i : i \in ForeignIds(t) <=> i \in ForeignIds(s)
        BY <1>2, EntriesAre
    <2> QED BY <2>1
<1> QED BY <1>1, <1>2, <1>3

LEMMA UpdateEntries ==
    ASSUME NEW M, NEW s \in Seq(Listed(M)), NEW id, NEW addr \in Addrs
    PROVE /\ SameNames(s, registry_update_addr(s, id, addr))
          /\ \A i : i # id => Entries(registry_update_addr(s, id, addr), i) = Entries(s, i)
<1> DEFINE t == registry_update_addr(s, id, addr)
<1>1. /\ Len(t) = Len(s)
      /\ \A i \in 1..Len(s) : s[i].id # id => t[i] = s[i]
    <2> DEFINE E == Listed(M)
    <2>1. s \in Seq(E)
        OBVIOUS
    <2> HIDE DEF E
    <2>2. /\ Len(t) = Len(s)
          /\ \A i \in 1..Len(s) : \/ t[i] = s[i]
                                  \/ /\ s[i].id = id
                                     /\ t[i] = [s[i] EXCEPT !.addr = addr]
        BY <2>1, UpdateAddrIs
    <2> HIDE DEF t
    <2> QED BY <2>2
<1>2. SameNames(s, t)
    BY UpdateIs
<1> HIDE DEF t
<1>3. \A i : Of(t, i) = Of(s, i)
    BY <1>2, RenamedEntries
<1>4. \A i : i # id => \A j \in Of(s, i) : t[j] = s[j]
    BY <1>1 DEF Of
<1>5. ASSUME NEW i, i # id PROVE Entries(t, i) = Entries(s, i)
    <2>1. Entries(t, i) = {t[j] : j \in Of(t, i)} /\ Entries(s, i) = {s[j] : j \in Of(s, i)}
        BY EntriesAre
    <2> QED BY <1>3, <1>4, <1>5, <2>1
<1> QED BY <1>2, <1>5 DEF t

-----------------------------------------------------------------------------
(* The steps of an application                                             *)

(* What they do on the routes of the ids                                   *)
AppMoves(n) ==
    /\ UNCHANGED <<conn, links, down, central, handler, reader, status, raced>>
    /\ status[n] = "ready" /\ made \subseteq made'
    /\ \A m \in Nodes \ {n} : preg'[m] = preg[m] /\ up'[m] = up[m]
    /\ \A id : /\ Entries(preg'[n], id) = Entries(preg[n], id)
               /\ AtMostOne(Of(preg[n], id)) => AtMostOne(Of(preg'[n], id))
    /\ \A m \in Nodes : Unsent(m)' \subseteq Unsent(m) \cup (Ids \ MadeIds)
    /\ UpdIds(up'[n]) = UpdIds(up[n]) /\ Lists(up'[n]) = Lists(up[n])
    /\ UnregIds(up[n]) \subseteq UnregIds(up'[n])
    /\ UnregIds(up'[n]) \subseteq UnregIds(up[n]) \cup IdsAt(n)
    /\ \A id \in MadeIds : IsOpen(id)' => IsOpen(id) /\ ep'[id].node = ep[id].node
    /\ \A id \in Ids : IsOpen(id) => \/ IsOpen(id)' /\ ep'[id].node = ep[id].node
                                     \/ /\ ep[id].node = n
                                        /\ conn[n] = "open" => id \in UnregIds(up'[n])

LEMMA RequestAdded ==
    ASSUME NEW S, NEW q \in Seq(S), NEW r \in S, r.kind \in {"register", "unregister"}
    PROVE /\ r.kind = "register" => /\ RegIds(Append(q, r)) = RegIds(q) \cup {r.entry.id}
                                    /\ UnregIds(Append(q, r)) = UnregIds(q)
          /\ r.kind = "unregister" => /\ RegIds(Append(q, r)) = RegIds(q)
                                      /\ UnregIds(Append(q, r)) = UnregIds(q) \cup {r.id}
          /\ UpdIds(Append(q, r)) = UpdIds(q)
          /\ Lists(Append(q, r)) = Lists(q)
<1> DEFINE t == Append(q, r)
<1>1. /\ RegIds(t) = RegIds(q) \cup (IF r.kind = "register" THEN {r.entry.id} ELSE {})
      /\ UnregIds(t) = UnregIds(q) \cup (IF r.kind = "unregister" THEN {r.id} ELSE {})
    BY SentBehind
<1>2. r.kind # "list" => Lists(t) = Lists(q)
    BY AppendIs
<1>3. Items(t) = Items(q) \cup {r}
    BY ItemsOfAppend
<1> HIDE DEF t
<1>4. UpdIds(t) = UpdIds(q)
    BY <1>3 DEF UpdIds, OfKind
<1> QED BY <1>1, <1>2, <1>4 DEF t

LEMMA SamePlaces ==
    ASSUME DInv, UNCHANGED ep
    PROVE /\ \A id \in MadeIds : IsOpen(id)' => IsOpen(id) /\ ep'[id].node = ep[id].node
          /\ \A id \in Ids : IsOpen(id) => IsOpen(id)' /\ ep'[id].node = ep[id].node
BY DEF IsOpen

LEMMA KeptPlaces ==
    ASSUME DInv, NEW S \in SUBSET Ids, EpKeeps(ep', S)
    PROVE /\ \A id \in MadeIds : IsOpen(id)' => IsOpen(id) /\ ep'[id].node = ep[id].node
          /\ \A id \in Ids \ S : IsOpen(id) => IsOpen(id)' /\ ep'[id].node = ep[id].node
<1>1. MadeIds \subseteq Ids
    BY DEF DInv, DTypeOK, MadeIds, Entry
<1> QED BY <1>1 DEF EpKeeps, IsOpen

LEMMA AppMovesSend ==
    ASSUME DInv, NEW n \in Nodes, proxy_send_register_request(n), UNCHANGED <<rcVars, raced>>
    PROVE AppMoves(n)
<1> DEFINE e == app[n].entry
           r == RegisterReq(e)
           x == IF e.type \in ConnectTypes THEN [pc |-> "connect", entry |-> e] ELSE IdleApp
<1>1. /\ app[n].pc = "register" /\ up' = [up EXCEPT ![n] = Append(up[n], r)]
      /\ app' = [app EXCEPT ![n] = x]
      /\ UNCHANGED <<conn, links, down, central, handler, reader, status, raced, preg, ep, made>>
    BY DEF proxy_send_register_request, rcVars
<1>2. status[n] = "ready" /\ e \in Listed(MadeIds) /\ Pending(n) = {e.id}
    BY <1>1, BusyIsReady DEF Pending
<1>3. r \in RequestsOf(MadeIds) /\ r.kind = "register" /\ r.entry.id = e.id
    <2> HIDE DEF e
    <2>1. registry_entry_encode(e) \in Foreign(MadeIds) /\ registry_entry_encode(e).id = e.id
        BY <1>2, EncodeIs DEF Listed, Foreign
    <2> QED BY <2>1 DEF RegisterReq, RequestsOf
<1>4. x.pc # "register"
    BY DEF IdleApp
<1> HIDE DEF r, x
<1>5. up'[n] = Append(up[n], r) /\ app'[n] = x /\ up[n] \in Seq(RequestsOf(MadeIds))
      /\ \A m \in Nodes \ {n} : up'[m] = up[m] /\ app'[m] = app[m]
    BY <1>1 DEF DInv, DTypeOK
<1>6. /\ RegIds(up'[n]) = RegIds(up[n]) \cup {e.id} /\ UnregIds(up'[n]) = UnregIds(up[n])
      /\ UpdIds(up'[n]) = UpdIds(up[n]) /\ Lists(up'[n]) = Lists(up[n])
    <2> DEFINE q == up[n]
    <2>1. q \in Seq(RequestsOf(MadeIds)) /\ up'[n] = Append(q, r)
        BY <1>5
    <2> HIDE DEF q
    <2>2. /\ RegIds(Append(q, r)) = RegIds(q) \cup {r.entry.id}
          /\ UnregIds(Append(q, r)) = UnregIds(q)
          /\ UpdIds(Append(q, r)) = UpdIds(q) /\ Lists(Append(q, r)) = Lists(q)
        BY <1>3, <2>1, RequestAdded
    <2> QED BY <1>3, <2>1, <2>2 DEF q
<1>7. \A m \in Nodes : Unsent(m)' \subseteq Unsent(m)
    BY <1>2, <1>4, <1>5, <1>6 DEF Unsent, Pending
<1> QED BY <1>1, <1>2, <1>5, <1>6, <1>7, SamePlaces DEF AppMoves

LEMMA AppMovesConnected ==
    ASSUME DInv, NEW n \in Nodes, UNCHANGED <<rcVars, raced>>,
           \/ proxy_open_datalink(n) \/ proxy_open_streamerlink(n)
           \/ proxy_open_datahub(n) \/ proxy_open_messagelink(n)
    PROVE AppMoves(n)
<1>1. EpKeeps(ep', {})
    BY OpenLinkStep, OpenDatahubStep, OpenMessagelinkStep
       DEF proxy_open_datalink, proxy_open_streamerlink
<1>2. app[n].pc = "connect" /\ Connected(n)
    BY DEF proxy_open_datalink, proxy_open_streamerlink, OpenLink, proxy_open_datahub,
           proxy_open_messagelink, Connecting
<1>3. /\ UNCHANGED <<conn, links, up, down, central, handler, reader, status, raced, preg, made>>
      /\ app' = [app EXCEPT ![n] = IdleApp]
    BY <1>2 DEF Connected, netVars, rcVars
<1>4. app'[n].pc = "idle" /\ \A m \in Nodes \ {n} : app'[m] = app[m]
    BY <1>3 DEF DInv, DTypeOK, IdleApp
<1>5. \A m \in Nodes : Unsent(m)' \subseteq Unsent(m)
    BY <1>2, <1>3, <1>4 DEF Unsent, Pending
<1>6. status[n] = "ready"
    BY <1>2, BusyIsReady
<1>7. /\ \A id \in MadeIds : IsOpen(id)' => IsOpen(id) /\ ep'[id].node = ep[id].node
      /\ \A id \in Ids : IsOpen(id) => IsOpen(id)' /\ ep'[id].node = ep[id].node
    BY <1>1, KeptPlaces
<1> QED BY <1>3, <1>5, <1>6, <1>7 DEF AppMoves

LEMMA AppMovesUnregister ==
    ASSUME DInv, UInv, NEW n \in Nodes, UNCHANGED <<rcVars, raced>>,
           proxy_send_unregister_request(n) \/ proxy_open_failed(n)
    PROVE AppMoves(n)
<1> DEFINE id == app[n].entry.id
           r == UnregisterReq(id)
<1>1. /\ app[n].pc = "unregister" /\ app' = [app EXCEPT ![n] = IdleApp]
      /\ ep' = DeleteEndpoints({id})
      /\ UNCHANGED <<conn, links, down, central, handler, reader, status, raced, preg, made>>
      /\ \/ conn[n] = "open" /\ up' = [up EXCEPT ![n] = Append(up[n], r)]
         \/ conn[n] # "open" /\ up' = up
    BY FailedIsDown DEF proxy_send_unregister_request, proxy_open_failed, netVars, rcVars, CanSend
<1>2. status[n] = "ready" /\ id \in MadeIds /\ MadeIds \subseteq Ids
    BY <1>1, BusyIsReady, KnownIds DEF Listed, DInv
<1>3. id \in IdsAt(n)
    BY <1>1, <1>2 DEF DInv, Owned, OwnedAt, IdsAt
<1>4. r \in RequestsOf(MadeIds) /\ r.kind = "unregister" /\ r.id = id
    BY <1>2 DEF RequestsOf, UnregisterReq
<1>5. EpKeeps(ep', {id})
    BY <1>1, <1>2, DeleteEndpointsIs DEF DInv, DTypeOK, EpTypeOK
<1> HIDE DEF r, id
<1>6. up[n] \in Seq(RequestsOf(MadeIds)) /\ app'[n].pc = "idle"
      /\ \A m \in Nodes \ {n} : up'[m] = up[m] /\ app'[m] = app[m]
    BY <1>1 DEF DInv, DTypeOK, IdleApp
<1>7. /\ RegIds(up'[n]) = RegIds(up[n])
      /\ UpdIds(up'[n]) = UpdIds(up[n]) /\ Lists(up'[n]) = Lists(up[n])
      /\ UnregIds(up[n]) \subseteq UnregIds(up'[n])
      /\ UnregIds(up'[n]) \subseteq UnregIds(up[n]) \cup {id}
      /\ conn[n] = "open" => id \in UnregIds(up'[n])
    <2>1. CASE conn[n] = "open"
        <3>1. up'[n] = Append(up[n], r)
            BY <1>1, <2>1 DEF DInv, DTypeOK
        <3> DEFINE q == up[n]
        <3>2. q \in Seq(RequestsOf(MadeIds)) /\ up'[n] = Append(q, r)
            BY <1>6, <3>1
        <3> HIDE DEF q
        <3>3. /\ RegIds(Append(q, r)) = RegIds(q) /\ UnregIds(Append(q, r)) = UnregIds(q) \cup {r.id}
              /\ UpdIds(Append(q, r)) = UpdIds(q) /\ Lists(Append(q, r)) = Lists(q)
            BY <1>4, <3>2, RequestAdded
        <3> QED BY <1>4, <3>2, <3>3 DEF q
    <2>2. CASE conn[n] # "open"
        BY <1>1, <2>2
    <2> QED BY <2>1, <2>2
<1>8. \A m \in Nodes : Unsent(m)' \subseteq Unsent(m)
    BY <1>6, <1>7 DEF Unsent, Pending
<1>9. /\ \A i \in MadeIds : IsOpen(i)' => IsOpen(i) /\ ep'[i].node = ep[i].node
      /\ \A i \in Ids \ {id} : IsOpen(i) => IsOpen(i)' /\ ep'[i].node = ep[i].node
    BY <1>2, <1>5, KeptPlaces
<1> QED BY <1>1, <1>2, <1>3, <1>6, <1>7, <1>8, <1>9 DEF AppMoves, IdsAt

LEMMA DeleteOwn ==
    ASSUME DInv, NEW n \in Nodes, NEW id \in OwnIds(preg[n]),
           preg' = [preg EXCEPT ![n] = registry_delete(preg[n], id)]
    PROVE /\ \A m \in Nodes \ {n} : preg'[m] = preg[m]
          /\ \A i : /\ Entries(preg'[n], i) = Entries(preg[n], i)
                    /\ AtMostOne(Of(preg[n], i)) => AtMostOne(Of(preg'[n], i))
<1> DEFINE s == preg[n]
<1>1. s \in Seq(Listed(MadeIds)) /\ OwnFirst(s) /\ preg'[n] = registry_delete(s, id)
      /\ \A m \in Nodes \ {n} : preg'[m] = preg[m]
    BY DEF DInv, DTypeOK, Owned, OwnedAt
<1> HIDE DEF s
<1>2. id \in OwnIds(s)
    BY DEF s
<1>3. id \in IdsOf(s) /\ s[FirstId(s, id)].endpoint
    BY <1>1, <1>2, FirstIsOwn
<1>4. \A i : /\ Entries(registry_delete(s, id), i) = Entries(s, i)
             /\ AtMostOne(Of(s, i)) => AtMostOne(Of(registry_delete(s, id), i))
    BY <1>1, <1>3, DeleteEntries
<1> QED BY <1>1, <1>4 DEF s

LEMMA AppMovesFailed ==
    ASSUME DInv, NEW n \in Nodes, proxy_new_entry_failed(n), UNCHANGED <<rcVars, raced>>
    PROVE AppMoves(n)
<1> DEFINE id == app[n].entry.id
<1>1. /\ app[n].pc = "register" /\ ep' = ep
      /\ app' = [app EXCEPT ![n] = [pc |-> "unregister", entry |-> app[n].entry]]
      /\ preg' = [preg EXCEPT ![n] = registry_delete(preg[n], id)]
      /\ UNCHANGED <<conn, links, up, down, central, handler, reader, status, raced, made>>
    BY DEF proxy_new_entry_failed, rcVars, netVars
<1>2. status[n] = "ready" /\ id \in OwnIds(preg[n])
    BY <1>1, BusyIsReady DEF DInv, Owned, OwnedAt
<1> HIDE DEF id
<1>3. app'[n].pc = "unregister" /\ \A m \in Nodes \ {n} : app'[m] = app[m]
    BY <1>1 DEF DInv, DTypeOK
<1>4. \A m \in Nodes : Unsent(m)' \subseteq Unsent(m)
    BY <1>1, <1>3 DEF Unsent, Pending
<1>5. /\ \A m \in Nodes \ {n} : preg'[m] = preg[m]
      /\ \A i : /\ Entries(preg'[n], i) = Entries(preg[n], i)
                /\ AtMostOne(Of(preg[n], i)) => AtMostOne(Of(preg'[n], i))
    BY <1>1, <1>2, DeleteOwn
<1> QED BY <1>1, <1>2, <1>4, <1>5, SamePlaces DEF AppMoves

LEMMA AppMovesClose ==
    ASSUME DInv, NEW n \in Nodes, Close(n)
    PROVE AppMoves(n)
<1>1. PICK id \in Ids : proxy_delete_entry(n, id) /\ UNCHANGED <<rcVars, raced>>
    BY DEF Close
<1>2. /\ UNCHANGED <<conn, links, up, down, central, handler, reader, status, raced, ep, made>>
      /\ preg' = [preg EXCEPT ![n] = registry_delete(preg[n], id)] /\ status[n] = "ready"
      /\ \E e : app' = [app EXCEPT ![n] = [pc |-> "unregister", entry |-> e]]
      /\ \E i \in 1..Len(preg[n]) : preg[n][i].id = id /\ preg[n][i].endpoint
    BY <1>1 DEF proxy_delete_entry, DeleteEntry, netVars, rcVars
<1>3. app'[n].pc = "unregister" /\ \A m \in Nodes \ {n} : app'[m] = app[m]
    BY <1>2 DEF DInv, DTypeOK
<1>4. \A m \in Nodes : Unsent(m)' \subseteq Unsent(m)
    BY <1>2, <1>3 DEF Unsent, Pending
<1>5. id \in OwnIds(preg[n])
    BY <1>2 DEF OwnIds
<1>6. /\ \A m \in Nodes \ {n} : preg'[m] = preg[m]
      /\ \A i : /\ Entries(preg'[n], i) = Entries(preg[n], i)
                /\ AtMostOne(Of(preg[n], i)) => AtMostOne(Of(preg'[n], i))
    BY <1>2, <1>5, DeleteOwn
<1> QED BY <1>2, <1>4, <1>6, SamePlaces DEF AppMoves

LEMMA AppMovesOpen ==
    ASSUME DInv, NEW n \in Nodes, Open(n)
    PROVE AppMoves(n)
<1>1. PICK type, name, topic : proxy_new_entry(n, type, topic, name)
    BY DEF Open
<1>2. PICK id \in Ids \ MadeIds : \E a :
        LET e == [id |-> id, name |-> name, topic |-> topic, type |-> type,
                  addr |-> a, endpoint |-> TRUE] IN
        /\ preg' = [preg EXCEPT ![n] = registry_insert(preg[n], e)]
        /\ app' = [app EXCEPT ![n] = [pc |-> "register", entry |-> e]]
        /\ ep' = [ep EXCEPT ![id] = [type |-> type, node |-> n, topic |-> topic, addr |-> a,
                                     remote |-> NoAddr, links |-> {}]]
        /\ made' = made \cup {e}
    BY <1>1 DEF proxy_new_entry, MadeIds
<1>a. PICK a :
        LET e == [id |-> id, name |-> name, topic |-> topic, type |-> type,
                  addr |-> a, endpoint |-> TRUE] IN
        /\ preg' = [preg EXCEPT ![n] = registry_insert(preg[n], e)]
        /\ app' = [app EXCEPT ![n] = [pc |-> "register", entry |-> e]]
        /\ ep' = [ep EXCEPT ![id] = [type |-> type, node |-> n, topic |-> topic, addr |-> a,
                                     remote |-> NoAddr, links |-> {}]]
        /\ made' = made \cup {e}
    BY <1>2
<1> DEFINE e == [id |-> id, name |-> name, topic |-> topic, type |-> type,
                 addr |-> a, endpoint |-> TRUE]
           p == [type |-> type, node |-> n, topic |-> topic, addr |-> a,
                 remote |-> NoAddr, links |-> {}]
<1>3. /\ e.id = id /\ e.endpoint
      /\ preg' = [preg EXCEPT ![n] = registry_insert(preg[n], e)]
      /\ app' = [app EXCEPT ![n] = [pc |-> "register", entry |-> e]]
      /\ ep' = [ep EXCEPT ![id] = p] /\ made' = made \cup {e}
    BY <1>a
<1> HIDE DEF e, p
<1>4. /\ UNCHANGED <<conn, links, up, down, central, handler, reader, status, raced>>
      /\ status[n] = "ready"
    BY <1>1 DEF proxy_new_entry, Open, netVars, rcVars
<1>5. /\ ep'[id] = p /\ \A i \in Ids \ {id} : ep'[i] = ep[i]
      /\ preg'[n] = registry_insert(preg[n], e) /\ \A m \in Nodes \ {n} : preg'[m] = preg[m]
      /\ app'[n] = [pc |-> "register", entry |-> e] /\ \A m \in Nodes \ {n} : app'[m] = app[m]
    BY <1>3 DEF DInv, DTypeOK
<1>6. \A m \in Nodes : Unsent(m)' \subseteq Unsent(m) \cup {id}
    BY <1>3, <1>4, <1>5 DEF Unsent, Pending
<1>7. \A i : /\ Entries(preg'[n], i) = Entries(preg[n], i)
             /\ AtMostOne(Of(preg[n], i)) => AtMostOne(Of(preg'[n], i))
    <2>1. preg[n] \in Seq(Listed(MadeIds) \cup {e})
        <3>1. preg[n] \in Seq(Listed(MadeIds))
            BY DEF DInv, DTypeOK
        <3>2. Seq(Listed(MadeIds)) \subseteq Seq(Listed(MadeIds) \cup {e})
            BY SeqMonotonic
        <3> QED BY <3>1, <3>2
    <2> DEFINE s == preg[n]
               E == Listed(MadeIds) \cup {e}
    <2>2. s \in Seq(E) /\ e \in E
        BY <2>1
    <2> HIDE DEF s, E
    <2>3. /\ \A i : Entries(registry_insert(s, e), i) = Entries(s, i)
                        \cup (IF e.id = i /\ ~e.endpoint THEN {e} ELSE {})
          /\ \A i : /\ AtMostOne(Of(s, i)) /\ (e.id = i /\ ~e.endpoint => Of(s, i) = {})
                    => AtMostOne(Of(registry_insert(s, e), i))
        BY <2>2, InsertEntries
    <2>4. \A i : /\ Entries(registry_insert(s, e), i) = Entries(s, i)
                 /\ AtMostOne(Of(s, i)) => AtMostOne(Of(registry_insert(s, e), i))
        BY <1>3, <2>3
    <2> QED BY <1>5, <2>4 DEF s
<1>8. id \in Ids \ MadeIds /\ ~IsOpen(id)
    BY DEF DInv, DTypeOK
<1>9. /\ \A i \in MadeIds : IsOpen(i)' => IsOpen(i) /\ ep'[i].node = ep[i].node
      /\ \A i \in Ids : IsOpen(i) => IsOpen(i)' /\ ep'[i].node = ep[i].node
    <2>1. \A i \in MadeIds : i \in Ids /\ i # id
        BY <1>8, KnownIds DEF DInv
    <2> QED BY <1>5, <1>8, <2>1 DEF IsOpen
<1> QED BY <1>3, <1>4, <1>5, <1>6, <1>7, <1>8, <1>9 DEF AppMoves

LEMMA AppIsMoves ==
    ASSUME DInv, UInv, NEW n \in Nodes, AppStep(n) \/ Open(n) \/ Close(n)
    PROVE AppMoves(n)
<1>1. CASE AppStep(n)
    <2>1. UNCHANGED <<rcVars, raced>>
        BY <1>1 DEF AppStep
    <2> QED BY <1>1, <2>1, AppMovesSend, AppMovesFailed, AppMovesConnected, AppMovesUnregister
            DEF AppStep
<1> QED BY <1>1, AppMovesOpen, AppMovesClose

LEMMA SameQueue == ASSUME NEW q PROVE FewerItems(q, q)
BY DEF FewerItems

LEMMA RoutesApp ==
    ASSUME DInv, AllGenuine, FollowsInv, Routes, NEW n \in Nodes, AppMoves(n)
    PROVE Routes'
<1>1. /\ UNCHANGED <<conn, links, down, central, handler, reader, status>>
      /\ status[n] = "ready" /\ \A m \in Nodes \ {n} : preg'[m] = preg[m] /\ up'[m] = up[m]
    BY DEF AppMoves
<1>2. \A m \in Nodes : ForeignIds(preg'[m]) = ForeignIds(preg[m])
    <2>1. \A id : id \in ForeignIds(preg'[n]) <=> id \in ForeignIds(preg[n])
        BY EntriesAre DEF AppMoves
    <2>2. ForeignIds(preg'[n]) = ForeignIds(preg[n])
        BY <2>1
    <2> QED BY <1>1, <2>2
<1>3. ASSUME NEW m \in Nodes
      PROVE /\ UpdIds(up'[m]) \cup UnregIds(up'[m]) \subseteq UpdIds(up[m]) \cup UnregIds(up[m]) \cup IdsAt(m)
            /\ Lists(up'[m]) = Lists(up[m])
    <2>1. CASE m = n
        BY <2>1 DEF AppMoves
    <2>2. CASE m # n
        BY <1>1, <2>2
    <2> QED BY <2>1, <2>2
<1>4. \A m \in Nodes : FewerItems(down[m], down'[m])
    BY <1>1, SameQueue
<1>5. \A m \in Nodes : CopyIds(m)' \cup ForeignIds(preg'[m]) \subseteq Seen(m)
    BY <1>1, <1>2 DEF CopyIds, Seen
<1>6. /\ \A m \in Nodes : Unsent(m)' \subseteq Unsent(m) \cup (Ids \ MadeIds)
      /\ \A id \in MadeIds : IsOpen(id)' => IsOpen(id) /\ ep'[id].node = ep[id].node
    BY DEF AppMoves
<1>7. ProcessMoves
    BY <1>1, <1>3, <1>4, <1>5, <1>6 DEF ProcessMoves
<1>8. EarlyOnce' /\ CopiesOnce'
    <2>1. CopiesOnce'
        BY <1>1 DEF Routes, CopiesOnce
    <2>2. \A m \in Nodes : status[m] \in {"none", "initializing"} => preg'[m] = preg[m]
        BY <1>1
    <2>3. EarlyOnce'
        BY <1>1, <2>2 DEF Routes, EarlyOnce
    <2> QED BY <2>1, <2>3
<1> QED BY <1>7, <1>8, RoutesMoved

-----------------------------------------------------------------------------
(* A process starts, ends or loses its connection                          *)

(* Nothing changes for the others.                                         *)
OthersStay(n) ==
    /\ UNCHANGED <<links, central, handler, made, raced>>
    /\ \A m \in Nodes \ {n} :
            UNCHANGED <<conn[m], up[m], down[m], status[m], preg[m], reader[m]>>
    /\ \A id \in Ids : IsOpen(id) /\ ep[id].node # n => IsOpen(id)' /\ ep'[id].node = ep[id].node
    /\ \A id \in MadeIds : IsOpen(id)' => IsOpen(id) /\ ep'[id].node = ep[id].node
    /\ conn'[n] = "open" => Lists(up'[n]) # {} /\ UpdIds(up'[n]) = {} /\ ToUpdate(handler[n]) = {}
    /\ RegIds(up'[n]) \subseteq RegIds(up[n]) /\ UpdIds(up'[n]) \subseteq UpdIds(up[n])
    /\ reader'[n] = IdleReader \/ UNCHANGED <<preg[n], reader[n]>>

LEMMA EmptyQueue == ASSUME NEW q PROVE FewerItems(q, <<>>)
<1>1. ShiftedBy(q, <<>>, 0)
    BY DEF ShiftedBy
<1> QED BY <1>1, ShiftedIsFewer

LEMMA StartMoves ==
    ASSUME DInv, AllGenuine, FollowsInv, Routes, NEW n \in Nodes, Start(n)
    PROVE Routes' /\ OthersStay(n)
<1>1. /\ UNCHANGED <<links, down, central, handler, raced, preg, app, reader, ep, made>>
      /\ status[n] = "none" /\ status' = [status EXCEPT ![n] = "initializing"]
      /\ conn' = [conn EXCEPT ![n] = "open"] /\ up' = [up EXCEPT ![n] = <<ListReq>>]
    BY DEF Start, new_proxy, rcVars
<1>2. /\ status'[n] = "initializing" /\ conn'[n] = "open" /\ up'[n] = <<ListReq>>
      /\ \A m \in Nodes \ {n} : UNCHANGED <<status[m], conn[m], up[m]>>
    BY <1>1 DEF DInv, DTypeOK
<1>3. conn[n] = "none"
    BY <1>1 DEF DInv, ListedOnce, ListedOnceAt
<1>4. Items(<<ListReq>>) = {ListReq} /\ ListReq.kind = "list" /\ 1 \in Lists(<<ListReq>>)
    BY DEF Items, Lists, ListReq
<1>5. RegIds(up'[n]) = {} /\ UpdIds(up'[n]) = {} /\ UnregIds(up'[n]) = {}
    <2>1. RegIds(<<ListReq>>) = {}
        BY DEF RegIds, Registers, ListReq
    <2>2. UpdIds(<<ListReq>>) = {} /\ UnregIds(<<ListReq>>) = {}
        BY <1>4, KindsOfItems
    <2> QED BY <1>2, <2>1, <2>2
<1>6. Lists(up'[n]) # {}
    BY <1>2, <1>4
<1>7. \A m \in Nodes : Pending(m)' = Pending(m)
    BY <1>1 DEF Pending
<1>8. \A m \in Nodes : CopyIds(m)' \cup ForeignIds(preg'[m]) \subseteq Seen(m)
    BY <1>1 DEF CopyIds, Seen
<1>9. ProcessMoves
    <2>1. ASSUME NEW m \in Nodes
          PROVE /\ Unsent(m)' \subseteq Unsent(m) \cup (Ids \ MadeIds)
                /\ UpdIds(up'[m]) \cup UnregIds(up'[m])
                        \subseteq UpdIds(up[m]) \cup UnregIds(up[m]) \cup IdsAt(m)
                /\ conn[m] = "closed" => conn'[m] = "closed"
                /\ conn'[m] = "open" /\ handler[m].pc = "none" /\ Lists(up'[m]) = {} =>
                        conn[m] = "open" /\ Lists(up[m]) = {}
        <3>1. CASE m = n
            BY <1>3, <1>5, <1>6, <1>7, <3>1 DEF Unsent
        <3>2. CASE m # n
            BY <1>2, <1>7, <3>2 DEF Unsent
        <3> QED BY <3>1, <3>2
    <2>2. \A m \in Nodes : FewerItems(down[m], down'[m])
        BY <1>1, SameQueue
    <2>3. \A id \in MadeIds : IsOpen(id)' => IsOpen(id) /\ ep'[id].node = ep[id].node
        BY <1>1, SamePlaces
    <2> QED BY <1>1, <1>8, <2>1, <2>2, <2>3 DEF ProcessMoves
<1>10. EarlyOnce'
    <2>1. \A m \in Nodes : status'[m] \in {"none", "initializing"} =>
                status[m] \in {"none", "initializing"}
        BY <1>1, <1>2
    <2> QED BY <1>1, <2>1 DEF Routes, EarlyOnce
<1>11. CopiesOnce'
    BY <1>1 DEF Routes, CopiesOnce
<1>12. Routes'
    BY <1>9, <1>10, <1>11, RoutesMoved
<1>13. OthersStay(n)
    <2>1. ToUpdate(handler[n]) = {}
        BY <1>1 DEF ToUpdate, DInv, ListedOnce, ListedOnceAt
    <2>2. \A id \in MadeIds : IsOpen(id)' => IsOpen(id) /\ ep'[id].node = ep[id].node
        BY <1>1, SamePlaces
    <2> QED BY <1>1, <1>2, <1>5, <1>6, <2>1, <2>2 DEF OthersStay, IsOpen
<1> QED BY <1>12, <1>13

LEMMA FaultMoves ==
    ASSUME DInv, AllGenuine, FollowsInv, Routes, NEW n \in Nodes, Fault(n)
    PROVE Routes' /\ OthersStay(n)
<1>1. /\ UNCHANGED <<links, central, handler, raced, made>>
      /\ conn' = [conn EXCEPT ![n] = "closed"] /\ down' = [down EXCEPT ![n] = <<>>]
      /\ \E k \in 0..Len(up[n]) : up' = [up EXCEPT ![n] = SubSeq(up[n], 1, k)]
      /\ \/ UNCHANGED <<status, preg, app, reader, ep>> /\ status[n] = "ready"
         \/ /\ status' = [status EXCEPT ![n] = "gone"]
            /\ preg' = [preg EXCEPT ![n] = <<>>] /\ app' = [app EXCEPT ![n] = IdleApp]
            /\ reader' = [reader EXCEPT ![n] = IdleReader]
            /\ ep' = DeleteEndpoints({id \in Ids : IsOpen(id) /\ ep[id].node = n})
    BY DEF Fault, new_proxy_timeout, Exit, Leave, LinkBreaks, rcVars, proxyVars
<1>2. PICK k \in 0..Len(up[n]) : up' = [up EXCEPT ![n] = SubSeq(up[n], 1, k)]
    BY <1>1
<1>3. /\ conn'[n] = "closed" /\ down'[n] = <<>> /\ up'[n] = SubSeq(up[n], 1, k)
      /\ \A m \in Nodes \ {n} : UNCHANGED <<conn[m], down[m], up[m]>>
    BY <1>1, <1>2 DEF DInv, DTypeOK
<1>4. /\ RegIds(up'[n]) \subseteq RegIds(up[n]) /\ UpdIds(up'[n]) \subseteq UpdIds(up[n])
      /\ UnregIds(up'[n]) \subseteq UnregIds(up[n])
    <2>1. up[n] \in Seq(RequestsOf(MadeIds))
        BY DEF DInv, DTypeOK
    <2>2. PartOf(up[n], SubSeq(up[n], 1, k)) /\ Items(SubSeq(up[n], 1, k)) \subseteq Items(up[n])
        BY <2>1, PrefixIs, ItemsOfPrefix
    <2> QED BY <1>3, <2>2, FewerOfItems DEF PartOf
<1>5. /\ \A m \in Nodes \ {n} : UNCHANGED <<status[m], preg[m], app[m], reader[m]>>
      /\ \/ UNCHANGED <<status[n], preg[n], app[n], reader[n]>> /\ status[n] = "ready"
         \/ /\ status'[n] = "gone" /\ preg'[n] = <<>> /\ app'[n] = IdleApp
            /\ reader'[n] = IdleReader
    BY <1>1 DEF DInv, DTypeOK
<1>6. /\ \A id \in MadeIds : IsOpen(id)' => IsOpen(id) /\ ep'[id].node = ep[id].node
      /\ \A id \in Ids : IsOpen(id) /\ ep[id].node # n =>
                IsOpen(id)' /\ ep'[id].node = ep[id].node
    <2>1. CASE UNCHANGED ep
        BY <2>1, SamePlaces
    <2>2. CASE ep' = DeleteEndpoints({id \in Ids : IsOpen(id) /\ ep[id].node = n})
        <3> DEFINE S == {id \in Ids : IsOpen(id) /\ ep[id].node = n}
        <3>1. S \in SUBSET Ids /\ EpKeeps(ep', S)
            BY <2>2, DeleteEndpointsIs DEF DInv, DTypeOK, EpTypeOK
        <3>2. \A id \in Ids : ep[id].node # n => id \notin S
            OBVIOUS
        <3> HIDE DEF S
        <3> QED BY <3>1, <3>2, KeptPlaces
    <2> QED BY <1>1, <2>1, <2>2
<1>7. \A m \in Nodes : Unsent(m)' \subseteq Unsent(m)
    <2>1. \A m \in Nodes : Pending(m)' \subseteq Pending(m)
        BY <1>5 DEF Pending, IdleApp
    <2>2. \A m \in Nodes : RegIds(up'[m]) \subseteq RegIds(up[m])
        BY <1>3, <1>4
    <2> QED BY <2>1, <2>2 DEF Unsent
<1>8. ForeignIds(<<>>) = {}
    BY DEF ForeignIds, Items
<1>9. \A m \in Nodes : FewerItems(down[m], down'[m])
    BY <1>3, SameQueue, EmptyQueue
<1>10. \A m \in Nodes : CopyIds(m)' \cup ForeignIds(preg'[m]) \subseteq Seen(m)
    <2>1. \A m \in Nodes : ListIds(down'[m]) \subseteq ListIds(down[m])
        BY <1>9 DEF FewerItems
    <2>2. \A m \in Nodes : /\ CopyIds(m)' \subseteq CopyIds(m)
                           /\ ForeignIds(preg'[m]) \subseteq ForeignIds(preg[m])
        BY <1>1, <1>5, <1>8, <2>1 DEF CopyIds
    <2> QED BY <2>2 DEF Seen
<1>11. ProcessMoves
    <2>1. ASSUME NEW m \in Nodes
          PROVE /\ UpdIds(up'[m]) \cup UnregIds(up'[m])
                        \subseteq UpdIds(up[m]) \cup UnregIds(up[m]) \cup IdsAt(m)
                /\ conn[m] = "closed" => conn'[m] = "closed"
                /\ conn'[m] = "open" /\ handler[m].pc = "none" /\ Lists(up'[m]) = {} =>
                        conn[m] = "open" /\ Lists(up[m]) = {}
        <3>1. CASE m = n
            BY <1>3, <1>4, <3>1
        <3>2. CASE m # n
            BY <1>3, <3>2
        <3> QED BY <3>1, <3>2
    <2> QED BY <1>1, <1>6, <1>7, <1>9, <1>10, <2>1 DEF ProcessMoves
<1>12. EarlyOnce'
    <2>1. ASSUME NEW m \in Nodes, status'[m] \in {"none", "initializing"},
                 reader'[m] = IdleReader
          PROVE /\ status[m] \in {"none", "initializing"} /\ reader[m] = IdleReader
                /\ preg'[m] = preg[m] /\ AddedIds(down'[m]) \subseteq AddedIds(down[m])
        BY <1>5, <1>9, <2>1 DEF FewerItems
    <2> QED BY <1>1, <2>1 DEF Routes, EarlyOnce
<1>13. CopiesOnce'
    <2>1. \A m \in Nodes : OfKind(down'[m], "list") \subseteq OfKind(down[m], "list")
        BY <1>9 DEF FewerItems
    <2>2. \A m \in Nodes : reader'[m] # IdleReader => reader'[m] = reader[m]
        BY <1>5
    <2> QED BY <1>1, <2>1, <2>2 DEF Routes, CopiesOnce
<1>14. Routes'
    BY <1>11, <1>12, <1>13, RoutesMoved
<1>15. OthersStay(n)
    BY <1>1, <1>3, <1>4, <1>5, <1>6 DEF OthersStay
<1> QED BY <1>14, <1>15

-----------------------------------------------------------------------------
(* The steps of the reader thread                                          *)

(* It has taken a message of this kind.                                    *)
Takes(n, kind) ==
    /\ reader[n] = IdleReader /\ reader'[n] = reader[n] /\ status'[n] = status[n]
    /\ down[n] # <<>> /\ Head(down[n]).kind = kind /\ down'[n] = Tail(down[n])

TakesAdd(n) ==
    /\ Takes(n, "proxy-add")
    /\ Head(down[n]).entry \in Foreign(MadeIds)
    /\ \E s \in Seq(Listed(MadeIds)) :
            /\ s = WithEntry(preg[n], Head(down[n]).entry)
            /\ SameNames(s, preg'[n])
            /\ \A i : Entries(preg'[n], i) = Entries(s, i)

TakesRemove(n) == /\ Takes(n, "proxy-remove")
                  /\ preg'[n] = registry_delete(preg[n], Head(down[n]).id)

TakesUpdate(n) ==
    /\ Takes(n, "proxy-update-address") /\ Head(down[n]).addr \in Addrs
    /\ preg'[n] = registry_update_addr(preg[n], Head(down[n]).id, Head(down[n]).addr)

TakesResponse(n) == Takes(n, "response") /\ preg'[n] = preg[n]

TakesList(n) ==
    /\ reader[n] = IdleReader /\ status'[n] = status[n] /\ preg'[n] = preg[n]
    /\ down[n] # <<>> /\ Head(down[n]).kind = "list" /\ down'[n] = Tail(down[n])
    /\ reader'[n] = [pc |-> "insert", todo |-> Head(down[n]).list, list |-> Head(down[n]).list]

(* It handles the list.                                                    *)
Merges(n) ==
    /\ reader[n] # IdleReader /\ down'[n] = down[n]
    /\ \/ /\ reader[n].pc = "insert" /\ reader[n].todo # <<>>
          /\ preg'[n] = WithEntry(preg[n], Head(reader[n].todo)) /\ status'[n] = status[n]
          /\ reader'[n] = [pc |-> "insert", todo |-> Tail(reader[n].todo),
                           list |-> reader[n].list]
       \/ /\ reader[n].pc = "insert" /\ reader[n].todo = <<>>
          /\ preg'[n] = preg[n] /\ status'[n] = status[n]
          /\ reader'[n] = [pc |-> "prune", todo |-> preg[n], list |-> reader[n].list]
       \/ /\ reader[n].pc = "prune" /\ reader[n].todo # <<>> /\ status'[n] = status[n]
          /\ preg'[n] = IF Vanished(n, Last(reader[n].todo))
                        THEN registry_delete(preg[n], Last(reader[n].todo).id) ELSE preg[n]
          /\ reader'[n] = [pc |-> "prune", todo |-> Front(reader[n].todo),
                           list |-> reader[n].list]
       \/ /\ reader[n].pc = "prune" /\ reader[n].todo = <<>>
          /\ preg'[n] = preg[n] /\ reader'[n] = IdleReader /\ status'[n] = "ready"

Reads(n) ==
    /\ ReaderKeeps(n)
    /\ \A m \in Nodes \ {n} : UNCHANGED <<preg[m], down[m], reader[m], status[m], up[m]>>
    /\ UpdIds(up'[n]) \subseteq UpdIds(up[n]) \cup IdsAt(n)
    /\ \/ TakesAdd(n) \/ TakesRemove(n) \/ TakesUpdate(n) \/ TakesResponse(n)
       \/ TakesList(n) \/ Merges(n)

LEMMA TakesIs ==
    ASSUME DInv, NEW n \in Nodes, NEW kind, HasMessage(n, kind), Consume(n),
           UNCHANGED <<status, reader>>
    PROVE Takes(n, kind) /\ \A m \in Nodes \ {n} : down'[m] = down[m]
BY DEF HasMessage, Consume, Takes, DInv, DTypeOK

LEMMA ReadsAdd ==
    ASSUME DInv, NEW n \in Nodes, ReaderStep(n), ReaderKeeps(n),
           \/ proxy_handle_register_add(n) \/ proxy_connect_datalink(n)
           \/ proxy_connect_datahub(n) \/ proxy_connect_streamer(n)
    PROVE Reads(n)
<1> DEFINE e == Head(down[n]).entry
           s == WithEntry(preg[n], e)
<1>1. PICK types : HandleAdd(n, types)
    BY DEF proxy_handle_register_add, proxy_connect_datalink, proxy_connect_datahub,
           proxy_connect_streamer, ConnectLinks
<1>2. /\ HasMessage(n, "proxy-add") /\ Consume(n) /\ UNCHANGED <<status, reader>>
    BY <1>1 DEF HandleAdd
<1>3. preg' = [preg EXCEPT ![n] = s] /\ up' = up
    BY DEF proxy_handle_register_add, proxy_connect_datalink, proxy_connect_datahub,
           proxy_connect_streamer, ConnectLinks
<1>4. e \in Foreign(MadeIds) /\ s \in Seq(Listed(MadeIds))
    BY <1>1, AddIs
<1>5. preg'[n] = s /\ \A m \in Nodes \ {n} : preg'[m] = preg[m]
    BY <1>3 DEF DInv, DTypeOK
<1>6. SameNames(s, s)
    BY DEF SameNames
<1>7. Takes(n, "proxy-add") /\ \A m \in Nodes \ {n} : down'[m] = down[m]
    BY <1>2, TakesIs
<1>8. TakesAdd(n)
    BY <1>4, <1>5, <1>6, <1>7 DEF TakesAdd
<1> QED BY <1>2, <1>3, <1>5, <1>7, <1>8 DEF Reads

LEMMA ReadsMessagehub ==
    ASSUME DInv, NEW n \in Nodes, ReaderKeeps(n), proxy_connect_messagehub(n)
    PROVE Reads(n)
<1> DEFINE e == Head(down[n]).entry
           s == WithEntry(preg[n], e)
           L == {id \in LocalIds(s, e.topic, "messagelink") : ep[id].remote # e.addr}
           t(local) == [i \in 1..Len(s) |->
                          IF Listening(e.addr) /\ s[i].id \in L /\ i = FirstId(s, s[i].id)
                          THEN [s[i] EXCEPT !.addr = local[s[i].id]] ELSE s[i]]
           u(local, order) == [i \in 1..Len(order) |->
                                 UpdateAddressReq(order[i], local[order[i]])]
<1>1. /\ HandleAdd(n, {"messagehub"}) /\ HasMessage(n, "proxy-add") /\ Consume(n)
      /\ UNCHANGED <<status, reader>>
      /\ \E local \in [L -> FreeAddrs], order \in SetToSeqs(L) :
            /\ preg' = [preg EXCEPT ![n] = t(local)]
            /\ up' = up \/ up' = [up EXCEPT ![n] = up[n] \o u(local, order)]
    BY DEF proxy_connect_messagehub, HandleAdd
<1>2. PICK local \in [L -> FreeAddrs], order \in SetToSeqs(L) :
            /\ preg' = [preg EXCEPT ![n] = t(local)]
            /\ up' = up \/ up' = [up EXCEPT ![n] = up[n] \o u(local, order)]
    BY <1>1
<1>3. /\ e \in Foreign(MadeIds) /\ s \in Seq(Listed(MadeIds)) /\ SameEntries(preg[n], s)
      /\ OwnIds(s) \subseteq Ids
    BY <1>1, AddIs
<1>4. L \subseteq OwnIds(s) /\ L \subseteq IdsOf(s) /\ L \in SUBSET Ids
    BY <1>3, LocalIdsIs
<1>5. local \in [L -> Addrs]
    BY DEF FreeAddrs
<1>6. OwnFirst(s) /\ L \subseteq IdsAt(n)
    <2>1. OwnFirst(preg[n]) /\ \A id \in OwnIds(preg[n]) : IsOpen(id) /\ ep[id].node = n
        BY DEF DInv, Owned, OwnedAt
    <2> HIDE DEF s, L
    <2> QED BY <1>3, <1>4, <2>1 DEF SameEntries, IdsAt
<1> DEFINE tt == t(local)
           uu == u(local, order)
<1>7. SameNames(s, tt) /\ \A i \in 1..Len(s) : ~s[i].endpoint => tt[i] = s[i]
    <2> HIDE DEF s, L, e
    <2>1. ASSUME NEW i \in 1..Len(s)
          PROVE /\ tt[i].id = s[i].id /\ tt[i].type = s[i].type
                /\ tt[i].endpoint = s[i].endpoint
                /\ ~s[i].endpoint => tt[i] = s[i]
        <3>1. s[i] \in Entry
            BY <1>3, ElementOfSeq DEF Listed
        <3>2. CASE tt[i] = s[i]
            BY <3>2
        <3>3. CASE /\ s[i].id \in L /\ i = FirstId(s, s[i].id)
                   /\ tt[i] = [s[i] EXCEPT !.addr = local[s[i].id]]
            <4> DEFINE a == local[s[i].id]
                       f == [s[i] EXCEPT !.addr = a]
            <4>1. a \in Addrs /\ tt[i] = f
                BY <1>5, <3>3
            <4>2. s[i].endpoint
                <5>1. s[i].id \in OwnIds(s)
                    BY <1>4, <3>3
                <5> QED BY <1>3, <1>6, <3>3, <5>1, FirstIsOwn
            <4> HIDE DEF a, tt
            <4>3. f.id = s[i].id /\ f.type = s[i].type /\ f.endpoint = s[i].endpoint
                BY <3>1, <4>1, SetAddrIs
            <4> QED BY <4>1, <4>2, <4>3
        <3> QED BY <3>2, <3>3
    <2>2. Len(tt) = Len(s)
        BY <1>3
    <2> HIDE DEF tt
    <2> QED BY <2>1, <2>2 DEF SameNames
<1>8. uu \in Seq(RequestsOf(MadeIds)) /\ UpdIds(uu) \subseteq L
    <2> HIDE DEF s, L, e
    <2>1. Len(order) \in Nat /\ \A i \in 1..Len(order) : order[i] \in L
        BY <1>3, <1>4, OrderIs
    <2>2. uu \in Seq(RequestsOf(MadeIds)) /\ Len(uu) = Len(order)
        BY <1>4, <1>5, <2>1, UpdatesAre
    <2>3. \A i \in 1..Len(order) : uu[i].id \in L
        <3>1. \A i \in 1..Len(order) : uu[i] = UpdateAddressReq(order[i], local[order[i]])
            OBVIOUS
        <3> QED BY <2>1, <3>1 DEF UpdateAddressReq
    <2> HIDE DEF uu
    <2> QED BY <2>2, <2>3 DEF UpdIds, OfKind, Items
<1>9. preg' = [preg EXCEPT ![n] = tt] /\ (up' = up \/ up' = [up EXCEPT ![n] = up[n] \o uu])
    BY <1>2
<1> HIDE DEF L, t, u, tt, uu
<1>10. UpdIds(up'[n]) \subseteq UpdIds(up[n]) \cup IdsAt(n) /\ \A m \in Nodes \ {n} : up'[m] = up[m]
    <2>1. up \in [Nodes -> Seq(RequestsOf(MadeIds))]
        BY DEF DInv, DTypeOK
    <2>2. Items(up[n] \o uu) = Items(up[n]) \cup Items(uu)
        BY <1>8, <2>1, ItemsOfConcat
    <2>3. UpdIds(up[n] \o uu) \subseteq UpdIds(up[n]) \cup UpdIds(uu)
        BY <2>2 DEF UpdIds, OfKind
    <2> QED BY <1>6, <1>8, <1>9, <2>1, <2>3
<1>11. preg'[n] = tt /\ \A m \in Nodes \ {n} : preg'[m] = preg[m]
    BY <1>9 DEF DInv, DTypeOK
<1> HIDE DEF s, e
<1>12. ASSUME NEW i PROVE Entries(tt, i) = Entries(s, i)
    <2>1. Of(tt, i) = Of(s, i)
        BY <1>7, RenamedEntries
    <2>2. \A j \in Of(s, i) : tt[j] = s[j]
        BY <1>7 DEF Of
    <2>3. Entries(tt, i) = {tt[j] : j \in Of(tt, i)} /\ Entries(s, i) = {s[j] : j \in Of(s, i)}
        BY EntriesAre
    <2> QED BY <2>1, <2>2, <2>3
<1>13. Takes(n, "proxy-add") /\ \A m \in Nodes \ {n} : down'[m] = down[m]
    BY <1>1, TakesIs
<1>14. TakesAdd(n)
    BY <1>3, <1>7, <1>11, <1>12, <1>13 DEF TakesAdd, s, e
<1> QED BY <1>1, <1>10, <1>11, <1>13, <1>14 DEF Reads

LEMMA ReadsMessage ==
    ASSUME DInv, AllGenuine, NEW n \in Nodes, ReaderKeeps(n), UNCHANGED <<rcVars, raced>>,
           \/ proxy_handle_register_remove(n) \/ proxy_handle_update_address(n)
           \/ proxy_onresponse(n) \/ proxy_handle_update_list(n)
    PROVE Reads(n)
<1> DEFINE id == Head(down[n]).id
           a == Head(down[n]).addr
<1>1. up' = up /\ preg[n] \in Seq(Listed(MadeIds))
    BY DEF DInv, DTypeOK, proxy_handle_register_remove, proxy_handle_update_address,
           proxy_onresponse, proxy_handle_update_list
<1>2. CASE proxy_handle_register_remove(n)
    <2>1. /\ HasMessage(n, "proxy-remove") /\ Consume(n) /\ UNCHANGED <<status, reader>>
          /\ \/ id \notin IdsOf(preg[n]) /\ preg' = preg
             \/ preg' = [preg EXCEPT ![n] = registry_delete(preg[n], id)]
        BY <1>2 DEF proxy_handle_register_remove
    <2> HIDE DEF id
    <2>2. /\ preg'[n] = registry_delete(preg[n], id)
          /\ \A m \in Nodes \ {n} : preg'[m] = preg[m]
        BY <2>1 DEF DInv, DTypeOK, registry_delete
    <2> QED BY <1>1, <2>1, <2>2, TakesIs DEF Reads, TakesRemove, id
<1>3. CASE proxy_handle_update_address(n)
    <2>1. /\ HasMessage(n, "proxy-update-address") /\ Consume(n)
          /\ UNCHANGED <<status, reader>>
          /\ preg' = [preg EXCEPT ![n] = registry_update_addr(preg[n], id, a)]
        BY <1>3 DEF proxy_handle_update_address
    <2>2. a \in Addrs
        BY <2>1, HonestMessage, MessageKinds
    <2> HIDE DEF id, a
    <2>3. /\ preg'[n] = registry_update_addr(preg[n], id, a)
          /\ \A m \in Nodes \ {n} : preg'[m] = preg[m]
        BY <2>1 DEF DInv, DTypeOK
    <2> QED BY <1>1, <2>1, <2>2, <2>3, TakesIs DEF Reads, TakesUpdate, id, a
<1>4. CASE proxy_onresponse(n)
    <2>1. /\ HasMessage(n, "response") /\ Consume(n) /\ UNCHANGED <<status, reader, preg>>
        BY <1>4 DEF proxy_onresponse
    <2> QED BY <1>1, <2>1, TakesIs DEF Reads, TakesResponse
<1>5. CASE proxy_handle_update_list(n)
    <2> DEFINE s == Head(down[n]).list
               r == [pc |-> "insert", todo |-> s, list |-> s]
    <2>1. /\ HasMessage(n, "list") /\ Consume(n) /\ reader' = [reader EXCEPT ![n] = r]
          /\ UNCHANGED <<status, preg>>
        BY <1>5 DEF proxy_handle_update_list
    <2> HIDE DEF r
    <2>2. /\ reader'[n] = r /\ \A m \in Nodes \ {n} : reader'[m] = reader[m]
          /\ down'[n] = Tail(down[n]) /\ \A m \in Nodes \ {n} : down'[m] = down[m]
        BY <2>1 DEF DInv, DTypeOK, Consume
    <2>3. TakesList(n)
        BY <2>1, <2>2 DEF TakesList, HasMessage, r
    <2> QED BY <1>1, <2>1, <2>2, <2>3 DEF Reads
<1> QED BY <1>2, <1>3, <1>4, <1>5

LEMMA ReadsMerges ==
    ASSUME DInv, NEW n \in Nodes, ReaderKeeps(n),
           \/ update_list_insert(n) \/ update_list_select(n)
           \/ update_list_prune(n) \/ update_list_ready(n)
    PROVE Reads(n)
<1> DEFINE r == reader[n]
<1>1. /\ r \in ReadersOf(MadeIds) /\ r # IdleReader /\ UNCHANGED <<up, down>>
      /\ r = [pc |-> r.pc, todo |-> r.todo, list |-> r.list]
    BY DEF DInv, DTypeOK, netVars, IdleReader, ReadersOf, update_list_insert,
           update_list_select, update_list_prune, update_list_ready
<1>2. \A t : reader' = [reader EXCEPT ![n].todo = t] =>
            reader'[n] = [pc |-> r.pc, todo |-> t, list |-> r.list]
    BY <1>1 DEF DInv, DTypeOK
<1>3. \A m \in Nodes \ {n} : UNCHANGED <<preg[m], reader[m], status[m]>>
    BY DEF DInv, DTypeOK, update_list_insert, update_list_select, update_list_prune,
           update_list_ready
<1>4. CASE update_list_insert(n)
    <2>1. /\ r.pc = "insert" /\ r.todo # <<>> /\ UNCHANGED status
          /\ preg' = [preg EXCEPT ![n] = WithEntry(preg[n], Head(r.todo))]
          /\ reader' = [reader EXCEPT ![n].todo = Tail(r.todo)]
        BY <1>4 DEF update_list_insert
    <2>2. preg'[n] = WithEntry(preg[n], Head(r.todo))
        BY <2>1 DEF DInv, DTypeOK
    <2>3. reader'[n] = [pc |-> "insert", todo |-> Tail(r.todo), list |-> r.list]
        BY <1>2, <2>1
    <2> QED BY <1>1, <1>3, <2>1, <2>2, <2>3 DEF Reads, Merges
<1>5. CASE update_list_select(n)
    <2>1. /\ r.pc = "insert" /\ r.todo = <<>> /\ UNCHANGED <<status, preg>>
          /\ reader'[n] = [pc |-> "prune", todo |-> preg[n], list |-> r.list]
        BY <1>5 DEF update_list_select, DInv, DTypeOK
    <2> QED BY <1>1, <1>3, <2>1 DEF Reads, Merges
<1>6. CASE update_list_prune(n)
    <2>1. /\ r.pc = "prune" /\ r.todo # <<>> /\ UNCHANGED status
          /\ preg' = IF Vanished(n, Last(r.todo))
                     THEN [preg EXCEPT ![n] = registry_delete(preg[n], Last(r.todo).id)]
                     ELSE preg
          /\ reader' = [reader EXCEPT ![n].todo = Front(r.todo)]
        BY <1>6 DEF update_list_prune
    <2>2. preg'[n] = IF Vanished(n, Last(r.todo))
                     THEN registry_delete(preg[n], Last(r.todo).id) ELSE preg[n]
        BY <2>1 DEF DInv, DTypeOK
    <2>3. reader'[n] = [pc |-> "prune", todo |-> Front(r.todo), list |-> r.list]
        BY <1>2, <2>1
    <2> QED BY <1>1, <1>3, <2>1, <2>2, <2>3 DEF Reads, Merges
<1>7. CASE update_list_ready(n)
    <2>1. /\ r.pc = "prune" /\ r.todo = <<>> /\ UNCHANGED preg
          /\ reader'[n] = IdleReader /\ status'[n] = "ready"
        BY <1>7 DEF update_list_ready, DInv, DTypeOK
    <2> QED BY <1>1, <1>3, <2>1 DEF Reads, Merges
<1> QED BY <1>4, <1>5, <1>6, <1>7

LEMMA ReaderReads ==
    ASSUME DInv, AllGenuine, NEW n \in Nodes, ReaderStep(n)
    PROVE Reads(n)
<1>1. ReaderKeeps(n) /\ UNCHANGED <<rcVars, raced>>
    BY ReaderIsInv DEF ReaderStep
<1> QED BY <1>1, ReadsAdd, ReadsMessagehub, ReadsMessage, ReadsMerges DEF ReaderStep

(* What a reader gets from the head of its queue                           *)
LEMMA HeadOfQueue ==
    ASSUME DInv, NEW n \in Nodes, down[n] # <<>>, down'[n] = Tail(down[n])
    PROVE /\ Head(down[n]) \in Items(down[n]) /\ Head(down[n]) \in MessagesOf(MadeIds)
          /\ conn[n] = "open" /\ FewerItems(down[n], down'[n])
          /\ Head(down[n]).kind = "proxy-add" => Head(down[n]).entry.id \in AddedIds(down[n])
          /\ Head(down[n]).kind = "proxy-remove" => Head(down[n]).id \in RemovedIds(down[n])
          /\ Head(down[n]).kind = "list" => IdsOf(Head(down[n]).list) \subseteq ListIds(down[n])
<1> DEFINE q == down[n]
           h == Head(q)
<1>1. q \in Seq(MessagesOf(MadeIds)) /\ q # <<>>
    BY DEF DInv, DTypeOK
<1> HIDE DEF q
<1>2. h \in Items(q) /\ h \in MessagesOf(MadeIds) /\ FewerItems(q, Tail(q))
    BY <1>1, ItemsOfTail, FewerInTail
<1> HIDE DEF h
<1>3. h.kind = "list" => IdsOf(h.list) \subseteq ListIds(q)
    BY <1>2 DEF ListIds, OfKind
<1>4. /\ h.kind = "proxy-add" => h.entry.id \in AddedIds(q)
      /\ h.kind = "proxy-remove" => h.id \in RemovedIds(q)
    BY <1>2, KindsOfItems
<1>5. conn[n] = "open"
    BY <1>1 DEF q, DInv, ListedOnce, ListedOnceAt
<1> QED BY <1>2, <1>3, <1>4, <1>5 DEF q, h

LEMMA WithEntryEntries ==
    ASSUME NEW E, NEW s \in Seq(E), NEW e \in E, ~e.endpoint
    PROVE /\ WithEntry(s, e) \in Seq(E)
          /\ \A i : Entries(WithEntry(s, e), i) =
                Entries(s, i) \cup (IF e.id = i /\ ~Known(s, e) THEN {e} ELSE {})
          /\ \A i : /\ AtMostOne(Of(s, i)) /\ (e.id = i /\ ~Known(s, e) => Of(s, i) = {})
                    => AtMostOne(Of(WithEntry(s, e), i))
          /\ ForeignIds(WithEntry(s, e)) \subseteq ForeignIds(s) \cup {e.id}
          /\ IdsOf(WithEntry(s, e)) \subseteq IdsOf(s) \cup {e.id}
          /\ IdsOnce(s) /\ e.id \notin IdsOf(s) => IdsOnce(WithEntry(s, e))
<1> DEFINE t == registry_insert(s, e)
<1>1. /\ t \in Seq(E) /\ IdsOf(t) = IdsOf(s) \cup {e.id}
      /\ IdsOnce(s) /\ e.id \notin IdsOf(s) => IdsOnce(t)
    BY InsertIs
<1>2. \A i : Entries(t, i) = Entries(s, i) \cup (IF e.id = i THEN {e} ELSE {})
    BY InsertEntries
<1>3. \A i : AtMostOne(Of(s, i)) /\ (e.id = i => Of(s, i) = {}) => AtMostOne(Of(t, i))
    BY InsertEntries
<1>4. WithEntry(s, e) = IF Known(s, e) THEN s ELSE t
    BY DEF WithEntry
<1> HIDE DEF t
<1>5. \A i : Entries(WithEntry(s, e), i) =
                Entries(s, i) \cup (IF e.id = i /\ ~Known(s, e) THEN {e} ELSE {})
    BY <1>2, <1>4
<1>6. ForeignIds(WithEntry(s, e)) \subseteq ForeignIds(s) \cup {e.id}
    <2>1. \A i \in ForeignIds(WithEntry(s, e)) : i \in ForeignIds(s) \cup {e.id}
        BY <1>5, EntriesAre
    <2> QED BY <2>1
<1> QED BY <1>1, <1>3, <1>4, <1>5, <1>6

LEMMA ReadsMoves ==
    ASSUME DInv, NEW n \in Nodes, Reads(n), FewerItems(down[n], down'[n]),
           CopyIds(n)' \cup ForeignIds(preg'[n]) \subseteq Seen(n)
    PROVE ProcessMoves
<1>1. /\ UNCHANGED <<conn, links, central, handler, app>> /\ EpKeeps(ep', {})
      /\ \A m \in Nodes : /\ RegIds(up'[m]) = RegIds(up[m]) /\ UnregIds(up'[m]) = UnregIds(up[m])
                          /\ Lists(up'[m]) = Lists(up[m])
    BY DEF Reads, ReaderKeeps, rcVars
<1>2. \A m \in Nodes \ {n} : UNCHANGED <<preg[m], down[m], reader[m], up[m]>>
    BY DEF Reads
<1>3. ASSUME NEW m \in Nodes
      PROVE /\ Unsent(m)' \subseteq Unsent(m)
            /\ UpdIds(up'[m]) \cup UnregIds(up'[m])
                    \subseteq UpdIds(up[m]) \cup UnregIds(up[m]) \cup IdsAt(m)
            /\ FewerItems(down[m], down'[m])
            /\ CopyIds(m)' \cup ForeignIds(preg'[m]) \subseteq Seen(m)
    <2>1. Unsent(m)' \subseteq Unsent(m)
        BY <1>1 DEF Unsent, Pending
    <2>2. CASE m = n
        BY <1>1, <2>1, <2>2 DEF Reads
    <2>3. CASE m # n
        <3>1. CopyIds(m)' \cup ForeignIds(preg'[m]) \subseteq Seen(m)
            BY <1>1, <1>2, <2>3 DEF CopyIds, Seen
        <3> QED BY <1>1, <1>2, <2>1, <2>3, <3>1, SameQueue
    <2> QED BY <2>2, <2>3
<1>4. \A id \in MadeIds : IsOpen(id)' => IsOpen(id) /\ ep'[id].node = ep[id].node
    BY <1>1, KeptPlaces
<1> QED BY <1>1, <1>3, <1>4 DEF ProcessMoves

(* What the list of n may not have yet                                     *)
EarlyAt(n) ==
    status[n] \in {"none", "initializing"} /\ reader[n] = IdleReader =>
        /\ IdsOnce(preg[n])
        /\ IdsOf(preg[n]) \cap AddedIds(down[n]) = {}
        /\ \A m \in Nodes : IdsOf(preg[n]) \cap ToAdd(handler[m]) = {}

LEMMA ReadsOnce ==
    ASSUME DInv, Routes, NEW n \in Nodes, Reads(n), EarlyAt(n)',
           \A m \in OfKind(down'[n], "list") : IdsOnce(m.list),
           reader'[n] # IdleReader => IdsOnce(reader'[n].list)
    PROVE EarlyOnce' /\ CopiesOnce'
<1>1. /\ UNCHANGED handler
      /\ \A m \in Nodes \ {n} : UNCHANGED <<preg[m], down[m], reader[m], status[m]>>
    BY DEF Reads, ReaderKeeps, rcVars
<1>2. EarlyOnce'
    <2>1. \A m \in Nodes \ {n} : EarlyAt(m)'
        BY <1>1 DEF EarlyAt, Routes, EarlyOnce
    <2>2. \A m \in Nodes : EarlyAt(m)'
        BY <2>1
    <2> QED BY <2>2 DEF EarlyOnce, EarlyAt
<1>3. CopiesOnce'
    <2>1. ASSUME NEW m \in Nodes
          PROVE /\ handler'[m].pc = "list" => IdsOnce(handler'[m].list)
                /\ \A x \in OfKind(down'[m], "list") : IdsOnce(x.list)
                /\ reader'[m] # IdleReader => IdsOnce(reader'[m].list)
        <3>1. CASE m = n
            BY <1>1, <3>1 DEF Routes, CopiesOnce
        <3>2. CASE m # n
            BY <1>1, <3>2 DEF Routes, CopiesOnce
        <3> QED BY <3>1, <3>2
    <2> QED BY <2>1 DEF CopiesOnce
<1> QED BY <1>2, <1>3

(* A message but the list                                                  *)
LEMMA RoutesTaken ==
    ASSUME DInv, AllGenuine, FollowsInv, Routes, NEW n \in Nodes, Reads(n),
           NEW kind, Takes(n, kind), EarlyAt(n)', ForeignIds(preg'[n]) \subseteq Seen(n)
    PROVE Routes'
<1>1. FewerItems(down[n], down'[n]) /\ UNCHANGED handler
    BY HeadOfQueue DEF Takes, Reads, ReaderKeeps, rcVars
<1>2. CopyIds(n)' \subseteq Seen(n)
    BY <1>1 DEF Takes, CopyIds, Seen, FewerItems
<1>3. ProcessMoves
    BY <1>1, <1>2, ReadsMoves
<1>4. EarlyOnce' /\ CopiesOnce'
    BY <1>1, ReadsOnce DEF FewerItems, Routes, CopiesOnce, Takes
<1> QED BY <1>3, <1>4, RoutesMoved

LEMMA RoutesMessages ==
    ASSUME DInv, AllGenuine, FollowsInv, Routes, NEW n \in Nodes, Reads(n),
           TakesAdd(n) \/ TakesRemove(n) \/ TakesUpdate(n) \/ TakesResponse(n)
    PROVE Routes'
<1> DEFINE h == Head(down[n])
           s == preg[n]
<1>1. PICK kind : Takes(n, kind)
    BY DEF TakesAdd, TakesRemove, TakesUpdate, TakesResponse
<1>2. /\ FewerItems(down[n], down'[n]) /\ UNCHANGED handler /\ s \in Seq(Listed(MadeIds))
      /\ reader'[n] = reader[n] /\ status'[n] = status[n]
    BY <1>1, HeadOfQueue DEF Takes, Reads, ReaderKeeps, rcVars, DInv, DTypeOK
<1>3. EarlyAt(n) /\ AddedIds(down'[n]) \subseteq AddedIds(down[n])
    BY <1>2 DEF Routes, EarlyOnce, EarlyAt, FewerItems
<1>4. ASSUME IdsOf(preg'[n]) \subseteq IdsOf(s), IdsOnce(s) => IdsOnce(preg'[n])
      PROVE EarlyAt(n)'
    BY <1>2, <1>3, <1>4 DEF EarlyAt
<1> HIDE DEF s, h
<1>5. CASE TakesAdd(n)
    <2> DEFINE e == h.entry
    <2>1. /\ e \in Listed(MadeIds) /\ ~e.endpoint /\ h.kind = "proxy-add" /\ h = Head(down[n])
          /\ down[n] # <<>> /\ down'[n] = Tail(down[n])
          /\ SameNames(WithEntry(s, e), preg'[n])
        BY <1>5 DEF TakesAdd, Takes, Listed, Foreign, h, s
    <2>2. e.id \in AddedIds(down[n])
        BY <2>1, HeadOfQueue DEF h
    <2> HIDE DEF e
    <2> DEFINE t == WithEntry(s, e)
    <2>3. /\ ForeignIds(t) \subseteq ForeignIds(s) \cup {e.id}
          /\ IdsOf(t) \subseteq IdsOf(s) \cup {e.id}
          /\ IdsOnce(s) /\ e.id \notin IdsOf(s) => IdsOnce(t)
        BY <1>2, <2>1, WithEntryEntries
    <2> HIDE DEF t
    <2>4. /\ ForeignIds(preg'[n]) = ForeignIds(t) /\ IdsOf(preg'[n]) = IdsOf(t)
          /\ IdsOnce(t) => IdsOnce(preg'[n])
        BY <2>1, RenamedEntries, SameNamesIs DEF t
    <2>5. ForeignIds(preg'[n]) \subseteq Seen(n)
        BY <2>2, <2>3, <2>4 DEF Seen, s
    <2>6. e.id \notin AddedIds(down'[n])
        <3>1. down[n] \in Seq(MessagesOf(MadeIds)) /\ AddsOnce(down[n])
            BY DEF DInv, DTypeOK, Routes, AnnouncedOnce
        <3> QED BY <2>1, <3>1, FewerInTail DEF e
    <2>7. \A m \in Nodes : e.id \notin ToAdd(handler[m])
        BY <2>2 DEF Routes, AnnouncedOnce
    <2>8. EarlyAt(n)'
        <3>1. SUFFICES ASSUME status[n] \in {"none", "initializing"}, reader[n] = IdleReader
                       PROVE /\ IdsOnce(preg'[n])
                             /\ IdsOf(preg'[n]) \cap AddedIds(down'[n]) = {}
                             /\ \A m \in Nodes : IdsOf(preg'[n]) \cap ToAdd(handler[m]) = {}
            BY <1>2 DEF EarlyAt
        <3>2. /\ IdsOnce(s) /\ IdsOf(s) \cap AddedIds(down[n]) = {}
              /\ \A m \in Nodes : IdsOf(s) \cap ToAdd(handler[m]) = {}
            BY <1>3, <3>1 DEF EarlyAt, s
        <3>3. IdsOnce(preg'[n])
            BY <2>2, <2>3, <2>4, <3>2
        <3>4. IdsOf(preg'[n]) \subseteq IdsOf(s) \cup {e.id}
            BY <2>3, <2>4
        <3> QED BY <1>3, <2>6, <2>7, <3>2, <3>3, <3>4
    <2> QED BY <1>1, <2>5, <2>8, RoutesTaken
<1>6. CASE TakesRemove(n)
    <2> DEFINE t == registry_delete(s, h.id)
    <2>1. preg'[n] = t
        BY <1>6 DEF TakesRemove, s, h
    <2>2. IdsOf(t) \subseteq IdsOf(s) /\ (IdsOnce(s) => IdsOnce(t))
        BY <1>2, DeleteIs
    <2>3. ForeignIds(t) \subseteq ForeignIds(s)
        <3>1. CASE h.id \in IdsOf(s)
            <4>1. \A i : Entries(t, i) \subseteq Entries(s, i)
                BY <1>2, <3>1, DeleteEntries
            <4>2. \A i \in ForeignIds(t) : i \in ForeignIds(s)
                BY <4>1, EntriesAre
            <4> QED BY <4>2
        <3>2. CASE h.id \notin IdsOf(s)
            BY <3>2 DEF registry_delete
        <3> QED BY <3>1, <3>2
    <2> HIDE DEF t
    <2>4. EarlyAt(n)' /\ ForeignIds(preg'[n]) \subseteq Seen(n)
        BY <1>4, <2>1, <2>2, <2>3 DEF Seen, s
    <2> QED BY <1>1, <2>4, RoutesTaken
<1>7. CASE TakesUpdate(n)
    <2>1. SameNames(s, preg'[n])
        BY <1>2, <1>7, UpdateEntries DEF TakesUpdate, s
    <2>2. /\ ForeignIds(preg'[n]) = ForeignIds(s) /\ IdsOf(preg'[n]) = IdsOf(s)
          /\ IdsOnce(s) => IdsOnce(preg'[n])
        BY <2>1, RenamedEntries, SameNamesIs
    <2>3. EarlyAt(n)' /\ ForeignIds(preg'[n]) \subseteq Seen(n)
        BY <1>4, <2>2 DEF Seen, s
    <2> QED BY <1>1, <2>3, RoutesTaken
<1>8. CASE TakesResponse(n)
    <2>1. preg'[n] = s
        BY <1>8 DEF TakesResponse, s
    <2>2. EarlyAt(n)' /\ ForeignIds(preg'[n]) \subseteq Seen(n)
        BY <1>4, <2>1 DEF Seen, s
    <2> QED BY <1>1, <2>2, RoutesTaken
<1> QED BY <1>5, <1>6, <1>7, <1>8

LEMMA RoutesList ==
    ASSUME DInv, AllGenuine, FollowsInv, Routes, NEW n \in Nodes, Reads(n), TakesList(n)
    PROVE Routes'
<1> DEFINE h == Head(down[n])
<1>1. /\ FewerItems(down[n], down'[n]) /\ UNCHANGED handler
      /\ h \in Items(down[n]) /\ h.kind = "list" /\ IdsOf(h.list) \subseteq ListIds(down[n])
      /\ reader'[n] = [pc |-> "insert", todo |-> h.list, list |-> h.list]
      /\ preg'[n] = preg[n] /\ reader[n] = IdleReader
    BY HeadOfQueue DEF TakesList, Reads, ReaderKeeps, rcVars
<1> HIDE DEF h
<1>2. /\ reader'[n] # IdleReader /\ reader'[n].todo = h.list /\ reader'[n].list = h.list
    BY <1>1 DEF IdleReader
<1>3. CopyIds(n)' \cup ForeignIds(preg'[n]) \subseteq Seen(n)
    BY <1>1, <1>2 DEF CopyIds, Seen, FewerItems
<1>4. ProcessMoves
    BY <1>1, <1>3, ReadsMoves
<1>5. EarlyAt(n)'
    BY <1>2 DEF EarlyAt
<1>6. h \in OfKind(down[n], "list")
    BY <1>1 DEF OfKind
<1>7. EarlyOnce' /\ CopiesOnce'
    BY <1>1, <1>2, <1>5, <1>6, ReadsOnce DEF FewerItems, Routes, CopiesOnce
<1> QED BY <1>4, <1>7, RoutesMoved

LEMMA RoutesMerges ==
    ASSUME DInv, AllGenuine, FollowsInv, Routes, NEW n \in Nodes, Reads(n), Merges(n)
    PROVE Routes'
<1> DEFINE r == reader[n]
           s == preg[n]
<1>1. /\ down'[n] = down[n] /\ UNCHANGED handler /\ s \in Seq(Listed(MadeIds))
      /\ r \in ReadersOf(MadeIds) /\ r # IdleReader /\ OwnIds(s) = {}
    BY DEF Merges, Reads, ReaderKeeps, rcVars, DInv, DTypeOK, ListedOnce, ListedOnceAt
<1>2. IdsOf(r.todo) \cup IdsOf(r.list) \cup ForeignIds(s) \subseteq Seen(n) /\ IdsOnce(r.list)
    BY <1>1 DEF Seen, CopyIds, Routes, CopiesOnce
<1>3. ASSUME \/ reader'[n] = IdleReader /\ status'[n] = "ready"
             \/ reader'[n].list = r.list /\ reader'[n] # IdleReader
                    /\ IdsOf(reader'[n].todo) \subseteq Seen(n),
             ForeignIds(preg'[n]) \subseteq Seen(n)
      PROVE Routes'
    <2>1. FewerItems(down[n], down'[n])
        BY <1>1, SameQueue
    <2>2. CopyIds(n)' \cup ForeignIds(preg'[n]) \subseteq Seen(n)
        BY <1>1, <1>2, <1>3 DEF CopyIds, Seen
    <2>3. ProcessMoves
        BY <2>1, <2>2, ReadsMoves
    <2>4. EarlyAt(n)'
        BY <1>3 DEF EarlyAt
    <2>5. EarlyOnce' /\ CopiesOnce'
        BY <1>1, <1>2, <1>3, <2>4, ReadsOnce DEF Routes, CopiesOnce
    <2> QED BY <2>3, <2>5, RoutesMoved
<1>4. ASSUME NEW pc, NEW t, reader'[n] = [pc |-> pc, todo |-> t, list |-> r.list],
             IdsOf(t) \subseteq Seen(n), pc # "idle"
      PROVE /\ reader'[n].list = r.list /\ reader'[n] # IdleReader
            /\ IdsOf(reader'[n].todo) \subseteq Seen(n)
    BY <1>4 DEF IdleReader
<1> HIDE DEF r, s
<1>5. CASE /\ r.pc = "insert" /\ r.todo # <<>> /\ preg'[n] = WithEntry(s, Head(r.todo))
           /\ reader'[n] = [pc |-> "insert", todo |-> Tail(r.todo), list |-> r.list]
    <2> DEFINE e == Head(r.todo)
               q == r.todo
    <2>1. q \in Seq(Foreign(MadeIds)) /\ q # <<>>
        BY <1>1, <1>5, ReaderKinds
    <2> HIDE DEF q
    <2>2. Items(q) = {Head(q)} \cup Items(Tail(q)) /\ Head(q) \in Foreign(MadeIds)
        BY <2>1, ItemsOfTail
    <2>3. IdsOf(Tail(q)) \cup {Head(q).id} \subseteq IdsOf(q)
        <3>1. \A i : i \in IdsOf(Tail(q)) \/ i = Head(q).id => i \in IdsOf(q)
            BY <2>2, EntriesAre
        <3> QED BY <3>1
    <2>4. e \in Listed(MadeIds) /\ ~e.endpoint /\ e.id \in Seen(n)
        BY <1>2, <2>2, <2>3 DEF q, Foreign, Listed
    <2> HIDE DEF e
    <2>5. ForeignIds(WithEntry(s, e)) \subseteq ForeignIds(s) \cup {e.id}
        BY <1>1, <2>4, WithEntryEntries
    <2>6. ForeignIds(preg'[n]) \subseteq Seen(n)
        BY <1>2, <1>5, <2>4, <2>5 DEF e
    <2>7. IdsOf(Tail(r.todo)) \subseteq Seen(n)
        BY <1>2, <2>3 DEF q
    <2> QED BY <1>3, <1>4, <1>5, <2>6, <2>7
<1>6. CASE /\ preg'[n] = s
           /\ reader'[n] = [pc |-> "prune", todo |-> s, list |-> r.list]
    <2>1. IdsOf(s) \subseteq ForeignIds(s)
        <3>1. \A i \in IdsOf(s) : i \in ForeignIds(s)
            BY <1>1, EntriesAre
        <3> QED BY <3>1
    <2> QED BY <1>2, <1>3, <1>4, <1>6, <2>1
<1>7. CASE /\ r.pc = "prune" /\ r.todo # <<>>
           /\ preg'[n] = registry_delete(s, Last(r.todo).id) \/ preg'[n] = s
           /\ reader'[n] = [pc |-> "prune", todo |-> Front(r.todo), list |-> r.list]
    <2> DEFINE q == r.todo
               id == Last(q).id
    <2>1. q \in Seq(Listed(MadeIds)) /\ q # <<>>
        BY <1>1, <1>7, ReaderKinds
    <2> HIDE DEF q
    <2>2. IdsOf(Front(q)) \subseteq IdsOf(q)
        <3>1. Items(Front(q)) \subseteq Items(q)
            BY <2>1, ItemsOfFront
        <3>2. \A i \in IdsOf(Front(q)) : i \in IdsOf(q)
            BY <3>1, EntriesAre
        <3> QED BY <3>2
    <2> HIDE DEF id
    <2>3. ForeignIds(registry_delete(s, id)) \subseteq ForeignIds(s)
        <3>1. Items(registry_delete(s, id)) \subseteq Items(s)
            BY <1>1, ItemsOfDelete
        <3> QED BY <3>1 DEF ForeignIds
    <2>4. ForeignIds(preg'[n]) \subseteq Seen(n)
        BY <1>2, <1>7, <2>3 DEF q, id
    <2>5. IdsOf(Front(r.todo)) \subseteq Seen(n)
        BY <1>2, <2>2 DEF q
    <2> QED BY <1>3, <1>4, <1>7, <2>4, <2>5
<1>8. CASE preg'[n] = s /\ reader'[n] = IdleReader /\ status'[n] = "ready"
    BY <1>2, <1>3, <1>8
<1> QED BY <1>5, <1>6, <1>7, <1>8 DEF Merges, r, s

LEMMA RoutesReader ==
    ASSUME DInv, AllGenuine, FollowsInv, Routes, NEW n \in Nodes, ReaderStep(n)
    PROVE Routes'
<1>1. Reads(n)
    BY ReaderReads
<1> QED BY <1>1, RoutesMessages, RoutesList, RoutesMerges DEF Reads

-----------------------------------------------------------------------------
(* The steps of the handlers of the registry                               *)

LEMMA ResponseAdded ==
    ASSUME NEW S, NEW q \in Seq(S), NEW r \in S, r.kind = "response"
    PROVE FewerItems(q, Append(q, r)) /\ FewerItems(Append(q, r), q)
<1> DEFINE t == Append(q, r)
<1>1. /\ Items(t) = Items(q) \cup {r}
      /\ AddsOnce(q) => AddsOnce(t)
      /\ InOrder(q) => InOrder(t)
      /\ \A id : UpdatesBehind(q, id) => UpdatesBehind(t, id)
    BY OneMoreItem
<1>2. FewerItems(t, q)
    <2>1. /\ Len(t) = Len(q) + 1 /\ Len(q) \in Nat /\ \A i \in 1..Len(q) : t[i] = q[i]
        OBVIOUS
    <2> HIDE DEF t
    <2>2. \A i \in 1..Len(q) : i + 0 = i /\ i \in 1..Len(t)
        BY <2>1
    <2>3. ShiftedBy(t, q, 0)
        BY <2>1, <2>2 DEF ShiftedBy
    <2> QED BY <2>3, ShiftedIsFewer
<1> HIDE DEF t
<1>3. /\ AddedIds(t) \subseteq AddedIds(q) /\ UpdatedIds(t) \subseteq UpdatedIds(q)
      /\ UpdIds(t) \subseteq UpdIds(q) /\ RemovedIds(t) \subseteq RemovedIds(q)
      /\ UnregIds(t) \subseteq UnregIds(q)
    BY <1>1, KindsOfItems
<1>4. OfKind(t, "list") \subseteq OfKind(q, "list")
    BY <1>1 DEF OfKind
<1>5. ListIds(t) \subseteq ListIds(q)
    BY <1>4 DEF ListIds
<1> QED BY <1>1, <1>2, <1>3, <1>4, <1>5 DEF FewerItems, t

(* A handler takes a request and becomes h.                                *)
Handles(n, h) ==
    /\ TakesRequest(n) /\ handler'[n] = h /\ h.pc # "none"
    /\ \A m \in Nodes \ {n} : handler'[m] = handler[m]
    /\ \A m \in Nodes : down'[m] = down[m]
                        \/ \E r \in MessagesOf(MadeIds) : /\ r.kind = "response"
                                                          /\ down'[m] = Append(down[m], r)

HandlesRegister(n, h) ==
    /\ Handles(n, h) /\ Head(up[n]).kind = "register" /\ h.pc = "announce" /\ h.exclude = {}
    /\ \E e \in Foreign(MadeIds) :
            /\ e = Head(up[n]).entry
            /\ h.event = [kind |-> "proxy-add", entry |-> e]
            /\ central' = registry_insert(central, e)

HandlesUnregister(n, h) ==
    /\ Handles(n, h) /\ Head(up[n]).kind = "unregister"
    /\ central' = registry_delete(central, Head(up[n]).id)
    /\ \/ /\ Head(up[n]).id \in IdsOf(central) /\ h.pc = "announce" /\ h.exclude = {}
          /\ h.event = [kind |-> "proxy-remove", id |-> Head(up[n]).id]
       \/ Head(up[n]).id \notin IdsOf(central) /\ h = Idle

HandlesUpdate(n, h) ==
    /\ Handles(n, h) /\ Head(up[n]).kind = "update-address" /\ Head(up[n]).addr \in Addrs
    /\ central' = registry_update_addr(central, Head(up[n]).id, Head(up[n]).addr)
    /\ h.pc = "announce" /\ h.exclude = {n}
    /\ h.event = [kind |-> "proxy-update-address", id |-> Head(up[n]).id,
                  addr |-> Head(up[n]).addr]

HandlesList(n, h) == /\ Handles(n, h) /\ Head(up[n]).kind = "list" /\ central' = central
                     /\ h = [pc |-> "list", list |-> central]

HandlesOne(n, h) == \/ HandlesRegister(n, h) \/ HandlesUnregister(n, h)
                    \/ HandlesUpdate(n, h) \/ HandlesList(n, h)

LEMMA EncodeForeign ==
    ASSUME NEW M
    PROVE /\ \A e \in Foreign(M) : registry_entry_encode(e) = e
          /\ \A s \in Seq(Foreign(M)) : registry_entry_encode_list(s) = s
<1>1. ASSUME NEW e \in Foreign(M) PROVE registry_entry_encode(e) = e
    BY DEF Foreign, Entry, registry_entry_encode
<1>2. ASSUME NEW s \in Seq(Foreign(M)) PROVE registry_entry_encode_list(s) = s
    <2>1. \A i \in 1..Len(s) : registry_entry_encode(s[i]) = s[i]
        BY <1>1, ElementOfSeq
    <2>2. registry_entry_encode_list(s) = [i \in 1..Len(s) |-> s[i]]
        BY <2>1 DEF registry_entry_encode_list
    <2> QED BY <2>2
<1> QED BY <1>1, <1>2

LEMMA HandlesIs ==
    ASSUME DInv, NEW n \in Nodes, UNCHANGED <<proxyVars, raced>>,
           \/ rcregistry_register(n) \/ rcregistry_unregister(n)
           \/ rcregistry_update_address(n) \/ rcregistry_select_list(n)
    PROVE \E h : HandlesOne(n, h)
<1> DEFINE x == Head(up[n])
           h == handler'[n]
<1>1. TakesRequest(n) /\ x \in RequestsOf(MadeIds) /\ handler[n] = Idle
    <2>1. TakesRequest(n)
        BY DEF rcregistry_register, rcregistry_unregister, rcregistry_update_address,
               rcregistry_select_list, HasRequest, TakesRequest
    <2> QED BY <2>1, RequestIs DEF TakesRequest
<1>2. handler \in [Nodes -> HandlersOf(MadeIds)] /\ central \in Seq(Foreign(MadeIds))
    BY DEF DInv, DTypeOK
<1>3. ASSUME NEW g, handler' = [handler EXCEPT ![n] = g], g.pc # "none", down' = down
      PROVE Handles(n, g) /\ h = g
    BY <1>1, <1>2, <1>3 DEF Handles
<1>4. CASE rcregistry_register(n)
    <2> DEFINE e == x.entry
               g == [pc |-> "announce", response |-> "register", event |-> AddEvent(e),
                     exclude |-> {}]
    <2>1. /\ x.kind = "register" /\ central' = registry_insert(central, e)
          /\ handler' = [handler EXCEPT ![n] = g] /\ down' = down /\ g.pc # "none"
        BY <1>4 DEF rcregistry_register, HasRequest, Announce
    <2>2. e \in Foreign(MadeIds)
        BY <1>1, <2>1, RequestKinds
    <2>3. AddEvent(e) = [kind |-> "proxy-add", entry |-> e]
        BY <2>2, EncodeForeign DEF AddEvent
    <2>4. Handles(n, g)
        <3> HIDE DEF g
        <3> QED BY <1>3, <2>1
    <2>5. HandlesRegister(n, g)
        BY <2>1, <2>2, <2>3, <2>4 DEF HandlesRegister
    <2> QED BY <2>5 DEF HandlesOne
<1>5. CASE rcregistry_unregister(n)
    <2> DEFINE g == [pc |-> "announce", response |-> "unregister",
                     event |-> RemoveEvent(x.id), exclude |-> {}]
    <2>1. x.kind = "unregister" /\ central' = registry_delete(central, x.id)
        BY <1>5 DEF rcregistry_unregister, HasRequest
    <2>2. CASE x.id \in IdsOf(central)
        <3>1. handler' = [handler EXCEPT ![n] = g] /\ down' = down /\ g.pc # "none"
            BY <1>5, <2>2 DEF rcregistry_unregister, Announce
        <3>2. Handles(n, g)
            <4> HIDE DEF g
            <4> QED BY <1>3, <3>1
        <3>3. HandlesUnregister(n, g)
            BY <2>1, <2>2, <3>2 DEF HandlesUnregister, RemoveEvent
        <3> QED BY <3>3 DEF HandlesOne
    <2>3. CASE x.id \notin IdsOf(central)
        <3> DEFINE r == Response("unregister", FALSE)
        <3>1. handler' = handler /\ down' = SendTo({n}, r)
            BY <1>5, <2>3 DEF rcregistry_unregister
        <3>2. r \in MessagesOf(MadeIds) /\ r.kind = "response"
            BY DEF Response, MessagesOf
        <3> HIDE DEF r
        <3>3. \A m \in Nodes : down'[m] = down[m] \/ down'[m] = Append(down[m], r)
            BY <3>1, <3>2, SendToIs DEF DInv
        <3>4. handler'[n] = Idle /\ Idle.pc # "none"
            BY <1>1, <3>1 DEF Idle
        <3>5. Handles(n, Idle)
            BY <1>1, <3>1, <3>2, <3>3, <3>4 DEF Handles
        <3>6. HandlesUnregister(n, Idle)
            BY <2>1, <2>3, <3>5 DEF HandlesUnregister
        <3> QED BY <3>6 DEF HandlesOne
    <2> QED BY <2>2, <2>3
<1>6. CASE rcregistry_update_address(n)
    <2> DEFINE g == [pc |-> "announce", response |-> "update-address",
                     event |-> UpdateAddressEvent(x.id, x.addr), exclude |-> {n}]
    <2>1. /\ x.kind = "update-address"
          /\ central' = registry_update_addr(central, x.id, x.addr)
          /\ handler' = [handler EXCEPT ![n] = g] /\ down' = down /\ g.pc # "none"
        BY <1>6 DEF rcregistry_update_address, HasRequest, Announce
    <2>2. x.addr \in Addrs
        BY <1>1, <2>1, RequestKinds
    <2>3. Handles(n, g)
        <3> HIDE DEF g
        <3> QED BY <1>3, <2>1
    <2>4. HandlesUpdate(n, g)
        BY <2>1, <2>2, <2>3 DEF HandlesUpdate, UpdateAddressEvent
    <2> QED BY <2>4 DEF HandlesOne
<1>7. CASE rcregistry_select_list(n)
    <2> DEFINE g == [pc |-> "list", list |-> central]
    <2>1. /\ x.kind = "list" /\ central' = central
          /\ handler' = [handler EXCEPT ![n] = g] /\ down' = down /\ g.pc # "none"
        BY <1>2, <1>7, EncodeForeign DEF rcregistry_select_list, HasRequest
    <2>2. Handles(n, g)
        <3> HIDE DEF g
        <3> QED BY <1>3, <2>1
    <2>3. HandlesList(n, g)
        BY <2>1, <2>2 DEF HandlesList
    <2> QED BY <2>3 DEF HandlesOne
<1> QED BY <1>4, <1>5, <1>6, <1>7

(* What it does to the ids                                                 *)
Effect(n, h) ==
    /\ UNCHANGED <<conn, links, proxyVars, raced>> /\ handler[n] = Idle
    /\ handler'[n] = h /\ \A m \in Nodes \ {n} : handler'[m] = handler[m] /\ up'[m] = up[m]
    /\ h.pc \in {"idle", "announce", "list"}
    /\ h.pc = "announce" /\ h.event.kind # "proxy-update-address" => h.exclude = {}
    /\ \A m \in Nodes : /\ Unsent(m)' \subseteq Unsent(m)
                        /\ UpdIds(up'[m]) \subseteq UpdIds(up[m])
                        /\ UnregIds(up'[m]) \subseteq UnregIds(up[m])
                        /\ ToAdd(h) \cap Unsent(m)' = {} /\ ToRemove(h) \cap Unsent(m)' = {}
                        /\ UnregIds(up[m]) \cap IdsOf(central') \subseteq UnregIds(up'[m])
    /\ ToAdd(h) \subseteq RegIds(up[n]) /\ ToUpdate(h) \subseteq UpdIds(up[n])
    /\ ToRemove(h) \cap IdsOf(central') = {}
    /\ IdsOf(central') \subseteq IdsOf(central) \cup ToAdd(h)
    /\ IdsOf(central) \subseteq IdsOf(central') \cup ToRemove(h)
    /\ h.pc = "list" => h.list = central /\ central' = central
    /\ h.pc # "list" => Lists(up[n]) = {}
    /\ Adds(h) => \E e \in Items(central') : /\ e.id = h.event.entry.id
                                            /\ entry_equals(e, h.event.entry)
    /\ \A m \in Nodes \ {n} : \A id \in ToAdd(handler[m]) :
            Entries(central, id) \subseteq Entries(central', id)

LEMMA CentralEntries ==
    ASSUME DInv, NEW id
    PROVE /\ Entries(central, id) = {e \in Items(central) : e.id = id}
          /\ id \in IdsOf(central) <=> Entries(central, id) # {}
          /\ AtMostOne(Of(central, id))
<1>1. central \in Seq(Foreign(MadeIds)) /\ IdsOnce(central)
    BY DEF DInv, DTypeOK, RegisteredOnce
<1>2. \A e \in Items(central) : ~e.endpoint
    BY <1>1, ItemsOfSeq DEF Foreign
<1>3. Entries(central, id) = {e \in Items(central) : e.id = id}
    BY <1>2 DEF Entries
<1>4. AtMostOne(Of(central, id))
    BY <1>1 DEF AtMostOne, Of, IdsOnce
<1> QED BY <1>3, <1>4, EntriesAre

(* The part that is common to the handlers                                 *)
LEMMA EffectUp ==
    ASSUME DInv, FollowsInv, NEW n \in Nodes, NEW h, Handles(n, h)
    PROVE /\ UNCHANGED <<conn, links, proxyVars, raced>> /\ handler[n] = Idle /\ handler'[n] = h
          /\ \A m \in Nodes \ {n} : handler'[m] = handler[m] /\ up'[m] = up[m]
          /\ \A m \in Nodes : /\ Unsent(m)' \subseteq Unsent(m) /\ Pending(m)' = Pending(m)
                              /\ RegIds(up'[m]) \subseteq RegIds(up[m])
                              /\ UpdIds(up'[m]) \subseteq UpdIds(up[m])
                              /\ UnregIds(up'[m]) \subseteq UnregIds(up[m])
          /\ UnregIds(up[n]) = UnregIds(up'[n])
                \cup (IF Head(up[n]).kind = "unregister" THEN {Head(up[n]).id} ELSE {})
          /\ Head(up[n]).kind = "update-address" => Head(up[n]).id \in UpdIds(up[n])
          /\ Head(up[n]).kind # "list" => Lists(up[n]) = {}
<1> DEFINE q == up[n]
<1>1. TakesRequest(n)
    BY DEF Handles
<1>2. q \in Seq(RequestsOf(MadeIds)) /\ q # <<>> /\ up'[n] = Tail(q)
    BY <1>1 DEF TakesRequest, DInv, DTypeOK
<1>3. /\ \A m \in Nodes \ {n} : up'[m] = up[m]
      /\ \A m \in Nodes : Pending(m)' = Pending(m)
      /\ RegIds(up'[n]) \subseteq RegIds(q) /\ UnregIds(up'[n]) \subseteq UnregIds(q)
      /\ UnregIds(q) = UnregIds(up'[n])
            \cup (IF Head(q).kind = "unregister" THEN {Head(q).id} ELSE {})
    BY <1>1, FollowsRequest
<1> HIDE DEF q
<1>4. Items(q) = {Head(q)} \cup Items(Tail(q))
    BY <1>2, ItemsOfTail
<1>5. UpdIds(Tail(q)) \subseteq UpdIds(q) /\ (Head(q).kind = "update-address" => Head(q).id \in UpdIds(q))
    BY <1>4, KindsOfItems
<1>6. \A m \in Nodes : RegIds(up'[m]) \subseteq RegIds(up[m])
    BY <1>3 DEF q
<1>7. Head(q).kind # "list" => Lists(q) = {}
    <2>1. Lists(q) # {} => Len(q) = 1
        BY DEF q, DInv, ListedOnce, ListedOnceAt
    <2>2. Len(q) = 1 => Head(q) = q[1]
        BY <1>2
    <2> QED BY <2>1, <2>2 DEF Lists
<1> QED BY <1>1, <1>2, <1>3, <1>5, <1>6, <1>7 DEF q, Handles, TakesRequest, Unsent

LEMMA EffectRegister ==
    ASSUME DInv, AllGenuine, FollowsInv, Routes, NEW n \in Nodes, NEW h, HandlesRegister(n, h)
    PROVE Effect(n, h)
<1> DEFINE x == Head(up[n])
<1>1. PICK e \in Foreign(MadeIds) : /\ e = x.entry
                                    /\ h.event = [kind |-> "proxy-add", entry |-> e]
                                    /\ central' = registry_insert(central, e)
    BY DEF HandlesRegister
<1>2. /\ Handles(n, h) /\ x.kind = "register" /\ h.pc = "announce" /\ h.exclude = {}
      /\ TakesRequest(n)
    BY DEF HandlesRegister, Handles
<1>3. /\ h.event.kind = "proxy-add" /\ h.event.entry = e /\ ToAdd(h) = {e.id}
      /\ ToRemove(h) = {} /\ ToUpdate(h) = {}
    BY <1>1, <1>2 DEF ToAdd, Adds, ToRemove, ToUpdate
<1>4. e.id \in RegIds(up[n]) /\ e.id \notin RegIds(up'[n])
    BY <1>1, <1>2, RequestIs
<1>5. /\ \A m \in Nodes : Pending(m)' = Pending(m)
      /\ \A m \in Nodes \ {n} : up'[m] = up[m]
    BY <1>2, EffectUp
<1>6. \A m \in Nodes : e.id \notin Unsent(m)'
    <2>1. \A m \in Nodes : e.id \notin Pending(m)
        BY <1>4 DEF DInv, RegisteredOnce
    <2>2. \A m \in Nodes \ {n} : e.id \notin RegIds(up[m])
        BY <1>4 DEF DInv, RegisteredOnce
    <2>3. \A m \in Nodes : e.id \notin RegIds(up'[m])
        BY <1>4, <1>5, <2>2
    <2> QED BY <1>5, <2>1, <2>3 DEF Unsent
<1>7. central \in Seq(Foreign(MadeIds))
    BY DEF DInv, DTypeOK
<1>8. /\ IdsOf(central') = IdsOf(central) \cup {e.id}
      /\ \A i : Entries(central, i) \subseteq Entries(central', i)
      /\ Items(central') = Items(central) \cup {e}
    BY <1>1, <1>7, InsertIs, InsertEntries, ItemsOfAppend DEF registry_insert
<1>9. entry_equals(e, e)
    BY DEF entry_equals
<1>10. Adds(h) => \E f \in Items(central') : f.id = h.event.entry.id /\ entry_equals(f, h.event.entry)
    BY <1>3, <1>8, <1>9
<1>11. /\ UNCHANGED <<conn, links, proxyVars, raced>> /\ handler[n] = Idle /\ handler'[n] = h
       /\ \A m \in Nodes \ {n} : handler'[m] = handler[m] /\ up'[m] = up[m]
       /\ \A m \in Nodes : /\ Unsent(m)' \subseteq Unsent(m)
                           /\ UpdIds(up'[m]) \subseteq UpdIds(up[m])
                           /\ UnregIds(up'[m]) \subseteq UnregIds(up[m])
       /\ UnregIds(up[n]) = UnregIds(up'[n]) /\ Lists(up[n]) = {}
    BY <1>2, EffectUp
<1>12. h.pc # "list" /\ h.pc \in {"idle", "announce", "list"}
    BY <1>2
<1>13. \A m \in Nodes : /\ ToAdd(h) \cap Unsent(m)' = {} /\ ToRemove(h) \cap Unsent(m)' = {}
                        /\ UnregIds(up[m]) \cap IdsOf(central') \subseteq UnregIds(up'[m])
    BY <1>3, <1>6, <1>11
<1> QED BY <1>2, <1>3, <1>4, <1>8, <1>10, <1>11, <1>12, <1>13 DEF Effect

LEMMA EffectUnregister ==
    ASSUME DInv, AllGenuine, FollowsInv, Routes, NEW n \in Nodes, NEW h, HandlesUnregister(n, h)
    PROVE Effect(n, h)
<1> DEFINE x == Head(up[n])
           id == x.id
<1>1. /\ Handles(n, h) /\ x.kind = "unregister" /\ central' = registry_delete(central, id)
      /\ TakesRequest(n)
      /\ \/ /\ id \in IdsOf(central) /\ h.pc = "announce" /\ h.exclude = {}
            /\ h.event = [kind |-> "proxy-remove", id |-> id]
         \/ id \notin IdsOf(central) /\ h = Idle
    BY DEF HandlesUnregister, Handles
<1>2. /\ UNCHANGED <<conn, links, proxyVars, raced>> /\ handler[n] = Idle /\ handler'[n] = h
      /\ \A m \in Nodes \ {n} : handler'[m] = handler[m] /\ up'[m] = up[m]
      /\ \A m \in Nodes : /\ Unsent(m)' \subseteq Unsent(m) /\ Pending(m)' = Pending(m)
                          /\ RegIds(up'[m]) \subseteq RegIds(up[m])
                          /\ UpdIds(up'[m]) \subseteq UpdIds(up[m])
                          /\ UnregIds(up'[m]) \subseteq UnregIds(up[m])
      /\ UnregIds(up[n]) = UnregIds(up'[n]) \cup {id} /\ Lists(up[n]) = {}
    BY <1>1, EffectUp
<1>3. \A m \in Nodes : id \notin RegIds(up[m])
    BY <1>1, FollowsRequest
<1>4. central \in Seq(Foreign(MadeIds)) /\ IdsOnce(central)
    BY DEF DInv, DTypeOK, RegisteredOnce
<1> HIDE DEF id
<1>5. /\ IdsOf(central') \subseteq IdsOf(central) /\ id \notin IdsOf(central')
      /\ IdsOf(central) \subseteq IdsOf(central') \cup {id}
      /\ \A i : i # id => Entries(central, i) \subseteq Entries(central', i)
    <2>1. /\ IdsOf(central') \subseteq IdsOf(central) /\ id \notin IdsOf(central')
          /\ IdsOf(central) \subseteq IdsOf(central') \cup {id}
        BY <1>1, <1>4, DeleteIs DEF id
    <2>2. CASE id \in IdsOf(central)
        BY <1>1, <1>4, <2>1, <2>2, DeleteEntries DEF id
    <2>3. CASE id \notin IdsOf(central)
        <3>1. central' = central
            BY <1>1, <2>3 DEF id, registry_delete
        <3> QED BY <2>1, <3>1
    <2> QED BY <2>2, <2>3
<1>6. /\ ToAdd(h) = {} /\ ~Adds(h) /\ ToUpdate(h) = {} /\ h.pc \in {"idle", "announce"}
      /\ \/ ToRemove(h) = {} /\ id \notin IdsOf(central)
         \/ ToRemove(h) = {id} /\ id \in IdsOf(central)
      /\ h.pc = "announce" => h.exclude = {}
    <2>1. CASE h = Idle /\ id \notin IdsOf(central)
        <3>1. h.pc = "idle"
            BY <2>1 DEF Idle
        <3> QED BY <2>1, <3>1 DEF ToAdd, Adds, ToUpdate, ToRemove
    <2>2. CASE /\ id \in IdsOf(central) /\ h.pc = "announce" /\ h.exclude = {}
               /\ h.event = [kind |-> "proxy-remove", id |-> id]
        <3>1. h.event.kind = "proxy-remove" /\ h.event.id = id
            BY <2>2
        <3> QED BY <2>2, <3>1 DEF ToAdd, Adds, ToUpdate, ToRemove
    <2> QED BY <1>1, <2>1, <2>2 DEF id
<1>7. IdsOf(central) \subseteq IdsOf(central') \cup ToRemove(h) /\ ToRemove(h) \cap IdsOf(central') = {}
    BY <1>5, <1>6
<1>8. ASSUME NEW m \in Nodes
      PROVE /\ ToAdd(h) \cap Unsent(m)' = {} /\ ToRemove(h) \cap Unsent(m)' = {}
            /\ UnregIds(up[m]) \cap IdsOf(central') \subseteq UnregIds(up'[m])
    <2>1. ToRemove(h) \cap Unsent(m)' = {}
        <3>1. CASE ToRemove(h) = {}
            BY <3>1
        <3>2. CASE ToRemove(h) = {id} /\ id \in IdsOf(central)
            <4>1. id \notin Pending(m)
                BY <3>2 DEF DInv, RegisteredOnce
            <4>2. id \notin RegIds(up'[m])
                BY <1>2, <1>3
            <4> QED BY <1>2, <3>2, <4>1, <4>2 DEF Unsent
        <3> QED BY <1>6, <3>1, <3>2
    <2> QED BY <1>2, <1>5, <1>6, <2>1
<1>9. \A m \in Nodes \ {n} : \A i \in ToAdd(handler[m]) : Entries(central, i) \subseteq Entries(central', i)
    <2>1. \A m \in Nodes \ {n} : id \notin ToAdd(handler[m])
        BY <1>2 DEF Routes, ByOwner
    <2> QED BY <1>5, <2>1
<1> QED BY <1>2, <1>5, <1>6, <1>7, <1>8, <1>9 DEF Effect

LEMMA EffectUpdate ==
    ASSUME DInv, AllGenuine, FollowsInv, Routes, NEW n \in Nodes, NEW h, HandlesUpdate(n, h)
    PROVE Effect(n, h)
<1> DEFINE x == Head(up[n])
           id == x.id
           a == x.addr
<1>1. /\ Handles(n, h) /\ x.kind = "update-address" /\ a \in Addrs
      /\ central' = registry_update_addr(central, id, a) /\ h.pc = "announce"
      /\ h.event = [kind |-> "proxy-update-address", id |-> id, addr |-> a]
    BY DEF HandlesUpdate
<1>2. /\ UNCHANGED <<conn, links, proxyVars, raced>> /\ handler[n] = Idle /\ handler'[n] = h
      /\ \A m \in Nodes \ {n} : handler'[m] = handler[m] /\ up'[m] = up[m]
      /\ \A m \in Nodes : /\ Unsent(m)' \subseteq Unsent(m)
                          /\ UpdIds(up'[m]) \subseteq UpdIds(up[m])
                          /\ UnregIds(up'[m]) \subseteq UnregIds(up[m])
      /\ UnregIds(up[n]) = UnregIds(up'[n]) /\ Lists(up[n]) = {} /\ id \in UpdIds(up[n])
    BY <1>1, EffectUp
<1> HIDE DEF id, a
<1>3. /\ ToAdd(h) = {} /\ ~Adds(h) /\ ToUpdate(h) = {id} /\ ToRemove(h) = {}
      /\ h.event.kind = "proxy-update-address"
    <2>1. h.event.kind = "proxy-update-address" /\ h.event.id = id
        BY <1>1
    <2> QED BY <1>1, <2>1 DEF ToAdd, Adds, ToUpdate, ToRemove
<1>4. central \in Seq(Listed(MadeIds))
    <2>1. central \in Seq(Foreign(MadeIds)) /\ Foreign(MadeIds) \subseteq Listed(MadeIds)
        BY DEF DInv, DTypeOK, Foreign, Listed
    <2> QED BY <2>1
<1>5. SameNames(central, central') /\ \A i : i # id => Entries(central', i) = Entries(central, i)
    BY <1>1, <1>4, UpdateEntries DEF id, a
<1>6. IdsOf(central') = IdsOf(central)
    BY <1>5, SameNamesIs
<1>7. \A m \in Nodes \ {n} : \A i \in ToAdd(handler[m]) : Entries(central, i) \subseteq Entries(central', i)
    <2>1. \A m \in Nodes \ {n} : id \notin ToAdd(handler[m])
        BY <1>2 DEF Routes, ByOwner
    <2> QED BY <1>5, <2>1
<1>8. h.pc # "list" /\ h.pc \in {"idle", "announce", "list"}
    BY <1>1
<1> QED BY <1>2, <1>3, <1>6, <1>7, <1>8 DEF Effect

LEMMA EffectList ==
    ASSUME DInv, AllGenuine, FollowsInv, Routes, NEW n \in Nodes, NEW h, HandlesList(n, h)
    PROVE Effect(n, h)
<1>1. /\ Handles(n, h) /\ Head(up[n]).kind = "list" /\ central' = central
      /\ h.pc = "list" /\ h.list = central
    BY DEF HandlesList
<1>2. /\ UNCHANGED <<conn, links, proxyVars, raced>> /\ handler[n] = Idle /\ handler'[n] = h
      /\ \A m \in Nodes \ {n} : handler'[m] = handler[m] /\ up'[m] = up[m]
      /\ \A m \in Nodes : /\ Unsent(m)' \subseteq Unsent(m)
                          /\ UpdIds(up'[m]) \subseteq UpdIds(up[m])
                          /\ UnregIds(up'[m]) \subseteq UnregIds(up[m])
      /\ UnregIds(up[n]) = UnregIds(up'[n])
    BY <1>1, EffectUp
<1>3. /\ ToAdd(h) = {} /\ ~Adds(h) /\ ToUpdate(h) = {} /\ ToRemove(h) = {}
    BY <1>1 DEF ToAdd, Adds, ToUpdate, ToRemove
<1> QED BY <1>1, <1>2, <1>3 DEF Effect

LEMMA HandlesEffect ==
    ASSUME DInv, AllGenuine, FollowsInv, Routes, NEW n \in Nodes, NEW h, HandlesOne(n, h)
    PROVE Effect(n, h)
BY EffectRegister, EffectUnregister, EffectUpdate, EffectList DEF HandlesOne

LEMMA SameItems ==
    ASSUME DInv, NEW n \in Nodes, NEW h, Handles(n, h), NEW m \in Nodes
    PROVE FewerItems(down[m], down'[m]) /\ FewerItems(down'[m], down[m])
<1>1. down[m] \in Seq(MessagesOf(MadeIds))
    BY DEF DInv, DTypeOK
<1>2. CASE down'[m] = down[m]
    BY <1>2, SameQueue
<1>3. CASE \E r \in MessagesOf(MadeIds) : r.kind = "response" /\ down'[m] = Append(down[m], r)
    BY <1>1, <1>3, ResponseAdded
<1> QED BY <1>2, <1>3 DEF Handles

LEMMA RoutesHandles ==
    ASSUME DInv, AllGenuine, FollowsInv, Routes, NEW n \in Nodes, NEW h, HandlesOne(n, h)
    PROVE Routes'
<1>1. Handles(n, h) /\ Effect(n, h)
    BY HandlesEffect DEF HandlesOne, HandlesRegister, HandlesUnregister, HandlesUpdate, HandlesList
<1>2. /\ UNCHANGED <<conn, links, preg, reader, status, ep>>
      /\ handler[n].pc = "idle" /\ handler'[n] = h
      /\ \A m \in Nodes \ {n} : handler'[m] = handler[m] /\ up'[m] = up[m]
    BY <1>1 DEF Effect, proxyVars, Idle
<1>3. \A m \in Nodes : FewerItems(down[m], down'[m])
    BY <1>1, SameItems
<1>4. \A m \in Nodes : /\ Unsent(m)' \subseteq Unsent(m)
                       /\ UpdIds(up'[m]) \subseteq UpdIds(up[m])
                       /\ UnregIds(up'[m]) \subseteq UnregIds(up[m])
                       /\ ToAdd(h) \cap Unsent(m)' = {} /\ ToRemove(h) \cap Unsent(m)' = {}
    BY <1>1 DEF Effect
<1>5. ToAdd(h) \subseteq RegIds(up[n]) /\ ToUpdate(h) \subseteq UpdIds(up[n])
    BY <1>1 DEF Effect
<1>6. /\ ToAdd(handler[n]) = {} /\ ToRemove(handler[n]) = {} /\ ToUpdate(handler[n]) = {}
    BY <1>2 DEF ToAdd, Adds, ToRemove, ToUpdate
<1>7. \A m \in Nodes : ToAdd(h) \cap Seen(m) = {}
    BY <1>5 DEF Routes, Unseen, Unsent
<1>8. ASSUME NEW m \in Nodes
      PROVE Seen(m)' \subseteq Seen(m) \cup ToAdd(h) \cup ToRemove(h) \cup IdsOf(central)
    <2>1. AddedIds(down'[m]) \subseteq AddedIds(down[m]) /\ RemovedIds(down'[m]) \subseteq RemovedIds(down[m])
          /\ ListIds(down'[m]) \subseteq ListIds(down[m])
        BY <1>3 DEF FewerItems
    <2>2. h.pc = "list" => h.list = central
        BY <1>1 DEF Effect
    <2>3. CopyIds(m)' \subseteq CopyIds(m) \cup IdsOf(central)
        <3>1. CASE m = n
            BY <1>2, <2>1, <2>2, <3>1 DEF CopyIds
        <3>2. CASE m # n
            BY <1>2, <2>1, <3>2 DEF CopyIds
        <3> QED BY <3>1, <3>2
    <2>4. ToAdd(handler'[m]) \subseteq ToAdd(handler[m]) \cup ToAdd(h)
          /\ ToRemove(handler'[m]) \subseteq ToRemove(handler[m]) \cup ToRemove(h)
        BY <1>2
    <2> QED BY <1>2, <2>1, <2>3, <2>4 DEF Seen
<1>9. \A m \in Nodes : Unsent(m) \cap IdsOf(central) = {}
    BY DEF Unsent, DInv, RegisteredOnce
<1>10. Unseen'
    <2>1. \A m, k \in Nodes : Unsent(m)' \cap Seen(k)' = {}
        BY <1>4, <1>8, <1>9 DEF Routes, Unseen
    <2> QED BY <2>1 DEF Unseen
<1>11. AnnouncedOnce'
    <2>1. \A k \in Nodes : AddsOnce(down'[k]) /\ AddedIds(down'[k]) \subseteq AddedIds(down[k])
        BY <1>3 DEF FewerItems, Routes, AnnouncedOnce
    <2>2. ASSUME NEW k \in Nodes, NEW m \in Nodes PROVE ToAdd(handler'[m]) \cap AddedIds(down'[k]) = {}
        <3>1. CASE m = n
            BY <1>2, <1>7, <2>1, <3>1 DEF Seen
        <3>2. CASE m # n
            BY <1>2, <2>1, <3>2 DEF Routes, AnnouncedOnce
        <3> QED BY <3>1, <3>2
    <2>3. ASSUME NEW k \in Nodes, NEW m \in Nodes \ {k} PROVE ToAdd(handler'[m]) \cap ToAdd(handler'[k]) = {}
        <3>1. CASE m = n
            BY <1>2, <1>7, <3>1 DEF Seen
        <3>2. CASE k = n
            BY <1>2, <1>7, <3>2 DEF Seen
        <3>3. CASE m # n /\ k # n
            BY <1>2, <3>3 DEF Routes, AnnouncedOnce
        <3> QED BY <3>1, <3>2, <3>3
    <2> QED BY <2>1, <2>2, <2>3 DEF AnnouncedOnce
<1>12. RemovedGone'
    <2>1. \A k \in Nodes : InOrder(down'[k]) /\ RemovedIds(down'[k]) \subseteq RemovedIds(down[k])
        BY <1>3 DEF FewerItems, Routes, RemovedGone
    <2>2. ToRemove(h) \cap IdsOf(central') = {} /\ IdsOf(central') \subseteq IdsOf(central) \cup ToAdd(h)
        BY <1>1 DEF Effect
    <2>3. ASSUME NEW k \in Nodes PROVE (ToRemove(handler'[k]) \cup RemovedIds(down'[k])) \cap IdsOf(central') = {}
        <3>1. (ToRemove(handler[k]) \cup RemovedIds(down[k])) \cap IdsOf(central') = {}
            BY <1>7, <2>2 DEF Seen, Routes, RemovedGone
        <3>2. ToRemove(handler'[k]) \subseteq ToRemove(handler[k]) \cup ToRemove(h)
            BY <1>2
        <3> QED BY <2>1, <2>2, <3>1, <3>2
    <2> QED BY <2>1, <2>3 DEF RemovedGone
<1>13. ToAddPresent'
    <2>1. ASSUME NEW m \in Nodes, Adds(handler'[m])
          PROVE \E e \in Items(central') : /\ e.id = handler'[m].event.entry.id
                                          /\ entry_equals(e, handler'[m].event.entry)
        <3>1. CASE m = n
            BY <1>1, <1>2, <2>1, <3>1 DEF Effect
        <3>2. CASE m # n
            <4>1. Adds(handler[m]) /\ handler'[m] = handler[m]
                BY <1>2, <2>1, <3>2
            <4> DEFINE id == handler[m].event.entry.id
            <4>2. PICK e \in Items(central) : e.id = id /\ entry_equals(e, handler[m].event.entry)
                BY <4>1 DEF Routes, ToAddPresent
            <4>3. e \in Entries(central, id)
                BY <4>2, CentralEntries
            <4>4. id \in ToAdd(handler[m])
                BY <4>1 DEF ToAdd
            <4> HIDE DEF id
            <4>5. e \in Entries(central', id)
                BY <1>1, <3>2, <4>3, <4>4 DEF Effect
            <4>6. e \in Items(central')
                BY <4>5 DEF Entries
            <4> QED BY <4>1, <4>2, <4>6 DEF id
        <3> QED BY <3>1, <3>2
    <2> QED BY <2>1 DEF ToAddPresent
<1>14. ByOwner'
    <2>1. ASSUME NEW m \in Nodes, NEW id \in ToAdd(handler'[m]), IsOpen(id)' PROVE ep'[id].node = m
        <3>1. CASE m = n
            <4>1. IsOpen(id) /\ id \in RegIds(up[n])
                BY <1>2, <1>5, <2>1, <3>1 DEF IsOpen
            <4> QED BY <1>2, <3>1, <4>1 DEF FollowsInv, SentByOwner
        <3>2. CASE m # n
            BY <1>2, <2>1, <3>2 DEF Routes, ByOwner, IsOpen
        <3> QED BY <3>1, <3>2
    <2>2. ASSUME NEW m \in Nodes
          PROVE /\ Unsent(m)' \cup ToAdd(handler'[m]) \subseteq Unsent(m) \cup ToAdd(handler[m])
                /\ UpdIds(up'[m]) \cup UnregIds(up'[m]) \cup ToUpdate(handler'[m])
                        \subseteq UpdIds(up[m]) \cup UnregIds(up[m]) \cup ToUpdate(handler[m])
        <3>1. CASE m = n
            BY <1>2, <1>4, <1>5, <3>1 DEF Unsent
        <3>2. CASE m # n
            BY <1>2, <1>4, <3>2
        <3> QED BY <3>1, <3>2
    <2>3. \A m \in Nodes : \A k \in Nodes \ {m} :
            (Unsent(m)' \cup ToAdd(handler'[m]))
                \cap (UpdIds(up'[k]) \cup UnregIds(up'[k]) \cup ToUpdate(handler'[k])) = {}
        BY <2>2 DEF Routes, ByOwner
    <2> QED BY <2>1, <2>3 DEF ByOwner
<1>15. Joined'
    <2>1. n \in links
        BY <1>2 DEF Routes, Joined
    <2>2. /\ h.pc \in {"idle", "announce", "list"}
          /\ h.pc = "announce" /\ h.event.kind # "proxy-update-address" => h.exclude = {}
        BY <1>1 DEF Effect
    <2> QED BY <1>2, <2>1, <2>2 DEF Routes, Joined
<1>16. EarlyOnce'
    <2>1. ASSUME NEW k \in Nodes PROVE EarlyAt(k)'
        <3>1. SUFFICES ASSUME status[k] \in {"none", "initializing"}, reader[k] = IdleReader
                       PROVE /\ IdsOnce(preg[k]) /\ IdsOf(preg[k]) \cap AddedIds(down'[k]) = {}
                             /\ \A m \in Nodes : IdsOf(preg[k]) \cap ToAdd(handler'[m]) = {}
            BY <1>2 DEF EarlyAt
        <3>2. /\ IdsOnce(preg[k]) /\ IdsOf(preg[k]) \cap AddedIds(down[k]) = {}
              /\ \A m \in Nodes : IdsOf(preg[k]) \cap ToAdd(handler[m]) = {}
            BY <3>1 DEF Routes, EarlyOnce
        <3>3. AddedIds(down'[k]) \subseteq AddedIds(down[k])
            BY <1>3 DEF FewerItems
        <3>4. OwnIds(preg[k]) = {}
            BY <3>1 DEF DInv, ListedOnce, ListedOnceAt
        <3>5. IdsOf(preg[k]) \subseteq Seen(k)
            <4>1. \A i \in IdsOf(preg[k]) : i \in ForeignIds(preg[k])
                BY <3>4, EntriesAre
            <4> QED BY <4>1 DEF Seen
        <3>6. \A m \in Nodes : IdsOf(preg[k]) \cap ToAdd(handler'[m]) = {}
            BY <1>2, <1>7, <3>2, <3>5
        <3> QED BY <3>2, <3>3, <3>6
    <2> QED BY <2>1 DEF EarlyOnce, EarlyAt
<1>17. CopiesOnce'
    <2>1. ASSUME NEW k \in Nodes
          PROVE /\ handler'[k].pc = "list" => IdsOnce(handler'[k].list)
                /\ \A m \in OfKind(down'[k], "list") : IdsOnce(m.list)
                /\ reader'[k] # IdleReader => IdsOnce(reader'[k].list)
        <3>1. OfKind(down'[k], "list") \subseteq OfKind(down[k], "list")
            BY <1>3 DEF FewerItems
        <3>2. handler'[k].pc = "list" => IdsOnce(handler'[k].list)
            <4>1. CASE k = n
                BY <1>1, <1>2, <4>1 DEF Effect, DInv, RegisteredOnce
            <4>2. CASE k # n
                BY <1>2, <4>2 DEF Routes, CopiesOnce
            <4> QED BY <4>1, <4>2
        <3> QED BY <1>2, <3>1, <3>2 DEF Routes, CopiesOnce
    <2> QED BY <2>1 DEF CopiesOnce
<1> QED BY <1>10, <1>11, <1>12, <1>13, <1>14, <1>15, <1>16, <1>17 DEF Routes

(* A handler that takes no request                                         *)
LEMMA RoutesDone ==
    ASSUME DInv, Routes, NEW n \in Nodes, UNCHANGED <<conn, up, central, proxyVars>>,
           NEW pc \in {"idle", "done"}, handler'[n] = [pc |-> pc],
           \A m \in Nodes \ {n} : handler'[m] = handler[m],
           Joined',
           \A m \in Nodes :
                /\ AddedIds(down'[m]) \subseteq AddedIds(down[m]) \cup ToAdd(handler[n])
                /\ RemovedIds(down'[m]) \subseteq RemovedIds(down[m]) \cup ToRemove(handler[n])
                /\ AddsOnce(down'[m]) /\ InOrder(down'[m])
                /\ CopyIds(m)' \subseteq CopyIds(m)
                /\ \A x \in OfKind(down'[m], "list") : IdsOnce(x.list)
    PROVE Routes'
<1>1. UNCHANGED <<preg, reader, status, ep, app>>
    BY DEF proxyVars
<1>2. /\ ToAdd(handler'[n]) = {} /\ ToRemove(handler'[n]) = {} /\ ToUpdate(handler'[n]) = {}
      /\ ~Adds(handler'[n]) /\ handler'[n].pc # "list"
    BY DEF ToAdd, Adds, ToRemove, ToUpdate
<1>3. \A m \in Nodes : /\ ToAdd(handler'[m]) \subseteq ToAdd(handler[m])
                       /\ ToRemove(handler'[m]) \subseteq ToRemove(handler[m])
                       /\ ToUpdate(handler'[m]) \subseteq ToUpdate(handler[m])
                       /\ handler'[m].pc = "list" \/ Adds(handler'[m]) => handler'[m] = handler[m]
    BY <1>2
<1>4. \A m \in Nodes : Unsent(m)' = Unsent(m)
    BY <1>1 DEF Unsent, Pending
<1>5. \A m \in Nodes : Seen(m)' \subseteq Seen(m) \cup Seen(n)
    BY <1>1, <1>3 DEF Seen
<1>6. Unseen'
    <2>1. \A m, k \in Nodes : Unsent(m)' \cap Seen(k)' = {}
        BY <1>4, <1>5 DEF Routes, Unseen
    <2> QED BY <2>1 DEF Unseen
<1>7. AnnouncedOnce'
    <2>1. ASSUME NEW k \in Nodes, NEW m \in Nodes
          PROVE /\ ToAdd(handler'[m]) \cap AddedIds(down'[k]) = {}
                /\ m # k => ToAdd(handler'[m]) \cap ToAdd(handler'[k]) = {}
        <3>1. ToAdd(handler'[m]) \cap ToAdd(handler[n]) = {}
            <4>1. CASE m = n
                BY <1>2, <4>1
            <4>2. CASE m # n
                BY <4>2 DEF Routes, AnnouncedOnce
            <4> QED BY <4>1, <4>2
        <3>2. ToAdd(handler[m]) \cap AddedIds(down[k]) = {}
              /\ (m # k => ToAdd(handler[m]) \cap ToAdd(handler[k]) = {})
            BY DEF Routes, AnnouncedOnce
        <3> QED BY <1>3, <3>1, <3>2
    <2> QED BY <2>1 DEF AnnouncedOnce
<1>8. RemovedGone'
    <2>1. \A k \in Nodes : (ToRemove(handler[k]) \cup RemovedIds(down[k])) \cap IdsOf(central) = {}
        BY DEF Routes, RemovedGone
    <2>2. \A k \in Nodes : (ToRemove(handler'[k]) \cup RemovedIds(down'[k])) \cap IdsOf(central) = {}
        BY <1>3, <2>1
    <2> QED BY <2>2 DEF RemovedGone
<1>9. ToAddPresent'
    BY <1>3 DEF Routes, ToAddPresent
<1>10. ByOwner'
    <2>1. \A m \in Nodes : \A id \in ToAdd(handler'[m]) : IsOpen(id)' => ep'[id].node = m
        BY <1>1, <1>3 DEF Routes, ByOwner, IsOpen
    <2>2. \A m \in Nodes : \A k \in Nodes \ {m} :
            (Unsent(m)' \cup ToAdd(handler'[m]))
                \cap (UpdIds(up'[k]) \cup UnregIds(up'[k]) \cup ToUpdate(handler'[k])) = {}
        BY <1>3, <1>4 DEF Routes, ByOwner
    <2> QED BY <2>1, <2>2 DEF ByOwner
<1>11. EarlyOnce'
    <2>1. ASSUME NEW k \in Nodes PROVE EarlyAt(k)'
        <3>1. SUFFICES ASSUME status[k] \in {"none", "initializing"}, reader[k] = IdleReader
                       PROVE /\ IdsOnce(preg[k]) /\ IdsOf(preg[k]) \cap AddedIds(down'[k]) = {}
                             /\ \A m \in Nodes : IdsOf(preg[k]) \cap ToAdd(handler'[m]) = {}
            BY <1>1 DEF EarlyAt
        <3>2. /\ IdsOnce(preg[k]) /\ IdsOf(preg[k]) \cap AddedIds(down[k]) = {}
              /\ \A m \in Nodes : IdsOf(preg[k]) \cap ToAdd(handler[m]) = {}
            BY <3>1 DEF Routes, EarlyOnce
        <3> QED BY <1>3, <3>2
    <2> QED BY <2>1 DEF EarlyOnce, EarlyAt
<1>12. CopiesOnce'
    BY <1>1, <1>3 DEF Routes, CopiesOnce
<1> QED BY <1>6, <1>7, <1>8, <1>9, <1>10, <1>11, <1>12 DEF Routes

(* What a handler broadcasts, behind a response to its own process         *)
Announces(n) ==
    /\ handler[n].pc = "announce" /\ handler'[n] = [pc |-> "idle"]
    /\ \A m \in Nodes \ {n} : handler'[m] = handler[m]
    /\ UNCHANGED <<conn, links, up, central, proxyVars>>
    /\ handler[n].event \in EventsOf(MadeIds)
    /\ \A m \in Nodes :
        /\ raced'[m] = IF handler[m].pc = "list" THEN raced[m] \cup {EventId(handler[n].event)}
                       ELSE raced[m]
        /\ conn[m] # "open" => down'[m] = down[m]
        /\ conn[m] = "open" => \E q \in Seq(MessagesOf(MadeIds)) :
            /\ \/ q = down[m]
               \/ \E r \in MessagesOf(MadeIds) : r.kind = "response" /\ q = Append(down[m], r)
            /\ down'[m] = IF m \in links \ handler[n].exclude
                          THEN Append(q, handler[n].event) ELSE q

LEMMA AnnouncesIs ==
    ASSUME DInv, NEW n \in Nodes, RcAnnounce(n)
    PROVE Announces(n)
<1> DEFINE h == handler[n]
           r == Response(h.response, TRUE)
           a(m) == IF m = n /\ CanSend(m) THEN Append(down[m], r) ELSE down[m]
           b(m) == IF m \in links \ h.exclude /\ CanSend(m) THEN <<h.event>> ELSE <<>>
<1>1. /\ h.pc = "announce" /\ handler' = [handler EXCEPT ![n] = [pc |-> "idle"]]
      /\ down' = [m \in Nodes |-> a(m) \o b(m)]
      /\ UNCHANGED <<conn, links, up, central, proxyVars>>
      /\ raced' = [m \in Nodes |-> IF handler[m].pc = "list"
                                   THEN raced[m] \cup {EventId(h.event)} ELSE raced[m]]
    BY DEF RcAnnounce, rcregistry_announce, Idle
<1>2. /\ h.event \in EventsOf(MadeIds)
      /\ h.response \in {"register", "unregister", "update-address"}
    <2>1. handler[n] \in HandlersOf(MadeIds)
        BY DEF DInv, DTypeOK
    <2> QED BY <1>1, <2>1, HandlerKinds
<1>3. r \in MessagesOf(MadeIds) /\ r.kind = "response" /\ h.event \in MessagesOf(MadeIds)
    BY <1>2, EventKinds DEF Response, MessagesOf
<1>4. handler'[n] = [pc |-> "idle"] /\ \A m \in Nodes \ {n} : handler'[m] = handler[m]
    BY <1>1 DEF DInv, DTypeOK
<1>5. ASSUME NEW m \in Nodes
      PROVE /\ raced'[m] = IF handler[m].pc = "list" THEN raced[m] \cup {EventId(h.event)}
                           ELSE raced[m]
            /\ down'[m] = a(m) \o b(m)
    BY <1>1
<1>6. ASSUME NEW m \in Nodes, conn[m] # "open" PROVE down'[m] = down[m]
    <2>1. a(m) = down[m] /\ b(m) = <<>> /\ down[m] \in Seq(MessagesOf(MadeIds))
        BY <1>6 DEF CanSend, DInv, DTypeOK
    <2> HIDE DEF a, b
    <2> QED BY <1>5, <2>1, ConcatEmptySeq
<1>7. ASSUME NEW m \in Nodes, conn[m] = "open"
      PROVE \E q \in Seq(MessagesOf(MadeIds)) :
                /\ \/ q = down[m]
                   \/ \E x \in MessagesOf(MadeIds) : x.kind = "response" /\ q = Append(down[m], x)
                /\ down'[m] = IF m \in links \ h.exclude THEN Append(q, h.event) ELSE q
    <2>1. a(m) = down[m] \/ a(m) = Append(down[m], r)
        OBVIOUS
    <2>2. b(m) = IF m \in links \ h.exclude THEN <<h.event>> ELSE <<>>
        BY <1>7 DEF CanSend
    <2>3. down[m] \in Seq(MessagesOf(MadeIds))
        BY DEF DInv, DTypeOK
    <2> HIDE DEF a, b, h, r
    <2>4. a(m) \in Seq(MessagesOf(MadeIds))
        BY <1>3, <2>1, <2>3, AppendProperties
    <2>5. a(m) \o <<>> = a(m) /\ a(m) \o <<h.event>> = Append(a(m), h.event)
        BY <1>3, <2>4, ConcatEmptySeq, AppendIsConcat
    <2>6. down'[m] = IF m \in links \ h.exclude THEN Append(a(m), h.event) ELSE a(m)
        BY <1>5, <2>2, <2>5
    <2>7. a(m) = down[m] \/ \E x \in MessagesOf(MadeIds) : x.kind = "response" /\ a(m) = Append(down[m], x)
        BY <1>3, <2>1
    <2> QED BY <2>4, <2>6, <2>7
<1> QED BY <1>1, <1>2, <1>4, <1>5, <1>6, <1>7 DEF Announces

LEMMA EventAdded ==
    ASSUME DInv, Routes, NEW n \in Nodes, Announces(n), NEW m \in Nodes
    PROVE /\ AddedIds(down'[m]) \subseteq AddedIds(down[m]) \cup ToAdd(handler[n])
          /\ RemovedIds(down'[m]) \subseteq RemovedIds(down[m]) \cup ToRemove(handler[n])
          /\ AddsOnce(down'[m]) /\ InOrder(down'[m])
          /\ OfKind(down'[m], "list") \subseteq OfKind(down[m], "list")
<1> DEFINE ev == handler[n].event
<1>1. handler[n].pc = "announce" /\ ev \in EventsOf(MadeIds)
    BY DEF Announces
<1>2. /\ ev.kind \in {"proxy-add", "proxy-remove", "proxy-update-address"}
      /\ ev \in MessagesOf(MadeIds)
    BY <1>1, EventKinds
<1>3. /\ ToAdd(handler[n]) = IF ev.kind = "proxy-add" THEN {ev.entry.id} ELSE {}
      /\ ToRemove(handler[n]) = IF ev.kind = "proxy-remove" THEN {ev.id} ELSE {}
      /\ Adds(handler[n]) <=> ev.kind = "proxy-add"
    BY <1>1 DEF ToAdd, Adds, ToRemove
<1>4. down[m] \in Seq(MessagesOf(MadeIds)) /\ AddsOnce(down[m]) /\ InOrder(down[m])
    BY DEF DInv, DTypeOK, Routes, AnnouncedOnce, RemovedGone
<1>5. ev.kind = "proxy-add" => /\ ev.entry.id \notin AddedIds(down[m])
                               /\ ev.entry.id \notin RemovedIds(down[m])
    <2>1. ASSUME ev.kind = "proxy-add" PROVE ev.entry.id \in IdsOf(central)
        BY <1>3, <2>1, EntriesAre DEF Routes, ToAddPresent
    <2> QED BY <1>3, <2>1 DEF Routes, AnnouncedOnce, RemovedGone
<1>6. CASE down'[m] = down[m]
    BY <1>4, <1>6
<1> HIDE DEF ev
<1>7. CASE conn[m] = "open"
    <2>1. PICK q \in Seq(MessagesOf(MadeIds)) :
            /\ \/ q = down[m]
               \/ \E r \in MessagesOf(MadeIds) : r.kind = "response" /\ q = Append(down[m], r)
            /\ down'[m] = IF m \in links \ handler[n].exclude THEN Append(q, ev) ELSE q
        BY <1>7 DEF Announces, ev
    <2>2. FewerItems(down[m], q) /\ FewerItems(q, down[m])
        BY <1>4, <2>1, SameQueue, ResponseAdded
    <2>3. /\ AddedIds(q) = AddedIds(down[m]) /\ RemovedIds(q) = RemovedIds(down[m])
          /\ OfKind(q, "list") \subseteq OfKind(down[m], "list") /\ AddsOnce(q) /\ InOrder(q)
        BY <1>4, <2>2 DEF FewerItems
    <2> DEFINE t == Append(q, ev)
    <2>4. /\ Items(t) = Items(q) \cup {ev} /\ AddsOnce(t) /\ InOrder(t)
        BY <1>2, <1>5, <2>3, OneMoreItem
    <2> HIDE DEF t
    <2>5. AddedIds(t) \subseteq AddedIds(q) \cup ToAdd(handler[n])
        BY <1>3, <2>4, KindsOfItems
    <2>6. RemovedIds(t) \subseteq RemovedIds(q) \cup ToRemove(handler[n])
        BY <1>3, <2>4, KindsOfItems
    <2>7. OfKind(t, "list") \subseteq OfKind(q, "list")
        BY <1>2, <2>4 DEF OfKind
    <2>8. down'[m] = q \/ down'[m] = t
        BY <2>1 DEF t
    <2> QED BY <2>3, <2>4, <2>5, <2>6, <2>7, <2>8
<1> QED BY <1>6, <1>7 DEF Announces

LEMMA RoutesAnnounces ==
    ASSUME DInv, Routes, NEW n \in Nodes, Announces(n)
    PROVE Routes'
<1>1. /\ handler[n].pc = "announce" /\ handler'[n] = [pc |-> "idle"]
      /\ \A m \in Nodes \ {n} : handler'[m] = handler[m]
      /\ UNCHANGED <<conn, links, up, central, proxyVars>>
    BY DEF Announces
<1>2. Joined'
    BY <1>1 DEF Routes, Joined
<1>3. ASSUME NEW m \in Nodes
      PROVE /\ CopyIds(m)' \subseteq CopyIds(m)
            /\ \A x \in OfKind(down'[m], "list") : IdsOnce(x.list)
    <2>1. OfKind(down'[m], "list") \subseteq OfKind(down[m], "list")
        BY EventAdded
    <2>2. ListIds(down'[m]) \subseteq ListIds(down[m])
        BY <2>1 DEF ListIds
    <2>3. handler'[m].pc = "list" => handler'[m] = handler[m]
        BY <1>1
    <2>4. reader' = reader
        BY <1>1 DEF proxyVars
    <2> QED BY <2>1, <2>2, <2>3, <2>4 DEF CopyIds, Routes, CopiesOnce
<1> QED BY <1>1, <1>2, <1>3, EventAdded, RoutesDone

LEMMA RoutesLink ==
    ASSUME DInv, Routes, NEW n \in Nodes, messagehub_add_link(n) \/ messagehub_remove_link(n),
           UNCHANGED <<proxyVars, raced>>
    PROVE Routes'
<1>1. /\ UNCHANGED <<conn, up, down, central>>
      /\ \/ /\ handler' = [handler EXCEPT ![n] = [pc |-> "idle"]] /\ links' = links \cup {n}
         \/ /\ handler' = [handler EXCEPT ![n] = [pc |-> "done"]] /\ links' = links \ {n}
            /\ conn[n] = "closed"
    BY DEF messagehub_add_link, messagehub_remove_link, Idle
<1>2. PICK pc \in {"idle", "done"} :
        /\ handler'[n] = [pc |-> pc] /\ \A m \in Nodes \ {n} : handler'[m] = handler[m]
        /\ pc = "idle" => links' = links \cup {n}
        /\ pc = "done" => links' = links \ {n} /\ conn[n] = "closed"
    BY <1>1 DEF DInv, DTypeOK
<1>3. Joined'
    BY <1>1, <1>2 DEF Routes, Joined
<1>4. ASSUME NEW m \in Nodes
      PROVE /\ CopyIds(m)' \subseteq CopyIds(m) /\ AddsOnce(down'[m]) /\ InOrder(down'[m])
            /\ \A x \in OfKind(down'[m], "list") : IdsOnce(x.list)
            /\ AddedIds(down'[m]) = AddedIds(down[m]) /\ RemovedIds(down'[m]) = RemovedIds(down[m])
    <2>1. handler'[m].pc = "list" => handler'[m] = handler[m]
        BY <1>2
    <2>2. reader' = reader
        BY DEF proxyVars
    <2>3. CopyIds(m)' \subseteq CopyIds(m)
        BY <1>1, <2>1, <2>2 DEF CopyIds
    <2> QED BY <1>1, <2>3 DEF Routes, CopiesOnce, AnnouncedOnce, RemovedGone
<1> QED BY <1>1, <1>2, <1>3, <1>4, RoutesDone

(* The list is sent.                                                       *)
SendsList(n) ==
    /\ handler[n].pc = "list" /\ handler'[n] = [pc |-> "idle"]
    /\ \A m \in Nodes \ {n} : handler'[m] = handler[m]
    /\ UNCHANGED <<conn, links, up, central, proxyVars, raced>>
    /\ ListResponse(handler[n].list) \in MessagesOf(MadeIds)
    /\ \A m \in Nodes :
        /\ conn[m] # "open" \/ m # n => down'[m] = down[m]
        /\ m = n /\ conn[m] = "open" =>
                down'[m] = Append(down[m], ListResponse(handler[n].list))

LEMMA SendsListIs ==
    ASSUME DInv, NEW n \in Nodes, rcregistry_send_list(n), UNCHANGED <<proxyVars, raced>>
    PROVE SendsList(n)
<1> DEFINE msg == ListResponse(handler[n].list)
<1>1. /\ handler[n].pc = "list" /\ down' = SendTo({n}, msg)
      /\ handler' = [handler EXCEPT ![n] = [pc |-> "idle"]]
      /\ UNCHANGED <<conn, up, links, central>>
    BY DEF rcregistry_send_list, Idle
<1>2. handler \in [Nodes -> HandlersOf(MadeIds)]
    BY DEF DInv, DTypeOK
<1>3. msg \in MessagesOf(MadeIds)
    <2>1. handler[n].list \in Seq(Foreign(MadeIds))
        BY <1>1, <1>2, HandlerKinds
    <2> QED BY <2>1 DEF ListResponse, MessagesOf
<1> HIDE DEF msg
<1>4. \A m \in Nodes : /\ conn[m] # "open" \/ m # n => down'[m] = down[m]
                       /\ m = n /\ conn[m] = "open" => down'[m] = Append(down[m], msg)
    BY <1>1, <1>3, SendToIs DEF DInv
<1> QED BY <1>1, <1>2, <1>3, <1>4 DEF SendsList, msg

LEMMA RoutesSendsList ==
    ASSUME DInv, Routes, NEW n \in Nodes, SendsList(n)
    PROVE Routes'
<1> DEFINE msg == ListResponse(handler[n].list)
<1>1. /\ handler[n].pc = "list" /\ handler'[n] = [pc |-> "idle"]
      /\ \A m \in Nodes \ {n} : handler'[m] = handler[m]
      /\ UNCHANGED <<conn, links, up, central, proxyVars>> /\ msg \in MessagesOf(MadeIds)
      /\ \A m \in Nodes : down'[m] = down[m] \/ (m = n /\ down'[m] = Append(down[m], msg))
    BY DEF SendsList
<1>2. Joined'
    BY <1>1 DEF Routes, Joined
<1>3. msg.kind = "list" /\ msg.list = handler[n].list
    BY DEF ListResponse
<1>4. IdsOnce(msg.list)
    BY <1>1, <1>3 DEF Routes, CopiesOnce
<1>5. reader' = reader
    BY <1>1 DEF proxyVars
<1> HIDE DEF msg
<1>6. ASSUME NEW m \in Nodes
      PROVE /\ CopyIds(m)' \subseteq CopyIds(m) /\ AddsOnce(down'[m]) /\ InOrder(down'[m])
            /\ \A x \in OfKind(down'[m], "list") : IdsOnce(x.list)
            /\ AddedIds(down'[m]) \subseteq AddedIds(down[m])
            /\ RemovedIds(down'[m]) \subseteq RemovedIds(down[m])
    <2>1. /\ down[m] \in Seq(MessagesOf(MadeIds)) /\ AddsOnce(down[m]) /\ InOrder(down[m])
          /\ \A x \in OfKind(down[m], "list") : IdsOnce(x.list)
        BY DEF DInv, DTypeOK, Routes, CopiesOnce, AnnouncedOnce, RemovedGone
    <2>2. handler'[m].pc = "list" => handler'[m] = handler[m]
        BY <1>1
    <2>3. CASE down'[m] = down[m]
        <3>1. CopyIds(m)' \subseteq CopyIds(m)
            BY <1>5, <2>2, <2>3 DEF CopyIds
        <3> QED BY <2>1, <2>3, <3>1
    <2>4. CASE m = n /\ down'[m] = Append(down[m], msg)
        <3> DEFINE t == Append(down[m], msg)
        <3>1. Items(t) = Items(down[m]) \cup {msg} /\ AddsOnce(t) /\ InOrder(t)
            BY <1>1, <1>3, <2>1, OneMoreItem
        <3> HIDE DEF t
        <3>2. AddedIds(t) \subseteq AddedIds(down[m]) /\ RemovedIds(t) \subseteq RemovedIds(down[m])
            BY <1>3, <3>1, KindsOfItems
        <3>3. OfKind(t, "list") \subseteq OfKind(down[m], "list") \cup {msg}
            BY <3>1 DEF OfKind
        <3>4. \A x \in OfKind(t, "list") : IdsOnce(x.list)
            BY <1>4, <2>1, <3>3
        <3>5. ListIds(t) \subseteq ListIds(down[m]) \cup IdsOf(handler[n].list)
            BY <1>3, <3>3 DEF ListIds
        <3>6. down'[m] = t
            BY <2>4 DEF t
        <3>7. CopyIds(m)' \subseteq CopyIds(m)
            BY <1>1, <1>5, <2>4, <3>5, <3>6 DEF CopyIds
        <3> QED BY <3>1, <3>2, <3>4, <3>6, <3>7
    <2> QED BY <1>1, <2>3, <2>4
<1> QED BY <1>1, <1>2, <1>6, RoutesDone

LEMMA RoutesRc ==
    ASSUME DInv, AllGenuine, FollowsInv, Routes, NEW n \in Nodes, RcStep(n) \/ RcAnnounce(n)
    PROVE Routes'
<1>1. CASE RcAnnounce(n)
    BY <1>1, AnnouncesIs, RoutesAnnounces
<1>2. CASE RcStep(n)
    <2>1. UNCHANGED <<proxyVars, raced>>
        BY <1>2 DEF RcStep
    <2>2. CASE messagehub_add_link(n) \/ messagehub_remove_link(n)
        BY <2>1, <2>2, RoutesLink
    <2>3. CASE rcregistry_send_list(n)
        BY <2>1, <2>3, SendsListIs, RoutesSendsList
    <2>4. CASE \/ rcregistry_register(n) \/ rcregistry_unregister(n)
               \/ rcregistry_update_address(n) \/ rcregistry_select_list(n)
        BY <2>1, <2>4, HandlesIs, RoutesHandles
    <2> QED BY <1>2, <2>2, <2>3, <2>4 DEF RcStep
<1> QED BY <1>1, <1>2

-----------------------------------------------------------------------------
(* The list is merged.                                                     *)

LEMMA TwinsOrSame ==
    ASSUME MadeOnce, NEW e \in Genuine, NEW f \in Genuine, entry_equals(e, f),
           ~HasTwin(e.id) \/ ~HasTwin(f.id)
    PROVE e.id = f.id
<1>1. PICK m \in made : Renders(e, m)
    BY DEF Genuine
<1>2. PICK k \in made : Renders(f, k)
    BY DEF Genuine
<1>3. m.type = "messagelink" => m.addr = Addr0
    BY DEF MadeOnce
<1>4. k.type = "messagelink" => k.addr = Addr0
    BY DEF MadeOnce
<1>5. entry_equals(m, k) /\ entry_equals(k, m)
    BY <1>1, <1>2, <1>3, <1>4 DEF Renders, entry_equals
<1>6. m.id = e.id /\ k.id = f.id
    BY <1>1, <1>2 DEF Renders
<1> QED BY <1>5, <1>6 DEF HasTwin

LEMMA EqualsIs ==
    /\ \A e : entry_equals(e, e)
    /\ \A e, f : entry_equals(e, f) => entry_equals(f, e)
    /\ \A e, f, g : entry_equals(e, f) /\ entry_equals(f, g) => entry_equals(e, g)
BY DEF entry_equals

(* In the list and in the proxy, entries that are equal have the same id,  *)
(* unless it has a twin.                                                   *)
SameIds(s, list, id) == \A e \in Items(list), f \in Items(s) :
                            entry_equals(e, f) => (e.id = id <=> f.id = id)

LEMMA MergeIs ==
    ASSUME DInv, AllGenuine, Routes, NEW n \in Nodes, NEW id, ~HasTwin(id),
           reader[n] # IdleReader
    PROVE /\ preg[n] \in Seq(Listed(MadeIds)) /\ reader[n].list \in Seq(Foreign(MadeIds))
          /\ \A i \in 1..Len(preg[n]) : ~preg[n][i].endpoint
          /\ IdsOnce(reader[n].list) /\ SameIds(preg[n], reader[n].list, id)
<1>1. /\ preg[n] \in Seq(Listed(MadeIds)) /\ reader[n] \in ReadersOf(MadeIds)
      /\ OwnIds(preg[n]) = {}
    BY DEF DInv, DTypeOK, ListedOnce, ListedOnceAt
<1>2. reader[n].list \in Seq(Foreign(MadeIds))
    BY <1>1, ReaderKinds
<1>3. \A i \in 1..Len(preg[n]) : ~preg[n][i].endpoint
    BY <1>1 DEF OwnIds
<1>4. IdsOnce(reader[n].list)
    BY DEF Routes, CopiesOnce
<1>5. Items(reader[n].list) \cup Items(preg[n]) \subseteq Genuine /\ MadeOnce
    BY DEF AllGenuine, Kept, ReaderEntries
<1>6. SameIds(preg[n], reader[n].list, id)
    <2> SUFFICES ASSUME NEW e \in Items(reader[n].list), NEW f \in Items(preg[n]), entry_equals(e, f)
                 PROVE e.id = id <=> f.id = id
        BY DEF SameIds
    <2>1. e \in Genuine /\ f \in Genuine
        BY <1>5
    <2>2. e.id = id \/ f.id = id => e.id = f.id
        BY <1>5, <2>1, TwinsOrSame
    <2> QED BY <2>2
<1> QED BY <1>1, <1>2, <1>3, <1>4, <1>6

(* An entry of the list is inserted.                                       *)
LEMMA MergeInserts ==
    ASSUME NEW E, NEW s \in Seq(E), NEW list, NEW id, NEW e \in E, IdsOnce(list),
           SameIds(s, list, id), e \in Items(list), ~e.endpoint,
           AtMostOne(InList(s, list, id)), AtMostOne(Surplus(s, list, id)),
           \A i \in Surplus(s, list, id), j \in InList(s, list, id) : i < j
    PROVE LET t == WithEntry(s, e) IN
          /\ AtMostOne(InList(t, list, id)) /\ AtMostOne(Surplus(t, list, id))
          /\ \A i \in Surplus(t, list, id), j \in InList(t, list, id) : i < j
          /\ Known(t, e) /\ \A x : Known(s, x) => Known(t, x)
<1> DEFINE t == WithEntry(s, e)
<1>1. CASE Known(s, e)
    BY <1>1 DEF WithEntry
<1>2. CASE ~Known(s, e)
    <2> DEFINE k == Len(s) + 1
    <2>1. t = Append(s, e)
        BY <1>2 DEF WithEntry, registry_insert
    <2>2. /\ k \in Nat /\ Len(t) = k /\ t[k] = e /\ \A i \in 1..Len(s) : t[i] = s[i] /\ i \in 1..k /\ i < k
          /\ \A i \in 1..k : i = k \/ i \in 1..Len(s)
          /\ k \in 1..k
        BY <2>1
    <2> HIDE DEF t, k
    <2>3. Known(t, e) /\ \A x : Known(s, x) => Known(t, x)
        BY <2>2, EqualsIs DEF Known
    <2>4. Known(list, e)
        BY EqualsIs DEF Known, Items
    <2>5. Of(t, id) = Of(s, id) \cup (IF e.id = id THEN {k} ELSE {})
        BY <2>2 DEF Of
    <2>6. \A i \in Of(s, id) : t[i] = s[i] /\ i < k
        BY <2>2 DEF Of
    <2>7. Surplus(t, list, id) = Surplus(s, list, id)
        BY <2>2, <2>4, <2>5, <2>6 DEF Surplus
    <2>8. InList(t, list, id) = InList(s, list, id) \cup (IF e.id = id THEN {k} ELSE {})
        BY <2>2, <2>4, <2>5, <2>6 DEF InList
    <2>9. e.id = id => InList(s, list, id) = {}
        <3> SUFFICES ASSUME e.id = id, NEW i \in InList(s, list, id) PROVE FALSE
            OBVIOUS
        <3>1. i \in 1..Len(s) /\ s[i].id = id /\ Known(list, s[i])
            BY DEF InList, Of
        <3>2. PICK j \in 1..Len(list) : entry_equals(list[j], s[i])
            BY <3>1 DEF Known
        <3>3. list[j].id = id
            BY <3>1, <3>2 DEF SameIds, Items
        <3>4. PICK l \in 1..Len(list) : e = list[l]
            BY DEF Items
        <3>5. list[j] = e
            BY <3>3, <3>4 DEF IdsOnce
        <3>6. Known(s, e)
            BY <3>1, <3>2, <3>5, EqualsIs DEF Known
        <3> QED BY <1>2, <3>6
    <2>10. \A i \in Surplus(s, list, id) : i < k
        BY <2>6 DEF Surplus
    <2> QED BY <2>3, <2>7, <2>8, <2>9, <2>10 DEF AtMostOne, t
<1> QED BY <1>1, <1>2

(* An entry that is not in the list is deleted.                            *)
LEMMA MergeDeletes ==
    ASSUME NEW E, NEW s \in Seq(E), NEW list, NEW id, NEW rid,
           rid = id => Surplus(s, list, id) # {},
           SameIds(s, list, id), \A i \in 1..Len(s) : ~s[i].endpoint,
           AtMostOne(InList(s, list, id)), AtMostOne(Surplus(s, list, id)),
           \A i \in Surplus(s, list, id), j \in InList(s, list, id) : i < j
    PROVE LET t == registry_delete(s, rid) IN
          /\ AtMostOne(InList(t, list, id)) /\ AtMostOne(Surplus(t, list, id))
          /\ \A i \in Surplus(t, list, id), j \in InList(t, list, id) : i < j
          /\ rid = id => Surplus(t, list, id) = {}
          /\ rid # id => (Surplus(t, list, id) = {} <=> Surplus(s, list, id) = {})
          /\ \A x \in Items(list) : x.id = id /\ Known(s, x) => Known(t, x)
<1> DEFINE t == registry_delete(s, rid)
           n == Len(s)
           k == FirstId(s, rid)
<1>0. rid = id => rid \in IdsOf(s)
    BY DEF Surplus, Of, IdsOf
<1>a. CASE rid \notin IdsOf(s)
    BY <1>0, <1>a DEF registry_delete
<1>b. CASE rid \in IdsOf(s)
    <2>1. /\ n \in Nat /\ k \in 1..n /\ Len(t) = n - 1 /\ s[k].id = rid
          /\ \A i \in 1..(n - 1) : t[i] = s[Skip(k, i)]
          /\ \A j \in 1..n : s[j].id = rid => k <= j
        BY <1>b, DeleteSkips, FirstIdIs
    <2> HIDE DEF t, n, k
    <2>3. /\ \A i \in 1..(n - 1) : Skip(k, i) \in 1..n /\ Skip(k, i) # k
          /\ \A i, j \in 1..(n - 1) : /\ Skip(k, i) = Skip(k, j) => i = j
                                      /\ Skip(k, i) < Skip(k, j) => i < j
          /\ \A j \in (1..n) \ {k} : \E i \in 1..(n - 1) : Skip(k, i) = j
        BY <2>1, SkipIs
    <2>4. \A i \in Surplus(t, list, id) : i \in 1..(n - 1) /\ Skip(k, i) \in Surplus(s, list, id)
        BY <2>1, <2>3 DEF Surplus, Of, n
    <2>5. \A i \in InList(t, list, id) : i \in 1..(n - 1) /\ Skip(k, i) \in InList(s, list, id)
        BY <2>1, <2>3 DEF InList, Of, n
    <2>6. AtMostOne(InList(t, list, id))
        BY <2>3, <2>5 DEF AtMostOne
    <2>7. AtMostOne(Surplus(t, list, id))
        BY <2>3, <2>4 DEF AtMostOne
    <2>8. \A i \in Surplus(t, list, id), j \in InList(t, list, id) : i < j
        BY <2>3, <2>4, <2>5
    <2>9. rid = id => Surplus(s, list, id) = {k}
        <3> SUFFICES ASSUME rid = id PROVE Surplus(s, list, id) = {k}
            OBVIOUS
        <3>1. PICK l \in Surplus(s, list, id) : TRUE
            OBVIOUS
        <3>2. k \in Surplus(s, list, id) \/ k \in InList(s, list, id)
            BY <2>1 DEF Surplus, InList, Of, n
        <3>3. l \in 1..n /\ s[l].id = rid
            BY <3>1 DEF Surplus, Of, n
        <3>4. k <= l /\ k \in Int /\ l \in Int
            BY <2>1, <3>3
        <3>5. k \in InList(s, list, id) => l < k
            BY <3>1
        <3>6. k \in Surplus(s, list, id)
            BY <3>2, <3>4, <3>5
        <3> QED BY <3>6 DEF AtMostOne
    <2>10. rid = id => Surplus(t, list, id) = {}
        BY <2>3, <2>4, <2>9
    <2>11. ASSUME rid # id PROVE Surplus(t, list, id) = {} <=> Surplus(s, list, id) = {}
        <3>1. ASSUME NEW j \in Surplus(s, list, id) PROVE Surplus(t, list, id) # {}
            <4>1. j \in (1..n) \ {k} /\ s[j].id = id /\ ~Known(list, s[j]) /\ ~s[j].endpoint
                BY <2>1, <2>11 DEF Surplus, Of, n
            <4>2. PICK i \in 1..(n - 1) : Skip(k, i) = j
                BY <2>3, <4>1
            <4>3. i \in Surplus(t, list, id)
                BY <2>1, <4>1, <4>2 DEF Surplus, Of
            <4> QED BY <4>3
        <3> QED BY <2>4, <3>1
    <2>12. ASSUME NEW x \in Items(list), x.id = id, Known(s, x) PROVE Known(t, x)
        <3>1. PICK j \in 1..n : entry_equals(s[j], x)
            BY <2>12 DEF Known, n
        <3>2. s[j].id = id
            BY <2>12, <3>1, EqualsIs DEF SameIds, Items, n
        <3>3. Known(list, s[j])
            BY <3>1, EqualsIs DEF Known, Items
        <3>4. j # k
            <4>1. CASE rid = id
                <5>1. ~Known(list, s[k])
                    BY <2>9, <4>1 DEF Surplus
                <5> QED BY <3>3, <5>1
            <4>2. CASE rid # id
                BY <2>1, <3>2, <4>2
            <4> QED BY <4>1, <4>2
        <3>5. PICK i \in 1..(n - 1) : Skip(k, i) = j
            BY <2>3, <3>4
        <3>6. t[i] = s[j] /\ i \in 1..Len(t)
            BY <2>1, <3>5
        <3> QED BY <3>1, <3>6 DEF Known
    <2> QED BY <2>6, <2>7, <2>8, <2>10, <2>11, <2>12 DEF t
<1> QED BY <1>a, <1>b

LEMMA FrontSurplus ==
    ASSUME NEW E, NEW q \in Seq(E), q # <<>>, NEW list, NEW id
    PROVE /\ Surplus(Front(q), list, id) = Surplus(q, list, id) \ {Len(q)}
          /\ Len(q) \in 1..Len(q) /\ Last(q) = q[Len(q)]
<1> DEFINE t == Front(q)
<1>1. /\ Len(q) \in Nat /\ Len(q) \in 1..Len(q) /\ Last(q) = q[Len(q)]
      /\ Len(t) = Len(q) - 1 /\ \A i \in 1..(Len(q) - 1) : t[i] = q[i]
    <2>1. Len(q) \in Nat /\ Len(q) # 0
        OBVIOUS
    <2>2. t = [i \in 1..(Len(q) - 1) |-> q[i]]
        BY DEF Front
    <2>3. Len(q) - 1 \in Nat
        BY <2>1
    <2>4. Len(t) = Len(q) - 1
        BY <2>2, <2>3
    <2> QED BY <2>1, <2>2, <2>4 DEF Last
<1> HIDE DEF t
<1>2. \A i : i \in 1..(Len(q) - 1) <=> i \in 1..Len(q) /\ i # Len(q)
    BY <1>1
<1>3. Surplus(t, list, id) = Surplus(q, list, id) \ {Len(q)}
    BY <1>1, <1>2 DEF Surplus, Of
<1> QED BY <1>1, <1>3 DEF t

(* The steps that have no part in it                                       *)
LEMMA ListKept ==
    ASSUME ListMerged, made \subseteq made',
           \A m \in Nodes : reader'[m] = IdleReader \/ UNCHANGED <<preg[m], reader[m]>>
    PROVE ListMerged'
<1>1. \A id : ~HasTwin(id)' => ~HasTwin(id)
    BY DEF HasTwin
<1> QED BY <1>1 DEF ListMerged

LEMMA MergeStarts ==
    ASSUME DInv, Routes, NEW n \in Nodes, TakesList(n), NEW id
    PROVE MergingAt(reader'[n], preg'[n], id)
<1> DEFINE s == preg[n]
           t == Head(down[n]).list
<1>1. /\ reader[n] = IdleReader /\ preg'[n] = s
      /\ reader'[n] = [pc |-> "insert", todo |-> t, list |-> t]
    BY DEF TakesList
<1>2. 1 \in Lists(down[n])
    BY DEF TakesList, Lists, DInv, DTypeOK
<1>3. status[n] = "initializing"
    BY <1>2 DEF DInv, ListedOnce, ListedOnceAt
<1>4. IdsOnce(s)
    BY <1>1, <1>3 DEF Routes, EarlyOnce
<1> HIDE DEF s, t
<1>5. AtMostOne(InList(s, t, id)) /\ AtMostOne(Surplus(s, t, id))
    BY <1>4 DEF AtMostOne, InList, Surplus, Of, IdsOnce
<1>6. \A i \in Surplus(s, t, id), j \in InList(s, t, id) : FALSE
    BY <1>4 DEF InList, Surplus, Of, IdsOnce
<1> QED BY <1>1, <1>5, <1>6 DEF MergingAt

LEMMA MergeInsertsOne ==
    ASSUME DInv, AllGenuine, Routes, NEW n \in Nodes, NEW id, ~HasTwin(id),
           reader[n].pc = "insert", reader[n].todo # <<>>,
           preg'[n] = WithEntry(preg[n], Head(reader[n].todo)),
           reader'[n] = [pc |-> "insert", todo |-> Tail(reader[n].todo), list |-> reader[n].list],
           MergingAt(reader[n], preg[n], id)
    PROVE MergingAt(reader'[n], preg'[n], id)
<1> DEFINE s == preg[n]
           q == reader[n].todo
           list == reader[n].list
           e == Head(q)
           t == WithEntry(s, e)
<1>1. reader[n] # IdleReader /\ q \in Seq(Foreign(MadeIds)) /\ q # <<>>
    BY ReaderKinds DEF DInv, DTypeOK
<1>2. /\ s \in Seq(Listed(MadeIds)) /\ IdsOnce(list) /\ SameIds(s, list, id)
    BY <1>1, MergeIs
<1>3. /\ AtMostOne(InList(s, list, id)) /\ AtMostOne(Surplus(s, list, id))
      /\ \A i \in Surplus(s, list, id), j \in InList(s, list, id) : i < j
      /\ \A x \in Items(list) : x.id = id => Known(s, x) \/ x \in Items(q)
      /\ Items(q) \subseteq Items(list)
    BY DEF MergingAt
<1>4. /\ preg'[n] = t /\ reader'[n].pc = "insert"
      /\ reader'[n].todo = Tail(q) /\ reader'[n].list = list
    OBVIOUS
<1> HIDE DEF q, list
<1>5. Items(q) = {Head(q)} \cup Items(Tail(q)) /\ Head(q) \in Foreign(MadeIds)
    BY <1>1, ItemsOfTail
<1>6. e \in Items(list) /\ e \in Listed(MadeIds) /\ ~e.endpoint
    BY <1>3, <1>5 DEF Listed, Foreign
<1> HIDE DEF s, e
<1>7. /\ AtMostOne(InList(t, list, id)) /\ AtMostOne(Surplus(t, list, id))
      /\ \A i \in Surplus(t, list, id), j \in InList(t, list, id) : i < j
      /\ Known(t, e) /\ \A x : Known(s, x) => Known(t, x)
    BY <1>2, <1>3, <1>6, MergeInserts
<1> HIDE DEF t
<1>8. \A x \in Items(list) : x.id = id => Known(t, x) \/ x \in Items(Tail(q))
    BY <1>3, <1>5, <1>7 DEF e
<1>9. Items(Tail(q)) \subseteq Items(list)
    BY <1>3, <1>5
<1> QED BY <1>4, <1>7, <1>8, <1>9 DEF MergingAt

LEMMA MergeSelects ==
    ASSUME NEW n \in Nodes, NEW id, reader[n].pc = "insert", reader[n].todo = <<>>,
           preg'[n] = preg[n],
           reader'[n] = [pc |-> "prune", todo |-> preg[n], list |-> reader[n].list],
           MergingAt(reader[n], preg[n], id)
    PROVE MergingAt(reader'[n], preg'[n], id)
<1>1. Items(<<>>) = {}
    BY DEF Items
<1> QED BY <1>1 DEF MergingAt

LEMMA MergePrunes ==
    ASSUME DInv, AllGenuine, Routes, NEW n \in Nodes, NEW id, ~HasTwin(id),
           reader[n].pc = "prune", reader[n].todo # <<>>,
           preg'[n] = IF Vanished(n, Last(reader[n].todo))
                      THEN registry_delete(preg[n], Last(reader[n].todo).id) ELSE preg[n],
           reader'[n] = [pc |-> "prune", todo |-> Front(reader[n].todo), list |-> reader[n].list],
           MergingAt(reader[n], preg[n], id)
    PROVE MergingAt(reader'[n], preg'[n], id)
<1> DEFINE s == preg[n]
           q == reader[n].todo
           list == reader[n].list
           e == Last(q)
           k == Len(q)
<1>1. reader[n] # IdleReader /\ q \in Seq(Listed(MadeIds)) /\ q # <<>>
    BY ReaderKinds DEF DInv, DTypeOK
<1>2. /\ s \in Seq(Listed(MadeIds)) /\ SameIds(s, list, id)
      /\ \A i \in 1..Len(s) : ~s[i].endpoint
    BY <1>1, MergeIs
<1>3. /\ AtMostOne(InList(s, list, id)) /\ AtMostOne(Surplus(s, list, id))
      /\ \A i \in Surplus(s, list, id), j \in InList(s, list, id) : i < j
      /\ \A x \in Items(list) : x.id = id => Known(s, x)
      /\ AtMostOne(Surplus(q, list, id))
      /\ Surplus(s, list, id) = {} <=> Surplus(q, list, id) = {}
    BY DEF MergingAt
<1>4. /\ preg'[n] = IF ~Known(list, e) /\ ~e.endpoint THEN registry_delete(s, e.id) ELSE s
      /\ reader'[n] = [pc |-> "prune", todo |-> Front(q), list |-> list]
    BY DEF Vanished
<1> HIDE DEF q, list
<1>5. /\ Surplus(Front(q), list, id) = Surplus(q, list, id) \ {k}
      /\ k \in 1..Len(q) /\ e = q[k]
    BY <1>1, FrontSurplus
<1>6. k \in Surplus(q, list, id) <=> e.id = id /\ ~Known(list, e) /\ ~e.endpoint
    BY <1>5 DEF Surplus, Of
<1>7. AtMostOne(Surplus(Front(q), list, id))
    BY <1>3, <1>5 DEF AtMostOne
<1>8. /\ k \in Surplus(q, list, id) => Surplus(Front(q), list, id) = {}
      /\ k \notin Surplus(q, list, id) => Surplus(Front(q), list, id) = Surplus(q, list, id)
    BY <1>3, <1>5 DEF AtMostOne
<1> HIDE DEF s, e, k
<1>9. CASE ~Known(list, e) /\ ~e.endpoint
    <2> DEFINE rid == e.id
               t == registry_delete(s, rid)
    <2>1. rid = id => Surplus(s, list, id) # {}
        BY <1>3, <1>6, <1>9
    <2> HIDE DEF rid
    <2>2. /\ AtMostOne(InList(t, list, id)) /\ AtMostOne(Surplus(t, list, id))
          /\ \A i \in Surplus(t, list, id), j \in InList(t, list, id) : i < j
          /\ rid = id => Surplus(t, list, id) = {}
          /\ rid # id => (Surplus(t, list, id) = {} <=> Surplus(s, list, id) = {})
          /\ \A x \in Items(list) : x.id = id /\ Known(s, x) => Known(t, x)
        BY <1>2, <1>3, <2>1, MergeDeletes
    <2>3. preg'[n] = t
        BY <1>4, <1>9 DEF rid
    <2> HIDE DEF t
    <2>4. Surplus(t, list, id) = {} <=> Surplus(Front(q), list, id) = {}
        BY <1>3, <1>6, <1>8, <1>9, <2>2 DEF rid
    <2> QED BY <1>3, <1>4, <1>7, <2>2, <2>3, <2>4 DEF MergingAt
<1>10. CASE ~(~Known(list, e) /\ ~e.endpoint)
    <2>1. preg'[n] = s /\ Surplus(Front(q), list, id) = Surplus(q, list, id)
        BY <1>4, <1>6, <1>8, <1>10
    <2> QED BY <1>3, <1>4, <1>7, <2>1 DEF MergingAt
<1> QED BY <1>9, <1>10

LEMMA MergesOn ==
    ASSUME DInv, AllGenuine, Routes, ListMerged, NEW n \in Nodes, Reads(n)
    PROVE ListMerged'
<1>1. /\ made' = made
      /\ \A m \in Nodes \ {n} : UNCHANGED <<preg[m], reader[m]>>
    BY DEF Reads, ReaderKeeps
<1>2. CASE reader'[n] = IdleReader
    BY <1>1, <1>2, ListKept
<1>3. CASE reader'[n] # IdleReader
    <2>1. ASSUME NEW id \in Ids, ~HasTwin(id) PROVE MergingAt(reader'[n], preg'[n], id)
        <3>1. CASE TakesList(n)
            BY <3>1, MergeStarts
        <3>2. CASE Merges(n)
            <4>1. MergingAt(reader[n], preg[n], id)
                BY <2>1, <3>2 DEF Merges, ListMerged
            <4> QED BY <1>3, <2>1, <3>2, <4>1, MergeInsertsOne, MergeSelects, MergePrunes DEF Merges
        <3> QED BY <1>3, <3>1, <3>2 DEF Reads, Takes, TakesAdd, TakesRemove, TakesUpdate, TakesResponse
    <2>2. \A id : HasTwin(id)' <=> HasTwin(id)
        BY <1>1 DEF HasTwin
    <2> QED BY <1>1, <2>1, <2>2 DEF ListMerged
<1> QED BY <1>2, <1>3

-----------------------------------------------------------------------------
(* What a queue says of an address                                         *)

(* The events that say the address of an end-point                         *)
Says(m, id) == \/ m.kind = "proxy-add" /\ m.entry.id = id
               \/ m.kind = "proxy-update-address" /\ m.id = id

Said(m) == IF m.kind = "proxy-add" THEN m.entry.addr ELSE m.addr

Saying(q, id) == {i \in 1..Len(q) : Says(q[i], id)}

(* When the events of q have been handled, the entry of this id that was   *)
(* in s, if it was, has this address: it is what the last one says.        *)
Told(q, s, id, addr) ==
    /\ \A i \in Saying(q, id) : (\A j \in Saying(q, id) : j <= i) => Said(q[i]) = addr
    /\ Saying(q, id) = {} => \A f \in Entries(s, id) : f.addr = addr

SaysTheSame(q, t, id) == \A s, addr : Told(q, s, id, addr) => Told(t, s, id, addr)

LEMMA ToldAppend ==
    ASSUME NEW S, NEW q \in Seq(S), NEW m \in S, NEW id
    PROVE /\ ~Says(m, id) => SaysTheSame(q, Append(q, m), id)
          /\ Says(m, id) => \A s : Told(Append(q, m), s, id, Said(m))
<1> DEFINE t == Append(q, m)
           n == Len(q)
<1>1. /\ n \in Nat /\ Len(t) = n + 1 /\ t[n + 1] = m
      /\ \A i \in 1..n : t[i] = q[i] /\ i \in 1..Len(t) /\ i <= n + 1
      /\ \A i \in 1..Len(t) : i \in 1..n \/ i = n + 1
      /\ n + 1 \in 1..Len(t) /\ \A i \in 1..n : ~(n + 1 <= i)
    BY AppendProperties, LenProperties
<1> HIDE DEF t, n
<1>2. ASSUME ~Says(m, id) PROVE Saying(t, id) = Saying(q, id)
    <2>1. \A i : i \in Saying(t, id) <=> i \in Saying(q, id)
        BY <1>1, <1>2 DEF Saying, n
    <2> QED BY <2>1
<1>3. ASSUME ~Says(m, id), NEW s, NEW a, Told(q, s, id, a) PROVE Told(t, s, id, a)
    <2>1. \A i \in Saying(q, id) : t[i] = q[i]
        BY <1>1 DEF Saying, n
    <2> QED BY <1>2, <1>3, <2>1 DEF Told
<1>4. ASSUME Says(m, id), NEW s PROVE Told(t, s, id, Said(m))
    <2>1. n + 1 \in Saying(t, id)
        BY <1>1, <1>4 DEF Saying
    <2>2. \A i \in Saying(t, id) : n + 1 <= i => i = n + 1
        BY <1>1 DEF Saying
    <2> QED BY <1>1, <2>1, <2>2 DEF Told
<1> QED BY <1>3, <1>4 DEF SaysTheSame, t

(* The proxy handles the event at the head of the queue.                   *)
LEMMA ToldTail ==
    ASSUME NEW S, NEW q \in Seq(S), q # <<>>, NEW s, NEW t, NEW id, NEW addr,
           Told(q, s, id, addr),
           ~Says(Head(q), id) =>
                \A f \in Entries(t, id) : \E e \in Entries(s, id) : f.addr = e.addr,
           Says(Head(q), id) => \A f \in Entries(t, id) : f.addr = Said(Head(q))
    PROVE Told(Tail(q), t, id, addr)
<1> DEFINE r == Tail(q)
<1>1. /\ Len(r) = Len(q) - 1 /\ Len(r) \in Nat /\ Len(q) \in Nat /\ Head(q) = q[1]
      /\ 1 \in 1..Len(q) /\ \A i \in 1..Len(r) : r[i] = q[i + 1]
    BY HeadTailProperties, LenProperties, EmptySeq
<1> HIDE DEF r
<1>2. /\ \A i \in 1..Len(r) : i + 1 \in 1..Len(q) /\ r[i] = q[i + 1]
      /\ \A j \in 1..Len(q) : j = 1 \/ (j - 1 \in 1..Len(r) /\ r[j - 1] = q[j])
    BY <1>1
<1>3. \A i \in Saying(r, id) : i \in Int /\ i >= 1 /\ i + 1 \in Saying(q, id) /\ r[i] = q[i + 1]
    BY <1>1, <1>2 DEF Saying
<1>4. \A j \in Saying(q, id) : j \in Int /\ (j = 1 \/ (j - 1 \in Saying(r, id) /\ r[j - 1] = q[j]))
    BY <1>1, <1>2 DEF Saying
<1>5. ASSUME NEW i \in Saying(r, id), \A j \in Saying(r, id) : j <= i
      PROVE Said(r[i]) = addr
    <2>1. i + 1 \in Saying(q, id) /\ r[i] = q[i + 1] /\ i \in Int /\ i >= 1
        BY <1>3
    <2>2. ASSUME NEW j \in Saying(q, id) PROVE j <= i + 1
        <3>1. j \in Int /\ (j = 1 \/ j - 1 \in Saying(r, id))
            BY <1>4
        <3>2. CASE j = 1
            BY <2>1, <3>2
        <3>3. CASE j - 1 \in Saying(r, id)
            <4>1. j - 1 <= i
                BY <1>5, <3>3
            <4> QED BY <2>1, <3>1, <4>1
        <3> QED BY <3>1, <3>2, <3>3
    <2> QED BY <2>1, <2>2 DEF Told
<1>6. ASSUME Saying(r, id) = {}, NEW f \in Entries(t, id) PROVE f.addr = addr
    <2>1. \A j \in Saying(q, id) : j = 1
        BY <1>4, <1>6
    <2>2. CASE Says(Head(q), id)
        <3>1. 1 \in Saying(q, id)
            BY <1>1, <2>2 DEF Saying
        <3>2. \A j \in Saying(q, id) : j <= 1
            BY <2>1
        <3>3. Said(q[1]) = addr
            BY <3>1, <3>2 DEF Told
        <3> QED BY <1>1, <1>6, <2>2, <3>3
    <2>3. CASE ~Says(Head(q), id)
        <3>1. 1 \notin Saying(q, id)
            BY <1>1, <2>3 DEF Saying
        <3>2. Saying(q, id) = {}
            BY <2>1, <3>1
        <3>3. PICK e \in Entries(s, id) : f.addr = e.addr
            BY <1>6, <2>3
        <3> QED BY <3>2, <3>3 DEF Told
    <2> QED BY <2>2, <2>3
<1> QED BY <1>5, <1>6 DEF Told, r

-----------------------------------------------------------------------------
(* What a proxy has follows the central registry: the steps of processes   *)

LEMMA CopyKept ==
    ASSUME NEW n \in Nodes, NEW id, Follows(n, id), UNCHANGED <<central, handler>>,
           Entries(Copy(n)', id) = Entries(Copy(n), id), AtMostOne(Of(Copy(n)', id)),
           After(n)' = After(n), Mine(n, id) => Mine(n, id)'
    PROVE Follows(n, id)'
<1>1. AllToAdd' = AllToAdd /\ AllToRemove' = AllToRemove
    BY DEF AllToAdd, AllToRemove
<1>2. WillKnow(n, id)'
    BY <1>1 DEF Follows, WillKnow
<1>3. WillForget(n, id)'
    BY <1>1 DEF Follows, WillForget
<1>4. AddsNothing(n, id)'
    BY DEF Follows, AddsNothing
<1> QED BY <1>2, <1>3, <1>4 DEF Follows

(* For a process that has no part in the step                              *)
LEMMA CopyStays ==
    ASSUME NEW n \in Nodes, NEW id, Follows(n, id), UNCHANGED <<central, handler>>,
           UNCHANGED <<preg[n], down[n], reader[n]>>, Mine(n, id) => Mine(n, id)'
    PROVE Follows(n, id)'
<1>1. Copy(n)' = Copy(n) /\ After(n)' = After(n)
    BY DEF Copy, After
<1> QED BY <1>1, CopyKept DEF Follows

LEMMA CopiesApp ==
    ASSUME ProxiesFollow, NEW n \in Nodes, AppMoves(n)
    PROVE ProxiesFollow'
<1> SUFFICES ASSUME NEW k \in Nodes, NEW id \in Ids, Synced(k)', Good(k, id)'
             PROVE Follows(k, id)'
    BY DEF ProxiesFollow
<1>1. /\ UNCHANGED <<conn, links, down, central, handler, reader, status, raced>>
      /\ made \subseteq made' /\ \A m \in Nodes \ {n} : preg'[m] = preg[m] /\ up'[m] = up[m]
      /\ Lists(up'[n]) = Lists(up[n])
      /\ UnregIds(up[n]) \subseteq UnregIds(up'[n])
    BY DEF AppMoves
<1>2. Lists(up'[k]) = Lists(up[k]) /\ UnregIds(up[k]) \subseteq UnregIds(up'[k])
    BY <1>1
<1>3. Synced(k) /\ Good(k, id)
    BY <1>1, <1>2 DEF Synced, Good, HasTwin
<1>4. Follows(k, id)
    BY <1>3 DEF ProxiesFollow
<1>5. Mine(k, id) => Mine(k, id)'
    <2>1. CASE id \in UnregIds(up[k])
        BY <1>2, <2>1 DEF Mine
    <2>2. CASE IsOpen(id) /\ ep[id].node = k
        <3>1. \/ IsOpen(id)' /\ ep'[id].node = ep[id].node
              \/ ep[id].node = n /\ (conn[n] = "open" => id \in UnregIds(up'[n]))
            BY <2>2 DEF AppMoves
        <3> QED BY <1>3, <2>2, <3>1 DEF Synced, Mine
    <2> QED BY <2>1, <2>2 DEF Mine
<1>6. /\ Entries(preg'[k], id) = Entries(preg[k], id)
      /\ AtMostOne(Of(preg[k], id)) => AtMostOne(Of(preg'[k], id))
    BY <1>1 DEF AppMoves
<1>7. After(k)' = After(k)
    BY <1>1 DEF After
<1>8. Copy(k)' = Copy(k) \/ (Copy(k) = preg[k] /\ Copy(k)' = preg'[k])
    BY <1>1 DEF Copy
<1>9. Entries(Copy(k)', id) = Entries(Copy(k), id) /\ AtMostOne(Of(Copy(k)', id))
    BY <1>4, <1>6, <1>8 DEF Follows
<1> QED BY <1>1, <1>4, <1>5, <1>7, <1>9, CopyKept

LEMMA CopiesOthers ==
    ASSUME ProxiesFollow, NEW n \in Nodes, OthersStay(n)
    PROVE ProxiesFollow'
<1> SUFFICES ASSUME NEW k \in Nodes, NEW id \in Ids, Synced(k)', Good(k, id)'
             PROVE Follows(k, id)'
    BY DEF ProxiesFollow
<1>1. k # n
    BY DEF OthersStay, Synced
<1>2. /\ UNCHANGED <<links, central, handler, made, raced>>
      /\ UNCHANGED <<conn[k], up[k], down[k], status[k], preg[k], reader[k]>>
    BY <1>1 DEF OthersStay
<1>3. Synced(k) /\ Good(k, id)
    BY <1>2 DEF Synced, Good, HasTwin
<1>4. Mine(k, id) => Mine(k, id)'
    BY <1>1, <1>2 DEF Mine, OthersStay
<1> QED BY <1>2, <1>3, <1>4, CopyStays DEF ProxiesFollow

(* An entry takes the place of one that is equal.                          *)
LEMMA CopyReplaced ==
    ASSUME NEW n \in Nodes, NEW id, Follows(n, id), UNCHANGED <<central, handler>>,
           Entries(Copy(n), id) # {} => Entries(Copy(n)', id) # {},
           \A f \in Entries(Copy(n)', id) : \E e \in Entries(Copy(n), id) : entry_equals(e, f),
           AtMostOne(Of(Copy(n)', id)), After(n)' = After(n), Mine(n, id) => Mine(n, id)'
    PROVE Follows(n, id)'
<1>1. AllToAdd' = AllToAdd /\ AllToRemove' = AllToRemove
    BY DEF AllToAdd, AllToRemove
<1>2. WillKnow(n, id)'
    BY <1>1 DEF Follows, WillKnow
<1>3. WillForget(n, id)'
    BY <1>1 DEF Follows, WillForget
<1>4. AddsNothing(n, id)'
    BY EqualsIs DEF Follows, AddsNothing
<1> QED BY <1>2, <1>3, <1>4 DEF Follows

(* The list is on its way, or is being merged.                             *)
LEMMA CopyInTransit ==
    ASSUME DInv, NEW n \in Nodes, Reads(n),
           \/ handler[n].pc = "list" \/ Lists(down[n]) # {}
           \/ Merges(n) /\ reader'[n] # IdleReader
    PROVE Copy(n)' = Copy(n) /\ After(n)' = After(n)
<1>1. handler' = handler
    BY DEF Reads, ReaderKeeps, rcVars
<1>2. CASE handler[n].pc = "list"
    BY <1>1, <1>2 DEF Copy, After
<1>3. CASE handler[n].pc # "list" /\ Lists(down[n]) # {}
    <2> DEFINE q == down[n]
    <2>1. reader[n] = IdleReader
        BY <1>3 DEF DInv, ListedOnce, ListedOnceAt
    <2>2. q # <<>> /\ down'[n] = Tail(q)
        BY <2>1 DEF Reads, Takes, TakesAdd, TakesRemove, TakesUpdate, TakesResponse, TakesList,
               Merges
    <2>3. q \in Seq(MessagesOf(MadeIds)) /\ \A i, j \in Lists(q) : i = j
        BY DEF DInv, DTypeOK, ListedOnce, ListedOnceAt
    <2> HIDE DEF q
    <2>4. /\ Behind(Tail(q)) = Behind(q)
          /\ Head(q).kind # "list" =>
                Lists(Tail(q)) # {} /\ Tail(q)[TheList(Tail(q))] = q[TheList(q)]
          /\ Head(q).kind = "list" => Lists(Tail(q)) = {} /\ q[TheList(q)] = Head(q)
        BY <1>3, <2>2, <2>3, BehindTail DEF q
    <2>5. After(n)' = After(n)
        BY <1>1, <1>3, <2>2, <2>4 DEF After, q
    <2>6. CASE Head(q).kind # "list"
        BY <1>1, <1>3, <2>2, <2>4, <2>5, <2>6 DEF Copy, q
    <2>7. CASE Head(q).kind = "list"
        <3>1. TakesList(n)
            BY <2>1, <2>7 DEF q, Reads, Takes, TakesAdd, TakesRemove, TakesUpdate, TakesResponse,
                   Merges
        <3>2. reader'[n].list = Head(q).list /\ reader'[n] # IdleReader
            BY <3>1 DEF TakesList, IdleReader, q
        <3> QED BY <1>1, <1>3, <2>2, <2>4, <2>5, <2>7, <3>2 DEF Copy, q
    <2> QED BY <2>6, <2>7
<1>4. CASE handler[n].pc # "list" /\ Lists(down[n]) = {} /\ Merges(n) /\ reader'[n] # IdleReader
    <2>1. reader[n] # IdleReader /\ down'[n] = down[n] /\ reader'[n].list = reader[n].list
        BY <1>4 DEF Merges
    <2> QED BY <1>1, <1>4, <2>1 DEF Copy, After
<1> QED BY <1>2, <1>3, <1>4

(* The list is merged: the proxy has all of it and nothing else.           *)
LEMMA MergedIsList ==
    ASSUME DInv, AllGenuine, Routes, ListMerged, NEW n \in Nodes, NEW id \in Ids, ~HasTwin(id),
           Reads(n), Merges(n), reader'[n] = IdleReader, handler[n].pc # "list",
           Lists(down[n]) = {}
    PROVE /\ UNCHANGED <<central, handler>> /\ After(n)' = After(n)
          /\ Entries(Copy(n), id) # {} => Entries(Copy(n)', id) # {}
          /\ \A f \in Entries(Copy(n)', id) : \E e \in Entries(Copy(n), id) : entry_equals(e, f)
          /\ AtMostOne(Of(Copy(n)', id))
<1> DEFINE s == preg[n]
           c == reader[n].list
<1>1. /\ reader[n] # IdleReader /\ reader[n].pc = "prune" /\ reader[n].todo = <<>>
      /\ preg'[n] = s /\ down'[n] = down[n] /\ UNCHANGED <<central, handler>>
    BY DEF Merges, IdleReader, Reads, ReaderKeeps, rcVars
<1>2. /\ SameIds(s, c, id) /\ c \in Seq(Foreign(MadeIds))
      /\ \A i \in 1..Len(s) : ~s[i].endpoint
    BY <1>1, MergeIs
<1>3. MergingAt(reader[n], s, id)
    BY <1>1 DEF ListMerged
<1>4. Surplus(<<>>, c, id) = {}
    BY DEF Surplus, Of
<1>5. AtMostOne(InList(s, c, id)) /\ Surplus(s, c, id) = {}
    BY <1>1, <1>3, <1>4 DEF MergingAt
<1>6. \A e \in Items(c) : e.id = id => Known(s, e)
    BY <1>1, <1>3 DEF MergingAt
<1>7. Copy(n) = c /\ Copy(n)' = s /\ After(n)' = After(n)
    BY <1>1 DEF Copy, After
<1> HIDE DEF s, c
<1>8. Of(s, id) = InList(s, c, id)
    BY <1>5 DEF InList, Surplus
<1>9. Entries(c, id) # {} => Entries(s, id) # {}
    <2> SUFFICES ASSUME NEW e \in Entries(c, id) PROVE Entries(s, id) # {}
        OBVIOUS
    <2>1. e \in Items(c) /\ e.id = id
        BY EntriesAre
    <2>2. PICK j \in 1..Len(s) : entry_equals(s[j], e)
        BY <1>6, <2>1 DEF Known
    <2>3. s[j].id = id
        BY <1>2, <2>1, <2>2, EqualsIs DEF SameIds, Items
    <2>4. j \in Of(s, id)
        BY <1>2, <2>3 DEF Of
    <2> QED BY <2>4, EntriesAre
<1>10. ASSUME NEW f \in Entries(s, id) PROVE \E e \in Entries(c, id) : entry_equals(e, f)
    <2>1. PICK i \in Of(s, id) : f = s[i]
        BY EntriesAre
    <2>2. PICK j \in 1..Len(c) : entry_equals(c[j], f)
        BY <1>8, <2>1 DEF InList, Known
    <2>3. f \in Items(s) /\ f.id = id /\ c[j] \in Items(c) /\ c[j] \in Foreign(MadeIds)
        BY <1>2, <2>2, EntriesAre, ElementOfSeq DEF Items
    <2>4. c[j].id = id /\ ~c[j].endpoint
        BY <1>2, <2>2, <2>3 DEF SameIds, Foreign
    <2> QED BY <2>2, <2>3, <2>4, EntriesAre
<1> QED BY <1>1, <1>5, <1>7, <1>8, <1>9, <1>10

LEMMA CopyMerged ==
    ASSUME DInv, AllGenuine, Routes, ListMerged, NEW n \in Nodes, NEW id \in Ids, ~HasTwin(id),
           Reads(n), Merges(n), reader'[n] = IdleReader, handler[n].pc # "list",
           Lists(down[n]) = {}, Follows(n, id), Mine(n, id) => Mine(n, id)'
    PROVE Follows(n, id)'
BY MergedIsList, CopyReplaced

LEMMA HeadLeaves ==
    ASSUME NEW S, NEW q \in Seq(S), q # <<>>, NEW id
    PROVE /\ id \in AddedIds(q) <=> \/ id \in AddedIds(Tail(q))
                                    \/ Head(q).kind = "proxy-add" /\ Head(q).entry.id = id
          /\ id \in RemovedIds(q) <=> \/ id \in RemovedIds(Tail(q))
                                      \/ Head(q).kind = "proxy-remove" /\ Head(q).id = id
          /\ id \in UpdatedIds(q) <=> \/ id \in UpdatedIds(Tail(q))
                                      \/ Head(q).kind = "proxy-update-address" /\ Head(q).id = id
          /\ Items(Tail(q)) \subseteq Items(q) /\ Head(q) \in Items(q)
<1>1. Items(q) = {Head(q)} \cup Items(Tail(q))
    BY ItemsOfTail
<1> QED BY <1>1, KindsOfItems

(* No event of q adds the id.                                              *)
NoAdd(q, id) == /\ \A m \in OfKind(q, "proxy-add") : m.entry.id # id
                /\ UpdatesBehind(q, id)

LEMMA NoAddIs == ASSUME NEW q, NEW id, id \notin AddedIds(q) PROVE NoAdd(q, id)
<1>1. \A m \in OfKind(q, "proxy-add") : m.entry.id # id
    BY KindsOfItems DEF OfKind
<1>2. UpdatesBehind(q, id)
    BY <1>1 DEF OfKind, Items, UpdatesBehind
<1> QED BY <1>1, <1>2 DEF NoAdd

(* What the proxy has when it takes a message that is not the list         *)
TakesOnly(n, id) ==
    /\ Copy(n) = preg[n] /\ Copy(n)' = preg'[n]
    /\ After(n) = down[n] /\ After(n)' = Tail(down[n])
    /\ UNCHANGED <<central, handler>>
    /\ down[n] \in Seq(MessagesOf(MadeIds)) /\ down[n] # <<>>
    /\ preg[n] \in Seq(Listed(MadeIds)) /\ (Mine(n, id) => Mine(n, id)')

LEMMA TakesOnlyIs ==
    ASSUME DInv, NEW n \in Nodes, NEW id, Reads(n), NEW kind, Takes(n, kind),
           handler[n].pc # "list", Lists(down[n]) = {}, Mine(n, id) => Mine(n, id)'
    PROVE TakesOnly(n, id)
<1>1. /\ down[n] \in Seq(MessagesOf(MadeIds)) /\ down[n] # <<>> /\ down'[n] = Tail(down[n])
      /\ preg[n] \in Seq(Listed(MadeIds)) /\ UNCHANGED <<central, handler>>
      /\ reader[n] = IdleReader /\ reader'[n] = IdleReader
    BY DEF Takes, Reads, ReaderKeeps, rcVars, DInv, DTypeOK
<1>2. Lists(Tail(down[n])) = {}
    BY <1>1, BehindTail DEF DInv, ListedOnce, ListedOnceAt
<1> QED BY <1>1, <1>2 DEF TakesOnly, Copy, After, Behind

(* A message about another id                                              *)
LEMMA CopyTakesOther ==
    ASSUME NEW n \in Nodes, NEW id, TakesOnly(n, id), Follows(n, id),
           Head(down[n]).kind = "proxy-add" => Head(down[n]).entry.id # id,
           Head(down[n]).kind = "proxy-remove" => Head(down[n]).id # id,
           Entries(preg'[n], id) = {} <=> Entries(preg[n], id) = {},
           AtMostOne(Of(preg'[n], id)),
           \/ Entries(preg'[n], id) = Entries(preg[n], id)
           \/ /\ id \notin AddedIds(Tail(down[n]))
              /\ \A k \in Nodes : id \in ToAdd(handler[k]) => Entries(preg[n], id) = {}
    PROVE Follows(n, id)'
<1> DEFINE q == down[n]
<1>1. /\ Copy(n) = preg[n] /\ Copy(n)' = preg'[n] /\ After(n) = q /\ After(n)' = Tail(q)
      /\ UNCHANGED <<central, handler>> /\ q \in Seq(MessagesOf(MadeIds)) /\ q # <<>>
      /\ Mine(n, id) => Mine(n, id)'
    BY DEF TakesOnly
<1> HIDE DEF q
<1>2. /\ id \in AddedIds(q) <=> id \in AddedIds(Tail(q))
      /\ id \in RemovedIds(q) <=> id \in RemovedIds(Tail(q))
      /\ id \in UpdatedIds(Tail(q)) => id \in UpdatedIds(q)
      /\ Items(Tail(q)) \subseteq Items(q)
    BY <1>1, HeadLeaves DEF q
<1>3. UpdatesBehind(q, id) => UpdatesBehind(Tail(q), id)
    BY <1>1, FewerInTail DEF FewerItems
<1>4. AllToAdd' = AllToAdd /\ AllToRemove' = AllToRemove
    BY <1>1 DEF AllToAdd, AllToRemove
<1>5. WillKnow(n, id)'
    BY <1>1, <1>2, <1>4 DEF Follows, WillKnow
<1>6. WillForget(n, id)'
    BY <1>1, <1>2, <1>4 DEF Follows, WillForget
<1>7. AddsNothing(n, id)'
    <2>1. CASE Entries(preg'[n], id) = Entries(preg[n], id)
        BY <1>1, <1>2, <1>3, <2>1 DEF Follows, AddsNothing, OfKind
    <2>2. CASE Entries(preg'[n], id) # Entries(preg[n], id)
        <3>1. /\ id \notin AddedIds(Tail(q))
              /\ \A k \in Nodes : id \in ToAdd(handler'[k]) => Entries(preg'[n], id) = {}
            BY <1>1, <2>2 DEF q
        <3>2. NoAdd(Tail(q), id)
            BY <3>1, NoAddIs
        <3> QED BY <1>1, <3>1, <3>2 DEF AddsNothing, NoAdd
    <2> QED BY <2>1, <2>2
<1> QED BY <1>1, <1>5, <1>6, <1>7 DEF Follows

LEMMA CopyTakesAdd ==
    ASSUME DInv, AllGenuine, Routes, NEW n \in Nodes, NEW id \in Ids, ~HasTwin(id), Reads(n),
           TakesAdd(n), TakesOnly(n, id), Follows(n, id)
    PROVE Follows(n, id)'
<1> DEFINE q == down[n]
           s == preg[n]
           e == Head(q).entry
           w == WithEntry(s, e)
           t == preg'[n]
<1>1. /\ Copy(n) = s /\ Copy(n)' = t /\ After(n) = q /\ After(n)' = Tail(q)
      /\ UNCHANGED <<central, handler>> /\ q \in Seq(MessagesOf(MadeIds)) /\ q # <<>>
      /\ s \in Seq(Listed(MadeIds)) /\ (Mine(n, id) => Mine(n, id)')
    BY DEF TakesOnly
<1>2. /\ Head(q).kind = "proxy-add" /\ e \in Listed(MadeIds) /\ ~e.endpoint
      /\ w \in Seq(Listed(MadeIds)) /\ SameNames(w, t)
      /\ \A i : Entries(t, i) = Entries(w, i)
    BY DEF TakesAdd, Takes, Listed, Foreign
<1>3. /\ AddsOnce(q) /\ AtMostOne(Of(s, id))
      /\ \A m \in Nodes : ToAdd(handler[m]) \cap AddedIds(q) = {}
    BY <1>1 DEF Routes, AnnouncedOnce, Follows
<1>4. e \in Genuine /\ Items(s) \subseteq Genuine /\ MadeOnce
    <2>1. Head(q) \in Items(q)
        BY <1>1, HeadLeaves
    <2>2. Honest(Head(q))
        BY <2>1 DEF AllGenuine, Transit
    <2> QED BY <1>2, <2>2 DEF Honest, AllGenuine, Kept
<1>5. \A i \in OwnIds(s) : Mine(n, i)
    BY DEF DInv, Owned, OwnedAt, Mine
<1> HIDE DEF q, s, e, w, t
<1>6. /\ \A i : Entries(w, i) = Entries(s, i) \cup (IF e.id = i /\ ~Known(s, e) THEN {e} ELSE {})
      /\ AtMostOne(Of(s, id)) /\ (e.id = id /\ ~Known(s, e) => Of(s, id) = {}) => AtMostOne(Of(w, id))
    BY <1>1, <1>2, WithEntryEntries DEF w
<1>7. AtMostOne(Of(w, id)) => AtMostOne(Of(t, id))
    BY <1>2, RenamedEntries
<1>8. CASE e.id # id
    <2>1. Entries(t, id) = Entries(s, id) /\ AtMostOne(Of(t, id))
        BY <1>2, <1>3, <1>6, <1>7, <1>8
    <2> QED BY <1>2, <1>8, <2>1, CopyTakesOther DEF q, s, e, t
<1>9. CASE e.id = id
    <2>1. id \in AddedIds(q) /\ id \notin AddedIds(Tail(q))
        BY <1>1, <1>2, <1>3, <1>9, HeadLeaves, FewerInTail DEF e
    <2>2. NoAdd(Tail(q), id)
        BY <2>1, NoAddIs
    <2>3. AddsNothing(n, id)'
        <3>1. \A k \in Nodes : id \notin ToAdd(handler'[k])
            BY <1>1, <1>3, <2>1
        <3> QED BY <1>1, <2>2, <3>1 DEF AddsNothing, NoAdd
    <2>4. AllToAdd' = AllToAdd /\ AllToRemove' = AllToRemove
        BY <1>1 DEF AllToAdd, AllToRemove
    <2>5. id \in RemovedIds(Tail(q)) <=> id \in RemovedIds(q)
        BY <1>1, <1>2, HeadLeaves
    <2>6. WillForget(n, id)'
        BY <1>1, <2>1, <2>4, <2>5 DEF Follows, WillForget
    <2>7. WillKnow(n, id)' /\ AtMostOne(Of(t, id))
        <3>1. CASE Entries(s, id) # {}
            <4>1. PICK f \in Entries(s, id) : TRUE
                BY <3>1
            <4>2. Head(q) \in OfKind(q, "proxy-add")
                BY <1>1, <1>2, HeadLeaves DEF OfKind
            <4>3. entry_equals(f, e)
                BY <1>1, <1>9, <4>1, <4>2 DEF Follows, AddsNothing, e
            <4>4. Known(s, e)
                <5>1. PICK i \in Of(s, id) : f = s[i]
                    BY <4>1, EntriesAre
                <5> QED BY <4>3, <5>1 DEF Known, Of
            <4>5. Entries(t, id) # {} /\ AtMostOne(Of(t, id))
                BY <1>2, <1>3, <1>6, <1>7, <3>1, <4>4
            <4> QED BY <1>1, <4>5 DEF WillKnow
        <3>2. CASE Entries(s, id) = {} /\ Known(s, e)
            <4>1. PICK i \in 1..Len(s) : entry_equals(s[i], e)
                BY <3>2 DEF Known
            <4>2. s[i] \in Genuine
                BY <1>4 DEF Items
            <4>3. s[i].id = id
                BY <1>4, <1>9, <4>1, <4>2, TwinsOrSame
            <4>4. s[i].endpoint
                <5>1. Of(s, id) = {}
                    BY <3>2, EntriesAre
                <5> QED BY <4>3, <5>1 DEF Of
            <4>5. Mine(n, id)
                BY <1>5, <4>3, <4>4 DEF OwnIds
            <4>6. AtMostOne(Of(t, id))
                BY <1>3, <1>6, <1>7, <3>2
            <4> QED BY <1>1, <4>5, <4>6 DEF WillKnow
        <3>3. CASE Entries(s, id) = {} /\ ~Known(s, e)
            <4>1. Of(s, id) = {}
                BY <3>3, EntriesAre
            <4>2. Entries(t, id) # {} /\ AtMostOne(Of(t, id))
                BY <1>2, <1>3, <1>6, <1>7, <1>9, <3>3, <4>1
            <4> QED BY <1>1, <4>2 DEF WillKnow
        <3> QED BY <3>1, <3>2, <3>3
    <2> QED BY <1>1, <2>3, <2>6, <2>7 DEF Follows
<1> QED BY <1>8, <1>9

LEMMA CopyTakesRemove ==
    ASSUME DInv, Routes, NEW n \in Nodes, NEW id \in Ids, Reads(n),
           TakesRemove(n), TakesOnly(n, id), Follows(n, id)
    PROVE Follows(n, id)'
<1> DEFINE q == down[n]
           s == preg[n]
           rid == Head(q).id
           t == registry_delete(s, rid)
<1>1. /\ Copy(n) = s /\ Copy(n)' = preg'[n] /\ After(n) = q /\ After(n)' = Tail(q)
      /\ UNCHANGED <<central, handler>> /\ q \in Seq(MessagesOf(MadeIds)) /\ q # <<>>
      /\ s \in Seq(Listed(MadeIds)) /\ (Mine(n, id) => Mine(n, id)')
    BY DEF TakesOnly
<1>2. preg'[n] = t /\ Head(q).kind = "proxy-remove"
    BY DEF TakesRemove, Takes
<1>3. AtMostOne(Of(s, id))
    BY <1>1 DEF Follows
<1>4. rid \in RemovedIds(q)
    BY <1>1, <1>2, HeadLeaves
<1>5. rid \notin IdsOf(central) /\ InOrder(q)
    BY <1>4 DEF Routes, RemovedGone
<1>6. rid = id => rid \notin OwnIds(s)
    <2>1. rid \in WithdrawnAt(n)
        BY <1>4 DEF WithdrawnAt
    <2> QED BY <2>1 DEF DInv, Withdrawn, Owned, OwnedAt
<1> HIDE DEF q, s, rid
<1>7. /\ AtMostOne(Of(t, id)) /\ (rid # id => Entries(t, id) = Entries(s, id))
      /\ rid = id => Entries(t, id) = {}
    <2>1. CASE rid \in IdsOf(s)
        <3>1. FirstId(s, rid) \in 1..Len(s) /\ s[FirstId(s, rid)].id = rid
            BY <1>1, <2>1, FirstIdIs
        <3>2. rid = id => ~s[FirstId(s, rid)].endpoint
            BY <1>6, <3>1 DEF OwnIds
        <3> QED BY <1>1, <1>3, <2>1, <3>2, DeleteEntries
    <2>2. CASE rid \notin IdsOf(s)
        BY <1>3, <2>2, EntriesAre DEF registry_delete
    <2> QED BY <2>1, <2>2
<1> HIDE DEF t
<1>8. CASE rid # id
    BY <1>2, <1>7, <1>8, CopyTakesOther DEF q, s, rid
<1>9. CASE rid = id
    <2>1. id \notin AddedIds(Tail(q))
        BY <1>1, <1>2, <1>5, <1>9, FewerInTail DEF rid
    <2>2. WillKnow(n, id)' /\ WillForget(n, id)' /\ AddsNothing(n, id)'
        BY <1>1, <1>2, <1>5, <1>7, <1>9, <2>1 DEF WillKnow, WillForget, AddsNothing
    <2> QED BY <1>1, <1>2, <1>7, <2>2 DEF Follows
<1> QED BY <1>8, <1>9

LEMMA CopyTakesUpdate ==
    ASSUME DInv, Routes, NEW n \in Nodes, NEW id \in Ids, Reads(n),
           TakesUpdate(n), TakesOnly(n, id), Follows(n, id)
    PROVE Follows(n, id)'
<1> DEFINE q == down[n]
           s == preg[n]
           uid == Head(q).id
           t == preg'[n]
<1>1. /\ Copy(n) = s /\ After(n) = q /\ q \in Seq(MessagesOf(MadeIds)) /\ q # <<>>
      /\ s \in Seq(Listed(MadeIds))
    BY DEF TakesOnly
<1>2. /\ t = registry_update_addr(s, uid, Head(q).addr) /\ Head(q).addr \in Addrs
      /\ Head(q).kind = "proxy-update-address"
    BY DEF TakesUpdate, Takes
<1>3. AtMostOne(Of(s, id))
    BY <1>1 DEF Follows
<1> HIDE DEF q, s, t, uid
<1>4. SameNames(s, t) /\ (uid # id => Entries(t, id) = Entries(s, id))
    BY <1>1, <1>2, UpdateEntries
<1>5. Of(t, id) = Of(s, id) /\ (Entries(t, id) = {} <=> Entries(s, id) = {})
    BY <1>4, RenamedEntries
<1>6. uid = id /\ Entries(s, id) # {} =>
        /\ id \notin AddedIds(Tail(q))
        /\ \A k \in Nodes : id \notin ToAdd(handler[k])
    <2> SUFFICES ASSUME uid = id, NEW f \in Entries(s, id)
                 PROVE /\ id \notin AddedIds(Tail(q))
                       /\ \A k \in Nodes : id \notin ToAdd(handler[k])
        OBVIOUS
    <2>1. UpdatesBehind(q, id) /\ \A k \in Nodes : id \in ToAdd(handler[k]) => id \notin UpdatedIds(q)
        BY <1>1 DEF Follows, AddsNothing
    <2>2. id \in UpdatedIds(q)
        BY <1>1, <1>2, HeadLeaves DEF uid
    <2> QED BY <1>1, <1>2, <2>1, <2>2, FewerInTail DEF uid
<1>7. \/ Entries(t, id) = Entries(s, id)
      \/ /\ id \notin AddedIds(Tail(q))
         /\ \A k \in Nodes : id \in ToAdd(handler[k]) => Entries(s, id) = {}
    BY <1>4, <1>5, <1>6
<1> QED BY <1>2, <1>3, <1>5, <1>7, CopyTakesOther DEF q, s, t

LEMMA CopiesReader ==
    ASSUME DInv, AllGenuine, Routes, ListMerged, ProxiesFollow, NEW n \in Nodes, Reads(n)
    PROVE ProxiesFollow'
<1> SUFFICES ASSUME NEW k \in Nodes, NEW id \in Ids, Synced(k)', Good(k, id)'
             PROVE Follows(k, id)'
    BY DEF ProxiesFollow
<1>1. /\ UNCHANGED <<conn, links, central, handler, made, raced>> /\ EpKeeps(ep', {})
      /\ Lists(up'[k]) = Lists(up[k]) /\ UnregIds(up'[k]) = UnregIds(up[k])
    BY DEF Reads, ReaderKeeps, rcVars
<1>2. Synced(k) /\ Good(k, id)
    BY <1>1 DEF Synced, Good, HasTwin
<1>3. Follows(k, id) /\ ~HasTwin(id)
    BY <1>2 DEF ProxiesFollow, Good
<1>4. Mine(k, id) => Mine(k, id)'
    <2>1. IsOpen(id) => IsOpen(id)' /\ ep'[id].node = ep[id].node
        BY <1>1, KeptPlaces
    <2> QED BY <1>1, <2>1 DEF Mine
<1>5. CASE k # n
    <2>1. UNCHANGED <<preg[k], down[k], reader[k]>>
        BY <1>5 DEF Reads
    <2> QED BY <1>1, <1>3, <1>4, <2>1, CopyStays
<1>6. CASE k = n
    <2>1. CASE \/ handler[n].pc = "list" \/ Lists(down[n]) # {}
               \/ Merges(n) /\ reader'[n] # IdleReader
        <3>1. Copy(n)' = Copy(n) /\ After(n)' = After(n)
            BY <2>1, CopyInTransit
        <3> QED BY <1>1, <1>3, <1>4, <1>6, <3>1, CopyKept DEF Follows
    <2>2. CASE handler[n].pc # "list" /\ Lists(down[n]) = {}
        <3>1. CASE Merges(n) /\ reader'[n] = IdleReader
            BY <1>3, <1>4, <1>6, <2>2, <3>1, CopyMerged
        <3>2. CASE TakesAdd(n) \/ TakesRemove(n) \/ TakesUpdate(n) \/ TakesResponse(n)
            <4>1. PICK kind : Takes(n, kind)
                BY <3>2 DEF TakesAdd, TakesRemove, TakesUpdate, TakesResponse
            <4>2. TakesOnly(n, id)
                BY <1>4, <1>6, <2>2, <4>1, TakesOnlyIs
            <4>3. CASE TakesResponse(n)
                <5>1. Head(down[n]).kind = "response" /\ preg'[n] = preg[n]
                    BY <4>3 DEF TakesResponse, Takes
                <5>2. AtMostOne(Of(preg'[n], id))
                    BY <1>3, <1>6, <4>2, <5>1 DEF TakesOnly, Follows
                <5> QED BY <1>3, <1>6, <4>2, <5>1, <5>2, CopyTakesOther
            <4> QED BY <1>3, <1>6, <3>2, <4>2, <4>3, CopyTakesAdd, CopyTakesRemove, CopyTakesUpdate
        <3>3. ~TakesList(n)
            <4>1. TakesList(n) => 1 \in Lists(down[n])
                BY DEF TakesList, Lists, DInv, DTypeOK
            <4> QED BY <2>2, <4>1
        <3>4. CASE Merges(n) /\ reader'[n] # IdleReader
            BY <2>1, <3>4
        <3> QED BY <3>1, <3>2, <3>3, <3>4 DEF Reads
    <2> QED BY <2>1, <2>2
<1> QED BY <1>5, <1>6

-----------------------------------------------------------------------------
(* What a proxy has follows the central registry: the steps of rcregistry  *)

(* The events of q and t that are about this id are the same.              *)
SameEvents(q, t, id) ==
    /\ id \in AddedIds(t) <=> id \in AddedIds(q)
    /\ id \in RemovedIds(t) <=> id \in RemovedIds(q)
    /\ id \in UpdatedIds(t) <=> id \in UpdatedIds(q)
    /\ \A m \in OfKind(t, "proxy-add") : m.entry.id = id => m \in OfKind(q, "proxy-add")
    /\ UpdatesBehind(q, id) => UpdatesBehind(t, id)
    /\ SaysTheSame(q, t, id)

LEMMA SameEventsAre ==
    ASSUME NEW id
    PROVE /\ \A q : SameEvents(q, q, id)
          /\ \A q, t, u : SameEvents(q, t, id) /\ SameEvents(t, u, id) => SameEvents(q, u, id)
BY DEF SameEvents, SaysTheSame

LEMMA OtherAppended ==
    ASSUME NEW S, NEW q \in Seq(S), NEW r \in S, NEW id,
           r.kind = "proxy-add" => r.entry.id # id,
           r.kind \in {"proxy-remove", "proxy-update-address"} => r.id # id
    PROVE SameEvents(q, Append(q, r), id)
<1> DEFINE t == Append(q, r)
<1>1. Items(t) = Items(q) \cup {r} /\ (UpdatesBehind(q, id) => UpdatesBehind(t, id))
    BY OneMoreItem
<1> HIDE DEF t
<1>2. /\ id \in AddedIds(t) <=> id \in AddedIds(q)
      /\ id \in RemovedIds(t) <=> id \in RemovedIds(q)
      /\ id \in UpdatedIds(t) <=> id \in UpdatedIds(q)
    BY <1>1, KindsOfItems
<1>3. \A m \in OfKind(t, "proxy-add") : m.entry.id = id => m \in OfKind(q, "proxy-add")
    BY <1>1 DEF OfKind
<1>4. SaysTheSame(q, t, id)
    <2>1. ~Says(r, id)
        BY DEF Says
    <2> QED BY <2>1, ToldAppend DEF t
<1> QED BY <1>1, <1>2, <1>3, <1>4 DEF SameEvents, t

(* Nothing about this id has come to the proxy.                            *)
LEMMA CopySame ==
    ASSUME NEW n \in Nodes, NEW id, Follows(n, id), Copy(n)' = Copy(n),
           SameEvents(After(n), After(n)', id),
           id \in IdsOf(central') => id \in IdsOf(central) \cup AllToAdd',
           id \in IdsOf(central) => id \in IdsOf(central') \cup AllToRemove',
           id \in AllToAdd => id \in AllToAdd', id \in AllToRemove => id \in AllToRemove',
           id \in IdsOf(central') /\ Mine(n, id) => Mine(n, id)',
           \A k \in Nodes : id \in ToAdd(handler'[k]) =>
                Entries(Copy(n), id) = {} \/ handler'[k] = handler[k]
    PROVE Follows(n, id)'
<1>1. WillKnow(n, id)'
    BY DEF Follows, WillKnow, SameEvents
<1>2. WillForget(n, id)'
    BY DEF Follows, WillForget, SameEvents
<1>3. AddsNothing(n, id)'
    BY DEF Follows, AddsNothing, SameEvents
<1> QED BY <1>1, <1>2, <1>3 DEF Follows

LEMMA CopyIsSeen ==
    ASSUME NEW n \in Nodes, NEW id, Entries(Copy(n), id) # {}
    PROVE id \in Seen(n)
<1>1. id \in ForeignIds(Copy(n)) /\ id \in IdsOf(Copy(n))
    BY EntriesAre
<1>2. CASE handler[n].pc = "list"
    BY <1>1, <1>2 DEF Copy, Seen, CopyIds
<1>3. CASE handler[n].pc # "list" /\ Lists(down[n]) # {}
    <2>1. TheList(down[n]) \in Lists(down[n])
        BY <1>3 DEF TheList
    <2>2. down[n][TheList(down[n])] \in OfKind(down[n], "list")
        BY <2>1 DEF Lists, OfKind, Items
    <2>3. id \in ListIds(down[n])
        BY <1>1, <1>3, <2>2 DEF Copy, ListIds
    <2> QED BY <2>3 DEF Seen, CopyIds
<1>4. CASE handler[n].pc # "list" /\ Lists(down[n]) = {}
    BY <1>1, <1>4 DEF Copy, Seen, CopyIds
<1> QED BY <1>2, <1>3, <1>4

LEMMA HandlesCopy ==
    ASSUME DInv, NEW n \in Nodes, NEW h, Handles(n, h), Effect(n, h), NEW k \in Nodes,
           ~(k = n /\ h.pc = "list"), NEW id
    PROVE Copy(k)' = Copy(k) /\ SameEvents(After(k), After(k)', id)
<1>1. /\ UNCHANGED <<reader, preg>> /\ handler[n] = Idle
      /\ handler'[n] = h /\ \A m \in Nodes \ {n} : handler'[m] = handler[m]
    BY DEF Effect, proxyVars
<1>2. CASE handler[k].pc = "list"
    <2>1. handler'[k] = handler[k]
        BY <1>1, <1>2 DEF Idle
    <2> QED BY <1>2, <2>1, SameEventsAre DEF Copy, After
<1>3. CASE handler[k].pc # "list"
    <2> DEFINE q == down[k]
    <2>1. handler'[k].pc # "list"
        BY <1>1, <1>3
    <2>2. CASE down'[k] = down[k]
        BY <1>1, <1>3, <2>1, <2>2, SameEventsAre DEF Copy, After
    <2>3. CASE \E r \in MessagesOf(MadeIds) : r.kind = "response" /\ down'[k] = Append(down[k], r)
        <3>1. PICK r \in MessagesOf(MadeIds) : r.kind = "response" /\ down'[k] = Append(q, r)
            BY <2>3
        <3>2. q \in Seq(MessagesOf(MadeIds)) /\ \A i, j \in Lists(q) : i = j
            BY DEF DInv, DTypeOK, ListedOnce, ListedOnceAt
        <3> HIDE DEF q
        <3>3. /\ Lists(Append(q, r)) = Lists(q) /\ Behind(Append(q, r)) = Append(Behind(q), r)
              /\ Lists(q) # {} => Append(q, r)[TheList(Append(q, r))] = q[TheList(q)]
              /\ Behind(q) \in Seq(MessagesOf(MadeIds))
            <4>1. r.kind # "list"
                BY <3>1
            <4>2. Behind(q) \in Seq(MessagesOf(MadeIds))
                BY <3>2, BehindIs
            <4> QED BY <3>2, <4>1, <4>2, BehindAppend
        <3>4. SameEvents(Behind(q), Behind(Append(q, r)), id)
            BY <3>1, <3>3, OtherAppended
        <3> QED BY <1>1, <1>3, <2>1, <3>1, <3>3, <3>4 DEF Copy, After, q
    <2> QED BY <2>2, <2>3 DEF Handles
<1> QED BY <1>2, <1>3

LEMMA ListIsCentral ==
    ASSUME DInv, Routes, NEW n \in Nodes, NEW h, Effect(n, h), h.pc = "list", NEW id \in Ids
    PROVE Follows(n, id)'
<1>1. /\ handler'[n] = h /\ h.list = central /\ central' = central
      /\ \A m \in Nodes \ {n} : handler'[m] = handler[m]
    BY DEF Effect
<1>2. Copy(n)' = central /\ After(n)' = <<>>
    BY <1>1 DEF Copy, After
<1>3. /\ id \in IdsOf(central) <=> Entries(central, id) # {}
      /\ AtMostOne(Of(central, id))
      /\ Entries(central, id) = {e \in Items(central) : e.id = id}
    BY CentralEntries
<1>4. id \notin AddedIds(<<>>) /\ id \notin UpdatedIds(<<>>) /\ NoAdd(<<>>, id)
    <2>1. Items(<<>>) = {}
        BY DEF Items
    <2> QED BY <2>1, KindsOfItems, NoAddIs
<1>5. AddsNothing(n, id)'
    <2>1. ASSUME NEW f \in Entries(central, id), NEW k \in Nodes, id \in ToAdd(handler'[k])
          PROVE entry_equals(f, handler'[k].event.entry)
        <3>1. k # n /\ handler'[k] = handler[k]
            BY <1>1, <2>1 DEF ToAdd, Adds
        <3>2. Adds(handler[k]) /\ id = handler[k].event.entry.id
            BY <2>1, <3>1 DEF ToAdd
        <3>3. PICK e \in Items(central) : e.id = id /\ entry_equals(e, handler[k].event.entry)
            BY <3>2 DEF Routes, ToAddPresent
        <3>4. e \in Entries(central, id)
            BY <1>3, <3>3
        <3>5. e = f
            <4>1. Entries(central, id) = {central[i] : i \in Of(central, id)}
                BY EntriesAre
            <4> QED BY <1>3, <2>1, <3>4, <4>1 DEF AtMostOne
        <3> QED BY <3>1, <3>3, <3>5
    <2> QED BY <1>2, <1>4, <2>1 DEF AddsNothing, NoAdd
<1>6. WillKnow(n, id)' /\ WillForget(n, id)'
    BY <1>1, <1>2, <1>3, <1>4 DEF WillKnow, WillForget
<1> QED BY <1>2, <1>3, <1>5, <1>6 DEF Follows

LEMMA CopiesHandles ==
    ASSUME DInv, AllGenuine, FollowsInv, Routes, ProxiesFollow, NEW n \in Nodes, NEW h,
           HandlesOne(n, h)
    PROVE ProxiesFollow'
<1> SUFFICES ASSUME NEW k \in Nodes, NEW id \in Ids, Synced(k)', Good(k, id)'
             PROVE Follows(k, id)'
    BY DEF ProxiesFollow
<1>1. Effect(n, h) /\ Handles(n, h)
    BY HandlesEffect DEF HandlesOne, HandlesRegister, HandlesUnregister, HandlesUpdate, HandlesList
<1>2. /\ UNCHANGED <<conn, made, ep, raced>> /\ handler[n] = Idle /\ handler'[n] = h
      /\ \A m \in Nodes \ {n} : handler'[m] = handler[m] /\ up'[m] = up[m]
      /\ h.pc # "list" => Lists(up[n]) = {}
    BY <1>1 DEF Effect, proxyVars
<1>3. CASE k = n /\ h.pc = "list"
    BY <1>1, <1>3, ListIsCentral
<1>4. CASE ~(k = n /\ h.pc = "list")
    <2>1. Synced(k) /\ Good(k, id)
        BY <1>2, <1>4 DEF Synced, Good, HasTwin, Idle
    <2>2. Follows(k, id)
        BY <2>1 DEF ProxiesFollow
    <2>3. Copy(k)' = Copy(k) /\ SameEvents(After(k), After(k)', id)
        BY <1>1, <1>4, HandlesCopy
    <2>4. ToAdd(handler[n]) = {} /\ ToRemove(handler[n]) = {}
        BY <1>2 DEF Idle, ToAdd, Adds, ToRemove
    <2>5. AllToAdd' = AllToAdd \cup ToAdd(h) /\ AllToRemove' = AllToRemove \cup ToRemove(h)
        <3>1. /\ \A x : x \in AllToAdd' <=> x \in AllToAdd \cup ToAdd(h)
              /\ \A x : x \in AllToRemove' <=> x \in AllToRemove \cup ToRemove(h)
            BY <1>2, <2>4 DEF AllToAdd, AllToRemove
        <3> QED BY <3>1
    <2>6. /\ IdsOf(central') \subseteq IdsOf(central) \cup ToAdd(h)
          /\ IdsOf(central) \subseteq IdsOf(central') \cup ToRemove(h)
          /\ UnregIds(up[k]) \cap IdsOf(central') \subseteq UnregIds(up'[k])
          /\ ToAdd(h) \subseteq RegIds(up[n])
        BY <1>1 DEF Effect
    <2>7. id \in IdsOf(central') /\ Mine(k, id) => Mine(k, id)'
        BY <1>2, <2>6 DEF Mine, IsOpen
    <2>8. ASSUME NEW m \in Nodes, id \in ToAdd(handler'[m])
          PROVE Entries(Copy(k), id) = {} \/ handler'[m] = handler[m]
        <3>1. CASE m = n
            <4>1. id \in Unsent(n)
                BY <1>2, <2>6, <2>8, <3>1 DEF Unsent
            <4>2. id \notin Seen(k)
                BY <4>1 DEF Routes, Unseen
            <4> QED BY <4>2, CopyIsSeen
        <3> QED BY <1>2, <3>1
    <2> QED BY <2>2, <2>3, <2>5, <2>6, <2>7, <2>8, CopySame
<1> QED BY <1>3, <1>4

(* A handler whose step announces nothing, and leaves each proxy the list  *)
(* and the events that it had                                              *)
Quietly(n) ==
    /\ UNCHANGED <<conn, up, central, ep, made, raced>>
    /\ \A m \in Nodes \ {n} : handler'[m] = handler[m]
    /\ handler[n].pc # "announce" /\ handler'[n].pc # "announce"
    /\ \A k \in Nodes : Synced(k)' =>
            Synced(k) /\ Copy(k)' = Copy(k) /\ After(k)' = After(k)

LEMMA CopiesQuiet ==
    ASSUME ProxiesFollow, NEW n \in Nodes, Quietly(n)
    PROVE ProxiesFollow'
<1> SUFFICES ASSUME NEW k \in Nodes, NEW id \in Ids, Synced(k)', Good(k, id)'
             PROVE Follows(k, id)'
    BY DEF ProxiesFollow
<1>1. Follows(k, id) /\ Copy(k)' = Copy(k) /\ After(k)' = After(k)
    BY DEF Quietly, ProxiesFollow, Good, HasTwin
<1>2. /\ ToAdd(handler[n]) = {} /\ ToRemove(handler[n]) = {}
      /\ ToAdd(handler'[n]) = {} /\ ToRemove(handler'[n]) = {}
    BY DEF Quietly, ToAdd, Adds, ToRemove
<1>3. /\ \A x : x \in AllToAdd' <=> x \in AllToAdd
      /\ \A x : x \in AllToRemove' <=> x \in AllToRemove
    BY <1>2 DEF Quietly, AllToAdd, AllToRemove
<1>4. Mine(k, id) => Mine(k, id)'
    BY DEF Quietly, Mine, IsOpen
<1>5. \A m \in Nodes : id \in ToAdd(handler'[m]) => handler'[m] = handler[m]
    BY <1>2 DEF Quietly
<1> QED BY <1>1, <1>3, <1>4, <1>5, CopySame, SameEventsAre DEF Quietly

LEMMA LinkQuiet ==
    ASSUME DInv, Routes, NEW n \in Nodes,
           messagehub_add_link(n) \/ messagehub_remove_link(n), UNCHANGED <<proxyVars, raced>>
    PROVE Quietly(n)
<1>1. /\ UNCHANGED <<conn, up, down, central, preg, reader, ep, made, raced>>
      /\ \E pc \in {"idle", "done"} : handler' = [handler EXCEPT ![n] = [pc |-> pc]]
      /\ \/ handler[n].pc = "none"
         \/ handler[n] = Idle /\ conn[n] = "closed"
    BY DEF messagehub_add_link, messagehub_remove_link, Idle, proxyVars
<1>2. /\ handler'[n].pc \in {"idle", "done"} /\ \A m \in Nodes \ {n} : handler'[m] = handler[m]
      /\ handler[n].pc \in {"none", "idle"}
    BY <1>1 DEF DInv, DTypeOK, Idle
<1>3. ASSUME NEW k \in Nodes, Synced(k)'
      PROVE Synced(k) /\ Copy(k)' = Copy(k) /\ After(k)' = After(k)
    <2>1. k # n
        <3>1. handler[n].pc = "none" /\ conn[n] = "open" => Lists(up[n]) # {}
            BY DEF Routes, Joined
        <3> QED BY <1>1, <1>3, <3>1 DEF Synced
    <2> QED BY <1>1, <1>2, <1>3, <2>1 DEF Synced, Copy, After
<1> QED BY <1>1, <1>2, <1>3 DEF Quietly

LEMMA SendsListQuiet ==
    ASSUME DInv, NEW n \in Nodes, SendsList(n)
    PROVE Quietly(n)
<1>1. /\ UNCHANGED <<conn, up, central, preg, reader, ep, made, raced>>
      /\ handler[n].pc = "list" /\ handler'[n].pc = "idle"
      /\ \A m \in Nodes \ {n} : handler'[m] = handler[m]
    BY DEF SendsList, proxyVars
<1>2. ASSUME NEW k \in Nodes, k # n, Synced(k)'
      PROVE Synced(k) /\ Copy(k)' = Copy(k) /\ After(k)' = After(k)
    <2>1. down'[k] = down[k]
        BY <1>2 DEF SendsList
    <2> QED BY <1>1, <1>2, <2>1 DEF Synced, Copy, After
<1>3. ASSUME Synced(n)' PROVE Synced(n) /\ Copy(n)' = Copy(n) /\ After(n)' = After(n)
    <2> DEFINE q == down[n]
               m == ListResponse(handler[n].list)
    <2>1. q \in Seq(MessagesOf(MadeIds)) /\ Lists(q) = {} /\ m \in MessagesOf(MadeIds)
        BY <1>1 DEF SendsList, DInv, DTypeOK, ListedOnce, ListedOnceAt
    <2>2. m.kind = "list" /\ m.list = handler[n].list
        BY DEF ListResponse
    <2>3. Synced(n) /\ down'[n] = Append(q, m)
        BY <1>1, <1>3 DEF SendsList, Synced
    <2> HIDE DEF q, m
    <2> DEFINE t == Append(q, m)
    <2>4. Lists(t) # {} /\ Behind(t) = <<>> /\ t[TheList(t)] = m
        <3> DEFINE S == MessagesOf(MadeIds)
        <3>1. q \in Seq(S) /\ m \in S /\ m.kind = "list" /\ Lists(q) = {}
            BY <2>1, <2>2
        <3> HIDE DEF S
        <3>2. Lists(t) # {}
            BY <3>1, BehindList
        <3>3. Behind(t) = <<>>
            BY <3>1, BehindList
        <3>4. t[TheList(t)] = m
            BY <3>1, BehindList
        <3> QED BY <3>2, <3>3, <3>4
    <2> HIDE DEF t
    <2> QED BY <1>1, <2>2, <2>3, <2>4 DEF Copy, After, t
<1>4. \A k \in Nodes : Synced(k)' => Synced(k) /\ Copy(k)' = Copy(k) /\ After(k)' = After(k)
    BY <1>2, <1>3
<1>5. handler[n].pc # "announce" /\ handler'[n].pc # "announce"
    BY <1>1
<1> QED BY <1>1, <1>4, <1>5 DEF Quietly

(* Where the event of an announcement goes                                 *)
AfterEvent(n, k, q) == After(k)' = IF k \in links \ handler[n].exclude
                                   THEN Append(q, handler[n].event) ELSE q

LEMMA AnnouncedBehind ==
    ASSUME DInv, NEW n \in Nodes, Announces(n), NEW k \in Nodes, conn[k] = "open",
           handler[k].pc # "list", NEW id
    PROVE /\ Copy(k)' = Copy(k) /\ handler[n].event \in MessagesOf(MadeIds)
          /\ \E q \in Seq(MessagesOf(MadeIds)) : /\ SameEvents(After(k), q, id)
                                                 /\ AfterEvent(n, k, q)
<1> DEFINE ev == handler[n].event
           S == MessagesOf(MadeIds)
           p == down[k]
<1>1. /\ UNCHANGED <<preg, reader>> /\ handler'[k].pc # "list"
    BY DEF Announces, proxyVars
<1>2. ev \in S /\ ev.kind # "list"
    BY EventKinds DEF Announces
<1>3. p \in Seq(S) /\ \A i, j \in Lists(p) : i = j
    BY DEF DInv, DTypeOK, ListedOnce, ListedOnceAt
<1>4. PICK q \in Seq(S) :
        /\ q = p \/ \E r \in S : r.kind = "response" /\ q = Append(p, r)
        /\ down'[k] = IF k \in links \ handler[n].exclude THEN Append(q, ev) ELSE q
    BY DEF Announces
<1> HIDE DEF p, ev, S
<1>5. /\ Lists(q) = Lists(p) /\ SameEvents(Behind(p), Behind(q), id)
      /\ Lists(p) # {} => q[TheList(q)] = p[TheList(p)]
    <2>1. CASE q = p
        BY <2>1, SameEventsAre
    <2>2. CASE \E r \in S : r.kind = "response" /\ q = Append(p, r)
        <3>1. PICK r \in S : r.kind = "response" /\ q = Append(p, r)
            BY <2>2
        <3>2. /\ Lists(q) = Lists(p) /\ Behind(q) = Append(Behind(p), r)
              /\ Lists(p) # {} => q[TheList(q)] = p[TheList(p)]
              /\ Behind(p) \in Seq(S)
            <4>1. r.kind # "list"
                BY <3>1
            <4>2. Behind(p) \in Seq(S)
                BY <1>3, BehindIs
            <4> QED BY <1>3, <3>1, <4>1, <4>2, BehindAppend
        <3> QED BY <3>1, <3>2, OtherAppended
    <2> QED BY <1>4, <2>1, <2>2
<1>6. \A i, j \in Lists(q) : i = j
    BY <1>3, <1>5
<1>7. Behind(q) \in Seq(S)
    BY <1>6, BehindIs
<1>8. /\ Lists(Append(q, ev)) = Lists(q) /\ Behind(Append(q, ev)) = Append(Behind(q), ev)
      /\ Lists(q) # {} => Append(q, ev)[TheList(Append(q, ev))] = q[TheList(q)]
    BY <1>2, <1>6, BehindAppend
<1>9. Copy(k)' = Copy(k)
    <2>1. /\ Lists(down'[k]) = Lists(p)
          /\ Lists(p) # {} => down'[k][TheList(down'[k])] = p[TheList(p)]
        BY <1>4, <1>5, <1>8
    <2> QED BY <1>1, <2>1 DEF Copy, p
<1>10. After(k) = Behind(p) /\ After(k)' = Behind(down'[k])
    BY <1>1 DEF After, p
<1>11. AfterEvent(n, k, Behind(q))
    BY <1>4, <1>8, <1>10 DEF AfterEvent, ev
<1> QED BY <1>2, <1>5, <1>7, <1>9, <1>10, <1>11 DEF S, ev

LEMMA CopiesAnnounces ==
    ASSUME DInv, Routes, ProxiesFollow, NEW n \in Nodes, Announces(n)
    PROVE ProxiesFollow'
<1> SUFFICES ASSUME NEW k \in Nodes, NEW id \in Ids, Synced(k)', Good(k, id)'
             PROVE Follows(k, id)'
    BY DEF ProxiesFollow
<1> DEFINE h == handler[n]
           ev == handler[n].event
<1>1. /\ UNCHANGED <<conn, links, up, central, ep, made>> /\ h.pc = "announce"
      /\ handler'[n] = [pc |-> "idle"]
      /\ \A m \in Nodes \ {n} : handler'[m] = handler[m]
      /\ raced'[k] = IF handler[k].pc = "list" THEN raced[k] \cup {EventId(ev)} ELSE raced[k]
      /\ ev.kind \in {"proxy-add", "proxy-remove", "proxy-update-address"}
    BY EventKinds DEF Announces, proxyVars
<1>2. Synced(k) /\ Good(k, id)
    BY <1>1 DEF Synced, Good, HasTwin
<1>3. Follows(k, id)
    BY <1>2 DEF ProxiesFollow
<1>4. Mine(k, id) => Mine(k, id)'
    BY <1>1 DEF Mine, IsOpen
<1>5. ToAdd(handler'[n]) = {} /\ ToRemove(handler'[n]) = {}
    BY <1>1 DEF ToAdd, Adds, ToRemove
<1>6. /\ AllToAdd = AllToAdd' \cup ToAdd(h) /\ AllToRemove = AllToRemove' \cup ToRemove(h)
    <2>1. /\ \A x : x \in AllToAdd <=> x \in AllToAdd' \cup ToAdd(h)
          /\ \A x : x \in AllToRemove <=> x \in AllToRemove' \cup ToRemove(h)
        BY <1>1, <1>5 DEF AllToAdd, AllToRemove
    <2> QED BY <2>1
<1>7. ASSUME NEW m \in Nodes, id \in ToAdd(handler'[m]) PROVE m # n /\ handler'[m] = handler[m]
    BY <1>1, <1>5, <1>7
<1>8. /\ ToAdd(h) = IF ev.kind = "proxy-add" THEN {ev.entry.id} ELSE {}
      /\ ToRemove(h) = IF ev.kind = "proxy-remove" THEN {ev.id} ELSE {}
      /\ ToUpdate(h) = IF ev.kind = "proxy-update-address" THEN {ev.id} ELSE {}
    BY <1>1 DEF ToAdd, Adds, ToRemove, ToUpdate
<1>9. ASSUME id # EventId(ev), Copy(k)' = Copy(k), SameEvents(After(k), After(k)', id)
      PROVE Follows(k, id)'
    <2>1. id \notin ToAdd(h) /\ id \notin ToRemove(h)
        BY <1>8, <1>9 DEF EventId
    <2> QED BY <1>1, <1>3, <1>4, <1>6, <1>7, <1>9, <2>1, CopySame
<1> HIDE DEF h, ev
<1>10. CASE handler[k].pc = "list"
    <2>1. handler'[k] = handler[k]
        BY <1>1, <1>10 DEF h
    <2>2. Copy(k)' = Copy(k) /\ After(k)' = After(k)
        BY <1>10, <2>1 DEF Copy, After
    <2>3. id # EventId(ev)
        BY <1>1, <1>10 DEF Good
    <2> QED BY <1>9, <2>2, <2>3, SameEventsAre
<1>11. CASE handler[k].pc # "list"
    <2>1. /\ Copy(k)' = Copy(k) /\ ev \in MessagesOf(MadeIds)
          /\ \E q \in Seq(MessagesOf(MadeIds)) : /\ SameEvents(After(k), q, id)
                                                 /\ AfterEvent(n, k, q)
        BY <1>2, <1>11, AnnouncedBehind DEF Synced, ev
    <2>2. PICK q \in Seq(MessagesOf(MadeIds)) : SameEvents(After(k), q, id) /\ AfterEvent(n, k, q)
        BY <2>1
    <2>3. k \in links
        <3>1. handler[k].pc \in {"none", "idle", "done", "announce", "list"}
            BY DEF DInv, DTypeOK, HandlersOf
        <3> QED BY <1>2, <3>1 DEF Synced, Routes, Joined
    <2>4. CASE k \in h.exclude
        <3>1. ev.kind = "proxy-update-address"
            BY <1>1, <2>4 DEF Routes, Joined, h, ev
        <3>2. SameEvents(After(k), After(k)', id)
            BY <2>2, <2>4 DEF AfterEvent, h
        <3>3. ToAdd(h) = {} /\ ToRemove(h) = {}
            BY <1>8, <3>1
        <3> QED BY <1>1, <1>3, <1>4, <1>6, <1>7, <2>1, <3>2, <3>3, CopySame
    <2>5. CASE k \notin h.exclude
        <3> DEFINE a == After(k)
                   t == Append(q, ev)
        <3>1. After(k)' = t
            BY <2>2, <2>3, <2>5 DEF AfterEvent, h, ev
        <3>2. CASE id # EventId(ev)
            <4>1. SameEvents(q, t, id)
                BY <1>1, <2>1, <3>2, OtherAppended DEF EventId
            <4>2. SameEvents(a, t, id)
                BY <2>2, <4>1, SameEventsAre
            <4> QED BY <1>9, <2>1, <3>1, <3>2, <4>2
        <3>3. /\ Items(t) = Items(q) \cup {ev}
              /\ UpdatesBehind(q, id)
                    /\ (ev.kind = "proxy-add" /\ ev.entry.id = id => id \notin UpdatedIds(q))
                    => UpdatesBehind(t, id)
            BY <2>1, OneMoreItem
        <3> HIDE DEF t, a
        <3>4. /\ id \in AddedIds(q) => id \in AddedIds(t)
              /\ id \in RemovedIds(q) => id \in RemovedIds(t)
              /\ ev.kind = "proxy-add" /\ ev.entry.id = id => id \in AddedIds(t)
              /\ ev.kind = "proxy-remove" /\ ev.id = id => id \in RemovedIds(t)
              /\ ev.kind # "proxy-add" /\ id \in AddedIds(t) => id \in AddedIds(q)
              /\ ev.kind # "proxy-update-address" /\ id \in UpdatedIds(t) => id \in UpdatedIds(q)
            BY <3>3, KindsOfItems
        <3>5. \A m \in OfKind(t, "proxy-add") : m.entry.id = id =>
                    m \in OfKind(a, "proxy-add") \/ (m = ev /\ ev.kind = "proxy-add")
            BY <2>2, <3>3 DEF OfKind, SameEvents, a
        <3>6. CASE id = EventId(ev) /\ ev.kind = "proxy-add"
            <4>1. id = ev.entry.id /\ id \in ToAdd(h) /\ id \in AddedIds(t)
                BY <1>8, <3>4, <3>6 DEF EventId
            <4>2. id \in IdsOf(central)
                <5>1. PICK e \in Items(central) : e.id = id
                    BY <1>1, <3>6, <4>1 DEF Routes, ToAddPresent, Adds, h, ev
                <5> QED BY <5>1, EntriesAre
            <4>3. ASSUME NEW f \in Entries(Copy(k), id)
                  PROVE /\ \A m \in OfKind(t, "proxy-add") : m.entry.id = id => entry_equals(f, m.entry)
                        /\ UpdatesBehind(t, id)
                <5>1. /\ \A m \in OfKind(a, "proxy-add") : m.entry.id = id => entry_equals(f, m.entry)
                      /\ UpdatesBehind(a, id) /\ entry_equals(f, ev.entry) /\ id \notin UpdatedIds(a)
                    BY <1>3, <4>1 DEF Follows, AddsNothing, a, h, ev
                <5>2. UpdatesBehind(q, id) /\ id \notin UpdatedIds(q)
                    BY <2>2, <5>1 DEF SameEvents, a
                <5> QED BY <3>3, <3>5, <5>1, <5>2
            <4>4. \A m \in Nodes : id \notin ToAdd(handler'[m])
                <5>1. \A m \in Nodes \ {n} : ToAdd(handler[m]) \cap ToAdd(h) = {}
                    BY DEF Routes, AnnouncedOnce, h
                <5> QED BY <1>7, <4>1, <5>1
            <4>5. AddsNothing(k, id)'
                BY <2>1, <3>1, <4>3, <4>4 DEF AddsNothing
            <4>6. WillKnow(k, id)' /\ WillForget(k, id)'
                BY <1>1, <3>1, <4>1, <4>2 DEF WillKnow, WillForget
            <4> QED BY <1>3, <2>1, <4>5, <4>6 DEF Follows
        <3>7. CASE id = EventId(ev) /\ ev.kind # "proxy-add"
            <4>1. id = ev.id /\ ToAdd(h) = {}
                BY <1>8, <3>7 DEF EventId
            <4>2. \A f \in Entries(Copy(k), id) :
                    /\ \A m \in OfKind(t, "proxy-add") : m.entry.id = id => entry_equals(f, m.entry)
                    /\ UpdatesBehind(t, id)
                BY <1>3, <2>2, <3>3, <3>5, <3>7 DEF Follows, AddsNothing, SameEvents, a
            <4>3. AllToAdd' = AllToAdd
                BY <1>6, <4>1
            <4>4. CASE ev.kind = "proxy-remove"
                <5>1. id \in ToRemove(h) /\ id \in RemovedIds(t)
                    BY <1>8, <3>4, <4>1, <4>4
                <5>2. id \notin IdsOf(central)
                    BY <5>1 DEF Routes, RemovedGone, h
                <5>3. ASSUME NEW f \in Entries(Copy(k), id), NEW m \in Nodes, id \in ToAdd(handler'[m])
                      PROVE entry_equals(f, handler'[m].event.entry) /\ id \notin UpdatedIds(t)
                    <6>1. m # n /\ handler'[m] = handler[m]
                        BY <1>7, <5>3
                    <6>2. entry_equals(f, handler[m].event.entry) /\ id \notin UpdatedIds(a)
                        BY <1>3, <5>3, <6>1 DEF Follows, AddsNothing, a
                    <6> QED BY <2>2, <3>4, <4>4, <6>1, <6>2 DEF SameEvents, a
                <5>4. AddsNothing(k, id)'
                    BY <2>1, <3>1, <4>2, <5>3 DEF AddsNothing
                <5>5. WillKnow(k, id)' /\ WillForget(k, id)'
                    BY <1>1, <3>1, <5>1, <5>2 DEF WillKnow, WillForget
                <5> QED BY <1>3, <2>1, <5>4, <5>5 DEF Follows
            <4>5. CASE ev.kind = "proxy-update-address"
                <5>1. ToRemove(h) = {} /\ id \in ToUpdate(h)
                    BY <1>8, <4>1, <4>5
                <5>2. \A m \in Nodes : id \notin ToAdd(handler'[m])
                    <6>1. \A m \in Nodes \ {n} : ToAdd(handler[m]) \cap ToUpdate(h) = {}
                        BY DEF Routes, ByOwner, h
                    <6> QED BY <1>7, <5>1, <6>1
                <5>3. AddsNothing(k, id)'
                    BY <2>1, <3>1, <4>2, <5>2 DEF AddsNothing
                <5>4. /\ id \in AddedIds(t) <=> id \in AddedIds(a)
                      /\ id \in RemovedIds(a) => id \in RemovedIds(t)
                    BY <2>2, <3>4, <3>7 DEF SameEvents, a
                <5>5. WillKnow(k, id)'
                    BY <1>1, <1>3, <1>4, <2>1, <3>1, <4>3, <5>4 DEF Follows, WillKnow, a
                <5>6. WillForget(k, id)'
                    BY <1>1, <1>3, <1>6, <2>1, <3>1, <5>1, <5>4 DEF Follows, WillForget, a
                <5> QED BY <1>3, <2>1, <5>3, <5>5, <5>6 DEF Follows
            <4> QED BY <1>1, <3>7, <4>4, <4>5
        <3> QED BY <3>2, <3>6, <3>7
    <2> QED BY <2>4, <2>5
<1> QED BY <1>10, <1>11

LEMMA CopiesRc ==
    ASSUME DInv, AllGenuine, FollowsInv, Routes, ProxiesFollow, NEW n \in Nodes,
           RcStep(n) \/ RcAnnounce(n)
    PROVE ProxiesFollow'
<1>1. CASE RcAnnounce(n)
    BY <1>1, AnnouncesIs, CopiesAnnounces
<1>2. CASE RcStep(n)
    <2>1. UNCHANGED <<proxyVars, raced>>
        BY <1>2 DEF RcStep
    <2>2. CASE messagehub_add_link(n) \/ messagehub_remove_link(n)
        BY <2>1, <2>2, LinkQuiet, CopiesQuiet
    <2>3. CASE rcregistry_send_list(n)
        BY <2>1, <2>3, SendsListIs, SendsListQuiet, CopiesQuiet
    <2>4. CASE \/ rcregistry_register(n) \/ rcregistry_unregister(n)
               \/ rcregistry_update_address(n) \/ rcregistry_select_list(n)
        <3>1. PICK h : HandlesOne(n, h)
            BY <2>1, <2>4, HandlesIs
        <3> QED BY <3>1, CopiesHandles
    <2> QED BY <1>2, <2>2, <2>3, <2>4 DEF RcStep
<1> QED BY <1>1, <1>2

-----------------------------------------------------------------------------
(* Agreement                                                               *)

AgreementInv == Routes /\ ListMerged /\ ProxiesFollow

LEMMA AgreementInit == ASSUME Init PROVE AgreementInv
<1> USE DEF Init, NetInit, RcInit, ProxyInit
<1>1. /\ Items(<<>>) = {} /\ Lists(<<>>) = {} /\ Registers(<<>>) = {}
    BY DEF Items, Lists, Registers
<1>2. /\ AddedIds(<<>>) = {} /\ RemovedIds(<<>>) = {} /\ UpdIds(<<>>) = {} /\ UnregIds(<<>>) = {}
      /\ ListIds(<<>>) = {} /\ ForeignIds(<<>>) = {} /\ RegIds(<<>>) = {} /\ IdsOf(<<>>) = {}
    <2>1. RemovedIds(<<>>) = {} /\ UnregIds(<<>>) = {} /\ IdsOf(<<>>) = {}
        BY DEF RemovedIds, UnregIds, IdsOf
    <2>2. AddedIds(<<>>) = {} /\ UpdIds(<<>>) = {} /\ ListIds(<<>>) = {}
        BY <1>1 DEF AddedIds, UpdIds, ListIds, OfKind
    <2>3. ForeignIds(<<>>) = {} /\ RegIds(<<>>) = {}
        BY <1>1 DEF ForeignIds, RegIds
    <2> QED BY <2>1, <2>2, <2>3
<1>3. \A n \in Nodes : /\ ToAdd(handler[n]) = {} /\ ToRemove(handler[n]) = {}
                       /\ ToUpdate(handler[n]) = {} /\ ~Adds(handler[n])
                       /\ Unsent(n) = {} /\ reader[n] = IdleReader
    BY <1>2 DEF ToAdd, ToRemove, ToUpdate, Adds, Unsent, Pending, IdleApp
<1>4. Unseen /\ ToAddPresent /\ ByOwner
    BY <1>3 DEF Unseen, ToAddPresent, ByOwner
<1>5. AnnouncedOnce /\ RemovedGone
    BY <1>2, <1>3 DEF AnnouncedOnce, RemovedGone, AddsOnce, InOrder
<1>6. Joined
    BY DEF Joined
<1>7. EarlyOnce /\ CopiesOnce
    BY <1>1, <1>2, <1>3 DEF EarlyOnce, CopiesOnce, IdsOnce, OfKind
<1>8. ListMerged /\ ProxiesFollow
    BY <1>3 DEF ListMerged, ProxiesFollow, Synced
<1> QED BY <1>4, <1>5, <1>6, <1>7, <1>8 DEF AgreementInv, Routes

LEMMA AgreementStays ==
    ASSUME AgreementInv, UNCHANGED stateVars
    PROVE AgreementInv'
<1> USE DEF stateVars, netVars, rcVars, proxyVars
<1>1. /\ \A n : /\ Unsent(n)' = Unsent(n) /\ Seen(n)' = Seen(n)
                /\ Copy(n)' = Copy(n) /\ After(n)' = After(n)
      /\ \A id : (HasTwin(id)' <=> HasTwin(id)) /\ (IsOpen(id)' <=> IsOpen(id))
    <2>1. \A n : Unsent(n)' = Unsent(n) /\ Copy(n)' = Copy(n) /\ After(n)' = After(n)
        BY DEF Unsent, Pending, Copy, After
    <2>2. \A n : Seen(n)' = Seen(n)
        BY DEF Seen, CopyIds
    <2> QED BY <2>1, <2>2 DEF HasTwin, IsOpen
<1>2. Unseen' /\ AnnouncedOnce' /\ RemovedGone' /\ ToAddPresent'
    BY <1>1 DEF AgreementInv, Routes, Unseen, AnnouncedOnce, RemovedGone, ToAddPresent
<1>3. ByOwner' /\ Joined' /\ EarlyOnce' /\ CopiesOnce'
    BY <1>1 DEF AgreementInv, Routes, ByOwner, Joined, EarlyOnce, CopiesOnce
<1>4. ListMerged'
    BY ListKept DEF AgreementInv
<1>5. ProxiesFollow'
    <2> SUFFICES ASSUME NEW n \in Nodes, NEW id \in Ids, Synced(n)', Good(n, id)'
                 PROVE Follows(n, id)'
        BY DEF ProxiesFollow
    <2>1. Synced(n) /\ Good(n, id)
        BY <1>1 DEF Synced, Good
    <2>2. Mine(n, id) => Mine(n, id)'
        BY <1>1 DEF Mine
    <2> QED BY <2>1, <2>2, CopyStays DEF AgreementInv, ProxiesFollow
<1> QED BY <1>2, <1>3, <1>4, <1>5 DEF AgreementInv, Routes

LEMMA AgreementNext ==
    DInv /\ UInv /\ AllGenuine /\ FollowsInv /\ AgreementInv /\ [Next]_vars => AgreementInv'
<1> SUFFICES ASSUME DInv, UInv, AllGenuine, FollowsInv, AgreementInv, [Next]_vars
             PROVE AgreementInv'
    OBVIOUS
<1>1. Routes /\ ListMerged /\ ProxiesFollow
    BY DEF AgreementInv
<1>2. ASSUME NEW n \in Nodes, RcStep(n) \/ RcAnnounce(n) PROVE AgreementInv'
    <2>1. UNCHANGED proxyVars
        BY <1>2 DEF RcStep, RcAnnounce
    <2>2. ListMerged'
        BY <1>1, <2>1, ListKept DEF proxyVars
    <2> QED BY <1>1, <1>2, <2>2, RoutesRc, CopiesRc DEF AgreementInv
<1>3. ASSUME NEW n \in Nodes, ReaderStep(n) PROVE AgreementInv'
    <2>1. Reads(n)
        BY <1>3, ReaderReads
    <2> QED BY <1>1, <1>3, <2>1, RoutesReader, MergesOn, CopiesReader DEF AgreementInv
<1>4. ASSUME NEW n \in Nodes, AppStep(n) \/ Open(n) \/ Close(n) PROVE AgreementInv'
    <2>1. AppMoves(n)
        BY <1>4, AppIsMoves
    <2>2. \A m \in Nodes : reader'[m] = IdleReader \/ UNCHANGED <<preg[m], reader[m]>>
        <3>1. reader'[n] = IdleReader
            BY <2>1 DEF AppMoves, DInv, ListedOnce, ListedOnceAt
        <3> QED BY <2>1, <3>1 DEF AppMoves
    <2>3. ListMerged'
        BY <1>1, <2>1, <2>2, ListKept DEF AppMoves
    <2> QED BY <1>1, <2>1, <2>3, RoutesApp, CopiesApp DEF AgreementInv
<1>5. ASSUME NEW n \in Nodes, Start(n) \/ Fault(n) PROVE AgreementInv'
    <2>1. Routes' /\ OthersStay(n)
        BY <1>1, <1>5, StartMoves, FaultMoves
    <2>2. ListMerged'
        <3>1. \A m \in Nodes : reader'[m] = IdleReader \/ UNCHANGED <<preg[m], reader[m]>>
            BY <2>1 DEF OthersStay
        <3>2. made' = made
            BY <2>1 DEF OthersStay
        <3> QED BY <1>1, <3>1, <3>2, ListKept
    <2> QED BY <1>1, <2>1, <2>2, CopiesOthers DEF AgreementInv
<1> QED BY <1>2, <1>3, <1>4, <1>5, AgreementStays, StepIs DEF Acts

LEMMA AgreesWhenQuiet ==
    ASSUME DInv, FollowsInv, AgreementInv, Quiet, NEW n \in Nodes, InStep(n), NEW id \in Ids,
           id \notin raced[n], ~HasTwin(id)
    PROVE id \in IdsOf(central) <=> id \in IdsOf(preg[n])
<1>1. /\ \A m \in Nodes : /\ up[m] = <<>> /\ down[m] = <<>> /\ reader[m] = IdleReader
                          /\ handler[m].pc \in {"none", "idle", "done"} /\ app[m] = IdleApp
      /\ conn[n] = "open" /\ Routes /\ ProxiesFollow
    BY DEF Quiet, InStep, AgreementInv
<1>2. Lists(<<>>) = {} /\ RegIds(<<>>) = {} /\ UnregIds(<<>>) = {}
      /\ AddedIds(<<>>) = {} /\ RemovedIds(<<>>) = {}
    <2>1. Items(<<>>) = {}
        BY DEF Items
    <2> QED BY <2>1 DEF Lists, RegIds, Registers, UnregIds, RemovedIds, AddedIds, OfKind
<1>3. handler[n].pc # "none"
    BY <1>1, <1>2 DEF Routes, Joined
<1>4. Follows(n, id)
    BY <1>1, <1>2, <1>3 DEF ProxiesFollow, Synced, Good
<1>5. Copy(n) = preg[n] /\ After(n) = <<>>
    BY <1>1, <1>2 DEF Copy, After, Behind
<1>6. AllToAdd = {} /\ AllToRemove = {}
    <2>1. \A m \in Nodes : ToAdd(handler[m]) = {} /\ ToRemove(handler[m]) = {}
        BY <1>1 DEF ToAdd, Adds, ToRemove
    <2> QED BY <2>1 DEF AllToAdd, AllToRemove
<1>7. IsOpen(id) /\ ep[id].node = n => id \in OwnIds(preg[n])
    BY <1>1 DEF DInv, OpenIsOwned, IdleApp
<1>8. id \in OwnIds(preg[n]) => id \in IdsOf(central)
    <2>1. id \in OwnIds(preg[n]) => IsOpen(id) /\ ep[id].node = n
        BY DEF DInv, Owned, OwnedAt
    <2>2. Pending(n) = {}
        BY <1>1 DEF Pending, IdleApp
    <2> QED BY <1>1, <1>2, <2>1, <2>2 DEF FollowsInv, OpenRegistered
<1>9. id \in IdsOf(preg[n]) <=> Entries(preg[n], id) # {} \/ id \in OwnIds(preg[n])
    BY EntriesAre
<1>10. id \in IdsOf(central) => Entries(preg[n], id) # {} \/ Mine(n, id)
    BY <1>2, <1>4, <1>5, <1>6 DEF Follows, WillKnow
<1>11. Entries(preg[n], id) # {} => id \in IdsOf(central)
    BY <1>2, <1>4, <1>5, <1>6 DEF Follows, WillForget
<1> QED BY <1>1, <1>2, <1>7, <1>8, <1>9, <1>10, <1>11 DEF Mine

(* Whatever the handlers announce late and in whichever order, and         *)
(* whatever processes end or lose their connection meanwhile: when nothing *)
(* is in flight the proxy of a connected process lists exactly the ids     *)
(* that the central registry lists, but for those whose announcement       *)
(* overtook the list, and those that it cannot tell from another.          *)
THEOREM ProxiesAgree == Spec => []Agreement
<1>1. Init => AgreementInv /\ FollowsInv
    BY AgreementInit, FollowsInit
<1>2. DInv /\ FollowsInv /\ AgreementInv => Agreement
    BY AgreesWhenQuiet DEF Agreement
<1> QED BY <1>1, <1>2, AgreementNext, FollowsNext, Invariance, GenuineInvariance, PTL DEF Spec

-----------------------------------------------------------------------------
(* What a process knows, it is connected to                                *)

(* The ids that a process is still to be told of by the central registry   *)
Announcing(n) == Unsent(n) \cup ToAdd(handler[n]) \cup AddedIds(down[n])

(* The application's thread is opening or closing the end-point.           *)
Busy(n, id) == app[n].pc \in {"register", "connect", "unregister"} /\ app[n].entry.id = id

Here(n, id) == IsOpen(id) /\ ep[id].node = n /\ conn[n] = "open"

(* The link with this id and the only hub that was ever opened for links   *)
(* like it, when the process knows the hub                                 *)
OnlyHub(id, hub) == /\ ep[id].type \in LinkTypes /\ IsOpen(hub.id)
                    /\ Made(HubType[ep[id].type], ep[id].topic) = {hub}

Mates(n, id, hub) == Here(n, id) /\ OnlyHub(id, hub) /\ hub.id \in IdsOf(preg[n])

Met(n, id, hub) == ep[id].remote = hub.addr \/ Busy(n, id) \/ hub.id \in Announcing(n)

LinkedAt(n) == \A id \in Ids, hub \in made : Mates(n, id, hub) => Met(n, id, hub)

Linked == \A n \in Nodes : LinkedAt(n)

(* The only datahub that was opened for its topic, and a datalink that its *)
(* process knows                                                           *)
OnlyDatahub(id) == ep[id].type = "datahub" /\ \A h \in Made("datahub", ep[id].topic) : h.id = id

SendsTo(n, id, e) == e.addr \in ep[id].links \/ Busy(n, id) \/ e.id \in Announcing(n)

LinksOf(n, id) == {e \in Items(preg[n]) : e.type = "datalink" /\ e.topic = ep[id].topic}

SendingAt(n) == \A id \in Ids : Here(n, id) /\ OnlyDatahub(id) =>
                    \A e \in LinksOf(n, id) : SendsTo(n, id, e)

Sending == \A n \in Nodes : SendingAt(n)

(* End-points but messagelinks stay at the address they were opened with,  *)
(* and the entry of one in its own process is the one with the pointer.    *)
Bound ==
    /\ \A id \in Ids : IsOpen(id) /\ ep[id].type # "messagelink" =>
            \A m \in made : m.id = id => m.addr = ep[id].addr
    /\ \A i, j \in Ids : /\ IsOpen(i) /\ ep[i].type = "messagehub"
                         /\ IsOpen(j) /\ ep[j].type = "messagehub" /\ ep[i].addr = ep[j].addr
                         => i = j

Alone(s) == \A e, f \in Items(s) :
                e.id = f.id /\ e.endpoint /\ e.type # "messagelink" => f.endpoint

OwnAlone == \A n \in Nodes : Alone(preg[n])

ConnInv == Linked /\ Sending /\ Bound /\ OwnAlone

-----------------------------------------------------------------------------
(* What steps do to the end-point objects                                  *)

Keeps(p, q) == /\ q.node = p.node /\ q.type = p.type /\ q.topic = p.topic
               /\ p.type # "messagelink" => q.addr = p.addr
               /\ p.links \subseteq q.links

Steady == \A id \in MadeIds : IsOpen(id)' => IsOpen(id) /\ Keeps(ep[id], ep'[id])

LEMMA SteadySame == ASSUME DInv, ep' = ep PROVE Steady
BY DEF Steady, Keeps, IsOpen

LEMMA MadeInIds == ASSUME DInv PROVE MadeIds \subseteq Ids /\ EpTypeOK
BY DEF DInv, DTypeOK, MadeIds, Entry, EpTypeOK

LEMMA KeepsSelf == ASSUME NEW p PROVE Keeps(p, p)
BY DEF Keeps

LEMMA KeepsRemote ==
    ASSUME NEW p \in Endpoint, NEW a, NEW q, q = [p EXCEPT !.remote = a]
    PROVE Keeps(p, q) /\ q.remote = a
<1>1. /\ q.node = p.node /\ q.type = p.type /\ q.topic = p.topic /\ q.addr = p.addr
      /\ q.links = p.links /\ q.remote = a
    BY DEF Endpoint
<1> QED BY <1>1 DEF Keeps

LEMMA KeepsLinks ==
    ASSUME NEW p \in Endpoint, NEW S, NEW q, q = [p EXCEPT !.links = p.links \cup S]
    PROVE Keeps(p, q) /\ q.remote = p.remote /\ q.links = p.links \cup S
<1>1. /\ q.node = p.node /\ q.type = p.type /\ q.topic = p.topic /\ q.addr = p.addr
      /\ q.links = p.links \cup S /\ q.remote = p.remote
    BY DEF Endpoint
<1> QED BY <1>1 DEF Keeps

LEMMA KeepsMoved ==
    ASSUME NEW p, p.type = "messagelink", NEW q, q.node = p.node, q.type = p.type,
           q.topic = p.topic, q.links = p.links
    PROVE Keeps(p, q)
BY DEF Keeps

LEMMA SteadySetRemote ==
    ASSUME DInv, NEW S, \A id \in S : IsOpen(id), NEW a, ep' = SetRemote(S, a)
    PROVE /\ Steady
          /\ \A id \in MadeIds : IsOpen(id)' =>
                ep'[id].remote = IF id \in S THEN a ELSE ep[id].remote
<1> SUFFICES ASSUME NEW id \in MadeIds, IsOpen(id)'
             PROVE /\ IsOpen(id) /\ Keeps(ep[id], ep'[id])
                   /\ ep'[id].remote = IF id \in S THEN a ELSE ep[id].remote
    BY DEF Steady
<1>1. id \in Ids /\ EpTypeOK
    BY MadeInIds
<1>2. ep'[id] = IF id \in S THEN [ep[id] EXCEPT !.remote = a] ELSE ep[id]
    BY <1>1 DEF SetRemote
<1>3. IsOpen(id)
    BY <1>2 DEF IsOpen
<1>4. ep[id] \in Endpoint
    BY <1>1, <1>3, OpenIsEndpoint
<1>5. CASE id \in S
    BY <1>2, <1>3, <1>4, <1>5, KeepsRemote
<1>6. CASE id \notin S
    BY <1>2, <1>3, <1>6, KeepsSelf
<1> QED BY <1>5, <1>6

LEMMA SteadyAddLinks ==
    ASSUME DInv, NEW hub, hub \in Ids => IsOpen(hub), NEW S, ep' = datahub_add_link(hub, S)
    PROVE /\ Steady
          /\ \A id \in MadeIds : IsOpen(id)' => ep'[id].remote = ep[id].remote
          /\ hub \in Ids => ep'[hub].links = ep[hub].links \cup S
<1>1. EpTypeOK
    BY DEF DInv, DTypeOK, EpTypeOK
<1>2. \A id \in Ids : ep'[id] = IF id = hub THEN [ep[id] EXCEPT !.links = ep[id].links \cup S]
                                ELSE ep[id]
    BY <1>1 DEF datahub_add_link, EpTypeOK
<1>3. ASSUME NEW id \in MadeIds, IsOpen(id)'
      PROVE IsOpen(id) /\ Keeps(ep[id], ep'[id]) /\ ep'[id].remote = ep[id].remote
    <2>1. id \in Ids
        BY MadeInIds
    <2>2. ep'[id] = IF id = hub THEN [ep[id] EXCEPT !.links = ep[id].links \cup S] ELSE ep[id]
        BY <1>2, <2>1
    <2>3. IsOpen(id)
        BY <1>3, <2>1, <2>2 DEF IsOpen
    <2>4. ep[id] \in Endpoint
        BY <1>1, <2>1, <2>3, OpenIsEndpoint
    <2> QED BY <2>2, <2>3, <2>4, KeepsLinks, KeepsSelf
<1>4. ASSUME hub \in Ids PROVE ep'[hub].links = ep[hub].links \cup S
    <2>1. ep[hub] \in Endpoint
        BY <1>1, <1>4, OpenIsEndpoint
    <2>2. ep'[hub] = [ep[hub] EXCEPT !.links = ep[hub].links \cup S]
        BY <1>2, <1>4
    <2> QED BY <2>1, <2>2, KeepsLinks
<1> QED BY <1>3, <1>4 DEF Steady

LEMMA SteadyConnect ==
    ASSUME DInv, NEW S, \A id \in S : IsOpen(id) /\ ep[id].type = "messagelink",
           NEW a, NEW local, ep' = client_messagelink_connect(S, a, local)
    PROVE /\ Steady
          /\ \A id \in MadeIds : IsOpen(id)' =>
                /\ id \notin S => ep'[id].remote = ep[id].remote
                /\ id \in S /\ Listening(a) => ep'[id].remote = a
<1> SUFFICES ASSUME NEW id \in MadeIds, IsOpen(id)'
             PROVE /\ IsOpen(id) /\ Keeps(ep[id], ep'[id])
                   /\ id \notin S => ep'[id].remote = ep[id].remote
                   /\ id \in S /\ Listening(a) => ep'[id].remote = a
    BY DEF Steady
<1>1. id \in Ids /\ EpTypeOK
    BY MadeInIds
<1>2. /\ id \notin S => ep'[id] = ep[id]
      /\ id \in S /\ Listening(a) => ep'[id] = [ep[id] EXCEPT !.remote = a, !.addr = local[id]]
      /\ id \in S /\ ~Listening(a) => ep'[id] = [ep[id] EXCEPT !.remote = NoAddr, !.addr = Addr0]
    BY <1>1 DEF client_messagelink_connect
<1>3. IsOpen(id)
    BY <1>2 DEF IsOpen
<1>4. ep[id] \in Endpoint
    BY <1>1, <1>3, OpenIsEndpoint
<1>5. CASE id \notin S
    BY <1>2, <1>3, <1>5, KeepsSelf
<1>6. CASE id \in S /\ Listening(a)
    <2>1. ep'[id] = [ep[id] EXCEPT !.remote = a, !.addr = local[id]] /\ ep[id].type = "messagelink"
        BY <1>2, <1>6
    <2>2. /\ ep'[id].node = ep[id].node /\ ep'[id].type = ep[id].type /\ ep'[id].topic = ep[id].topic
          /\ ep'[id].links = ep[id].links /\ ep'[id].remote = a
        BY <1>4, <2>1 DEF Endpoint
    <2> QED BY <1>3, <1>6, <2>1, <2>2, KeepsMoved
<1>7. CASE id \in S /\ ~Listening(a)
    <2>1. ep'[id] = [ep[id] EXCEPT !.remote = NoAddr, !.addr = Addr0] /\ ep[id].type = "messagelink"
        BY <1>2, <1>7
    <2>2. /\ ep'[id].node = ep[id].node /\ ep'[id].type = ep[id].type /\ ep'[id].topic = ep[id].topic
          /\ ep'[id].links = ep[id].links
        BY <1>4, <2>1 DEF Endpoint
    <2> QED BY <1>3, <1>7, <2>1, <2>2, KeepsMoved
<1> QED BY <1>5, <1>6, <1>7

(* A link loses its hub only when the hub is deleted.                      *)
LEMMA SteadyDelete ==
    ASSUME DInv, NEW S, ep' = DeleteEndpoints(S)
    PROVE /\ Steady
          /\ \A id \in MadeIds : IsOpen(id)' =>
                \/ ep'[id].remote = ep[id].remote
                \/ /\ ep[id].type = "messagelink"
                   /\ \E x \in S : /\ x \in Ids => ~IsOpen(x)'
                                   /\ ep[x].type = "messagehub" /\ ep[x].addr = ep[id].remote
<1> DEFINE lost == {ep[x].addr : x \in {i \in S : ep[i].type = "messagehub"}}
<1>1. EpTypeOK
    BY DEF DInv, DTypeOK, EpTypeOK
<1>2. \A id \in Ids :
        ep'[id] = IF id \in S THEN Closed
                  ELSE IF ep[id].type = "messagelink" /\ ep[id].remote \in lost
                  THEN [ep[id] EXCEPT !.remote = NoAddr, !.addr = Addr0] ELSE ep[id]
    BY DEF DeleteEndpoints
<1>3. ASSUME NEW id \in MadeIds, IsOpen(id)'
      PROVE /\ IsOpen(id) /\ Keeps(ep[id], ep'[id])
            /\ \/ ep'[id].remote = ep[id].remote
               \/ ep[id].type = "messagelink" /\ ep[id].remote \in lost
    <2>1. id \in Ids
        BY MadeInIds
    <2>2. /\ id \notin S
          /\ ep'[id] = IF ep[id].type = "messagelink" /\ ep[id].remote \in lost
                       THEN [ep[id] EXCEPT !.remote = NoAddr, !.addr = Addr0] ELSE ep[id]
        BY <1>2, <1>3, <2>1 DEF IsOpen
    <2>3. IsOpen(id)
        <3>1. ep[id] = Closed => ep[id].type = "none"
            BY DEF Closed
        <3> QED BY <1>3, <2>2, <3>1 DEF IsOpen
    <2>4. ep[id] \in Endpoint
        BY <1>1, <2>1, <2>3, OpenIsEndpoint
    <2>5. CASE ep[id].type = "messagelink" /\ ep[id].remote \in lost
        <3>1. ep'[id] = [ep[id] EXCEPT !.remote = NoAddr, !.addr = Addr0]
            BY <2>2, <2>5
        <3>2. /\ ep'[id].node = ep[id].node /\ ep'[id].type = ep[id].type
              /\ ep'[id].topic = ep[id].topic /\ ep'[id].links = ep[id].links
            BY <2>4, <3>1 DEF Endpoint
        <3> QED BY <2>3, <2>5, <3>2, KeepsMoved
    <2>6. CASE ~(ep[id].type = "messagelink" /\ ep[id].remote \in lost)
        BY <2>2, <2>3, <2>6, KeepsSelf
    <2> QED BY <2>5, <2>6
<1>4. \A x \in S : x \in Ids => ~IsOpen(x)'
    BY <1>2 DEF IsOpen
<1> QED BY <1>3, <1>4 DEF Steady

-----------------------------------------------------------------------------
(* What a step leaves of a connection                                      *)

PeerTypes == {"datahub", "messagehub", "streamer", "datalink"}

LEMMA HubIs ==
    ASSUME MadeOnce, NEW e \in Genuine, NEW id, NEW hub, OnlyHub(id, hub)
    PROVE /\ hub \in made /\ hub.type = HubType[ep[id].type] /\ hub.topic = ep[id].topic
          /\ hub.type \in PeerTypes
          /\ e.type = hub.type /\ e.topic = hub.topic => e.id = hub.id
          /\ e.id = hub.id => e.type = hub.type /\ e.topic = hub.topic /\ e.addr = hub.addr
<1>1. PICK m \in made : Renders(e, m)
    BY DEF Genuine
<1>2. hub \in Made(HubType[ep[id].type], ep[id].topic)
    BY DEF OnlyHub
<1>3. hub \in made /\ hub.type = HubType[ep[id].type] /\ hub.topic = ep[id].topic
    BY <1>2 DEF Made
<1>4. hub.type \in PeerTypes /\ hub.type # "messagelink"
    BY <1>3 DEF OnlyHub, HubType, LinkTypes, PeerTypes
<1>5. ASSUME e.type = hub.type, e.topic = hub.topic PROVE e.id = hub.id
    <2>1. m \in Made(HubType[ep[id].type], ep[id].topic)
        BY <1>1, <1>3, <1>5 DEF Made, Renders
    <2> QED BY <1>1, <2>1 DEF OnlyHub, Renders
<1>6. ASSUME e.id = hub.id PROVE e.type = hub.type /\ e.topic = hub.topic /\ e.addr = hub.addr
    <2>1. m = hub
        BY <1>1, <1>3, <1>6 DEF MadeOnce, Renders
    <2> QED BY <1>1, <1>4, <2>1 DEF Renders
<1> QED BY <1>3, <1>4, <1>5, <1>6

LEMMA MatesBefore ==
    ASSUME DInv, Steady, made \subseteq made', NEW k \in Nodes, NEW id \in MadeIds,
           conn'[k] = "open" => conn[k] = "open", Here(k, id)'
    PROVE /\ Here(k, id) /\ Keeps(ep[id], ep'[id])
          /\ OnlyDatahub(id)' => OnlyDatahub(id)
          /\ \A hub \in made : OnlyHub(id, hub)' => OnlyHub(id, hub)
<1>1. IsOpen(id) /\ Keeps(ep[id], ep'[id]) /\ Here(k, id)
    BY DEF Steady, Here, Keeps
<1>2. ep'[id].type = ep[id].type /\ ep'[id].topic = ep[id].topic
    BY <1>1 DEF Keeps
<1>3. OnlyDatahub(id)' => OnlyDatahub(id)
    BY <1>2 DEF OnlyDatahub, Made
<1>4. ASSUME NEW hub \in made, OnlyHub(id, hub)' PROVE OnlyHub(id, hub)
    <2>1. hub.id \in MadeIds
        BY DEF MadeIds
    <2>2. IsOpen(hub.id)
        BY <1>4, <2>1 DEF OnlyHub, Steady
    <2>3. {m \in made' : m.type = HubType[ep[id].type] /\ m.topic = ep[id].topic} = {hub}
        BY <1>2, <1>4 DEF OnlyHub, Made
    <2>4. hub.type = HubType[ep[id].type] /\ hub.topic = ep[id].topic
        BY <2>3
    <2>5. \A m \in made : m.type = HubType[ep[id].type] /\ m.topic = ep[id].topic => m = hub
        BY <2>3
    <2>6. Made(HubType[ep[id].type], ep[id].topic) = {hub}
        BY <2>4, <2>5 DEF Made
    <2> QED BY <1>2, <1>4, <2>2, <2>6 DEF OnlyHub
<1> QED BY <1>1, <1>3, <1>4

(* What a process learns of hubs and datalinks, it learns when it connects *)
(* its end-points to them.                                                 *)
LearnsNone(k) == \A e \in Items(preg'[k]) : e.type \in PeerTypes => e \in Items(preg[k])

HoldsHub(k) == \A id \in Ids, hub \in made :
    /\ Here(k, id) /\ OnlyHub(id, hub) /\ IsOpen(id)' /\ IsOpen(hub.id)'
    /\ ep[id].remote = hub.addr
    => ep'[id].remote = hub.addr

StaysBusy(k) == \A id \in Ids :
    IsOpen(id)' /\ Busy(k, id) /\ ep[id].type \in ConnectTypes => Busy(k, id)'

StaysAnnounced(k) == \A m \in made :
    m.type \in PeerTypes /\ m.id \in Announcing(k) => m.id \in Announcing(k)'

(* What it learns but of the ids in X, and is no longer to be told of.      *)
LearnsOnly(k, X) == \A e \in Items(preg'[k]) :
    e.type \in PeerTypes /\ e.id \notin X => e \in Items(preg[k])

AnnouncedBut(k, X) == \A m \in made :
    m.type \in PeerTypes /\ m.id \in Announcing(k) /\ m.id \notin X => m.id \in Announcing(k)'

(* All its end-points but those in B keep their hub, or are still being    *)
(* opened or closed.                                                       *)
HoldsBut(k, B) == \A id \in Ids \ B, hub \in made :
    /\ Here(k, id) /\ OnlyHub(id, hub) /\ IsOpen(id)' /\ IsOpen(hub.id)'
    /\ ep[id].remote = hub.addr
    => ep'[id].remote = hub.addr

BusyBut(k, B) == \A id \in Ids \ B :
    IsOpen(id)' /\ Busy(k, id) /\ ep[id].type \in ConnectTypes => Busy(k, id)'

LEMMA ConnectionsStayBut ==
    ASSUME DInv, AllGenuine, AllGenuine', Steady, made' = made, NEW k \in Nodes,
           DInv', LinkedAt(k), SendingAt(k), NEW X, NEW B,
           conn'[k] = "open" => /\ conn[k] = "open" /\ LearnsOnly(k, X) /\ HoldsBut(k, B)
                                /\ BusyBut(k, B) /\ AnnouncedBut(k, X)
    PROVE /\ \A id \in Ids \ B, hub \in made' :
                Mates(k, id, hub)' /\ hub.id \notin X => Met(k, id, hub)'
          /\ \A id \in Ids \ B : Here(k, id)' /\ OnlyDatahub(id)' =>
                \A e \in LinksOf(k, id)' : e.id \notin X => SendsTo(k, id, e)'
<1>1. MadeIds' = MadeIds /\ Genuine' = Genuine
    BY DEF MadeIds, Genuine
<1>2. ASSUME NEW id \in Ids, Here(k, id)'
      PROVE /\ conn'[k] = "open" /\ IsOpen(id)'
            /\ Here(k, id) /\ Keeps(ep[id], ep'[id])
            /\ OnlyDatahub(id)' => OnlyDatahub(id)
            /\ \A hub \in made : OnlyHub(id, hub)' => OnlyHub(id, hub)
    <2>1. id \in MadeIds /\ conn'[k] = "open" /\ IsOpen(id)'
        BY <1>1, <1>2 DEF DInv, DTypeOK, Here
    <2> QED BY <1>2, <2>1, MatesBefore
<1>3. ASSUME NEW id \in Ids \ B, NEW hub \in made', Mates(k, id, hub)', hub.id \notin X
      PROVE Met(k, id, hub)'
    <2>1. Here(k, id)' /\ OnlyHub(id, hub)' /\ hub.id \in IdsOf(preg'[k]) /\ hub \in made
        BY <1>3 DEF Mates
    <2>2. /\ conn'[k] = "open" /\ IsOpen(id)' /\ Here(k, id) /\ OnlyHub(id, hub)
          /\ IsOpen(hub.id)' /\ ep[id].type \in ConnectTypes
        BY <1>2, <2>1 DEF OnlyHub, ConnectTypes
    <2>3. hub.id \in IdsOf(preg[k])
        <3>1. PICK e \in Items(preg'[k]) : e.id = hub.id
            BY <2>1, EntriesAre
        <3>2. e \in Genuine
            BY <1>1, <3>1 DEF AllGenuine, Kept
        <3>3. e.type \in PeerTypes
            BY <2>2, <3>1, <3>2, HubIs DEF AllGenuine
        <3>4. e \in Items(preg[k])
            BY <1>3, <2>2, <3>1, <3>3 DEF LearnsOnly
        <3> QED BY <3>1, <3>4, EntriesAre
    <2>4. Met(k, id, hub)
        BY <2>1, <2>2, <2>3 DEF Mates, LinkedAt
    <2>5. CASE ep[id].remote = hub.addr
        BY <2>1, <2>2, <2>5 DEF HoldsBut, Met
    <2>6. CASE Busy(k, id)
        BY <2>2, <2>6 DEF BusyBut, Met
    <2>7. CASE hub.id \in Announcing(k)
        <3>1. hub.type \in PeerTypes
            BY <2>1, <2>2 DEF OnlyHub, Made, HubType, LinkTypes, PeerTypes
        <3> QED BY <1>3, <2>1, <2>2, <2>7, <3>1 DEF Met, AnnouncedBut
    <2> QED BY <2>4, <2>5, <2>6, <2>7 DEF Met
<1>4. ASSUME NEW id \in Ids \ B, Here(k, id)', OnlyDatahub(id)', NEW e \in LinksOf(k, id)',
             e.id \notin X
      PROVE SendsTo(k, id, e)'
    <2>1. /\ conn'[k] = "open" /\ IsOpen(id)' /\ Here(k, id) /\ OnlyDatahub(id)
          /\ Keeps(ep[id], ep'[id])
        BY <1>2, <1>4
    <2>2. e \in Items(preg[k]) /\ e.type = "datalink" /\ e.topic = ep[id].topic
        BY <1>4, <2>1 DEF LinksOf, LearnsOnly, PeerTypes, Keeps
    <2>3. SendsTo(k, id, e)
        BY <2>1, <2>2 DEF SendingAt, LinksOf
    <2>4. Busy(k, id) => Busy(k, id)'
        BY <2>1 DEF BusyBut, OnlyDatahub, ConnectTypes
    <2>5. e.id \in Announcing(k) => e.id \in Announcing(k)'
        <3>1. PICK m \in made : Renders(e, m)
            BY <2>2 DEF AllGenuine, Kept, Genuine
        <3> QED BY <1>4, <2>1, <2>2, <3>1 DEF Renders, PeerTypes, AnnouncedBut
    <2> QED BY <2>1, <2>3, <2>4, <2>5 DEF SendsTo, Keeps
<1> QED BY <1>3, <1>4

LEMMA ConnectionsStay ==
    ASSUME DInv, AllGenuine, AllGenuine', Steady, made' = made, NEW k \in Nodes,
           DInv', LinkedAt(k), SendingAt(k),
           conn'[k] = "open" => /\ conn[k] = "open" /\ LearnsNone(k) /\ HoldsHub(k)
                                /\ StaysBusy(k) /\ StaysAnnounced(k)
    PROVE LinkedAt(k)' /\ SendingAt(k)'
<1> DEFINE none == {}
<1>1. LearnsNone(k) => LearnsOnly(k, none)
    BY DEF LearnsNone, LearnsOnly
<1>2. StaysAnnounced(k) => AnnouncedBut(k, none)
    BY DEF StaysAnnounced, AnnouncedBut
<1>3. (HoldsHub(k) => HoldsBut(k, none)) /\ (StaysBusy(k) => BusyBut(k, none))
    BY DEF HoldsHub, HoldsBut, StaysBusy, BusyBut
<1> HIDE DEF none
<1>4. /\ \A id \in Ids \ none, hub \in made' :
            Mates(k, id, hub)' /\ hub.id \notin none => Met(k, id, hub)'
      /\ \A id \in Ids \ none : Here(k, id)' /\ OnlyDatahub(id)' =>
            \A e \in LinksOf(k, id)' : e.id \notin none => SendsTo(k, id, e)'
    BY <1>1, <1>2, <1>3, ConnectionsStayBut
<1> QED BY <1>4 DEF none, LinkedAt, SendingAt

LEMMA OthersKeep ==
    ASSUME DInv, DInv', AllGenuine, AllGenuine', ConnInv, made' = made, Steady,
           NEW k \in Nodes, HoldsHub(k),
           UNCHANGED <<conn[k], preg[k], app[k], up[k], down[k], handler[k]>>
    PROVE LinkedAt(k)' /\ SendingAt(k)'
<1>1. LinkedAt(k) /\ SendingAt(k)
    BY DEF ConnInv, Linked, Sending
<1>2. LearnsNone(k) /\ StaysBusy(k) /\ StaysAnnounced(k)
    BY DEF LearnsNone, StaysBusy, Busy, StaysAnnounced, Announcing, Unsent, Pending
<1> QED BY <1>1, <1>2, ConnectionsStay

LEMMA OthersHold ==
    ASSUME DInv, DInv', AllGenuine, AllGenuine', ConnInv, made' = made, Steady, NEW n \in Nodes,
           \A id \in MadeIds : IsOpen(id)' /\ ep[id].node # n => ep'[id].remote = ep[id].remote,
           NEW k \in Nodes \ {n},
           UNCHANGED <<conn[k], preg[k], app[k], up[k], down[k], handler[k]>>
    PROVE LinkedAt(k)' /\ SendingAt(k)'
<1>1. HoldsHub(k)
    <2>1. \A id \in Ids : IsOpen(id) => id \in MadeIds
        BY DEF DInv, DTypeOK
    <2> QED BY <2>1 DEF HoldsHub, Here
<1> QED BY <1>1, OthersKeep

LEMMA BoundStays ==
    ASSUME DInv, DInv', AllGenuine, Bound, Steady, made' = made
    PROVE Bound'
<1>1. ASSUME NEW id \in Ids, IsOpen(id)' PROVE id \in MadeIds /\ IsOpen(id) /\ Keeps(ep[id], ep'[id])
    BY <1>1 DEF DInv, DTypeOK, Steady, MadeIds
<1>2. ASSUME NEW id \in Ids, IsOpen(id)', ep'[id].type # "messagelink", NEW m \in made', m.id = id
      PROVE m.addr = ep'[id].addr
    BY <1>1, <1>2 DEF Bound, Keeps
<1>3. ASSUME NEW i \in Ids, NEW j \in Ids, IsOpen(i)', ep'[i].type = "messagehub",
             IsOpen(j)', ep'[j].type = "messagehub", ep'[i].addr = ep'[j].addr
      PROVE i = j
    <2>1. /\ IsOpen(i) /\ ep[i].type = "messagehub" /\ ep'[i].addr = ep[i].addr
          /\ IsOpen(j) /\ ep[j].type = "messagehub" /\ ep'[j].addr = ep[j].addr
        BY <1>1, <1>3 DEF Keeps
    <2> QED BY <1>3, <2>1 DEF Bound
<1> QED BY <1>2, <1>3 DEF Bound

LEMMA NoneHere ==
    ASSUME NEW n \in Nodes, \A id \in Ids : ~Here(n, id)'
    PROVE LinkedAt(n)' /\ SendingAt(n)'
BY DEF LinkedAt, SendingAt, Mates

LEMMA AloneFewer ==
    ASSUME NEW s, NEW t, Items(t) \subseteq Items(s), Alone(s)
    PROVE Alone(t)
BY DEF Alone

LEMMA AloneNamed ==
    ASSUME NEW s, NEW t, SameNames(s, t), Alone(s)
    PROVE Alone(t)
<1> SUFFICES ASSUME NEW i \in 1..Len(t), NEW j \in 1..Len(t), t[i].id = t[j].id, t[i].endpoint,
                    t[i].type # "messagelink"
             PROVE t[j].endpoint
    BY DEF Alone, Items
<1>1. /\ s[i] \in Items(s) /\ s[j] \in Items(s)
      /\ s[i].id = t[i].id /\ s[i].type = t[i].type /\ s[i].endpoint = t[i].endpoint
      /\ s[j].id = t[j].id /\ s[j].endpoint = t[j].endpoint
    BY DEF SameNames, Items
<1> QED BY <1>1 DEF Alone

LEMMA AloneWithEntry ==
    ASSUME MadeOnce, NEW E, NEW s \in Seq(E), Items(s) \subseteq Genuine, Alone(s),
           NEW e \in E, e \in Genuine, ~e.endpoint
    PROVE Alone(WithEntry(s, e))
<1>1. CASE Known(s, e)
    BY <1>1 DEF WithEntry
<1>2. CASE ~Known(s, e)
    <2>1. Items(WithEntry(s, e)) = Items(s) \cup {e}
        BY <1>2, ItemsOfAppend DEF WithEntry, registry_insert
    <2>2. ASSUME NEW f \in Items(s), f.id = e.id, f.type # "messagelink" PROVE FALSE
        <3>1. PICK m \in made : Renders(e, m)
            BY DEF Genuine
        <3>2. PICK k \in made : Renders(f, k)
            BY DEF Genuine
        <3>3. m = k
            BY <2>2, <3>1, <3>2 DEF MadeOnce, Renders
        <3>4. entry_equals(f, e)
            BY <2>2, <3>1, <3>2, <3>3 DEF Renders, entry_equals
        <3> QED BY <1>2, <3>4 DEF Known, Items
    <2> QED BY <2>1, <2>2 DEF Alone
<1> QED BY <1>1, <1>2

-----------------------------------------------------------------------------
(* The steps of the central registry                                       *)

LEMMA AnnouncingHandles ==
    ASSUME DInv, AllGenuine, FollowsInv, Routes, NEW n \in Nodes, NEW h, HandlesOne(n, h),
           NEW k \in Nodes
    PROVE Announcing(k) \subseteq Announcing(k)'
<1>1. Handles(n, h)
    BY DEF HandlesOne, HandlesRegister, HandlesUnregister, HandlesUpdate, HandlesList
<1>2. /\ handler[n] = Idle /\ handler'[n] = h /\ \A m \in Nodes \ {n} : handler'[m] = handler[m]
      /\ \A m \in Nodes \ {n} : up'[m] = up[m]
      /\ Pending(k)' = Pending(k)
    BY <1>1, EffectUp
<1>3. RegIds(up[n]) = RegIds(up'[n])
                \cup (IF Head(up[n]).kind = "register" THEN {Head(up[n]).entry.id} ELSE {})
    BY <1>1, FollowsRequest DEF Handles
<1>4. Head(up[n]).kind = "register" => ToAdd(h) = {Head(up[n]).entry.id}
    <2>1. ASSUME Head(up[n]).kind = "register" PROVE HandlesRegister(n, h)
        BY <2>1 DEF HandlesOne, HandlesUnregister, HandlesUpdate, HandlesList
    <2>2. ASSUME HandlesRegister(n, h) PROVE ToAdd(h) = {Head(up[n]).entry.id}
        <3>1. h.pc = "announce" /\ h.event = [kind |-> "proxy-add", entry |-> Head(up[n]).entry]
            BY <2>2 DEF HandlesRegister
        <3>2. h.event.kind = "proxy-add" /\ h.event.entry = Head(up[n]).entry
            BY <3>1
        <3> QED BY <3>1, <3>2 DEF ToAdd, Adds
    <2> QED BY <2>1, <2>2
<1>5. ToAdd(handler[n]) = {}
    BY <1>2 DEF ToAdd, Adds, Idle
<1>6. Unsent(k) \cup ToAdd(handler[k]) \subseteq Unsent(k)' \cup ToAdd(handler'[k])
    <2>1. CASE k = n
        BY <1>2, <1>3, <1>4, <1>5, <2>1 DEF Unsent
    <2>2. CASE k # n
        BY <1>2, <2>2 DEF Unsent
    <2> QED BY <2>1, <2>2
<1>7. AddedIds(down[k]) \subseteq AddedIds(down'[k])
    BY <1>1, SameItems DEF FewerItems
<1> QED BY <1>6, <1>7 DEF Announcing

LEMMA AnnouncingAnnounces ==
    ASSUME DInv, Routes, NEW n \in Nodes, Announces(n), NEW k \in Nodes, conn[k] = "open"
    PROVE Announcing(k) \subseteq Announcing(k)'
<1> DEFINE ev == handler[n].event
<1>1. /\ handler[n].pc = "announce" /\ \A m \in Nodes \ {n} : handler'[m] = handler[m]
      /\ UNCHANGED <<up, app>> /\ ev \in MessagesOf(MadeIds)
    BY EventKinds DEF Announces, proxyVars
<1>2. Unsent(k)' = Unsent(k)
    BY <1>1 DEF Unsent, Pending
<1>3. down[k] \in Seq(MessagesOf(MadeIds))
    BY DEF DInv, DTypeOK
<1> HIDE DEF ev
<1>4. PICK q \in Seq(MessagesOf(MadeIds)) :
            /\ \/ q = down[k]
               \/ \E r \in MessagesOf(MadeIds) : r.kind = "response" /\ q = Append(down[k], r)
            /\ down'[k] = IF k \in links \ handler[n].exclude THEN Append(q, ev) ELSE q
    BY DEF Announces, ev
<1>5. Items(down[k]) \subseteq Items(q)
    <2>1. ASSUME NEW r \in MessagesOf(MadeIds), q = Append(down[k], r)
          PROVE Items(q) = Items(down[k]) \cup {r}
        BY <1>3, <2>1, ItemsOfAppend
    <2> QED BY <1>4, <2>1
<1>6. Items(Append(q, ev)) = Items(q) \cup {ev}
    BY <1>1, <1>4, ItemsOfAppend
<1>7. Items(down[k]) \subseteq Items(down'[k])
    BY <1>4, <1>5, <1>6
<1>8. AddedIds(down[k]) \subseteq AddedIds(down'[k])
    BY <1>7, FewerOfItems
<1>9. ASSUME k = n, Adds(handler[n]) PROVE ev.entry.id \in AddedIds(down'[k])
    <2>1. ev.kind = "proxy-add" /\ n \in links \ handler[n].exclude
        BY <1>1, <1>9 DEF Routes, Joined, Adds, ev
    <2>2. ev \in Items(down'[k])
        BY <1>4, <1>6, <1>9, <2>1
    <2> QED BY <2>1, <2>2, KindsOfItems
<1> QED BY <1>1, <1>2, <1>8, <1>9 DEF Announcing, ToAdd, ev

LEMMA AnnouncingRc ==
    ASSUME DInv, AllGenuine, FollowsInv, Routes, NEW n \in Nodes, RcStep(n) \/ RcAnnounce(n),
           NEW k \in Nodes, conn[k] = "open"
    PROVE Announcing(k) \subseteq Announcing(k)'
<1>1. CASE RcAnnounce(n)
    BY <1>1, AnnouncesIs, AnnouncingAnnounces
<1>2. CASE RcStep(n)
    <2>1. UNCHANGED <<proxyVars, raced>>
        BY <1>2 DEF RcStep
    <2>2. CASE messagehub_add_link(n) \/ messagehub_remove_link(n)
        <3>1. /\ UNCHANGED <<up, down, app>> /\ ToAdd(handler[n]) = {}
              /\ \A m \in Nodes \ {n} : handler'[m] = handler[m]
            BY <2>1, <2>2 DEF messagehub_add_link, messagehub_remove_link, Idle, DInv, DTypeOK,
                              proxyVars, ToAdd, Adds
        <3> QED BY <3>1 DEF Announcing, Unsent, Pending
    <2>3. CASE rcregistry_send_list(n)
        <3>1. SendsList(n)
            BY <2>1, <2>3, SendsListIs
        <3>2. /\ UNCHANGED <<up, app>> /\ ToAdd(handler[n]) = {}
              /\ \A m \in Nodes \ {n} : handler'[m] = handler[m]
            BY <3>1 DEF SendsList, proxyVars, ToAdd, Adds
        <3>3. Items(down[k]) \subseteq Items(down'[k])
            <4>1. down[k] \in Seq(MessagesOf(MadeIds)) /\ ListResponse(handler[n].list) \in MessagesOf(MadeIds)
                BY <3>1 DEF DInv, DTypeOK, SendsList
            <4>2. Items(Append(down[k], ListResponse(handler[n].list)))
                    = Items(down[k]) \cup {ListResponse(handler[n].list)}
                BY <4>1, ItemsOfAppend
            <4>3. down'[k] = down[k] \/ down'[k] = Append(down[k], ListResponse(handler[n].list))
                BY <3>1 DEF SendsList
            <4> QED BY <4>2, <4>3
        <3>4. AddedIds(down[k]) \subseteq AddedIds(down'[k])
            BY <3>3, FewerOfItems
        <3> QED BY <3>2, <3>4 DEF Announcing, Unsent, Pending
    <2>4. CASE \/ rcregistry_register(n) \/ rcregistry_unregister(n)
               \/ rcregistry_update_address(n) \/ rcregistry_select_list(n)
        BY <2>1, <2>4, HandlesIs, AnnouncingHandles
    <2> QED BY <1>2, <2>2, <2>3, <2>4 DEF RcStep
<1> QED BY <1>1, <1>2

LEMMA ConnRc ==
    ASSUME DInv, DInv', AllGenuine, AllGenuine', FollowsInv, Routes, ConnInv,
           NEW n \in Nodes, RcStep(n) \/ RcAnnounce(n)
    PROVE ConnInv'
<1>1. UNCHANGED <<conn, proxyVars>>
    <2>1. CASE RcAnnounce(n)
        BY <2>1 DEF RcAnnounce, rcregistry_announce
    <2>2. CASE RcStep(n)
        BY <2>2 DEF RcStep, messagehub_add_link, messagehub_remove_link, rcregistry_register,
                    rcregistry_unregister, rcregistry_update_address, rcregistry_select_list,
                    rcregistry_send_list
    <2> QED BY <2>1, <2>2
<1>2. ep' = ep /\ made' = made /\ preg' = preg /\ app' = app /\ conn' = conn
    BY <1>1 DEF proxyVars
<1>3. Steady
    BY <1>2, SteadySame
<1>4. ASSUME NEW k \in Nodes PROVE LinkedAt(k)' /\ SendingAt(k)'
    <2>1. LearnsNone(k) /\ HoldsHub(k) /\ StaysBusy(k)
        BY <1>2 DEF LearnsNone, HoldsHub, StaysBusy, Busy
    <2>2. conn[k] = "open" => StaysAnnounced(k)
        BY AnnouncingRc DEF StaysAnnounced
    <2>3. LinkedAt(k) /\ SendingAt(k)
        BY DEF ConnInv, Linked, Sending
    <2> QED BY <1>2, <1>3, <2>1, <2>2, <2>3, ConnectionsStay
<1>5. Bound' /\ OwnAlone'
    BY <1>2 DEF ConnInv, Bound, OwnAlone, IsOpen
<1> QED BY <1>4, <1>5 DEF ConnInv, Linked, Sending

-----------------------------------------------------------------------------
(* The steps of the reader                                                 *)

LEMMA AnnouncingRead ==
    ASSUME DInv, NEW n \in Nodes, Reads(n), NEW id \in Announcing(n)
    PROVE \/ id \in Announcing(n)'
          \/ TakesAdd(n) /\ id = Head(down[n]).entry.id
<1>1. /\ UNCHANGED <<handler, app>> /\ RegIds(up'[n]) = RegIds(up[n])
    BY DEF Reads, ReaderKeeps, rcVars
<1>2. Unsent(n)' = Unsent(n)
    BY <1>1 DEF Unsent, Pending
<1>3. CASE down'[n] = down[n]
    BY <1>1, <1>2, <1>3 DEF Announcing
<1>4. CASE down[n] # <<>> /\ down'[n] = Tail(down[n])
    <2>1. down[n] \in Seq(MessagesOf(MadeIds))
        BY DEF DInv, DTypeOK
    <2>2. id \in AddedIds(down[n]) => \/ id \in AddedIds(down'[n])
                                      \/ Head(down[n]).kind = "proxy-add" /\ Head(down[n]).entry.id = id
        BY <1>4, <2>1, HeadLeaves
    <2>3. Head(down[n]).kind = "proxy-add" => TakesAdd(n) \/ down'[n] = down[n]
        BY DEF Reads, TakesRemove, TakesUpdate, TakesResponse, TakesList, Takes, Merges
    <2> QED BY <1>1, <1>2, <1>3, <2>2, <2>3 DEF Announcing
<1> QED BY <1>3, <1>4
    DEF Reads, TakesAdd, TakesRemove, TakesUpdate, TakesResponse, TakesList, Takes, Merges

(* Only the connections of process n can change.                           *)
ConnectsAt(n) == /\ made' = made /\ Steady
                 /\ \A id \in MadeIds : IsOpen(id)' /\ ep[id].node # n => ep'[id].remote = ep[id].remote

LEMMA ConnReads ==
    ASSUME DInv, DInv', AllGenuine, AllGenuine', ConnInv, NEW n \in Nodes, Reads(n), ConnectsAt(n),
           Alone(preg'[n]), LinkedAt(n)' /\ SendingAt(n)'
    PROVE ConnInv'
<1>1. UNCHANGED <<conn, handler, app>> /\ \A k \in Nodes \ {n} : UNCHANGED <<preg[k], up[k], down[k]>>
    BY DEF Reads, ReaderKeeps, rcVars
<1>2. ASSUME NEW k \in Nodes \ {n} PROVE LinkedAt(k)' /\ SendingAt(k)'
    BY <1>1, OthersHold DEF ConnectsAt
<1>3. Bound'
    BY BoundStays DEF ConnInv, ConnectsAt
<1>4. OwnAlone'
    BY <1>1 DEF OwnAlone, ConnInv
<1> QED BY <1>2, <1>3, <1>4 DEF ConnInv, Linked, Sending

(* What it reads is not about a hub or a datalink that it does not know.   *)
LEMMA ConnPassive ==
    ASSUME DInv, DInv', AllGenuine, AllGenuine', ConnInv, NEW n \in Nodes, Reads(n), ep' = ep,
           LearnsNone(n), Alone(preg'[n]), TakesAdd(n) => Head(down[n]).entry.type \notin PeerTypes
    PROVE ConnInv'
<1>1. UNCHANGED <<conn, handler, app, made>>
    BY DEF Reads, ReaderKeeps, rcVars
<1>2. ConnectsAt(n)
    BY <1>1, SteadySame DEF ConnectsAt
<1>3. HoldsHub(n) /\ StaysBusy(n)
    BY <1>1 DEF HoldsHub, StaysBusy, Busy
<1>4. StaysAnnounced(n)
    <2> SUFFICES ASSUME NEW m \in made, m.type \in PeerTypes, m.id \in Announcing(n),
                        TakesAdd(n), m.id = Head(down[n]).entry.id
                 PROVE FALSE
        BY AnnouncingRead DEF StaysAnnounced
    <2>1. Head(down[n]) \in Transit(n) /\ Head(down[n]).kind = "proxy-add"
        <3>1. down[n] \in Seq(MessagesOf(MadeIds)) /\ down[n] # <<>>
            BY DEF DInv, DTypeOK, TakesAdd, Takes
        <3> QED BY <3>1, ItemsOfTail DEF TakesAdd, Takes, Transit
    <2>2. Head(down[n]).entry \in Genuine
        BY <2>1 DEF AllGenuine, Honest
    <2>3. PICK k \in made : Renders(Head(down[n]).entry, k)
        BY <2>2 DEF Genuine
    <2> QED BY <2>3 DEF Renders, AllGenuine, MadeOnce
<1>5. LinkedAt(n) /\ SendingAt(n)
    BY DEF ConnInv, Linked, Sending
<1>6. LinkedAt(n)' /\ SendingAt(n)'
    BY <1>1, <1>2, <1>3, <1>4, <1>5, ConnectionsStay DEF ConnectsAt
<1> QED BY <1>2, <1>6, ConnReads

LEMMA UpdatedItem ==
    ASSUME NEW E, NEW s \in Seq(E), NEW id, NEW addr, NEW i \in 1..Len(s)
    PROVE registry_update_addr(s, id, addr)[i] = s[i] \/ s[i].id = id
<1> DEFINE t == registry_update_addr(s, id, addr)
<1>1. \A j \in 1..Len(s) : \/ t[j] = s[j]
                          \/ /\ id \in IdsOf(s) /\ j = FirstId(s, id) /\ s[j].id = id
                             /\ t[j] = [s[j] EXCEPT !.addr = addr]
    BY UpdateAddrIs
<1> HIDE DEF t
<1>2. t[i] = s[i] \/ s[i].id = id
    BY <1>1
<1> QED BY <1>2 DEF t

LEMMA ConnUpdate ==
    ASSUME DInv, DInv', AllGenuine, AllGenuine', ConnInv, NEW n \in Nodes, Reads(n),
           proxy_handle_update_address(n)
    PROVE ConnInv'
<1> DEFINE m == Head(down[n])
           s == registry_update_addr(preg[n], m.id, m.addr)
<1>1. /\ ep' = ep /\ preg'[n] = s /\ m.kind = "proxy-update-address" /\ down[n] # <<>>
    BY DEF proxy_handle_update_address, HasMessage, DInv, DTypeOK
<1>2. preg[n] \in Seq(Listed(MadeIds)) /\ down[n] \in Seq(MessagesOf(MadeIds))
    BY DEF DInv, DTypeOK
<1>3. m \in Transit(n) /\ m \in MessagesOf(MadeIds)
    BY <1>1, <1>2, ItemsOfTail DEF Transit
<1>4. m.id \in Movable /\ m.addr \in Addrs
    BY <1>1, <1>3, MessageKinds DEF AllGenuine, Honest
<1>5. SameNames(preg[n], s)
    BY <1>2, <1>4, UpdateIs
<1>6. Alone(preg'[n])
    BY <1>1, <1>5, AloneNamed DEF ConnInv, OwnAlone
<1>7. LearnsNone(n)
    <2>1. ASSUME NEW i \in 1..Len(s), s[i].type \in PeerTypes PROVE s[i] \in Items(preg[n])
        <3>1. /\ i \in 1..Len(preg[n]) /\ s[i].type = preg[n][i].type
            BY <1>5, <2>1 DEF SameNames
        <3>2. \/ s[i] = preg[n][i]
              \/ preg[n][i].id = m.id
            BY <1>2, <3>1, UpdatedItem
        <3>3. preg[n][i] \in Items(preg[n]) /\ preg[n][i] \in Genuine
            BY <3>1 DEF Items, AllGenuine, Kept
        <3>4. ASSUME preg[n][i].id = m.id PROVE FALSE
            <4>1. PICK k \in made : k.id = m.id /\ k.type = "messagelink"
                BY <1>4 DEF Movable
            <4>2. PICK x \in made : Renders(preg[n][i], x)
                BY <3>3 DEF Genuine
            <4> QED BY <2>1, <3>1, <3>4, <4>1, <4>2 DEF Renders, AllGenuine, MadeOnce, PeerTypes
        <3> QED BY <3>2, <3>3, <3>4
    <2> QED BY <1>1, <2>1 DEF LearnsNone, Items
<1>8. ~TakesAdd(n)
    BY <1>1 DEF TakesAdd, Takes
<1> QED BY <1>1, <1>6, <1>7, <1>8, ConnPassive

LEMMA ConnMerges ==
    ASSUME DInv, DInv', AllGenuine, AllGenuine', ConnInv, NEW n \in Nodes, Reads(n),
           ep' = ep, reader[n] # IdleReader
    PROVE ConnInv'
<1>1. status[n] = "initializing" /\ OwnIds(preg[n]) = {} /\ app[n] = IdleApp
    BY DEF DInv, ListedOnce, ListedOnceAt
<1>2. \A id \in Ids : IsOpen(id) => ep[id].node # n
    BY <1>1 DEF DInv, OpenIsOwned, IdleApp
<1>3. LinkedAt(n)' /\ SendingAt(n)'
    <2>1. \A id \in Ids : ~Here(n, id)'
        BY <1>2 DEF Here, IsOpen
    <2> QED BY <2>1, NoneHere
<1>4. Alone(preg'[n])
    <2>1. OwnIds(preg'[n]) = {}
        BY <1>1 DEF Reads, ReaderKeeps, SameEntries
    <2>2. \A e \in Items(preg'[n]) : ~e.endpoint
        BY <2>1 DEF OwnIds, Items
    <2> QED BY <2>2 DEF Alone
<1>5. ConnectsAt(n)
    BY SteadySame DEF ConnectsAt, Reads, ReaderKeeps
<1> QED BY <1>3, <1>4, <1>5, ConnReads

(* It reads of a new entry, and connects its end-points to the peer.       *)
LEMMA ConnAdds ==
    ASSUME DInv, DInv', AllGenuine, AllGenuine', ConnInv, NEW n \in Nodes, Reads(n), TakesAdd(n),
           ConnectsAt(n), HoldsHub(n), Alone(preg'[n]),
           NEW e \in Genuine, e = Head(down[n]).entry,
           \A x \in Items(preg'[n]) : x.type \in PeerTypes => x \in Items(preg[n]) \cup {e},
           \A id \in Ids : Here(n, id) /\ IsOpen(id)' /\ ~Busy(n, id) =>
                /\ \A hub \in made : OnlyHub(id, hub) /\ hub.id = e.id => ep'[id].remote = hub.addr
                /\ OnlyDatahub(id) /\ e.type = "datalink" /\ e.topic = ep[id].topic
                    => e.addr \in ep'[id].links
    PROVE ConnInv'
<1>1. UNCHANGED <<conn, handler, app, made>> /\ Genuine' = Genuine /\ Steady
    BY DEF Reads, ReaderKeeps, rcVars, Genuine, ConnectsAt
<1>2. StaysBusy(n) /\ \A id : Busy(n, id) => Busy(n, id)'
    BY <1>1 DEF StaysBusy, Busy
<1>3. LearnsOnly(n, {e.id}) /\ AnnouncedBut(n, {e.id})
    BY AnnouncingRead DEF LearnsOnly, AnnouncedBut
<1>4. LinkedAt(n) /\ SendingAt(n)
    BY DEF ConnInv, Linked, Sending
<1>5. /\ \A id \in Ids \ {}, hub \in made' :
            Mates(n, id, hub)' /\ hub.id \notin {e.id} => Met(n, id, hub)'
      /\ \A id \in Ids \ {} : Here(n, id)' /\ OnlyDatahub(id)' =>
            \A x \in LinksOf(n, id)' : x.id \notin {e.id} => SendsTo(n, id, x)'
    <2>1. HoldsBut(n, {}) /\ BusyBut(n, {})
        BY <1>2 DEF HoldsHub, HoldsBut, StaysBusy, BusyBut
    <2> QED BY <1>1, <1>3, <1>4, <2>1, ConnectionsStayBut
<1>6. ASSUME NEW id \in Ids, Here(n, id)'
      PROVE /\ IsOpen(id)' /\ Here(n, id) /\ Keeps(ep[id], ep'[id])
            /\ OnlyDatahub(id)' => OnlyDatahub(id)
            /\ \A hub \in made : OnlyHub(id, hub)' => OnlyHub(id, hub)
    <2>1. id \in MadeIds /\ IsOpen(id)'
        BY <1>1, <1>6 DEF DInv, DTypeOK, Here, MadeIds
    <2> QED BY <1>1, <1>6, <2>1, MatesBefore
<1>7. ASSUME NEW id \in Ids, NEW hub \in made', Mates(n, id, hub)', hub.id = e.id
      PROVE Met(n, id, hub)'
    <2>1. Here(n, id)' /\ OnlyHub(id, hub)' /\ hub \in made
        BY <1>1, <1>7 DEF Mates
    <2>2. Here(n, id) /\ IsOpen(id)' /\ OnlyHub(id, hub)
        BY <1>6, <2>1
    <2>3. Busy(n, id) \/ ep'[id].remote = hub.addr
        BY <1>7, <2>1, <2>2
    <2> QED BY <1>2, <2>3 DEF Met
<1>8. ASSUME NEW id \in Ids, Here(n, id)', OnlyDatahub(id)', NEW x \in LinksOf(n, id)',
             x.id = e.id
      PROVE SendsTo(n, id, x)'
    <2>1. Here(n, id) /\ IsOpen(id)' /\ OnlyDatahub(id) /\ ep'[id].topic = ep[id].topic
        BY <1>6, <1>8 DEF Keeps
    <2>2. x \in Genuine /\ x.type = "datalink" /\ x.topic = ep'[id].topic
        BY <1>1, <1>8 DEF LinksOf, AllGenuine, Kept
    <2>3. e.type = "datalink" /\ e.topic = x.topic /\ e.addr = x.addr
        <3>1. PICK m \in made : Renders(x, m)
            BY <2>2 DEF Genuine
        <3>2. PICK k \in made : Renders(e, k)
            BY DEF Genuine
        <3>3. m = k
            BY <1>8, <3>1, <3>2 DEF Renders, AllGenuine, MadeOnce
        <3> QED BY <2>2, <3>1, <3>2, <3>3 DEF Renders
    <2>4. Busy(n, id) \/ e.addr \in ep'[id].links
        BY <2>1, <2>2, <2>3
    <2> QED BY <1>2, <2>3, <2>4 DEF SendsTo
<1>9. LinkedAt(n)' /\ SendingAt(n)'
    BY <1>5, <1>7, <1>8 DEF LinkedAt, SendingAt
<1> QED BY <1>9, ConnReads

LEMMA AddedIs ==
    ASSUME DInv, AllGenuine, ConnInv, NEW n \in Nodes, NEW types, HandleAdd(n, types),
           NEW e, e = Head(down[n]).entry, NEW s, s = WithEntry(preg[n], e)
    PROVE /\ e \in Genuine /\ e \in Foreign(MadeIds) /\ e.type \in types /\ e.addr \in Addrs
          /\ s \in Seq(Listed(MadeIds)) /\ Items(s) \subseteq Items(preg[n]) \cup {e}
          /\ Items(s) \subseteq Genuine /\ Alone(s)
          /\ OwnIds(s) = OwnIds(preg[n]) /\ IsOpen(e.id) => ep[e.id] \in Endpoint
<1>1. /\ e \in Foreign(MadeIds) /\ s \in Seq(Listed(MadeIds)) /\ SameEntries(preg[n], s)
    BY AddIs
<1>2. e \in Genuine /\ Items(s) \subseteq Genuine /\ Items(preg[n]) \subseteq Genuine
    BY GenuineWithEntry, KeptGenuine
<1>3. e \in Listed(MadeIds) /\ ~e.endpoint /\ e.addr \in Addrs /\ e.id \in Ids
    BY <1>1 DEF Foreign, Listed, Entry
<1>4. preg[n] \in Seq(Listed(MadeIds))
    BY DEF DInv, DTypeOK
<1>5. Items(s) \subseteq Items(preg[n]) \cup {e}
    BY <1>3, <1>4, ItemsOfWithEntry
<1>6. Alone(s)
    BY <1>2, <1>3, <1>4, AloneWithEntry DEF ConnInv, OwnAlone, AllGenuine
<1>7. IsOpen(e.id) => ep[e.id] \in Endpoint
    BY <1>3, OpenIsEndpoint DEF DInv, DTypeOK, EpTypeOK
<1> QED BY <1>1, <1>2, <1>3, <1>5, <1>6, <1>7 DEF HandleAdd, SameEntries

LEMMA ConnRegisterAdd ==
    ASSUME DInv, DInv', AllGenuine, AllGenuine', ConnInv, NEW n \in Nodes, Reads(n),
           proxy_handle_register_add(n)
    PROVE ConnInv'
<1> DEFINE e == Head(down[n]).entry
           s == WithEntry(preg[n], e)
<1>1. HandleAdd(n, {"messagelink", "streamerlink", "service"}) /\ ep' = ep /\ preg'[n] = s
    BY DEF proxy_handle_register_add, DInv, DTypeOK
<1>2. /\ e.type \in {"messagelink", "streamerlink", "service"} /\ Alone(s)
      /\ Items(s) \subseteq Items(preg[n]) \cup {e}
    BY <1>1, AddedIs
<1>3. e.type \notin PeerTypes
    BY <1>2 DEF PeerTypes
<1> HIDE DEF s, e
<1>4. LearnsNone(n)
    BY <1>1, <1>2, <1>3 DEF LearnsNone
<1> QED BY <1>1, <1>2, <1>3, <1>4, ConnPassive DEF e

LEMMA ConnSamePreg ==
    ASSUME DInv, DInv', AllGenuine, AllGenuine', ConnInv, NEW n \in Nodes, Reads(n),
           proxy_onresponse(n) \/ proxy_handle_update_list(n)
    PROVE ConnInv'
<1>1. ep' = ep /\ preg' = preg /\ ~TakesAdd(n)
    BY DEF proxy_onresponse, proxy_handle_update_list, HasMessage, TakesAdd, Takes
<1>2. LearnsNone(n) /\ Alone(preg'[n])
    BY <1>1 DEF LearnsNone, ConnInv, OwnAlone
<1> QED BY <1>1, <1>2, ConnPassive

LEMMA LastSelectedFinds ==
    ASSUME NEW E, NEW s \in Seq(E), NEW topic, NEW type,
           NEW i \in 1..Len(s), s[i].topic = topic, s[i].type = type,
           NEW k, k = LastSelected(s, topic, type)
    PROVE k \in 1..Len(s) /\ k # 0 /\ s[k].topic = topic /\ s[k].type = type
<1> DEFINE I == {j \in 1..Len(s) : s[j].topic = topic /\ s[j].type = type}
<1>1. k = IF I # {} THEN Max(I) ELSE 0
    BY DEF LastSelected, SelectLastInSeq
<1>2. Len(s) \in Nat /\ I \in SUBSET (1..Len(s)) /\ I # {}
    OBVIOUS
<1>3. Max(I) \in I
    BY <1>2, Greatest
<1> QED BY <1>1, <1>2, <1>3

(* An end-point of the process, unless it is being opened or closed        *)
LEMMA OwnLocal ==
    ASSUME DInv, AllGenuine, PeersInv, NEW n \in Nodes, NEW id \in Ids, Here(n, id), ~Busy(n, id),
           NEW s, OwnIds(s) = OwnIds(preg[n]), Items(s) \subseteq Genuine
    PROVE /\ id \in LocalIds(s, ep[id].topic, ep[id].type)
          /\ \E i \in 1..Len(s) : /\ s[i].id = id /\ s[i].endpoint
                                  /\ s[i].topic = ep[id].topic /\ s[i].type = ep[id].type
<1>1. id \in OwnIds(s)
    BY DEF DInv, OpenIsOwned, Here, Busy
<1>2. PICK i \in 1..Len(s) : s[i].id = id /\ s[i].endpoint
    BY <1>1 DEF OwnIds
<1>3. s[i] \in Genuine
    BY DEF Items
<1>4. ep[id].type = s[i].type /\ ep[id].topic = s[i].topic
    BY <1>2, <1>3, EndpointOfEntry DEF Here
<1> QED BY <1>2, <1>4 DEF LocalIds

LEMMA OwnAreHere ==
    ASSUME DInv, AllGenuine, PeersInv, NEW n \in Nodes,
           NEW s, OwnIds(s) \subseteq OwnIds(preg[n]), Items(s) \subseteq Genuine,
           NEW topic, NEW type, NEW id \in LocalIds(s, topic, type)
    PROVE /\ id \in Ids /\ IsOpen(id) /\ ep[id].node = n
          /\ ep[id].type = type /\ ep[id].topic = topic
<1>1. PICK i \in 1..Len(s) : /\ s[i].topic = topic /\ s[i].type = type /\ s[i].endpoint
                             /\ s[i].id = id
    BY DEF LocalIds
<1>2. s[i] \in Genuine /\ id \in OwnIds(s)
    BY <1>1 DEF Items, OwnIds
<1>3. id \in Ids /\ IsOpen(id) /\ ep[id].node = n
    BY <1>2, KnownIds DEF DInv, Owned, OwnedAt
<1> QED BY <1>1, <1>2, <1>3, EndpointOfEntry

LEMMA TakesAddIs ==
    ASSUME NEW n \in Nodes, Reads(n), NEW types, HandleAdd(n, types)
    PROVE TakesAdd(n)
BY DEF Reads, HandleAdd, HasMessage, TakesRemove, TakesUpdate, TakesResponse, TakesList, Takes,
       Merges

LEMMA NoHubIsLink ==
    ASSUME MadeOnce, NEW e \in Genuine, e.type = "datalink", NEW id, NEW hub, OnlyHub(id, hub)
    PROVE hub.id # e.id
<1>1. hub.type \in {"datahub", "messagehub", "streamer"}
    <2>1. hub.type = HubType[ep[id].type] /\ ep[id].type \in LinkTypes
        BY HubIs DEF OnlyHub
    <2> QED BY <2>1 DEF HubType, LinkTypes
<1>2. e.id = hub.id => e.type = hub.type
    BY HubIs
<1> QED BY <1>1, <1>2

LEMMA ConnDatalink ==
    ASSUME DInv, DInv', AllGenuine, AllGenuine', PeersInv, ConnInv, NEW n \in Nodes, Reads(n),
           proxy_connect_datalink(n)
    PROVE ConnInv'
<1> DEFINE e == Head(down[n]).entry
           s == WithEntry(preg[n], e)
           k == LastSelected(s, e.topic, "datahub")
<1>1. /\ HandleAdd(n, {"datalink"}) /\ preg'[n] = s /\ made' = made /\ e.type = "datalink"
      /\ ep' = IF k # 0 /\ s[k].endpoint THEN datahub_add_link(s[k].id, {e.addr}) ELSE ep
    BY DEF proxy_connect_datalink, HandleAdd, DInv, DTypeOK
<1>2. /\ e \in Genuine /\ e.type = "datalink" /\ s \in Seq(Listed(MadeIds)) /\ Alone(s)
      /\ Items(s) \subseteq Items(preg[n]) \cup {e} /\ Items(s) \subseteq Genuine
      /\ OwnIds(s) = OwnIds(preg[n])
    <2>1. e \in Genuine
        BY <1>1, AddedIs
    <2>2. s \in Seq(Listed(MadeIds)) /\ SameEntries(preg[n], s)
        BY <1>1, AddIs
    <2>5. Alone(s)
        BY <1>1, AddedIs
    <2>3. Items(s) \subseteq Items(preg[n]) \cup {e}
        BY <1>1, AddedIs
    <2>4. Items(s) \subseteq Genuine
        BY <1>1, AddedIs
    <2> QED BY <1>1, <2>1, <2>2, <2>3, <2>4, <2>5 DEF SameEntries
<1>3. TakesAdd(n)
    BY <1>1, TakesAddIs
<1> HIDE DEF s
<1> DEFINE f == s[k]
<1>4. CASE k # 0 /\ f.endpoint
    <2>1. k \in 1..Len(s) /\ f.topic = e.topic /\ f.type = "datahub"
        BY <1>2, <1>4, LastSelectedMatches
    <2> HIDE DEF k
    <2>2. f.id \in OwnIds(s) /\ f \in Items(s)
        BY <1>4, <2>1 DEF OwnIds, Items
    <2>3. f.id \in Ids /\ IsOpen(f.id) /\ ep[f.id].node = n
        BY <1>2, <2>2, KnownIds DEF DInv, Owned, OwnedAt
    <2>4. ep' = datahub_add_link(f.id, {e.addr})
        BY <1>1, <1>4
    <2> HIDE DEF f
    <2>5. /\ Steady /\ \A id \in MadeIds : IsOpen(id)' => ep'[id].remote = ep[id].remote
          /\ ep'[f.id].links = ep[f.id].links \cup {e.addr}
        BY <2>3, <2>4, SteadyAddLinks
    <2>6. ConnectsAt(n) /\ HoldsHub(n)
        BY <1>1, <2>5 DEF ConnectsAt, HoldsHub, Here, DInv, DTypeOK
    <2>7. ASSUME NEW id \in Ids, Here(n, id), ~Busy(n, id), OnlyDatahub(id), e.topic = ep[id].topic
          PROVE e.addr \in ep'[id].links
        <3>1. PICK m \in made : Renders(f, m)
            BY <1>2, <2>2 DEF Genuine
        <3>2. m.id = id
            BY <2>1, <2>7, <3>1 DEF OnlyDatahub, Made, Renders
        <3> QED BY <2>5, <3>1, <3>2 DEF Renders
    <2>8. ASSUME NEW id, NEW hub \in made, OnlyHub(id, hub), hub.id = e.id PROVE FALSE
        BY <1>2, <2>8, NoHubIsLink DEF AllGenuine
    <2> QED BY <1>1, <1>2, <1>3, <2>6, <2>7, <2>8, ConnAdds
<1>5. CASE ~(k # 0 /\ f.endpoint)
    <2>1. ep' = ep
        BY <1>1, <1>5
    <2>2. ConnectsAt(n) /\ HoldsHub(n)
        BY <1>1, <2>1, SteadySame DEF ConnectsAt, HoldsHub
    <2>3. ASSUME NEW id \in Ids, Here(n, id), ~Busy(n, id), OnlyDatahub(id), e.topic = ep[id].topic
          PROVE FALSE
        <3>1. PICK i \in 1..Len(s) : /\ s[i].id = id /\ s[i].endpoint
                                     /\ s[i].topic = ep[id].topic /\ s[i].type = ep[id].type
            BY <1>2, <2>3, OwnLocal
        <3>2. k \in 1..Len(s) /\ k # 0 /\ f.topic = e.topic /\ f.type = "datahub"
            BY <1>2, <2>3, <3>1, LastSelectedFinds DEF OnlyDatahub
        <3> HIDE DEF k
        <3>3. f \in Items(s) /\ s[i] \in Items(s)
            BY <3>2 DEF Items
        <3>4. PICK m \in made : Renders(f, m)
            BY <1>2, <3>3 DEF Genuine
        <3>5. f.id = id
            BY <2>3, <3>2, <3>4 DEF OnlyDatahub, Made, Renders
        <3>6. s[i].type # "messagelink"
            BY <2>3, <3>1 DEF OnlyDatahub
        <3>7. f.endpoint
            BY <1>2, <3>1, <3>3, <3>5, <3>6 DEF Alone
        <3> QED BY <1>5, <3>2, <3>7
    <2>4. ASSUME NEW id, NEW hub \in made, OnlyHub(id, hub), hub.id = e.id PROVE FALSE
        BY <1>2, <2>4, NoHubIsLink DEF AllGenuine
    <2> QED BY <1>1, <1>2, <1>3, <2>2, <2>3, <2>4, ConnAdds
<1> QED BY <1>4, <1>5

LEMMA ConnLinks ==
    ASSUME DInv, DInv', AllGenuine, AllGenuine', PeersInv, ConnInv, NEW n \in Nodes, Reads(n),
           NEW linkType \in LinkTypes, linkType # "messagelink",
           ConnectLinks(n, linkType, HubType[linkType])
    PROVE ConnInv'
<1> DEFINE e == Head(down[n]).entry
           s == WithEntry(preg[n], e)
           L == LocalIds(s, e.topic, linkType)
<1>1. /\ HandleAdd(n, {HubType[linkType]}) /\ preg'[n] = s /\ made' = made
      /\ e.type = HubType[linkType] /\ ep' = SetRemote(L, e.addr)
    BY DEF ConnectLinks, HandleAdd, DInv, DTypeOK
<1>2. /\ e \in Genuine /\ Alone(s) /\ Items(s) \subseteq Genuine /\ OwnIds(s) = OwnIds(preg[n])
      /\ Items(s) \subseteq Items(preg[n]) \cup {e}
    <2>1. e \in Genuine
        BY <1>1, AddedIs
    <2>2. Alone(s)
        BY <1>1, AddedIs
    <2>3. Items(s) \subseteq Items(preg[n]) \cup {e}
        BY <1>1, AddedIs
    <2>4. Items(s) \subseteq Genuine
        BY <1>1, AddedIs
    <2>5. SameEntries(preg[n], s)
        BY <1>1, AddIs
    <2> QED BY <2>1, <2>2, <2>3, <2>4, <2>5 DEF SameEntries
<1>3. TakesAdd(n)
    BY <1>1, TakesAddIs
<1>4. e.type # "datalink" /\ \A t \in LinkTypes : HubType[t] = e.type => t = linkType
    BY <1>1 DEF LinkTypes, HubType
<1> DEFINE a == e.addr
           topic == e.topic
<1> HIDE DEF s, e
<1>5. \A id \in L : /\ id \in Ids /\ IsOpen(id) /\ ep[id].node = n
                    /\ ep[id].type = linkType /\ ep[id].topic = topic
    BY <1>2, OwnAreHere
<1>6. L = LocalIds(s, topic, linkType) /\ ep' = SetRemote(L, a)
    BY <1>1
<1> HIDE DEF L, a, topic
<1>7. Steady /\ \A id \in MadeIds : IsOpen(id)' => ep'[id].remote = IF id \in L THEN a ELSE ep[id].remote
    BY <1>5, <1>6, SteadySetRemote
<1>8. ConnectsAt(n)
    BY <1>1, <1>5, <1>7 DEF ConnectsAt
<1>9. ASSUME NEW id \in Ids, NEW hub \in made, OnlyHub(id, hub)
      PROVE /\ e.id = hub.id <=> ep[id].type = linkType /\ ep[id].topic = topic
            /\ e.id = hub.id => a = hub.addr
    <2>1. /\ hub.type = HubType[ep[id].type] /\ hub.topic = ep[id].topic
          /\ e.type = hub.type /\ e.topic = hub.topic => e.id = hub.id
          /\ e.id = hub.id => e.type = hub.type /\ e.topic = hub.topic /\ e.addr = hub.addr
        BY <1>2, <1>9, HubIs DEF AllGenuine
    <2>2. ep[id].type \in LinkTypes
        BY <1>9 DEF OnlyHub
    <2> QED BY <1>1, <1>4, <2>1, <2>2 DEF a, topic
<1>10. HoldsHub(n)
    <2> SUFFICES ASSUME NEW id \in Ids, NEW hub \in made, Here(n, id), OnlyHub(id, hub),
                        IsOpen(id)', ep[id].remote = hub.addr
                 PROVE ep'[id].remote = hub.addr
        BY DEF HoldsHub
    <2>1. id \in MadeIds
        BY DEF Here, DInv, DTypeOK
    <2>2. id \in L => a = hub.addr
        BY <1>5, <1>9
    <2> QED BY <1>7, <2>1, <2>2
<1>11. ASSUME NEW id \in Ids, Here(n, id), IsOpen(id)', ~Busy(n, id),
              NEW hub \in made, OnlyHub(id, hub), hub.id = e.id
       PROVE ep'[id].remote = hub.addr
    <2>1. ep[id].type = linkType /\ ep[id].topic = topic /\ a = hub.addr
        BY <1>9, <1>11
    <2>2. id \in L
        BY <1>2, <1>6, <1>11, <2>1, OwnLocal
    <2>3. id \in MadeIds
        BY <1>11 DEF Here, DInv, DTypeOK
    <2> QED BY <1>7, <1>11, <2>1, <2>2, <2>3
<1> QED BY <1>1, <1>2, <1>3, <1>4, <1>8, <1>10, <1>11, ConnAdds DEF e

LEMMA ConnRemove ==
    ASSUME DInv, DInv', AllGenuine, AllGenuine', PeersInv, ConnInv, NEW n \in Nodes, Reads(n),
           proxy_handle_register_remove(n)
    PROVE ConnInv'
<1> DEFINE id == Head(down[n]).id
           e == preg[n][FirstId(preg[n], id)]
           t == registry_delete(preg[n], id)
           L == LocalIds(t, e.topic, "datalink")
<1>1. /\ HasMessage(n, "proxy-remove") /\ made' = made
      /\ \/ preg' = preg /\ ep' = ep
         \/ /\ id \in IdsOf(preg[n]) /\ preg'[n] = t
            /\ \/ ep' = ep
               \/ e.type = "datahub" /\ ep' = SetRemote(L, NoAddr)
    BY DEF proxy_handle_register_remove, DInv, DTypeOK
<1>2. ~TakesAdd(n)
    BY <1>1 DEF HasMessage, TakesAdd, Takes
<1>3. /\ preg[n] \in Seq(Listed(MadeIds)) /\ Items(t) \subseteq Items(preg[n])
      /\ Items(preg[n]) \subseteq Genuine
    BY AppIs, ItemsOfDelete
<1>4. LearnsNone(n) /\ Alone(preg'[n])
    BY <1>1, <1>3, AloneFewer DEF LearnsNone, ConnInv, OwnAlone
<1>5. CASE ep' = ep
    BY <1>2, <1>4, <1>5, ConnPassive
<1>6. CASE id \in IdsOf(preg[n]) /\ e.type = "datahub" /\ ep' = SetRemote(L, NoAddr)
    <2> DEFINE topic == e.topic
    <2>1. e \in Items(preg[n]) /\ e.id = id
        BY <1>3, <1>6, FirstIdIs DEF Items
    <2>2. e \in Genuine
        BY <1>3, <2>1
    <2>3. id \in Ids /\ ~IsOpen(id)
        <3>1. down[n] \in Seq(MessagesOf(MadeIds)) /\ down[n] # <<>> /\ Head(down[n]).kind = "proxy-remove"
            BY <1>1 DEF DInv, DTypeOK, HasMessage
        <3>2. id \in RemovedIds(down[n])
            BY <3>1, TailIs
        <3>3. id \in Ids
            BY <2>1, <2>2 DEF Genuine, Entry
        <3> QED BY <3>2, <3>3 DEF DInv, Withdrawn, WithdrawnAt
    <2> HIDE DEF e, t, id
    <2>4. OwnIds(t) \subseteq OwnIds(preg[n])
        BY <1>3, Zenon DEF OwnIds, Items
    <2>5. \A i \in L : /\ i \in Ids /\ IsOpen(i) /\ ep[i].node = n
                       /\ ep[i].type = "datalink" /\ ep[i].topic = topic
        <3>1. Items(t) \subseteq Genuine
            BY <1>3
        <3> QED BY <2>4, <3>1, OwnAreHere
    <2>6. Steady /\ \A i \in MadeIds : IsOpen(i)' =>
                        ep'[i].remote = IF i \in L THEN NoAddr ELSE ep[i].remote
        BY <1>6, <2>5, SteadySetRemote
    <2>7. ConnectsAt(n)
        BY <1>1, <2>5, <2>6 DEF ConnectsAt
    <2>8. HoldsHub(n)
        <3> SUFFICES ASSUME NEW i \in Ids, NEW hub \in made, Here(n, i), OnlyHub(i, hub),
                            IsOpen(i)', ep[i].remote = hub.addr
                     PROVE ep'[i].remote = hub.addr
            BY DEF HoldsHub
        <3>1. i \in MadeIds
            BY DEF Here, DInv, DTypeOK
        <3>2. ASSUME i \in L PROVE FALSE
            <4>1. ep[i].type = "datalink" /\ ep[i].topic = e.topic
                BY <2>5, <3>2
            <4>2. e.id = hub.id
                BY <1>6, <2>2, <4>1, HubIs DEF AllGenuine, HubType
            <4> QED BY <2>1, <2>3, <4>2 DEF OnlyHub
        <3> QED BY <2>6, <3>1, <3>2
    <2>9. UNCHANGED <<conn, app>> /\ Genuine' = Genuine
        BY <1>1 DEF Reads, ReaderKeeps, Genuine
    <2>10. StaysBusy(n) /\ StaysAnnounced(n)
        BY <1>2, <2>9, AnnouncingRead DEF StaysBusy, Busy, StaysAnnounced
    <2>11. LinkedAt(n)' /\ SendingAt(n)'
        <3>1. LinkedAt(n) /\ SendingAt(n)
            BY DEF ConnInv, Linked, Sending
        <3> QED BY <1>1, <1>4, <2>6, <2>8, <2>9, <2>10, <3>1, ConnectionsStay
    <2> QED BY <1>4, <2>7, <2>11, ConnReads
<1> QED BY <1>1, <1>5, <1>6

LEMMA ConnMessagehub ==
    ASSUME DInv, DInv', AllGenuine, AllGenuine', PeersInv, ConnInv, NEW n \in Nodes, Reads(n),
           proxy_connect_messagehub(n)
    PROVE ConnInv'
<1> DEFINE e == Head(down[n]).entry
           s == WithEntry(preg[n], e)
           L == {id \in LocalIds(s, e.topic, "messagelink") : ep[id].remote # e.addr}
           t(local) == [i \in 1..Len(s) |->
                          IF Listening(e.addr) /\ s[i].id \in L /\ i = FirstId(s, s[i].id)
                          THEN [s[i] EXCEPT !.addr = local[s[i].id]] ELSE s[i]]
<1>1. /\ HandleAdd(n, {"messagehub"}) /\ made' = made /\ e.type = "messagehub"
      /\ \E local \in [L -> FreeAddrs] : /\ ep' = client_messagelink_connect(L, e.addr, local)
                                         /\ preg'[n] = t(local)
    BY DEF proxy_connect_messagehub, HandleAdd, DInv, DTypeOK
<1>2. PICK local \in [L -> FreeAddrs] : /\ ep' = client_messagelink_connect(L, e.addr, local)
                                        /\ preg'[n] = t(local)
    BY <1>1
<1>3. /\ e \in Genuine /\ Alone(s) /\ Items(s) \subseteq Genuine /\ OwnIds(s) = OwnIds(preg[n])
      /\ Items(s) \subseteq Items(preg[n]) \cup {e} /\ s \in Seq(Listed(MadeIds))
    <2> DEFINE types == {"messagehub"}
    <2>6. HandleAdd(n, types) /\ e = Head(down[n]).entry /\ s = WithEntry(preg[n], e)
        BY <1>1
    <2> HIDE DEF types, e, s, t, L
    <2>1. e \in Genuine
        BY <2>6, AddedIs
    <2>2. Alone(s)
        BY <2>6, AddedIs
    <2>3. Items(s) \subseteq Items(preg[n]) \cup {e}
        BY <2>6, AddedIs
    <2>4. Items(s) \subseteq Genuine
        BY <2>6, AddedIs
    <2> USE DEF e, s
    <2>5. SameEntries(preg[n], s) /\ s \in Seq(Listed(MadeIds))
        BY <1>1, AddIs
    <2> QED BY <2>1, <2>2, <2>3, <2>4, <2>5 DEF SameEntries
<1>4. TakesAdd(n)
    BY <1>1, TakesAddIs
<1>5. SameNames(s, preg'[n])
    BY <1>4 DEF TakesAdd
<1>6. Alone(preg'[n])
    BY <1>3, <1>5, AloneNamed
<1> DEFINE a == e.addr
           topic == e.topic
<1> HIDE DEF s, e
<1>7. \A id \in LocalIds(s, topic, "messagelink") :
            /\ id \in Ids /\ IsOpen(id) /\ ep[id].node = n
            /\ ep[id].type = "messagelink" /\ ep[id].topic = topic
    BY <1>3, OwnAreHere
<1>8. \A id : id \in L <=> id \in LocalIds(s, topic, "messagelink") /\ ep[id].remote # a
    OBVIOUS
<1>9. ASSUME NEW x \in Items(preg'[n]), x.type \in PeerTypes
      PROVE x \in Items(preg[n]) \cup {e}
    <2>1. PICK i \in 1..Len(s) : x = preg'[n][i] /\ x.type = s[i].type
        BY <1>5, <1>9 DEF Items, SameNames
    <2>2. s[i] \in Genuine /\ s[i] \in Items(s)
        BY <1>3 DEF Items
    <2>3. s[i].id \notin L
        <3>1. ASSUME s[i].id \in L PROVE FALSE
            <4>1. s[i].id \in Ids /\ IsOpen(s[i].id) /\ ep[s[i].id].type = "messagelink"
                BY <1>7, <1>8, <3>1
            <4>2. s[i].type = "messagelink"
                BY <2>2, <4>1, EndpointOfEntry
            <4> QED BY <1>9, <2>1, <4>2 DEF PeerTypes
        <3> QED BY <3>1
    <2>4. x = s[i]
        BY <1>2, <2>1, <2>3
    <2> QED BY <1>3, <2>2, <2>4
<1>10. ep' = client_messagelink_connect(L, a, local)
    BY <1>2
<1> HIDE DEF L, a, topic, t
<1>11. /\ Steady
       /\ \A id \in MadeIds : IsOpen(id)' => /\ id \notin L => ep'[id].remote = ep[id].remote
                                             /\ id \in L /\ Listening(a) => ep'[id].remote = a
    BY <1>7, <1>8, <1>10, SteadyConnect
<1>12. ConnectsAt(n)
    BY <1>1, <1>7, <1>8, <1>11 DEF ConnectsAt
<1>13. ASSUME NEW id \in Ids, NEW hub \in made, OnlyHub(id, hub)
       PROVE /\ e.id = hub.id <=> ep[id].type = "messagelink" /\ ep[id].topic = topic
             /\ e.id = hub.id => a = hub.addr
    <2>1. /\ hub.type = HubType[ep[id].type] /\ hub.topic = ep[id].topic
          /\ e.type = hub.type /\ e.topic = hub.topic => e.id = hub.id
          /\ e.id = hub.id => e.type = hub.type /\ e.topic = hub.topic /\ e.addr = hub.addr
        BY <1>3, <1>13, HubIs DEF AllGenuine
    <2>2. ep[id].type \in LinkTypes
        BY <1>13 DEF OnlyHub
    <2>3. HubType[ep[id].type] = "messagehub" <=> ep[id].type = "messagelink"
        BY <2>2 DEF HubType, LinkTypes
    <2> QED BY <1>1, <2>1, <2>3 DEF a, topic
<1>14. HoldsHub(n)
    <2> SUFFICES ASSUME NEW id \in Ids, NEW hub \in made, Here(n, id), OnlyHub(id, hub),
                        IsOpen(id)', ep[id].remote = hub.addr
                 PROVE ep'[id].remote = hub.addr
        BY DEF HoldsHub
    <2>1. id \in MadeIds
        BY DEF Here, DInv, DTypeOK
    <2>2. id \notin L
        BY <1>7, <1>8, <1>13
    <2> QED BY <1>11, <2>1, <2>2
<1>15. ASSUME NEW id \in Ids, Here(n, id), IsOpen(id)', ~Busy(n, id),
              NEW hub \in made, OnlyHub(id, hub), hub.id = e.id
       PROVE ep'[id].remote = hub.addr
    <2>1. ep[id].type = "messagelink" /\ ep[id].topic = topic /\ a = hub.addr
        BY <1>13, <1>15
    <2>2. id \in LocalIds(s, topic, "messagelink")
        BY <1>3, <1>15, <2>1, OwnLocal
    <2>3. id \in MadeIds /\ hub.id \in Ids /\ IsOpen(hub.id)
        BY <1>15, MadeInIds DEF Here, DInv, DTypeOK, MadeIds, OnlyHub
    <2>4. Listening(a)
        <3>1. ep[hub.id].type = "messagehub"
            BY <1>1, <1>3, <1>15, <2>3, EndpointOfEntry
        <3>2. ep[hub.id].addr = a
            BY <2>1, <2>3, <3>1 DEF ConnInv, Bound
        <3> QED BY <2>3, <3>1, <3>2 DEF Listening
    <2> QED BY <1>8, <1>11, <1>15, <2>1, <2>2, <2>3, <2>4
<1>16. e.type # "datalink"
    BY <1>1
<1> QED BY <1>3, <1>4, <1>6, <1>9, <1>12, <1>14, <1>15, <1>16, ConnAdds DEF e

LEMMA ConnReader ==
    ASSUME DInv, DInv', AllGenuine, AllGenuine', PeersInv, ConnInv, NEW n \in Nodes,
           ReaderStep(n)
    PROVE ConnInv'
<1>1. Reads(n)
    BY ReaderReads
<1>2. CASE proxy_connect_datahub(n)
    <2>1. "datalink" \in LinkTypes /\ HubType["datalink"] = "datahub"
        BY DEF LinkTypes, HubType
    <2> QED BY <1>1, <1>2, <2>1, ConnLinks DEF proxy_connect_datahub
<1>3. CASE proxy_connect_streamer(n)
    <2>1. "streamerlink" \in LinkTypes /\ HubType["streamerlink"] = "streamer"
        BY DEF LinkTypes, HubType
    <2> QED BY <1>1, <1>3, <2>1, ConnLinks DEF proxy_connect_streamer
<1>4. CASE \/ update_list_insert(n) \/ update_list_select(n)
           \/ update_list_prune(n) \/ update_list_ready(n)
    <2>1. ep' = ep /\ reader[n] # IdleReader
        BY <1>4 DEF update_list_insert, update_list_select, update_list_prune,
                    update_list_ready, IdleReader
    <2> QED BY <1>1, <2>1, ConnMerges
<1> QED BY <1>1, <1>2, <1>3, <1>4, ConnDatalink, ConnMessagehub, ConnRemove, ConnUpdate,
           ConnRegisterAdd, ConnSamePreg DEF ReaderStep

-----------------------------------------------------------------------------
(* The steps of the application's thread                                   *)

(* A hub that stays open keeps its links when other end-points are deleted.*)
LEMMA DeleteHolds ==
    ASSUME DInv, AllGenuine, PeersInv, ConnInv, NEW S \in SUBSET Ids, ep' = DeleteEndpoints(S)
    PROVE Steady /\ \A k \in Nodes : HoldsHub(k)
<1>1. /\ Steady
      /\ \A id \in MadeIds : IsOpen(id)' =>
            \/ ep'[id].remote = ep[id].remote
            \/ /\ ep[id].type = "messagelink"
               /\ \E x \in S : /\ x \in Ids => ~IsOpen(x)'
                               /\ ep[x].type = "messagehub" /\ ep[x].addr = ep[id].remote
    BY SteadyDelete
<1>2. ASSUME NEW k \in Nodes, NEW id \in Ids, NEW hub \in made, Here(k, id), OnlyHub(id, hub),
             IsOpen(id)', IsOpen(hub.id)', ep[id].remote = hub.addr
      PROVE ep'[id].remote = hub.addr
    <2>1. id \in MadeIds /\ hub.id \in Ids /\ IsOpen(hub.id)
        BY <1>2, MadeInIds DEF Here, DInv, DTypeOK, MadeIds, OnlyHub
    <2>2. ASSUME ep[id].type = "messagelink", NEW x \in S, ~IsOpen(x)',
                 ep[x].type = "messagehub", ep[x].addr = hub.addr
          PROVE FALSE
        <3>1. hub.type = "messagehub"
            <4>1. hub \in Made(HubType[ep[id].type], ep[id].topic)
                BY <1>2 DEF OnlyHub
            <4> QED BY <2>2, <4>1 DEF Made, HubType
        <3>2. PICK m \in made : m.id = hub.id /\ m.type = ep[hub.id].type
            BY <2>1 DEF PeersInv, MadeAs
        <3>3. ep[hub.id].type = "messagehub"
            BY <3>1, <3>2 DEF AllGenuine, MadeOnce
        <3>4. ep[hub.id].addr = hub.addr
            BY <2>1, <3>3 DEF ConnInv, Bound
        <3>5. IsOpen(x) /\ x \in Ids
            BY <2>2 DEF IsOpen, Closed
        <3>6. x = hub.id
            BY <2>1, <2>2, <3>3, <3>4, <3>5 DEF ConnInv, Bound
        <3> QED BY <1>2, <2>2, <3>6
    <2> QED BY <1>1, <1>2, <2>1, <2>2
<1> QED BY <1>1, <1>2 DEF HoldsHub

LEMMA ConnKept ==
    ASSUME DInv, DInv', AllGenuine, AllGenuine', ConnInv, made' = made, Steady, NEW n \in Nodes,
           \A k \in Nodes \ {n} :
                /\ UNCHANGED <<conn[k], preg[k], app[k], up[k], down[k], handler[k]>>
                /\ HoldsHub(k),
           LinkedAt(n)' /\ SendingAt(n)', Alone(preg'[n])
    PROVE ConnInv'
<1>1. ASSUME NEW k \in Nodes \ {n} PROVE LinkedAt(k)' /\ SendingAt(k)' /\ Alone(preg'[k])
    <2>1. Alone(preg[k])
        BY DEF ConnInv, OwnAlone
    <2> QED BY <2>1, OthersKeep
<1>2. Bound'
    BY BoundStays DEF ConnInv
<1> QED BY <1>1, <1>2 DEF ConnInv, Linked, Sending, OwnAlone

LEMMA ConnSend ==
    ASSUME DInv, DInv', AllGenuine, AllGenuine', PeersInv, ConnInv, NEW n \in Nodes,
           proxy_send_register_request(n), UNCHANGED <<rcVars, raced>>
    PROVE ConnInv'
<1> DEFINE e == app[n].entry
           r == RegisterReq(e)
<1>1. /\ app[n].pc = "register" /\ UNCHANGED <<conn, down, preg, ep, made, handler>>
      /\ up' = [up EXCEPT ![n] = Append(up[n], r)]
      /\ app' = [app EXCEPT ![n] = IF e.type \in ConnectTypes
                                   THEN [pc |-> "connect", entry |-> e] ELSE IdleApp]
    BY DEF proxy_send_register_request, rcVars
<1>2. /\ e \in Genuine /\ e \in Listed(MadeIds) /\ up[n] \in Seq(RequestsOf(MadeIds))
      /\ IsOpen(e.id) /\ e.id \in Ids
    <2>1. e \in Genuine /\ e \in Listed(MadeIds)
        BY <1>1, AppIs
    <2>2. up[n] \in Seq(RequestsOf(MadeIds))
        BY DEF DInv, DTypeOK
    <2>3. e.id \in OwnIds(preg[n])
        BY <1>1 DEF DInv, Owned, OwnedAt
    <2>4. IsOpen(e.id)
        BY <2>3 DEF DInv, Owned, OwnedAt
    <2>5. e.id \in Ids
        BY <2>1 DEF Listed, Entry
    <2> QED BY <2>1, <2>2, <2>4, <2>5
<1>3. /\ r.kind = "register" /\ r.entry.id = e.id /\ r \in RequestsOf(MadeIds)
    BY <1>2 DEF RegisterReq, registry_entry_encode, Listed, RequestsOf, Foreign, Entry
<1>4. Steady /\ \A k \in Nodes : HoldsHub(k)
    BY <1>1, SteadySame DEF HoldsHub
<1>5. \A k \in Nodes \ {n} : UNCHANGED <<conn[k], preg[k], app[k], up[k], down[k], handler[k]>>
    BY <1>1 DEF DInv, DTypeOK
<1>6. StaysAnnounced(n)
    <2>1. RegIds(up'[n]) = RegIds(up[n]) \cup {e.id}
        <3> HIDE DEF r
        <3>1. up'[n] = Append(up[n], r)
            BY <1>1 DEF DInv, DTypeOK
        <3> QED BY <1>2, <1>3, <3>1, RequestAdded
    <2>2. Pending(n) = {e.id}
        BY <1>1 DEF Pending
    <2> QED BY <1>1, <2>1, <2>2 DEF StaysAnnounced, Announcing, Unsent
<1>7. StaysBusy(n)
    <2>1. ep[e.id].type = e.type
        BY <1>2, EndpointOfEntry
    <2>2. e.type \in ConnectTypes => app'[n].pc = "connect" /\ app'[n].entry = e
        BY <1>1 DEF DInv, DTypeOK
    <2> SUFFICES ASSUME NEW id \in Ids, Busy(n, id), ep[id].type \in ConnectTypes
                 PROVE Busy(n, id)'
        BY DEF StaysBusy
    <2>3. id = e.id
        BY DEF Busy
    <2> QED BY <2>1, <2>2, <2>3 DEF Busy
<1>8. LinkedAt(n)' /\ SendingAt(n)'
    <2>1. LinkedAt(n) /\ SendingAt(n) /\ LearnsNone(n)
        BY <1>1 DEF ConnInv, Linked, Sending, LearnsNone
    <2> QED BY <1>1, <1>4, <1>6, <1>7, <2>1, ConnectionsStay
<1>9. Alone(preg'[n])
    BY <1>1 DEF ConnInv, OwnAlone
<1> QED BY <1>1, <1>4, <1>5, <1>8, <1>9, ConnKept

LEMMA ConnDeletes ==
    ASSUME DInv, DInv', AllGenuine, AllGenuine', PeersInv, ConnInv, NEW n \in Nodes,
           UInv, proxy_open_failed(n) \/ proxy_send_unregister_request(n),
           UNCHANGED <<rcVars, raced>>
    PROVE ConnInv'
<1> DEFINE id == app[n].entry.id
           S == {id}
<1>1. /\ app[n].pc = "unregister" /\ ep' = DeleteEndpoints(S)
      /\ UNCHANGED <<conn, down, made, handler, preg>> /\ app' = [app EXCEPT ![n] = IdleApp]
    BY DEF proxy_open_failed, proxy_send_unregister_request, netVars, rcVars
<1>2. id \in Ids /\ preg[n] \in Seq(Listed(MadeIds))
    BY <1>1, AppIs DEF Listed, Entry
<1>3. S \in SUBSET Ids
    BY <1>2
<1>4. ep'[id] = Closed
    <2>1. EpKeeps(ep', {id})
        BY <1>1, <1>2, DeleteEndpointsIs DEF DInv, DTypeOK, EpTypeOK
    <2> QED BY <1>2, <2>1 DEF EpKeeps
<1> HIDE DEF S
<1>5. Steady /\ \A k \in Nodes : HoldsHub(k)
    BY <1>1, <1>3, DeleteHolds
<1>6. \A k \in Nodes \ {n} : UNCHANGED <<conn[k], preg[k], app[k], up[k], down[k], handler[k]>>
    <2>1. \A k \in Nodes \ {n} : app'[k] = app[k]
        BY <1>1 DEF DInv, DTypeOK
    <2>2. CASE proxy_open_failed(n)
        BY <1>1, <2>1, <2>2 DEF proxy_open_failed, netVars, DInv, DTypeOK
    <2>3. CASE proxy_send_unregister_request(n)
        BY <1>1, <2>1, <2>3 DEF proxy_send_unregister_request, DInv, DTypeOK
    <2> QED BY <2>2, <2>3
<1>7. Items(preg'[n]) \subseteq Items(preg[n])
    BY <1>1
<1>8. Alone(preg'[n])
    BY <1>7, AloneFewer DEF ConnInv, OwnAlone
<1>9. LearnsNone(n)
    BY <1>7 DEF LearnsNone
<1>10. StaysBusy(n)
    <2>1. \A i : Busy(n, i) => i = id
        BY DEF Busy
    <2>2. \A i : Busy(n, i) => ~IsOpen(i)'
        BY <1>4, <2>1 DEF IsOpen
    <2> QED BY <2>2 DEF StaysBusy
<1>11. conn[n] = "open" => StaysAnnounced(n)
    <2> SUFFICES ASSUME conn[n] = "open" PROVE StaysAnnounced(n)
        OBVIOUS
    <2>1. /\ app[n].pc = "unregister"
          /\ up' = [up EXCEPT ![n] = Append(up[n], UnregisterReq(id))]
        BY FailedIsDown DEF proxy_send_unregister_request, CanSend
    <2>2. /\ up[n] \in Seq(RequestsOf(MadeIds)) /\ id \in MadeIds
          /\ up'[n] = Append(up[n], UnregisterReq(id))
        BY <1>1, <2>1, KnownIds DEF DInv, DTypeOK
    <2>3. UnregisterReq(id).kind = "unregister" /\ UnregisterReq(id) \in RequestsOf(MadeIds)
        BY <2>2 DEF UnregisterReq, RequestsOf
    <2>4. RegIds(up'[n]) = RegIds(up[n])
        BY <2>2, <2>3, RequestAdded
    <2>5. Pending(n) = {}
        BY <2>1 DEF Pending
    <2> QED BY <1>1, <2>4, <2>5 DEF StaysAnnounced, Announcing, Unsent
<1>12. LinkedAt(n)' /\ SendingAt(n)'
    <2>1. LinkedAt(n) /\ SendingAt(n)
        BY DEF ConnInv, Linked, Sending
    <2> QED BY <1>1, <1>5, <1>9, <1>10, <1>11, <2>1, ConnectionsStay
<1> QED BY <1>1, <1>5, <1>6, <1>8, <1>12, ConnKept

LEMMA ConnFailed ==
    ASSUME DInv, DInv', AllGenuine, AllGenuine', ConnInv, NEW n \in Nodes,
           proxy_new_entry_failed(n), UNCHANGED <<rcVars, raced>>
    PROVE ConnInv'
<1> DEFINE id == app[n].entry.id
<1>1. /\ app[n].pc = "register" /\ conn[n] # "open"
      /\ UNCHANGED <<conn, up, down, handler, ep, made>>
      /\ app' = [app EXCEPT ![n] = [pc |-> "unregister", entry |-> app[n].entry]]
      /\ preg' = [preg EXCEPT ![n] = registry_delete(preg[n], id)]
    BY DEF proxy_new_entry_failed, netVars, rcVars, CanSend
<1>2. /\ \A k \in Nodes \ {n} : preg'[k] = preg[k] /\ app'[k] = app[k]
      /\ preg[n] \in Seq(Listed(MadeIds)) /\ preg'[n] = registry_delete(preg[n], id)
      /\ app'[n].pc = "unregister" /\ app'[n].entry = app[n].entry
    BY <1>1 DEF DInv, DTypeOK
<1>3. id \in Ids
    BY <1>1, AppIs DEF Listed, Entry
<1>4. Items(preg'[n]) \subseteq Items(preg[n])
    BY <1>2, <1>3, ItemsOfDelete
<1>5. Alone(preg'[n]) /\ LearnsNone(n)
    BY <1>4, AloneFewer DEF ConnInv, OwnAlone, LearnsNone
<1>6. Steady /\ \A k \in Nodes : HoldsHub(k)
    BY <1>1, SteadySame DEF HoldsHub
<1>7. StaysBusy(n)
    BY <1>2 DEF StaysBusy, Busy
<1>8. LinkedAt(n)' /\ SendingAt(n)'
    <2>1. LinkedAt(n) /\ SendingAt(n)
        BY DEF ConnInv, Linked, Sending
    <2> QED BY <1>1, <1>5, <1>6, <1>7, <2>1, ConnectionsStay
<1> QED BY <1>1, <1>2, <1>5, <1>6, <1>8, ConnKept

LEMMA ConnClose ==
    ASSUME DInv, DInv', AllGenuine, AllGenuine', ConnInv, NEW n \in Nodes, Close(n)
    PROVE ConnInv'
<1>1. PICK id \in Ids : proxy_delete_entry(n, id)
    BY DEF Close
<1>2. /\ UNCHANGED <<conn, up, down, handler, ep, made>> /\ app[n] = IdleApp
      /\ preg' = [preg EXCEPT ![n] = registry_delete(preg[n], id)]
    BY <1>1 DEF proxy_delete_entry, DeleteEntry, netVars, Close, rcVars
<1>3. /\ \A k \in Nodes \ {n} : preg'[k] = preg[k] /\ app'[k] = app[k]
      /\ preg[n] \in Seq(Listed(MadeIds)) /\ preg'[n] = registry_delete(preg[n], id)
    BY <1>1, <1>2 DEF proxy_delete_entry, DeleteEntry, DInv, DTypeOK
<1>4. Items(preg'[n]) \subseteq Items(preg[n])
    BY <1>3, ItemsOfDelete
<1>5. Alone(preg'[n]) /\ LearnsNone(n)
    BY <1>4, AloneFewer DEF ConnInv, OwnAlone, LearnsNone
<1>6. Steady /\ \A k \in Nodes : HoldsHub(k)
    BY <1>2, SteadySame DEF HoldsHub
<1>7. StaysBusy(n) /\ StaysAnnounced(n)
    BY <1>2 DEF StaysBusy, Busy, IdleApp, StaysAnnounced, Announcing, Unsent, Pending
<1>8. LinkedAt(n)' /\ SendingAt(n)'
    <2>1. LinkedAt(n) /\ SendingAt(n)
        BY DEF ConnInv, Linked, Sending
    <2> QED BY <1>2, <1>5, <1>6, <1>7, <2>1, ConnectionsStay
<1> QED BY <1>2, <1>3, <1>5, <1>6, <1>8, ConnKept

(* The application's thread has looked for the peers of its end-point.     *)
LEMMA ConnFinds ==
    ASSUME DInv, DInv', AllGenuine, AllGenuine', ConnInv, NEW n \in Nodes,
           app[n].pc = "connect", Connected(n), UNCHANGED <<rcVars, raced>>, Steady,
           NEW id \in Ids, id = app[n].entry.id, ep[id].node = n,
           \A i \in MadeIds : IsOpen(i)' /\ i # id => ep'[i].remote = ep[i].remote,
           \A hub \in made : Here(n, id) /\ OnlyHub(id, hub) /\ hub.id \in IdsOf(preg[n]) =>
                ep'[id].remote = hub.addr,
           OnlyDatahub(id) => \A e \in LinksOf(n, id) : e.addr \in ep'[id].links
    PROVE ConnInv'
<1> DEFINE none == {}
           one == {id}
<1>1. /\ UNCHANGED <<conn, up, down, handler, preg, made>>
      /\ app' = [app EXCEPT ![n] = IdleApp]
    BY DEF Connected, netVars, rcVars
<1>2. \A k \in Nodes \ {n} : app'[k] = app[k]
    BY <1>1 DEF DInv, DTypeOK
<1>3. ASSUME NEW k \in Nodes \ {n} PROVE LinkedAt(k)' /\ SendingAt(k)'
    <2>1. \A i \in MadeIds : IsOpen(i)' /\ ep[i].node # n => ep'[i].remote = ep[i].remote
        OBVIOUS
    <2> QED BY <1>1, <1>2, <2>1, OthersHold
<1>4. /\ LearnsOnly(n, none) /\ AnnouncedBut(n, none)
    <2>1. Pending(n) = {}
        BY DEF Pending
    <2> QED BY <1>1, <2>1 DEF LearnsOnly, AnnouncedBut, Announcing, Unsent
<1>5. HoldsBut(n, one)
    <2> SUFFICES ASSUME NEW i \in Ids \ one, Here(n, i), IsOpen(i)'
                 PROVE ep'[i].remote = ep[i].remote
        BY DEF HoldsBut
    <2>1. i \in MadeIds /\ i # id
        BY DEF Here, DInv, DTypeOK
    <2> QED BY <2>1
<1>6. BusyBut(n, one)
    BY DEF BusyBut, Busy
<1>7. \A i \in Ids : i \notin one => i # id
    OBVIOUS
<1>8. \A i \in Ids : i # id => i \in Ids \ one
    OBVIOUS
<1>9. \A x : x \notin none
    OBVIOUS
<1> HIDE DEF none, one
<1>10. LinkedAt(n) /\ SendingAt(n)
    BY DEF ConnInv, Linked, Sending
<1>11. /\ \A i \in Ids \ one, hub \in made' :
            Mates(n, i, hub)' /\ hub.id \notin none => Met(n, i, hub)'
       /\ \A i \in Ids \ one : Here(n, i)' /\ OnlyDatahub(i)' =>
            \A e \in LinksOf(n, i)' : e.id \notin none => SendsTo(n, i, e)'
    BY <1>1, <1>4, <1>5, <1>6, <1>10, ConnectionsStayBut
<1>12. ASSUME Here(n, id)'
       PROVE /\ Here(n, id) /\ Keeps(ep[id], ep'[id]) /\ (OnlyDatahub(id)' => OnlyDatahub(id))
             /\ \A hub \in made : OnlyHub(id, hub)' => OnlyHub(id, hub)
    <2>1. id \in MadeIds
        <3>1. MadeIds' = MadeIds
            BY <1>1 DEF MadeIds
        <3> QED BY <1>12, <3>1 DEF Here, DInv, DTypeOK
    <2> QED BY <1>1, <1>12, <2>1, MatesBefore
<1>13. ASSUME NEW hub \in made', Mates(n, id, hub)' PROVE Met(n, id, hub)'
    <2>1. Here(n, id)' /\ OnlyHub(id, hub)' /\ hub.id \in IdsOf(preg[n]) /\ hub \in made
        BY <1>1, <1>13 DEF Mates
    <2>2. ep'[id].remote = hub.addr
        BY <1>12, <2>1
    <2> QED BY <2>2 DEF Met
<1>14. ASSUME Here(n, id)', OnlyDatahub(id)', NEW e \in LinksOf(n, id)' PROVE SendsTo(n, id, e)'
    <2>1. e \in LinksOf(n, id)
        BY <1>1, <1>12, <1>14 DEF LinksOf, Keeps
    <2> QED BY <1>12, <1>14, <2>1 DEF SendsTo
<1>15. LinkedAt(n)' /\ SendingAt(n)'
    <2>1. LinkedAt(n)'
        BY <1>8, <1>9, <1>11, <1>13 DEF LinkedAt
    <2>2. SendingAt(n)'
        BY <1>8, <1>9, <1>11, <1>14 DEF SendingAt
    <2> QED BY <2>1, <2>2
<1>16. Bound' /\ OwnAlone'
    BY <1>1, BoundStays DEF ConnInv, OwnAlone
<1> QED BY <1>3, <1>15, <1>16 DEF ConnInv, Linked, Sending

(* list_get finds the only hub when the proxy knows it.                    *)
LEMMA HubFound ==
    ASSUME DInv, AllGenuine, NEW n \in Nodes, NEW id, NEW hub \in made, OnlyHub(id, hub),
           hub.id \in IdsOf(preg[n]), NEW k,
           k = LastSelected(preg[n], ep[id].topic, HubType[ep[id].type])
    PROVE k \in 1..Len(preg[n]) /\ k # 0 /\ preg[n][k].addr = hub.addr
<1>1. preg[n] \in Seq(Listed(MadeIds)) /\ Items(preg[n]) \subseteq Genuine
    BY AppIs
<1>2. PICK i \in 1..Len(preg[n]) : preg[n][i].id = hub.id
    BY DEF IdsOf
<1>3. preg[n][i] \in Genuine
    BY <1>1 DEF Items
<1>4. preg[n][i].topic = ep[id].topic /\ preg[n][i].type = HubType[ep[id].type]
    BY <1>2, <1>3, HubIs DEF AllGenuine
<1>5. /\ k \in 1..Len(preg[n]) /\ k # 0
      /\ preg[n][k].topic = ep[id].topic /\ preg[n][k].type = HubType[ep[id].type]
    BY <1>1, <1>4, LastSelectedFinds
<1>6. preg[n][k] \in Genuine
    BY <1>1, <1>5 DEF Items
<1>7. preg[n][k].id = hub.id
    <2>1. hub.type = HubType[ep[id].type] /\ hub.topic = ep[id].topic
        BY <1>6, HubIs DEF AllGenuine
    <2> QED BY <1>5, <1>6, <2>1, HubIs DEF AllGenuine
<1>8. preg[n][k].addr = hub.addr
    BY <1>6, <1>7, HubIs DEF AllGenuine
<1> QED BY <1>5, <1>8

LEMMA ConnectingAt ==
    ASSUME DInv, AllGenuine, PeersInv, NEW n \in Nodes, app[n].pc = "connect"
    PROVE /\ app[n].entry.id \in Ids /\ IsOpen(app[n].entry.id) /\ ep[app[n].entry.id].node = n
          /\ ep[app[n].entry.id].type = app[n].entry.type
          /\ ep[app[n].entry.id].topic = app[n].entry.topic
<1>1. app[n].entry.id \in OwnIds(preg[n])
    BY DEF DInv, Owned, OwnedAt
<1>2. ep[app[n].entry.id].node = n
    BY <1>1 DEF DInv, Owned, OwnedAt
<1> QED BY <1>2, PeersConnecting

LEMMA ConnOpenLink ==
    ASSUME DInv, DInv', AllGenuine, AllGenuine', PeersInv, ConnInv, NEW n \in Nodes,
           NEW linkType \in LinkTypes, linkType # "messagelink",
           OpenLink(n, linkType, HubType[linkType]), UNCHANGED <<rcVars, raced>>
    PROVE ConnInv'
<1> DEFINE k == LastSelected(preg[n], app[n].entry.topic, HubType[linkType])
           a == preg[n][k].addr
<1>1. /\ app[n].pc = "connect" /\ app[n].entry.type = linkType /\ Connected(n)
      /\ ep' = IF k = 0 THEN ep ELSE SetRemote({app[n].entry.id}, a)
    BY DEF OpenLink, Connecting
<1>2. PICK id \in Ids : /\ id = app[n].entry.id /\ IsOpen(id) /\ ep[id].node = n
                        /\ ep[id].type = linkType /\ ep[id].topic = app[n].entry.topic
    BY <1>1, ConnectingAt
<1> DEFINE S == {id}
<1>3. k = LastSelected(preg[n], ep[id].topic, HubType[ep[id].type])
    BY <1>2
<1>4. ~OnlyDatahub(id) /\ id \in MadeIds
    BY <1>2 DEF OnlyDatahub, LinkTypes, DInv, DTypeOK
<1>5. (\A x \in S : IsOpen(x)) /\ \A x : x \in S <=> x = id
    BY <1>2
<1>6. ep' = IF k = 0 THEN ep ELSE SetRemote(S, a)
    BY <1>1, <1>2
<1> HIDE DEF k, S
<1> DEFINE b == a
<1> HIDE DEF b
<1>7. ASSUME NEW hub \in made, OnlyHub(id, hub), hub.id \in IdsOf(preg[n])
      PROVE k # 0 /\ b = hub.addr
    BY <1>3, <1>7, HubFound DEF b
<1>8. CASE k = 0
    <2>1. Steady
        BY <1>6, <1>8, SteadySame
    <2> QED BY <1>1, <1>2, <1>4, <1>6, <1>7, <1>8, <2>1, ConnFinds
<1>9. CASE k # 0
    <2>1. ep' = SetRemote(S, b)
        BY <1>6, <1>9 DEF b
    <2>2. Steady /\ \A i \in MadeIds : IsOpen(i)' =>
                        ep'[i].remote = IF i \in S THEN b ELSE ep[i].remote
        BY <1>5, <2>1, SteadySetRemote
    <2>3. ep'[id].remote = b
        <3>1. IsOpen(id)'
            <4>1. EpTypeOK /\ ep[id] \in Endpoint
                BY <1>2, MadeInIds, OpenIsEndpoint
            <4>2. ep'[id] = [ep[id] EXCEPT !.remote = b]
                BY <1>5, <2>1 DEF SetRemote
            <4>3. ep'[id].type = ep[id].type
                BY <4>1, <4>2 DEF Endpoint
            <4> QED BY <1>2, <4>3 DEF IsOpen, Closed, LinkTypes
        <3> QED BY <1>4, <1>5, <2>2, <3>1
    <2> QED BY <1>1, <1>2, <1>4, <1>5, <1>7, <2>2, <2>3, ConnFinds
<1> QED BY <1>8, <1>9

LEMMA ConnOpenDatahub ==
    ASSUME DInv, DInv', AllGenuine, AllGenuine', PeersInv, ConnInv, NEW n \in Nodes,
           proxy_open_datahub(n), UNCHANGED <<rcVars, raced>>
    PROVE ConnInv'
<1> DEFINE S == {preg[n][i].addr : i \in {j \in 1..Len(preg[n]) :
                                            /\ preg[n][j].type = "datalink"
                                            /\ preg[n][j].topic = app[n].entry.topic}}
<1>1. /\ app[n].pc = "connect" /\ app[n].entry.type = "datahub" /\ Connected(n)
      /\ ep' = datahub_add_link(app[n].entry.id, S)
    BY DEF proxy_open_datahub, Connecting
<1>2. PICK id \in Ids : /\ id = app[n].entry.id /\ IsOpen(id) /\ ep[id].node = n
                        /\ ep[id].type = "datahub" /\ ep[id].topic = app[n].entry.topic
    BY <1>1, ConnectingAt
<1>3. \A e \in LinksOf(n, id) : e.addr \in S
    BY <1>2 DEF LinksOf, Items
<1>4. ep' = datahub_add_link(id, S)
    BY <1>1, <1>2
<1> HIDE DEF S
<1>5. /\ Steady /\ \A i \in MadeIds : IsOpen(i)' => ep'[i].remote = ep[i].remote
      /\ ep'[id].links = ep[id].links \cup S
    BY <1>2, <1>4, SteadyAddLinks
<1>6. \A hub : ~OnlyHub(id, hub)
    BY <1>2 DEF OnlyHub, LinkTypes
<1>7. \A e \in LinksOf(n, id) : e.addr \in ep'[id].links
    BY <1>3, <1>5
<1> QED BY <1>1, <1>2, <1>5, <1>6, <1>7, ConnFinds

LEMMA ConnOpenMessagelink ==
    ASSUME DInv, DInv', AllGenuine, AllGenuine', PeersInv, ConnInv, NEW n \in Nodes,
           proxy_open_messagelink(n), UNCHANGED <<rcVars, raced>>
    PROVE ConnInv'
<1> DEFINE k == LastSelected(preg[n], app[n].entry.topic, "messagehub")
           a == preg[n][k].addr
<1>1. /\ app[n].pc = "connect" /\ app[n].entry.type = "messagelink" /\ Connected(n)
      /\ \/ /\ k = 0 \/ (k # 0 /\ ep[app[n].entry.id].remote = a)
            /\ ep' = ep
         \/ \E local : ep' = client_messagelink_connect({app[n].entry.id}, a, local)
    BY DEF proxy_open_messagelink, Connecting
<1>2. PICK id \in Ids : /\ id = app[n].entry.id /\ IsOpen(id) /\ ep[id].node = n
                        /\ ep[id].type = "messagelink" /\ ep[id].topic = app[n].entry.topic
    BY <1>1, ConnectingAt
<1> DEFINE S == {id}
<1>3. k = LastSelected(preg[n], ep[id].topic, HubType[ep[id].type])
    BY <1>2 DEF HubType
<1>4. ~OnlyDatahub(id) /\ id \in MadeIds
    BY <1>2 DEF OnlyDatahub, DInv, DTypeOK
<1>5. /\ \A x \in S : IsOpen(x) /\ ep[x].type = "messagelink"
      /\ \A x : x \in S <=> x = id
    BY <1>2
<1>6. \/ (k = 0 \/ ep[id].remote = a) /\ ep' = ep
      \/ \E local : ep' = client_messagelink_connect(S, a, local)
    BY <1>1, <1>2
<1> HIDE DEF k, S
<1> DEFINE b == a
<1> HIDE DEF b
<1>7. ASSUME NEW hub \in made, OnlyHub(id, hub), hub.id \in IdsOf(preg[n])
      PROVE k # 0 /\ b = hub.addr /\ Listening(b)
    <2>1. k # 0 /\ b = hub.addr
        BY <1>3, <1>7, HubFound DEF b
    <2>2. hub.id \in Ids /\ IsOpen(hub.id)
        BY <1>7, MadeInIds DEF OnlyHub, MadeIds
    <2>3. hub.type = "messagehub"
        BY <1>2, <1>7 DEF OnlyHub, Made, HubType
    <2>4. PICK m \in made : m.id = hub.id /\ m.type = ep[hub.id].type
        BY <2>2 DEF PeersInv, MadeAs
    <2>5. ep[hub.id].type = "messagehub"
        BY <2>3, <2>4 DEF AllGenuine, MadeOnce
    <2>6. ep[hub.id].addr = hub.addr
        BY <2>2, <2>5 DEF ConnInv, Bound
    <2> QED BY <2>1, <2>2, <2>5, <2>6 DEF Listening
<1>8. CASE (k = 0 \/ ep[id].remote = b) /\ ep' = ep
    <2>1. Steady
        BY <1>8, SteadySame
    <2> QED BY <1>1, <1>2, <1>4, <1>7, <1>8, <2>1, ConnFinds
<1>9. ASSUME NEW local, ep' = client_messagelink_connect(S, b, local) PROVE ConnInv'
    <2>1. /\ Steady
          /\ \A i \in MadeIds : IsOpen(i)' => /\ i \notin S => ep'[i].remote = ep[i].remote
                                              /\ i \in S /\ Listening(b) => ep'[i].remote = b
        BY <1>5, <1>9, SteadyConnect
    <2>2. ASSUME Listening(b) PROVE ep'[id].remote = b
        <3>1. EpTypeOK /\ ep[id] \in Endpoint
            BY <1>2, MadeInIds, OpenIsEndpoint
        <3>2. ep'[id] = [ep[id] EXCEPT !.remote = b, !.addr = local[id]]
            BY <1>5, <1>9, <2>2 DEF client_messagelink_connect
        <3> QED BY <3>1, <3>2 DEF Endpoint
    <2> QED BY <1>1, <1>2, <1>4, <1>5, <1>7, <2>1, <2>2, ConnFinds
<1> QED BY <1>6, <1>8, <1>9 DEF b

LEMMA ConnApp ==
    ASSUME DInv, DInv', UInv, AllGenuine, AllGenuine', PeersInv, ConnInv,
           NEW n \in Nodes, AppStep(n)
    PROVE ConnInv'
<1>1. UNCHANGED <<rcVars, raced>>
    BY DEF AppStep
<1>2. CASE proxy_open_datalink(n)
    <2>1. "datalink" \in LinkTypes /\ HubType["datalink"] = "datahub"
        BY DEF LinkTypes, HubType
    <2> QED BY <1>1, <1>2, <2>1, ConnOpenLink DEF proxy_open_datalink
<1>3. CASE proxy_open_streamerlink(n)
    <2>1. "streamerlink" \in LinkTypes /\ HubType["streamerlink"] = "streamer"
        BY DEF LinkTypes, HubType
    <2> QED BY <1>1, <1>3, <2>1, ConnOpenLink DEF proxy_open_streamerlink
<1> QED BY <1>1, <1>2, <1>3, ConnSend, ConnFailed, ConnDeletes, ConnOpenDatahub,
        ConnOpenMessagelink DEF AppStep

LEMMA ConnOpen ==
    ASSUME DInv, AllGenuine, ConnInv, NEW n \in Nodes, Open(n)
    PROVE ConnInv'
<1>1. PICK type, name, topic : proxy_new_entry(n, type, topic, name)
    BY DEF Open
<1>2. PICK id \in Ids \ MadeIds : \E a :
        LET e == [id |-> id, name |-> name, topic |-> topic, type |-> type,
                  addr |-> a, endpoint |-> TRUE] IN
        /\ type = "messagehub" => a \in FreeAddrs
        /\ preg' = [preg EXCEPT ![n] = registry_insert(preg[n], e)]
        /\ app' = [app EXCEPT ![n] = [pc |-> "register", entry |-> e]]
        /\ ep' = [ep EXCEPT ![id] = [type |-> type, node |-> n, topic |-> topic, addr |-> a,
                                     remote |-> NoAddr, links |-> {}]]
        /\ made' = made \cup {e}
    BY <1>1 DEF proxy_new_entry, MadeIds
<1>3. PICK a :
        LET e == [id |-> id, name |-> name, topic |-> topic, type |-> type,
                  addr |-> a, endpoint |-> TRUE] IN
        /\ type = "messagehub" => a \in FreeAddrs
        /\ preg' = [preg EXCEPT ![n] = registry_insert(preg[n], e)]
        /\ app' = [app EXCEPT ![n] = [pc |-> "register", entry |-> e]]
        /\ ep' = [ep EXCEPT ![id] = [type |-> type, node |-> n, topic |-> topic, addr |-> a,
                                     remote |-> NoAddr, links |-> {}]]
        /\ made' = made \cup {e}
    BY <1>2
<1> DEFINE e == [id |-> id, name |-> name, topic |-> topic, type |-> type,
                 addr |-> a, endpoint |-> TRUE]
           p == [type |-> type, node |-> n, topic |-> topic, addr |-> a,
                 remote |-> NoAddr, links |-> {}]
           r == [pc |-> "register", entry |-> e]
<1>4. /\ e.id = id /\ e.addr = a /\ e.type = type /\ p.type = type /\ p.addr = a /\ p.node = n
      /\ r.pc = "register" /\ r.entry = e
      /\ type = "messagehub" => a \in FreeAddrs
      /\ preg' = [preg EXCEPT ![n] = registry_insert(preg[n], e)]
      /\ app' = [app EXCEPT ![n] = r] /\ ep' = [ep EXCEPT ![id] = p] /\ made' = made \cup {e}
    BY <1>3
<1> HIDE DEF e, p, r
<1>5. UNCHANGED <<conn, up, down, handler>> /\ app[n] = IdleApp
    BY <1>1 DEF proxy_new_entry, Open, netVars, rcVars
<1>6. /\ ep'[id] = p /\ \A i \in Ids \ {id} : ep'[i] = ep[i]
      /\ preg'[n] = registry_insert(preg[n], e) /\ \A k \in Nodes \ {n} : preg'[k] = preg[k]
      /\ app'[n] = r /\ \A k \in Nodes \ {n} : app'[k] = app[k]
    BY <1>4 DEF DInv, DTypeOK
<1>7. \A m \in made : m.id # id /\ m.id \in Ids
    BY <1>2, MadeInIds DEF MadeIds
<1>8. /\ Items(preg'[n]) = Items(preg[n]) \cup {e}
      /\ \A k \in Nodes : \A x \in Items(preg[k]) : x.id # id
    <2>1. preg[n] \in Seq({x \in Entry : x.id # id} \cup {e})
        <3>1. Listed(MadeIds) \subseteq {x \in Entry : x.id # id} \cup {e}
            BY <1>2 DEF Listed
        <3>2. preg[n] \in Seq(Listed(MadeIds))
            BY AppIs
        <3> QED BY <3>1, <3>2
    <2>2. Items(preg'[n]) = Items(preg[n]) \cup {e}
        BY <1>6, <2>1, ItemsOfAppend DEF registry_insert
    <2>3. ASSUME NEW k \in Nodes, NEW x \in Items(preg[k]) PROVE x.id # id
        <3>1. preg[k] \in Seq(Listed(MadeIds))
            BY AppIs
        <3>2. x \in Listed(MadeIds)
            BY <3>1 DEF Items
        <3> QED BY <1>2, <3>2 DEF Listed
    <2> QED BY <2>2, <2>3
<1>9. Pending(n) = {} /\ Pending(n)' = {id} /\ Busy(n, id)' /\ \A i : ~Busy(n, i)
    BY <1>4, <1>5, <1>6 DEF Pending, Busy, IdleApp
<1>10. \A k \in Nodes : Announcing(k) \subseteq Announcing(k)' /\ (k = n => id \in Announcing(k)')
    <2>1. \A k \in Nodes : Pending(k) \subseteq Pending(k)'
        BY <1>6, <1>9 DEF Pending
    <2> QED BY <1>5, <1>9, <2>1 DEF Announcing, Unsent
<1>11. \A k \in Nodes, i \in Ids : Busy(k, i) => Busy(k, i)'
    BY <1>6, <1>9 DEF Busy
<1>12. ASSUME NEW k \in Nodes, NEW i \in Ids, Here(k, i)', i = id PROVE Busy(k, i)'
    <2>1. k = n
        BY <1>4, <1>6, <1>12 DEF Here
    <2> QED BY <1>9, <1>12, <2>1
<1>13. ASSUME NEW k \in Nodes, NEW i \in Ids, Here(k, i)', i # id
       PROVE Here(k, i) /\ ep'[i] = ep[i]
    BY <1>5, <1>6, <1>13 DEF Here, IsOpen
<1>14. ASSUME NEW k \in Nodes PROVE LinkedAt(k)'
    <2> SUFFICES ASSUME NEW i \in Ids, NEW hub \in made', Mates(k, i, hub)', ~Met(k, i, hub)'
                 PROVE FALSE
        BY DEF LinkedAt
    <2>1. /\ Here(k, i)' /\ OnlyHub(i, hub)'
          /\ \E x \in Items(preg'[k]) : x.id = hub.id
        BY EntriesAre DEF Mates
    <2>2. i # id
        BY <1>12, <2>1 DEF Met
    <2>3. Here(k, i) /\ ep'[i] = ep[i]
        BY <1>13, <2>1, <2>2
    <2>4. hub.id # id
        BY <1>6, <1>8, <1>10, <2>1 DEF Met
    <2>5. hub \in made
        BY <1>4, <2>4
    <2>6. hub.id \in IdsOf(preg[k])
        <3>1. \E x \in Items(preg[k]) : x.id = hub.id
            BY <1>4, <1>6, <1>8, <2>1, <2>4
        <3> QED BY <3>1, EntriesAre
    <2>7. OnlyHub(i, hub)
        <3>1. IsOpen(hub.id)
            BY <1>6, <1>7, <2>1, <2>4, <2>5 DEF OnlyHub, IsOpen
        <3>2. {m \in made' : m.type = HubType[ep[i].type] /\ m.topic = ep[i].topic} = {hub}
            BY <2>1, <2>3 DEF OnlyHub, Made
        <3>3. {m \in made : m.type = HubType[ep[i].type] /\ m.topic = ep[i].topic} = {hub}
            BY <1>4, <2>5, <3>2
        <3> QED BY <2>1, <2>3, <3>1, <3>3 DEF OnlyHub, Made
    <2>8. Met(k, i, hub)
        BY <2>3, <2>5, <2>6, <2>7 DEF ConnInv, Linked, LinkedAt, Mates
    <2> QED BY <1>10, <1>11, <2>3, <2>8 DEF Met
<1>15. ASSUME NEW k \in Nodes PROVE SendingAt(k)'
    <2> SUFFICES ASSUME NEW i \in Ids, Here(k, i)', OnlyDatahub(i)', NEW x \in LinksOf(k, i)',
                        ~SendsTo(k, i, x)'
                 PROVE FALSE
        BY DEF SendingAt
    <2>1. i # id
        BY <1>12 DEF SendsTo
    <2>2. Here(k, i) /\ ep'[i] = ep[i]
        BY <1>13, <2>1
    <2>3. OnlyDatahub(i)
        BY <1>4, <2>2 DEF OnlyDatahub, Made
    <2>4. x \in Items(preg'[k]) /\ x.type = "datalink" /\ x.topic = ep[i].topic
        BY <2>2 DEF LinksOf
    <2>5. x.id # id
        BY <1>6, <1>8, <1>10, <2>4 DEF SendsTo
    <2>6. x \in LinksOf(k, i)
        BY <1>4, <1>6, <1>8, <2>4, <2>5 DEF LinksOf
    <2>7. SendsTo(k, i, x)
        BY <2>2, <2>3, <2>6 DEF ConnInv, Sending, SendingAt
    <2> QED BY <1>10, <1>11, <2>2, <2>7 DEF SendsTo
<1>16. Bound'
    <2>1. ASSUME NEW i \in Ids, IsOpen(i)', ep'[i].type # "messagelink", NEW m \in made', m.id = i
          PROVE m.addr = ep'[i].addr
        <3>1. CASE i = id
            BY <1>4, <1>6, <1>7, <2>1, <3>1
        <3>2. CASE i # id
            BY <1>4, <1>6, <2>1, <3>2 DEF ConnInv, Bound, IsOpen
        <3> QED BY <3>1, <3>2
    <2>2. ASSUME NEW i \in Ids, NEW j \in Ids, IsOpen(i)', ep'[i].type = "messagehub",
                 IsOpen(j)', ep'[j].type = "messagehub", ep'[i].addr = ep'[j].addr, i # j
          PROVE FALSE
        <3>1. \A x \in Ids \ {id} : IsOpen(x)' => IsOpen(x) /\ ep'[x] = ep[x]
            BY <1>6 DEF IsOpen
        <3>2. ASSUME NEW x \in Ids \ {id}, IsOpen(x)', ep'[id].type = "messagehub",
                     ep'[x].addr = ep'[id].addr
              PROVE FALSE
            <4>1. ep[x].addr = a /\ IsOpen(x) /\ a \in FreeAddrs
                BY <1>4, <1>6, <3>1, <3>2
            <4> QED BY <4>1 DEF FreeAddrs
        <3>3. i # id /\ j # id
            BY <2>2, <3>2
        <3> QED BY <2>2, <3>1, <3>3 DEF ConnInv, Bound
    <2> QED BY <2>1, <2>2 DEF Bound
<1>17. OwnAlone'
    <2>1. Alone(preg'[n])
        BY <1>4, <1>8 DEF ConnInv, OwnAlone, Alone
    <2> QED BY <1>6, <2>1 DEF ConnInv, OwnAlone
<1> QED BY <1>14, <1>15, <1>16, <1>17 DEF ConnInv, Linked, Sending

LEMMA ConnStart ==
    ASSUME DInv, DInv', AllGenuine, AllGenuine', ConnInv, NEW n \in Nodes, Start(n)
    PROVE ConnInv'
<1>1. /\ UNCHANGED <<down, handler, preg, app, ep, made>> /\ status[n] = "none"
      /\ conn' = [conn EXCEPT ![n] = "open"] /\ up' = [up EXCEPT ![n] = <<ListReq>>]
    BY DEF Start, new_proxy, rcVars
<1>2. \A k \in Nodes \ {n} : conn'[k] = conn[k] /\ up'[k] = up[k]
    BY <1>1 DEF DInv, DTypeOK
<1>3. Steady /\ \A k \in Nodes : HoldsHub(k)
    BY <1>1, SteadySame DEF HoldsHub
<1>4. LinkedAt(n)' /\ SendingAt(n)'
    <2>1. OwnIds(preg[n]) = {} /\ app[n] = IdleApp
        BY <1>1 DEF DInv, ListedOnce, ListedOnceAt
    <2>2. \A id \in Ids : IsOpen(id) => ep[id].node # n
        BY <2>1 DEF DInv, OpenIsOwned, IdleApp
    <2>3. \A id \in Ids : ~Here(n, id)'
        BY <1>1, <2>2 DEF Here, IsOpen
    <2> QED BY <2>3, NoneHere
<1>5. Alone(preg'[n])
    BY <1>1 DEF ConnInv, OwnAlone
<1> QED BY <1>1, <1>2, <1>3, <1>4, <1>5, ConnKept

LEMMA ConnFault ==
    ASSUME DInv, DInv', AllGenuine, AllGenuine', PeersInv, ConnInv, NEW n \in Nodes, Fault(n)
    PROVE ConnInv'
<1> DEFINE S == {id \in Ids : IsOpen(id) /\ ep[id].node = n}
<1>1. /\ UNCHANGED <<handler, made>> /\ conn' = [conn EXCEPT ![n] = "closed"]
      /\ down' = [down EXCEPT ![n] = <<>>]
      /\ \E k \in 0..Len(up[n]) : up' = [up EXCEPT ![n] = SubSeq(up[n], 1, k)]
      /\ \/ UNCHANGED <<preg, app, ep>>
         \/ /\ preg' = [preg EXCEPT ![n] = <<>>] /\ app' = [app EXCEPT ![n] = IdleApp]
            /\ ep' = DeleteEndpoints(S)
    BY DEF Fault, new_proxy_timeout, Exit, Leave, LinkBreaks, proxyVars, rcVars
<1>2. S \in SUBSET Ids
    OBVIOUS
<1> HIDE DEF S
<1>3. \A k \in Nodes \ {n} : UNCHANGED <<conn[k], preg[k], app[k], up[k], down[k], handler[k]>>
    <2>1. PICK j : up' = [up EXCEPT ![n] = SubSeq(up[n], 1, j)]
        BY <1>1
    <2>2. \A k \in Nodes \ {n} : UNCHANGED <<conn[k], up[k], down[k], handler[k]>>
        BY <1>1, <2>1 DEF DInv, DTypeOK
    <2>3. \A k \in Nodes \ {n} : preg'[k] = preg[k] /\ app'[k] = app[k]
        <3>1. preg' = preg \/ preg' = [preg EXCEPT ![n] = <<>>]
            BY <1>1
        <3>2. app' = app \/ app' = [app EXCEPT ![n] = IdleApp]
            BY <1>1
        <3> QED BY <3>1, <3>2 DEF DInv, DTypeOK
    <2> QED BY <2>2, <2>3
<1>4. conn'[n] = "closed"
    BY <1>1 DEF DInv, DTypeOK
<1>5. LinkedAt(n)' /\ SendingAt(n)'
    BY <1>4, NoneHere DEF Here
<1>6. Steady /\ \A k \in Nodes : HoldsHub(k)
    <2>1. CASE ep' = ep
        BY <2>1, SteadySame DEF HoldsHub
    <2>2. CASE ep' = DeleteEndpoints(S)
        BY <1>2, <2>2, DeleteHolds
    <2> QED BY <1>1, <2>1, <2>2
<1>7. Alone(preg'[n])
    <2>1. Alone(<<>>)
        BY DEF Alone, Items
    <2>2. preg'[n] = preg[n] \/ preg'[n] = <<>>
        BY <1>1 DEF DInv, DTypeOK
    <2> QED BY <2>1, <2>2 DEF ConnInv, OwnAlone
<1> QED BY <1>1, <1>3, <1>5, <1>6, <1>7, ConnKept

LEMMA ConnInit == ASSUME Init PROVE ConnInv
<1>1. \A id \in Ids : ~IsOpen(id)
    BY DEF Init, ProxyInit, IsOpen
<1>2. \A n \in Nodes : preg[n] = <<>>
    BY DEF Init, ProxyInit
<1>3. Alone(<<>>)
    BY DEF Alone, Items
<1> QED BY <1>1, <1>2, <1>3 DEF ConnInv, Linked, LinkedAt, Mates, Sending, SendingAt, Here, Bound,
                               OwnAlone

LEMMA ConnStays ==
    ASSUME DInv, DInv', AllGenuine, AllGenuine', ConnInv, UNCHANGED stateVars
    PROVE ConnInv'
<1>1. UNCHANGED <<conn, up, down, handler, preg, app, ep, made>>
    BY DEF stateVars, netVars, rcVars, proxyVars
<1>2. Steady /\ \A k \in Nodes : HoldsHub(k)
    BY <1>1, SteadySame DEF HoldsHub
<1>3. \A k \in Nodes : LinkedAt(k)' /\ SendingAt(k)'
    BY <1>1, <1>2, OthersKeep
<1>4. Bound' /\ OwnAlone'
    BY <1>1, <1>2, BoundStays DEF ConnInv, OwnAlone
<1> QED BY <1>3, <1>4 DEF ConnInv, Linked, Sending

LEMMA ConnNext ==
    /\ DInv /\ DInv' /\ UInv /\ AllGenuine /\ AllGenuine' /\ PeersInv /\ FollowsInv /\ AgreementInv
    /\ ConnInv /\ [Next]_vars
    => ConnInv'
<1> SUFFICES ASSUME DInv, DInv', UInv, AllGenuine, AllGenuine', PeersInv, FollowsInv,
                    AgreementInv, ConnInv, [Next]_vars
             PROVE ConnInv'
    OBVIOUS
<1>1. Routes
    BY DEF AgreementInv
<1> QED BY <1>1, ConnStays, ConnRc, ConnReader, ConnApp, ConnStart, ConnOpen, ConnClose, ConnFault,
        StepIs DEF Acts

-----------------------------------------------------------------------------
(* When the network is quiet                                               *)

LEMMA NothingPending ==
    ASSUME Quiet, NEW n \in Nodes
    PROVE /\ Announcing(n) = {} /\ app[n] = IdleApp /\ \A id : ~Busy(n, id)
          /\ up[n] = <<>> /\ RegIds(up[n]) = {} /\ UnregIds(up[n]) = {} /\ Pending(n) = {}
<1>1. /\ up[n] = <<>> /\ down[n] = <<>> /\ app[n] = IdleApp
      /\ handler[n].pc \in {"none", "idle", "done"}
    BY DEF Quiet
<1>2. RegIds(<<>>) = {} /\ AddedIds(<<>>) = {} /\ UnregIds(<<>>) = {}
    <2>1. Items(<<>>) = {}
        BY DEF Items
    <2> QED BY <2>1 DEF RegIds, Registers, UnregIds, AddedIds, OfKind
<1>3. ToAdd(handler[n]) = {}
    BY <1>1 DEF ToAdd, Adds
<1>4. Pending(n) = {} /\ \A id : ~Busy(n, id)
    BY <1>1 DEF Pending, Busy, IdleApp
<1> QED BY <1>1, <1>2, <1>3, <1>4 DEF Announcing, Unsent

LEMMA LinksFindWhenQuiet ==
    ASSUME DInv, AllGenuine, FollowsInv, AgreementInv, ConnInv
    PROVE LinksFindHub
<1> SUFFICES ASSUME Quiet, NEW n \in Nodes, InStep(n),
                    NEW id \in Ids, IsOpen(id), ep[id].node = n, ep[id].type \in LinkTypes,
                    NEW hub, Made(HubType[ep[id].type], ep[id].topic) = {hub},
                    IsOpen(hub.id), InStep(ep[hub.id].node), hub.id \notin raced[n]
             PROVE ep[id].remote = hub.addr
    BY DEF LinksFindHub
<1>1. hub \in made /\ hub.type = HubType[ep[id].type] /\ hub.topic = ep[id].topic
    BY DEF Made
<1>2. hub.id \in Ids /\ MadeOnce
    BY <1>1, MadeInIds DEF MadeIds, AllGenuine
<1>3. hub.id \in IdsOf(central)
    <2> DEFINE m == ep[hub.id].node
    <2>1. m \in Nodes /\ conn[m] = "open"
        BY <1>2, OpenIsEndpoint, MadeInIds DEF Endpoint, InStep
    <2>2. Pending(m) = {} /\ RegIds(up[m]) = {}
        BY <2>1, NothingPending
    <2> QED BY <1>2, <2>1, <2>2 DEF FollowsInv, OpenRegistered
<1>4. ~HasTwin(hub.id)
    <2> SUFFICES ASSUME NEW e \in made, NEW f \in made, e.id = hub.id, f.id # hub.id,
                        entry_equals(e, f)
                 PROVE FALSE
        BY DEF HasTwin
    <2>1. e = hub
        BY <1>1, <1>2 DEF MadeOnce
    <2>2. f \in Made(HubType[ep[id].type], ep[id].topic)
        BY <1>1, <2>1 DEF Made, entry_equals
    <2> QED BY <2>2
<1>5. hub.id \in IdsOf(preg[n])
    BY <1>2, <1>3, <1>4, AgreesWhenQuiet
<1>6. Mates(n, id, hub)
    BY <1>5 DEF Mates, Here, OnlyHub, InStep
<1>7. Met(n, id, hub)
    BY <1>1, <1>6 DEF ConnInv, Linked, LinkedAt
<1> QED BY <1>7, NothingPending DEF Met

LEMMA HubsFindWhenQuiet ==
    ASSUME DInv, AllGenuine, FollowsInv, AgreementInv, ConnInv
    PROVE HubFindsLinks
<1> SUFFICES ASSUME Quiet, NEW n \in Nodes, InStep(n),
                    NEW id \in Ids, IsOpen(id), ep[id].node = n, ep[id].type = "datahub",
                    \A h \in Made("datahub", ep[id].topic) : h.id = id,
                    NEW i \in 1..Len(central),
                    central[i].type = "datalink", central[i].topic = ep[id].topic,
                    central[i].id \notin raced[n], ~HasTwin(central[i].id)
             PROVE central[i].addr \in ep[id].links
    BY DEF HubFindsLinks
<1>1. central[i] \in Genuine /\ central[i].id \in IdsOf(central) /\ central[i].id \in Ids
    BY DEF AllGenuine, Items, IdsOf, Genuine, Entry
<1>2. central[i].id \in IdsOf(preg[n])
    BY <1>1, AgreesWhenQuiet
<1>3. PICK e \in Items(preg[n]) : e.id = central[i].id
    BY <1>2 DEF Items, IdsOf
<1>4. e \in Genuine
    BY <1>3, AppIs
<1>5. e.type = "datalink" /\ e.topic = ep[id].topic /\ e.addr = central[i].addr
    BY <1>1, <1>3, <1>4 DEF Genuine, Renders, AllGenuine, MadeOnce
<1>6. SendsTo(n, id, e)
    BY <1>3, <1>5 DEF ConnInv, Sending, SendingAt, Here, OnlyDatahub, LinksOf, InStep
<1> QED BY <1>5, <1>6, NothingPending DEF SendsTo

LEMMA ConnInvariance == Spec => []ConnInv
<1>1. Init => AgreementInv /\ FollowsInv /\ ConnInv /\ PeersInv
    <2>1. Init => PeersInv
        BY DEF Init, ProxyInit, PeersInv, IsOpen
    <2> QED BY <2>1, AgreementInit, FollowsInit, ConnInit
<1> QED BY <1>1, ConnNext, AgreementNext, FollowsNext, PeersNext, Invariance, GenuineInvariance,
           PTL DEF Spec

(* A link that was opened before the only hub of its topic is connected    *)
(* when the hub is announced, one that is opened later when it finds it in *)
(* the registry, and no step in between goes unnoticed, whatever the       *)
(* number of processes and the order in which they act, fail and end.      *)
THEOREM LinksFindTheirHub == Spec => []LinksFindHub
<1>1. Init => AgreementInv /\ FollowsInv
    BY AgreementInit, FollowsInit
<1> QED BY <1>1, LinksFindWhenQuiet, ConnInvariance, AgreementNext, FollowsNext, Invariance,
           GenuineInvariance, PTL DEF Spec

(* Likewise the only datahub of a topic sends to every datalink of it that *)
(* the central registry lists, but for those the proxy cannot tell apart.  *)
THEOREM HubsFindTheirLinks == Spec => []HubFindsLinks
<1>1. Init => AgreementInv /\ FollowsInv
    BY AgreementInit, FollowsInit
<1> QED BY <1>1, HubsFindWhenQuiet, ConnInvariance, AgreementNext, FollowsNext, Invariance,
           GenuineInvariance, PTL DEF Spec

-----------------------------------------------------------------------------
(* The addresses that proxies find                                         *)

(* The ids that process m has moved to another address: its requests on    *)
(* their way, and the one that its handler is about to announce            *)
UpdsOf(m) == UpdIds(up[m]) \cup ToUpdate(handler[m])

(* Only the process of an end-point moves it; what it moves, and is listed *)
(* or about to be, it has open or has taken back.                          *)
UpdatesByOwner ==
    \A m \in Nodes :
        /\ \A n \in Nodes \ {m} : UpdsOf(m) \cap UpdsOf(n) = {}
        /\ \A id \in UpdsOf(m) :
            /\ IsOpen(id) => ep[id].node = m
            /\ conn[m] = "open" /\ id \in IdsOf(central) \cup RegIds(up[m]) => Mine(m, id)

(* A new address that is about to be announced is in the central registry; *)
(* nobody but its sender is left out.                                      *)
UpdatesPresent ==
    \A m \in Nodes : handler[m].pc = "announce" =>
        /\ handler[m].exclude \subseteq {m}
        /\ \A id \in ToUpdate(handler[m]) :
                \A e \in Entries(central, id) : e.addr = handler[m].event.addr

ToSay(h) == ToAdd(h) \cup ToUpdate(h)
AllToSay == UNION {ToSay(handler[m]) : m \in Nodes}

(* The proxy has, or will be told, the address in the central registry.    *)
Informed(n, id) == \A e \in Entries(central, id) : Told(After(n), Copy(n), id, e.addr)

(* Unless the end-point is its own, or a handler has yet to announce it    *)
Owed(n, id) == /\ Synced(n) /\ Good(n, id) /\ ~Mine(n, id)
               /\ id \in IdsOf(central) /\ id \notin AllToSay

AddrsFollow == \A n \in Nodes, id \in Ids : Owed(n, id) => Informed(n, id)

AddressInv == UpdatesByOwner /\ UpdatesPresent /\ AddrsFollow

-----------------------------------------------------------------------------
(* The steps of processes                                                  *)

LEMMA ToSayIs ==
    ASSUME NEW id
    PROVE /\ id \in AllToSay <=> \E m \in Nodes : id \in ToSay(handler[m])
          /\ id \in AllToSay' <=> \E m \in Nodes : id \in ToSay(handler'[m])
BY DEF AllToSay

(* What the proxy has or will have is the same, but for fewer entries.     *)
LEMMA InformedSame ==
    ASSUME NEW n, NEW id, Informed(n, id), Entries(central', id) \subseteq Entries(central, id),
           SaysTheSame(After(n), After(n)', id),
           \A f \in Entries(Copy(n)', id) : \E e \in Entries(Copy(n), id) : f.addr = e.addr
    PROVE Informed(n, id)'
<1> SUFFICES ASSUME NEW e \in Entries(central', id) PROVE Told(After(n)', Copy(n)', id, e.addr)
    BY DEF Informed
<1>1. Told(After(n), Copy(n), id, e.addr)
    BY DEF Informed
<1>2. Told(After(n)', Copy(n), id, e.addr)
    BY <1>1 DEF SaysTheSame
<1> QED BY <1>2 DEF Told

(* What a step of a process leaves of the announcements                    *)
LEMMA PresentKept ==
    ASSUME UpdatesPresent, UNCHANGED <<central, handler>>
    PROVE UpdatesPresent' /\ AllToSay' = AllToSay
BY DEF UpdatesPresent, AllToSay

LEMMA OwnersKept ==
    ASSUME DInv, AllGenuine, UpdatesByOwner, UNCHANGED <<central, handler>>,
           \A m \in Nodes : UpdIds(up'[m]) \subseteq UpdIds(up[m]) \cup IdsAt(m),
           \A id \in MadeIds : IsOpen(id)' => IsOpen(id) /\ ep'[id].node = ep[id].node,
           \A m \in Nodes : conn'[m] = "open" =>
                \A id \in UpdsOf(m)' : id \in IdsOf(central) \cup RegIds(up'[m]) => Mine(m, id)'
    PROVE UpdatesByOwner'
<1>1. \A m \in Nodes : UpdsOf(m)' \subseteq UpdsOf(m) \cup IdsAt(m)
    BY DEF UpdsOf
<1>2. \A m \in Nodes : UpdsOf(m) \cup IdsAt(m) \subseteq MadeIds
    BY SeenIsMade DEF UpdsOf, IdsAt, DInv, DTypeOK
<1>3. \A m \in Nodes : \A id \in UpdsOf(m) \cup IdsAt(m) : IsOpen(id) => ep[id].node = m
    BY DEF UpdatesByOwner, IdsAt
<1>4. \A m \in Nodes : \A id \in UpdsOf(m)' : IsOpen(id)' => ep'[id].node = m
    BY <1>1, <1>2, <1>3
<1>5. ASSUME NEW m \in Nodes, NEW n \in Nodes \ {m}, NEW id \in UpdsOf(m)', id \in UpdsOf(n)'
      PROVE FALSE
    <2>1. id \in UpdsOf(m) \cup IdsAt(m) /\ id \in UpdsOf(n) \cup IdsAt(n)
        BY <1>1, <1>5
    <2>2. id \notin UpdsOf(m) \/ id \notin UpdsOf(n)
        BY DEF UpdatesByOwner
    <2>3. ~IsOpen(id)
        BY <1>3, <2>1
    <2> QED BY <2>1, <2>2, <2>3 DEF IdsAt
<1> QED BY <1>4, <1>5 DEF UpdatesByOwner

LEMMA AddrsApp ==
    ASSUME DInv, AllGenuine, AddressInv, NEW n \in Nodes, AppMoves(n)
    PROVE AddressInv'
<1>1. /\ UNCHANGED <<conn, links, down, central, handler, reader, status, raced>>
      /\ made \subseteq made' /\ \A m \in Nodes \ {n} : preg'[m] = preg[m] /\ up'[m] = up[m]
      /\ Lists(up'[n]) = Lists(up[n]) /\ UpdIds(up'[n]) = UpdIds(up[n])
      /\ UnregIds(up[n]) \subseteq UnregIds(up'[n])
      /\ \A id : Entries(preg'[n], id) = Entries(preg[n], id)
      /\ \A id \in MadeIds : IsOpen(id)' => IsOpen(id) /\ ep'[id].node = ep[id].node
    BY DEF AppMoves
<1>2. \A m \in Nodes : /\ Lists(up'[m]) = Lists(up[m]) /\ UpdIds(up'[m]) = UpdIds(up[m])
                       /\ UnregIds(up[m]) \subseteq UnregIds(up'[m])
                       /\ \A id : Entries(preg'[m], id) = Entries(preg[m], id)
    BY <1>1
<1>3. ASSUME NEW k \in Nodes, NEW id \in Ids, conn[k] = "open", Mine(k, id) PROVE Mine(k, id)'
    <2>1. CASE id \in UnregIds(up[k])
        BY <1>2, <2>1 DEF Mine
    <2>2. CASE IsOpen(id) /\ ep[id].node = k
        <3>1. \/ IsOpen(id)' /\ ep'[id].node = ep[id].node
              \/ ep[id].node = n /\ (conn[n] = "open" => id \in UnregIds(up'[n]))
            BY <2>2 DEF AppMoves
        <3> QED BY <1>3, <2>2, <3>1 DEF Mine
    <2> QED BY <1>3, <2>1, <2>2 DEF Mine
<1>4. UpdatesByOwner'
    <2>1. ASSUME NEW m \in Nodes, conn'[m] = "open", NEW id \in UpdsOf(m)',
                 id \in IdsOf(central) \cup RegIds(up'[m])
          PROVE Mine(m, id)'
        <3>1. id \in UpdsOf(m) /\ id \in MadeIds /\ id \in Ids
            BY <1>1, <1>2, SeenIsMade, MadeInIds DEF UpdsOf
        <3>2. id \in RegIds(up'[m]) => id \in Unsent(m)
            BY <3>1 DEF AppMoves, Unsent
        <3>3. id \in Pending(m) => Mine(m, id)
            BY DEF Pending, Mine, DInv, Owned, OwnedAt
        <3>4. id \in IdsOf(central) \cup RegIds(up[m]) => Mine(m, id)
            BY <1>1, <2>1, <3>1 DEF AddressInv, UpdatesByOwner
        <3> QED BY <1>1, <1>3, <2>1, <3>1, <3>2, <3>3, <3>4 DEF Unsent
    <2> QED BY <1>1, <1>2, <2>1, OwnersKept DEF AddressInv
<1>5. UpdatesPresent' /\ AllToSay' = AllToSay
    BY <1>1, PresentKept DEF AddressInv
<1>6. ASSUME NEW k \in Nodes, NEW id \in Ids, Owed(k, id)' PROVE Informed(k, id)'
    <2>1. Owed(k, id)
        BY <1>1, <1>2, <1>3, <1>5, <1>6 DEF Owed, Synced, Good, HasTwin
    <2>2. Informed(k, id)
        BY <2>1 DEF AddressInv, AddrsFollow
    <2>3. After(k)' = After(k)
        BY <1>1 DEF After
    <2>4. Copy(k)' = Copy(k) \/ (Copy(k) = preg[k] /\ Copy(k)' = preg'[k])
        BY <1>1 DEF Copy
    <2>5. Entries(Copy(k)', id) = Entries(Copy(k), id)
        BY <1>2, <2>4
    <2> QED BY <1>1, <2>2, <2>3, <2>5, InformedSame DEF SaysTheSame
<1> QED BY <1>4, <1>5, <1>6 DEF AddressInv, AddrsFollow

LEMMA AddrsOthers ==
    ASSUME DInv, AllGenuine, AddressInv, NEW n \in Nodes, OthersStay(n)
    PROVE AddressInv'
<1>1. /\ UNCHANGED <<links, central, handler, made, raced>>
      /\ \A m \in Nodes \ {n} :
            UNCHANGED <<conn[m], up[m], down[m], status[m], preg[m], reader[m]>>
      /\ UpdIds(up'[n]) \subseteq UpdIds(up[n])
      /\ conn'[n] = "open" => Lists(up'[n]) # {} /\ UpdIds(up'[n]) = {} /\ ToUpdate(handler[n]) = {}
      /\ \A id \in MadeIds : IsOpen(id)' => IsOpen(id) /\ ep'[id].node = ep[id].node
    BY DEF OthersStay
<1>2. \A k \in Nodes \ {n}, id \in Ids : Mine(k, id) => Mine(k, id)'
    BY <1>1 DEF Mine, OthersStay
<1>3. UpdatesByOwner'
    <2>1. \A m \in Nodes : UpdIds(up'[m]) \subseteq UpdIds(up[m])
        BY <1>1
    <2>2. ASSUME NEW m \in Nodes, conn'[m] = "open", NEW id \in UpdsOf(m)',
                 id \in IdsOf(central) \cup RegIds(up'[m])
          PROVE Mine(m, id)'
        <3>1. m # n
            BY <1>1, <2>2 DEF UpdsOf
        <3>2. id \in UpdsOf(m) /\ id \in Ids
            BY <1>1, <2>1, <3>1, SeenIsMade, MadeInIds DEF UpdsOf
        <3>3. Mine(m, id)
            BY <1>1, <2>2, <3>1, <3>2 DEF AddressInv, UpdatesByOwner
        <3> QED BY <1>2, <3>1, <3>2, <3>3
    <2> QED BY <1>1, <2>1, <2>2, OwnersKept DEF AddressInv
<1>4. UpdatesPresent' /\ AllToSay' = AllToSay
    BY <1>1, PresentKept DEF AddressInv
<1>5. ASSUME NEW k \in Nodes, NEW id \in Ids, Owed(k, id)' PROVE Informed(k, id)'
    <2>1. k # n
        BY <1>1, <1>5 DEF Owed, Synced
    <2>2. Owed(k, id)
        BY <1>1, <1>2, <1>4, <1>5, <2>1 DEF Owed, Synced, Good, HasTwin
    <2>3. Informed(k, id)
        BY <2>2 DEF AddressInv, AddrsFollow
    <2>4. Copy(k)' = Copy(k) /\ After(k)' = After(k)
        BY <1>1, <2>1 DEF Copy, After
    <2> QED BY <1>1, <2>3, <2>4, InformedSame DEF SaysTheSame
<1> QED BY <1>3, <1>4, <1>5 DEF AddressInv, AddrsFollow

(* The reader handles an event or a response.                              *)
LEMMA InformedTakes ==
    ASSUME NEW n, NEW id, TakesOnly(n, id), Informed(n, id),
           ~Says(Head(down[n]), id) =>
                \A f \in Entries(preg'[n], id) : \E e \in Entries(preg[n], id) : f.addr = e.addr,
           Says(Head(down[n]), id) =>
                \A f \in Entries(preg'[n], id) : f.addr = Said(Head(down[n]))
    PROVE Informed(n, id)'
<1> SUFFICES ASSUME NEW e \in Entries(central', id) PROVE Told(After(n)', Copy(n)', id, e.addr)
    BY DEF Informed
<1> DEFINE q == down[n]
           a == e.addr
<1>1. /\ Copy(n) = preg[n] /\ Copy(n)' = preg'[n] /\ After(n) = q /\ After(n)' = Tail(q)
      /\ q \in Seq(MessagesOf(MadeIds)) /\ q # <<>> /\ central' = central
    BY DEF TakesOnly
<1>2. Told(q, preg[n], id, a)
    BY <1>1 DEF Informed
<1> HIDE DEF q, a
<1>3. Told(Tail(q), preg'[n], id, a)
    BY <1>1, <1>2, ToldTail DEF q
<1> QED BY <1>1, <1>3 DEF a

LEMMA InformedAdd ==
    ASSUME DInv, NEW n \in Nodes, NEW id \in Ids,
           TakesAdd(n), TakesOnly(n, id), Follows(n, id), Informed(n, id)
    PROVE Informed(n, id)'
<1> DEFINE q == down[n]
           s == preg[n]
           h == Head(q)
           e == h.entry
           t == preg'[n]
<1>1. /\ Copy(n) = s /\ After(n) = q /\ q \in Seq(MessagesOf(MadeIds)) /\ q # <<>>
      /\ s \in Seq(Listed(MadeIds))
    BY DEF TakesOnly
<1>2. /\ h.kind = "proxy-add" /\ e \in Listed(MadeIds) /\ ~e.endpoint
      /\ \A i : Entries(t, i) = Entries(WithEntry(s, e), i)
    BY DEF TakesAdd, Takes, Listed, Foreign
<1>3. h \in OfKind(q, "proxy-add")
    BY <1>1, <1>2, HeadLeaves DEF OfKind
<1>4. \A f \in Entries(s, id) : e.id = id => entry_equals(f, e)
    BY <1>1, <1>3 DEF Follows, AddsNothing
<1> HIDE DEF q, s, e, t
<1>5. Entries(t, id) = Entries(s, id) \cup (IF e.id = id /\ ~Known(s, e) THEN {e} ELSE {})
    BY <1>1, <1>2, WithEntryEntries
<1>6. Says(h, id) <=> e.id = id
    BY <1>2 DEF Says, e
<1>7. Says(h, id) => \A f \in Entries(t, id) : f.addr = Said(h)
    BY <1>2, <1>4, <1>5, <1>6 DEF Said, entry_equals, e
<1>8. ~Says(h, id) => \A f \in Entries(t, id) : \E x \in Entries(s, id) : f.addr = x.addr
    BY <1>5, <1>6
<1> QED BY <1>7, <1>8, InformedTakes DEF q, s, t, h

LEMMA InformedRemove ==
    ASSUME DInv, Routes, NEW n \in Nodes, NEW id \in Ids,
           TakesRemove(n), TakesOnly(n, id), Informed(n, id)
    PROVE Informed(n, id)'
<1> DEFINE s == preg[n]
           h == Head(down[n])
           t == registry_delete(s, h.id)
<1>1. s \in Seq(Listed(MadeIds)) /\ preg'[n] = t /\ h.kind = "proxy-remove"
    BY DEF TakesOnly, TakesRemove, Takes
<1> HIDE DEF s
<1>2. Entries(t, id) \subseteq Entries(s, id)
    BY <1>1, DeleteEntries DEF registry_delete
<1>3. ~Says(h, id)
    BY <1>1 DEF Says
<1> HIDE DEF h, t
<1> QED BY <1>1, <1>2, <1>3, InformedTakes DEF s, h

LEMMA InformedUpdate ==
    ASSUME DInv, NEW n \in Nodes, NEW id \in Ids, ~Mine(n, id),
           TakesUpdate(n), TakesOnly(n, id), Follows(n, id), Informed(n, id)
    PROVE Informed(n, id)'
<1> DEFINE s == preg[n]
           h == Head(down[n])
           t == preg'[n]
           k == FirstId(s, id)
<1>1. /\ Copy(n) = s /\ s \in Seq(Listed(MadeIds)) /\ h.kind = "proxy-update-address"
      /\ t = registry_update_addr(s, h.id, h.addr) /\ h.addr \in Addrs
    BY DEF TakesOnly, TakesUpdate, Takes
<1>2. AtMostOne(Of(s, id)) /\ id \notin OwnIds(s)
    BY <1>1 DEF Follows, DInv, Owned, OwnedAt, Mine
<1>3. (Says(h, id) <=> h.id = id) /\ Said(h) = h.addr
    BY <1>1 DEF Says, Said
<1> HIDE DEF s, h, t
<1>4. SameNames(s, t) /\ (h.id # id => Entries(t, id) = Entries(s, id))
    BY <1>1, UpdateEntries
<1>5. ASSUME h.id = id, NEW f \in Entries(t, id) PROVE f.addr = h.addr
    <2>1. PICK i \in Of(t, id) : f = t[i]
        BY EntriesAre
    <2>2. i \in Of(s, id) /\ i \in 1..Len(s) /\ s[i].id = id
        BY <1>4, RenamedEntries DEF Of
    <2>3. id \in IdsOf(s)
        BY <2>2 DEF IdsOf
    <2>4. k \in 1..Len(s) /\ s[k].id = id
        BY <1>1, <2>3, FirstIdIs
    <2>5. k \in Of(s, id)
        BY <1>2, <2>4 DEF Of, OwnIds
    <2>6. i = k
        BY <1>2, <2>2, <2>5 DEF AtMostOne
    <2> HIDE DEF k
    <2>7. t = [s EXCEPT ![k] = [s[k] EXCEPT !.addr = h.addr]]
        BY <1>1, <1>5, <2>3 DEF registry_update_addr, k
    <2>8. s[k] \in Entry
        BY <1>1, <2>4, ElementOfSeq DEF Listed
    <2>9. t[k] = [s[k] EXCEPT !.addr = h.addr]
        BY <1>1, <2>4, <2>7
    <2> QED BY <2>1, <2>6, <2>8, <2>9 DEF Entry
<1> QED BY <1>3, <1>4, <1>5, InformedTakes DEF s, h, t

LEMMA InformedReads ==
    ASSUME DInv, AllGenuine, Routes, ListMerged, NEW n \in Nodes, NEW id \in Ids, Reads(n),
           ~HasTwin(id), ~Mine(n, id), Mine(n, id) => Mine(n, id)',
           Follows(n, id), Informed(n, id)
    PROVE Informed(n, id)'
<1>1. UNCHANGED <<central, handler>>
    BY DEF Reads, ReaderKeeps, rcVars
<1>2. CASE \/ handler[n].pc = "list" \/ Lists(down[n]) # {}
           \/ Merges(n) /\ reader'[n] # IdleReader
    BY <1>1, <1>2, CopyInTransit, InformedSame DEF SaysTheSame
<1>3. CASE handler[n].pc # "list" /\ Lists(down[n]) = {}
    <2>1. CASE Merges(n) /\ reader'[n] = IdleReader
        <3>1. /\ UNCHANGED <<central, handler>> /\ After(n)' = After(n)
              /\ \A f \in Entries(Copy(n)', id) : \E e \in Entries(Copy(n), id) : entry_equals(e, f)
            BY <1>3, <2>1, MergedIsList
        <3>2. \A f \in Entries(Copy(n)', id) : \E e \in Entries(Copy(n), id) : f.addr = e.addr
            BY <3>1 DEF entry_equals
        <3> QED BY <3>1, <3>2, InformedSame DEF SaysTheSame
    <2>2. CASE TakesAdd(n) \/ TakesRemove(n) \/ TakesUpdate(n) \/ TakesResponse(n)
        <3>1. PICK kind : Takes(n, kind)
            BY <2>2 DEF TakesAdd, TakesRemove, TakesUpdate, TakesResponse
        <3>2. TakesOnly(n, id)
            BY <1>3, <3>1, TakesOnlyIs
        <3>3. CASE TakesResponse(n)
            <4>1. preg'[n] = preg[n] /\ ~Says(Head(down[n]), id)
                BY <3>3 DEF TakesResponse, Takes, Says
            <4> QED BY <3>2, <4>1, InformedTakes
        <3> QED BY <2>2, <3>2, <3>3, InformedAdd, InformedRemove, InformedUpdate
    <2>3. ~TakesList(n)
        <3>1. TakesList(n) => 1 \in Lists(down[n])
            BY DEF TakesList, Lists, DInv, DTypeOK
        <3> QED BY <1>3, <3>1
    <2>4. CASE Merges(n) /\ reader'[n] # IdleReader
        BY <1>2, <2>4
    <2> QED BY <2>1, <2>2, <2>3, <2>4 DEF Reads
<1> QED BY <1>2, <1>3

LEMMA AddrsReader ==
    ASSUME DInv, AllGenuine, AgreementInv, AddressInv, NEW n \in Nodes, Reads(n)
    PROVE AddressInv'
<1>1. /\ UNCHANGED <<conn, links, central, handler, made, raced>> /\ EpKeeps(ep', {})
      /\ \A k \in Nodes : /\ Lists(up'[k]) = Lists(up[k]) /\ UnregIds(up'[k]) = UnregIds(up[k])
                          /\ RegIds(up'[k]) = RegIds(up[k])
      /\ \A m \in Nodes \ {n} : UNCHANGED <<preg[m], down[m], reader[m], up[m]>>
      /\ UpdIds(up'[n]) \subseteq UpdIds(up[n]) \cup IdsAt(n)
    BY DEF Reads, ReaderKeeps, rcVars
<1>2. /\ \A id \in MadeIds : IsOpen(id)' => IsOpen(id) /\ ep'[id].node = ep[id].node
      /\ \A id \in Ids : IsOpen(id) => IsOpen(id)' /\ ep'[id].node = ep[id].node
    BY <1>1, KeptPlaces
<1>3. \A k \in Nodes, id \in Ids : Mine(k, id) => Mine(k, id)'
    BY <1>1, <1>2 DEF Mine
<1>4. UpdatesByOwner'
    <2>1. \A m \in Nodes : UpdIds(up'[m]) \subseteq UpdIds(up[m]) \cup IdsAt(m)
        BY <1>1
    <2>2. ASSUME NEW m \in Nodes, conn'[m] = "open", NEW id \in UpdsOf(m)',
                 id \in IdsOf(central) \cup RegIds(up'[m])
          PROVE Mine(m, id)'
        <3>1. id \in UpdsOf(m) \cup IdsAt(m) /\ id \in Ids
            BY <1>1, <2>1, SeenIsMade, MadeInIds DEF UpdsOf, IdsAt
        <3>2. Mine(m, id)
            BY <1>1, <2>2, <3>1 DEF AddressInv, UpdatesByOwner, IdsAt, Mine
        <3> QED BY <1>3, <3>1, <3>2
    <2> QED BY <1>1, <1>2, <2>1, <2>2, OwnersKept DEF AddressInv
<1>5. UpdatesPresent' /\ AllToSay' = AllToSay
    BY <1>1, PresentKept DEF AddressInv
<1>6. ASSUME NEW k \in Nodes, NEW id \in Ids, Owed(k, id)' PROVE Informed(k, id)'
    <2>1. Owed(k, id)
        BY <1>1, <1>3, <1>5, <1>6 DEF Owed, Synced, Good, HasTwin
    <2>2. Informed(k, id) /\ Follows(k, id) /\ ~HasTwin(id) /\ ~Mine(k, id)
        BY <2>1 DEF AddressInv, AddrsFollow, AgreementInv, ProxiesFollow, Owed, Good
    <2>3. CASE k # n
        <3>1. Copy(k)' = Copy(k) /\ After(k)' = After(k)
            BY <1>1, <2>3 DEF Copy, After
        <3> QED BY <1>1, <2>2, <3>1, InformedSame DEF SaysTheSame
    <2>4. CASE k = n
        BY <1>3, <2>2, <2>4, InformedReads DEF AgreementInv
    <2> QED BY <2>3, <2>4
<1> QED BY <1>4, <1>5, <1>6 DEF AddressInv, AddrsFollow

-----------------------------------------------------------------------------
(* The steps of rcregistry                                                 *)

(* An id is in the list of the central registry once.                      *)
LEMMA CentralOne ==
    ASSUME DInv, NEW id, NEW e \in Entries(central, id), NEW f \in Entries(central, id)
    PROVE e = f
<1>1. AtMostOne(Of(central, id)) /\ Entries(central, id) = {central[i] : i \in Of(central, id)}
    BY CentralEntries, EntriesAre
<1> QED BY <1>1 DEF AtMostOne

(* A handler changes only entries that it is then going to announce.       *)
LEMMA ChangesToSay ==
    ASSUME DInv, NEW n \in Nodes, NEW h, HandlesOne(n, h), NEW id, id \notin ToSay(h)
    PROVE Entries(central', id) \subseteq Entries(central, id)
<1> DEFINE x == Head(up[n])
<1>1. central \in Seq(Foreign(MadeIds)) /\ central \in Seq(Listed(MadeIds))
    <2>1. Foreign(MadeIds) \subseteq Listed(MadeIds)
        BY DEF Foreign, Listed
    <2> QED BY <2>1 DEF DInv, DTypeOK
<1>2. CASE HandlesRegister(n, h)
    <2>1. PICK e \in Foreign(MadeIds) : /\ h.event = [kind |-> "proxy-add", entry |-> e]
                                        /\ central' = registry_insert(central, e)
        BY <1>2 DEF HandlesRegister
    <2>2. id # e.id
        BY <1>2, <2>1 DEF HandlesRegister, ToSay, ToAdd, Adds
    <2> QED BY <1>1, <2>1, <2>2, InsertEntries
<1>3. CASE HandlesUnregister(n, h)
    BY <1>1, <1>3, DeleteEntries DEF HandlesUnregister, registry_delete
<1>4. CASE HandlesUpdate(n, h)
    <2>1. /\ central' = registry_update_addr(central, x.id, x.addr) /\ x.addr \in Addrs
          /\ h.pc = "announce" /\ h.event.kind = "proxy-update-address" /\ h.event.id = x.id
        BY <1>4 DEF HandlesUpdate
    <2>2. id # x.id
        BY <2>1 DEF ToSay, ToUpdate
    <2> HIDE DEF x
    <2> QED BY <1>1, <2>1, <2>2, UpdateEntries
<1>5. CASE HandlesList(n, h)
    BY <1>5 DEF HandlesList
<1> QED BY <1>2, <1>3, <1>4, <1>5 DEF HandlesOne

(* The address that is about to be announced                               *)
LEMMA UpdatedPresent ==
    ASSUME DInv, NEW n \in Nodes, NEW h, HandlesOne(n, h), h.pc = "announce"
    PROVE /\ h.exclude \subseteq {n}
          /\ \A id \in ToUpdate(h) : \A e \in Entries(central', id) : e.addr = h.event.addr
<1> DEFINE x == Head(up[n])
<1>1. CASE HandlesUpdate(n, h)
    <2> DEFINE s == central
               t == central'
               k == FirstId(s, x.id)
    <2>1. /\ t = registry_update_addr(s, x.id, x.addr) /\ x.addr \in Addrs
          /\ h.exclude = {n} /\ ToUpdate(h) = {x.id} /\ h.event.addr = x.addr
          /\ s \in Seq(Listed(MadeIds)) /\ IdsOnce(s)
        <3>1. Foreign(MadeIds) \subseteq Listed(MadeIds)
            BY DEF Foreign, Listed
        <3> QED BY <1>1, <3>1 DEF HandlesUpdate, ToUpdate, DInv, DTypeOK, RegisteredOnce
    <2> HIDE DEF x, s, t
    <2>2. ASSUME NEW f \in Entries(t, x.id) PROVE f.addr = x.addr
        <3>1. PICK i \in Of(t, x.id) : f = t[i]
            BY EntriesAre
        <3>2. i \in 1..Len(s) /\ s[i].id = x.id
            <4>1. SameNames(s, t)
                BY <2>1, UpdateEntries
            <4>2. Of(t, x.id) = Of(s, x.id)
                BY <4>1, RenamedEntries
            <4> QED BY <3>1, <4>2 DEF Of
        <3>3. x.id \in IdsOf(s)
            BY <3>2 DEF IdsOf
        <3>4. k \in 1..Len(s) /\ i = k
            BY <2>1, <3>2, <3>3, FirstIdIs DEF IdsOnce
        <3> HIDE DEF k
        <3>5. t = [s EXCEPT ![k] = [s[k] EXCEPT !.addr = x.addr]]
            BY <2>1, <3>3 DEF registry_update_addr, k
        <3>6. s[k] \in Entry
            BY <2>1, <3>4, ElementOfSeq DEF Listed
        <3>7. t[k] = [s[k] EXCEPT !.addr = x.addr]
            BY <2>1, <3>4, <3>5
        <3> QED BY <3>1, <3>4, <3>6, <3>7 DEF Entry
    <2> QED BY <2>1, <2>2 DEF t
<1>2. CASE HandlesRegister(n, h)
    <2>1. h.exclude = {} /\ h.event.kind = "proxy-add"
        <3>1. PICK e : h.event = [kind |-> "proxy-add", entry |-> e]
            BY <1>2 DEF HandlesRegister
        <3> QED BY <1>2, <3>1 DEF HandlesRegister
    <2> QED BY <2>1 DEF ToUpdate
<1>3. CASE HandlesUnregister(n, h)
    <2>1. h # Idle
        BY DEF Idle
    <2>2. h.exclude = {} /\ h.event = [kind |-> "proxy-remove", id |-> x.id]
        BY <1>3, <2>1 DEF HandlesUnregister
    <2>3. h.event.kind = "proxy-remove"
        BY <2>2
    <2> QED BY <2>2, <2>3 DEF ToUpdate
<1>4. ~HandlesList(n, h)
    BY DEF HandlesList
<1> QED BY <1>1, <1>2, <1>3, <1>4 DEF HandlesOne

LEMMA OwnersHandled ==
    ASSUME DInv, AllGenuine, FollowsInv, Routes, UpdatesByOwner, NEW n \in Nodes, NEW h,
           Handles(n, h), Effect(n, h)
    PROVE UpdatesByOwner' /\ \A m \in Nodes : UpdsOf(m)' \subseteq UpdsOf(m)
<1>1. /\ UNCHANGED <<conn, ep>> /\ handler[n] = Idle /\ handler'[n] = h
      /\ \A m \in Nodes \ {n} : handler'[m] = handler[m] /\ up'[m] = up[m]
      /\ \A m \in Nodes : /\ UpdIds(up'[m]) \subseteq UpdIds(up[m])
                          /\ UnregIds(up[m]) \cap IdsOf(central') \subseteq UnregIds(up'[m])
      /\ ToAdd(h) \subseteq RegIds(up[n]) /\ ToUpdate(h) \subseteq UpdIds(up[n])
      /\ IdsOf(central') \subseteq IdsOf(central) \cup ToAdd(h)
    BY DEF Effect, proxyVars
<1>2. /\ RegIds(up'[n]) \subseteq RegIds(up[n])
      /\ \A id \in UnregIds(up[n]) : id \in UnregIds(up'[n]) \/ id \notin RegIds(up[n])
    <2>1. TakesRequest(n)
        BY DEF Handles
    <2> QED BY <2>1, FollowsRequest
<1>3. \A m \in Nodes : UpdsOf(m)' \subseteq UpdsOf(m)
    BY <1>1 DEF UpdsOf
<1>4. ASSUME NEW m \in Nodes, NEW id \in UpdsOf(m)', conn[m] = "open",
             id \in IdsOf(central') \cup RegIds(up'[m])
      PROVE Mine(m, id)'
    <2>1. id \in UpdsOf(m) /\ RegIds(up'[m]) \subseteq RegIds(up[m])
        BY <1>1, <1>2, <1>3, <1>4
    <2>2. id \in ToAdd(h) => m = n
        BY <1>1, <2>1 DEF Routes, ByOwner, Unsent, UpdsOf
    <2>3. id \in IdsOf(central) \cup RegIds(up[m])
        BY <1>1, <1>4, <2>1, <2>2
    <2>4. Mine(m, id)
        BY <1>4, <2>1, <2>3 DEF UpdatesByOwner
    <2>5. CASE IsOpen(id) /\ ep[id].node = m
        BY <1>1, <2>5 DEF Mine, IsOpen
    <2>6. CASE id \in UnregIds(up[m])
        BY <1>1, <1>2, <1>4, <2>1, <2>6 DEF Mine
    <2> QED BY <2>4, <2>5, <2>6 DEF Mine
<1>5. \A m \in Nodes : \A id \in UpdsOf(m)' : IsOpen(id)' => ep'[id].node = m
    BY <1>1, <1>3 DEF UpdatesByOwner, IsOpen
<1>6. \A m \in Nodes : \A k \in Nodes \ {m} : UpdsOf(m)' \cap UpdsOf(k)' = {}
    BY <1>3 DEF UpdatesByOwner
<1> QED BY <1>1, <1>3, <1>4, <1>5, <1>6 DEF UpdatesByOwner

LEMMA AddrsHandles ==
    ASSUME DInv, AllGenuine, FollowsInv, Routes, AddressInv, NEW n \in Nodes, NEW h,
           HandlesOne(n, h)
    PROVE AddressInv'
<1>1. Effect(n, h) /\ Handles(n, h)
    BY HandlesEffect DEF HandlesOne, HandlesRegister, HandlesUnregister, HandlesUpdate, HandlesList
<1>2. /\ UNCHANGED <<conn, made, ep, raced>> /\ handler[n] = Idle /\ handler'[n] = h
      /\ \A m \in Nodes \ {n} : handler'[m] = handler[m] /\ up'[m] = up[m]
      /\ h.pc # "list" => Lists(up[n]) = {}
      /\ ToAdd(h) \subseteq RegIds(up[n]) /\ ToUpdate(h) \subseteq UpdIds(up[n])
      /\ IdsOf(central') \subseteq IdsOf(central) \cup ToAdd(h)
      /\ h.pc = "list" => h.list = central /\ central' = central
      /\ \A m \in Nodes : UnregIds(up[m]) \cap IdsOf(central') \subseteq UnregIds(up'[m])
    BY <1>1 DEF Effect, proxyVars
<1>3. UpdatesByOwner' /\ \A m \in Nodes : UpdsOf(m)' \subseteq UpdsOf(m)
    BY <1>1, OwnersHandled DEF AddressInv
<1>4. UpdatesPresent'
    <2>1. ASSUME NEW m \in Nodes \ {n}, NEW id \in ToUpdate(handler[m])
          PROVE Entries(central', id) \subseteq Entries(central, id)
        <3>1. id \notin ToAdd(h)
            BY <1>2, <2>1 DEF Routes, ByOwner, Unsent
        <3>2. id \notin ToUpdate(h)
            BY <1>2, <2>1 DEF AddressInv, UpdatesByOwner, UpdsOf
        <3> QED BY <3>1, <3>2, ChangesToSay DEF ToSay
    <2>2. ASSUME NEW m \in Nodes \ {n}, handler'[m].pc = "announce"
          PROVE /\ handler'[m].exclude \subseteq {m}
                /\ \A id \in ToUpdate(handler'[m]) :
                        \A e \in Entries(central', id) : e.addr = handler'[m].event.addr
        BY <1>2, <2>1, <2>2 DEF AddressInv, UpdatesPresent
    <2>3. h.pc = "announce" =>
                /\ h.exclude \subseteq {n}
                /\ \A id \in ToUpdate(h) : \A e \in Entries(central', id) : e.addr = h.event.addr
        BY UpdatedPresent
    <2> QED BY <1>2, <2>2, <2>3 DEF UpdatesPresent
<1>5. ASSUME NEW k \in Nodes, NEW id \in Ids, Owed(k, id)' PROVE Informed(k, id)'
    <2>1. id \in IdsOf(central') /\ id \notin AllToSay' /\ Synced(k)' /\ Good(k, id)' /\ ~Mine(k, id)'
        BY <1>5 DEF Owed
    <2>2. id \notin ToSay(h) /\ id \notin AllToSay /\ id \in IdsOf(central)
        <3>1. \A m \in Nodes : id \notin ToSay(handler'[m])
            BY <2>1, ToSayIs
        <3>2. ToSay(Idle) = {}
            BY DEF ToSay, ToAdd, Adds, ToUpdate, Idle
        <3> QED BY <1>2, <2>1, <3>1, <3>2, ToSayIs DEF ToSay
    <2>3. CASE k = n /\ h.pc = "list"
        <3>1. Copy(k)' = central /\ After(k)' = <<>> /\ central' = central
            BY <1>2, <2>3 DEF Copy, After
        <3>2. ASSUME NEW e \in Entries(central, id) PROVE Told(<<>>, central, id, e.addr)
            <4>1. Saying(<<>>, id) = {}
                BY DEF Saying
            <4>2. \A f \in Entries(central, id) : f = e
                BY <3>2, CentralOne
            <4> QED BY <4>1, <4>2 DEF Told
        <3> QED BY <3>1, <3>2 DEF Informed
    <2>4. CASE ~(k = n /\ h.pc = "list")
        <3>1. ~Mine(k, id)
            BY <1>2, <2>1 DEF Mine, IsOpen
        <3>2. Synced(k) /\ Good(k, id)
            BY <1>2, <2>1, <2>4 DEF Synced, Good, HasTwin, Idle
        <3>3. Informed(k, id)
            BY <2>2, <3>1, <3>2 DEF Owed, AddressInv, AddrsFollow
        <3>4. Copy(k)' = Copy(k) /\ SameEvents(After(k), After(k)', id)
            BY <1>1, <2>4, HandlesCopy
        <3>5. Entries(central', id) \subseteq Entries(central, id)
            BY <2>2, ChangesToSay
        <3> QED BY <3>3, <3>4, <3>5, InformedSame DEF SameEvents
    <2> QED BY <2>3, <2>4
<1> QED BY <1>3, <1>4, <1>5 DEF AddressInv, AddrsFollow

LEMMA AddrsQuiet ==
    ASSUME AddressInv, NEW n \in Nodes, Quietly(n)
    PROVE AddressInv'
<1>1. \A m \in Nodes : /\ handler'[m].pc = "announce" <=> handler[m].pc = "announce"
                       /\ handler[m].pc = "announce" => handler'[m] = handler[m]
                       /\ ToSay(handler'[m]) = ToSay(handler[m])
                       /\ ToUpdate(handler'[m]) = ToUpdate(handler[m])
    BY DEF Quietly, ToSay, ToAdd, Adds, ToUpdate
<1>2. UpdatesByOwner'
    <2>1. \A m \in Nodes : UpdsOf(m)' = UpdsOf(m)
        BY <1>1 DEF UpdsOf, Quietly
    <2> QED BY <2>1 DEF Quietly, AddressInv, UpdatesByOwner, Mine, IsOpen
<1>3. UpdatesPresent'
    BY <1>1 DEF Quietly, AddressInv, UpdatesPresent
<1>4. ASSUME NEW k \in Nodes, NEW id \in Ids, Owed(k, id)' PROVE Informed(k, id)'
    <2>1. id \notin AllToSay
        BY <1>1, <1>4, ToSayIs DEF Owed
    <2>2. Owed(k, id)
        BY <1>4, <2>1 DEF Quietly, Owed, Good, HasTwin, Mine, IsOpen
    <2>3. Informed(k, id) /\ Copy(k)' = Copy(k) /\ After(k)' = After(k)
        BY <1>4, <2>2 DEF Quietly, AddressInv, AddrsFollow, Owed
    <2> QED BY <2>3, InformedSame DEF Quietly, SaysTheSame
<1> QED BY <1>2, <1>3, <1>4 DEF AddressInv, AddrsFollow

(* What an announcement says is what the central registry has.             *)
LEMMA EventSays ==
    ASSUME DInv, Routes, UpdatesPresent, NEW n \in Nodes, Announces(n), NEW id
    PROVE /\ Says(handler[n].event, id) <=> id \in ToSay(handler[n])
          /\ Says(handler[n].event, id) =>
                \A e \in Entries(central, id) : Said(handler[n].event) = e.addr
<1> DEFINE ev == handler[n].event
<1>1. handler[n].pc = "announce" /\ ev.kind \in {"proxy-add", "proxy-remove", "proxy-update-address"}
    BY EventKinds DEF Announces
<1>2. Says(ev, id) <=> id \in ToSay(handler[n])
    BY <1>1 DEF Says, ToSay, ToAdd, Adds, ToUpdate
<1>3. ASSUME ev.kind = "proxy-add", ev.entry.id = id, NEW e \in Entries(central, id)
      PROVE Said(ev) = e.addr
    <2>1. PICK f \in Items(central) : f.id = id /\ entry_equals(f, ev.entry)
        BY <1>1, <1>3 DEF Routes, ToAddPresent, Adds
    <2>2. f \in Entries(central, id)
        BY <2>1, CentralEntries
    <2>3. e = f
        BY <1>3, <2>2, CentralOne
    <2> QED BY <1>3, <2>1, <2>3 DEF Said, entry_equals
<1>4. ASSUME ev.kind = "proxy-update-address", ev.id = id, NEW e \in Entries(central, id)
      PROVE Said(ev) = e.addr
    <2>1. id \in ToUpdate(handler[n])
        BY <1>1, <1>4 DEF ToUpdate
    <2> QED BY <1>1, <1>4, <2>1 DEF UpdatesPresent, Said
<1> QED BY <1>2, <1>3, <1>4 DEF Says

(* Whom an announcement leaves out has the end-point itself.               *)
LEMMA ExcludedIsOwner ==
    ASSUME Routes, AddressInv, NEW n \in Nodes, handler[n].pc = "announce",
           NEW k \in handler[n].exclude, NEW id \in ToSay(handler[n]), id \in IdsOf(central),
           conn[k] = "open"
    PROVE Mine(k, id)
<1>1. k = n
    BY DEF AddressInv, UpdatesPresent
<1>2. handler[n].event.kind = "proxy-update-address"
    BY DEF Routes, Joined
<1>3. id \in UpdsOf(n)
    BY <1>2 DEF ToSay, ToAdd, Adds, UpdsOf
<1> QED BY <1>1, <1>3 DEF AddressInv, UpdatesByOwner

LEMMA InformedAnnounces ==
    ASSUME DInv, Routes, AddressInv, NEW n \in Nodes, Announces(n), NEW k \in Nodes,
           NEW id \in Ids, handler[k].pc # "list", Synced(k), ~Mine(k, id), id \in IdsOf(central),
           id \notin ToSay(handler[n]) => Informed(k, id)
    PROVE Informed(k, id)'
<1> DEFINE ev == handler[n].event
           S == MessagesOf(MadeIds)
<1>1. handler[n].pc = "announce" /\ central' = central
    BY DEF Announces
<1>2. /\ Copy(k)' = Copy(k) /\ ev \in S
      /\ \E q \in Seq(S) : SameEvents(After(k), q, id) /\ AfterEvent(n, k, q)
    BY AnnouncedBehind DEF Synced
<1>3. PICK q \in Seq(S) : SaysTheSame(After(k), q, id) /\ AfterEvent(n, k, q)
    BY <1>2 DEF SameEvents
<1>4. /\ Says(ev, id) <=> id \in ToSay(handler[n])
      /\ Says(ev, id) => \A e \in Entries(central, id) : Said(ev) = e.addr
    BY EventSays DEF AddressInv
<1> HIDE DEF ev, S
<1>5. CASE id \notin ToSay(handler[n])
    <2>1. SaysTheSame(q, Append(q, ev), id)
        BY <1>2, <1>4, <1>5, ToldAppend
    <2>2. SaysTheSame(After(k), After(k)', id)
        BY <1>3, <2>1 DEF AfterEvent, SaysTheSame, ev
    <2> QED BY <1>1, <1>2, <1>5, <2>2, InformedSame
<1>6. CASE id \in ToSay(handler[n])
    <2>1. k \in links
        <3>1. handler[k].pc \in {"none", "idle", "done", "announce", "list"}
            BY DEF DInv, DTypeOK, HandlersOf
        <3> QED BY <3>1 DEF Synced, Routes, Joined
    <2>2. k \notin handler[n].exclude
        BY <1>1, <1>6, ExcludedIsOwner DEF Synced
    <2>3. After(k)' = Append(q, ev)
        BY <1>3, <2>1, <2>2 DEF AfterEvent, ev
    <2>4. \A s : Told(Append(q, ev), s, id, Said(ev))
        BY <1>2, <1>4, <1>6, ToldAppend
    <2> QED BY <1>1, <1>4, <1>6, <2>3, <2>4 DEF Informed
<1> QED BY <1>5, <1>6

LEMMA AddrsAnnounces ==
    ASSUME DInv, Routes, AddressInv, NEW n \in Nodes, Announces(n)
    PROVE AddressInv'
<1>1. /\ UNCHANGED <<conn, links, up, central, ep, made>> /\ handler[n].pc = "announce"
      /\ handler'[n] = [pc |-> "idle"]
      /\ \A m \in Nodes \ {n} : handler'[m] = handler[m]
      /\ \A m \in Nodes : raced'[m] = IF handler[m].pc = "list"
                                      THEN raced[m] \cup {EventId(handler[n].event)} ELSE raced[m]
    BY DEF Announces, proxyVars
<1>2. ToSay(handler'[n]) = {} /\ ToUpdate(handler'[n]) = {} /\ handler'[n].pc # "announce"
    BY <1>1 DEF ToSay, ToAdd, Adds, ToUpdate
<1>3. UpdatesByOwner'
    <2>1. \A m \in Nodes : UpdsOf(m)' \subseteq UpdsOf(m)
        BY <1>1, <1>2 DEF UpdsOf
    <2> QED BY <1>1, <2>1 DEF AddressInv, UpdatesByOwner, Mine, IsOpen
<1>4. UpdatesPresent'
    BY <1>1, <1>2 DEF AddressInv, UpdatesPresent
<1>5. ASSUME NEW k \in Nodes, NEW id \in Ids, Owed(k, id)' PROVE Informed(k, id)'
    <2>1. Synced(k) /\ Good(k, id) /\ ~Mine(k, id) /\ id \in IdsOf(central)
        BY <1>1, <1>5 DEF Owed, Synced, Good, HasTwin, Mine, IsOpen
    <2>2. \A m \in Nodes \ {n} : id \notin ToSay(handler[m])
        BY <1>1, <1>5, ToSayIs DEF Owed
    <2>3. ASSUME id \notin ToSay(handler[n]) PROVE Informed(k, id)
        <3>1. id \notin AllToSay
            BY <2>2, <2>3, ToSayIs
        <3> QED BY <2>1, <3>1 DEF Owed, AddressInv, AddrsFollow
    <2>4. CASE handler[k].pc = "list"
        <3>1. Copy(k)' = Copy(k) /\ After(k)' = After(k)
            BY <1>1, <2>4 DEF Copy, After
        <3>2. id \notin ToSay(handler[n])
            <4>1. id # EventId(handler[n].event)
                BY <1>1, <1>5, <2>4 DEF Owed, Good
            <4> QED BY <4>1 DEF ToSay, ToAdd, Adds, ToUpdate, EventId
        <3> QED BY <1>1, <2>3, <3>1, <3>2, InformedSame DEF SaysTheSame
    <2>5. CASE handler[k].pc # "list"
        BY <2>1, <2>3, <2>5, InformedAnnounces
    <2> QED BY <2>4, <2>5
<1> QED BY <1>3, <1>4, <1>5 DEF AddressInv, AddrsFollow

LEMMA AddrsRc ==
    ASSUME DInv, AllGenuine, FollowsInv, Routes, AddressInv, NEW n \in Nodes,
           RcStep(n) \/ RcAnnounce(n)
    PROVE AddressInv'
<1>1. CASE RcAnnounce(n)
    BY <1>1, AnnouncesIs, AddrsAnnounces
<1>2. CASE RcStep(n)
    <2>1. UNCHANGED <<proxyVars, raced>>
        BY <1>2 DEF RcStep
    <2>2. CASE messagehub_add_link(n) \/ messagehub_remove_link(n)
        BY <2>1, <2>2, LinkQuiet, AddrsQuiet
    <2>3. CASE rcregistry_send_list(n)
        BY <2>1, <2>3, SendsListIs, SendsListQuiet, AddrsQuiet
    <2>4. CASE \/ rcregistry_register(n) \/ rcregistry_unregister(n)
               \/ rcregistry_update_address(n) \/ rcregistry_select_list(n)
        <3>1. PICK h : HandlesOne(n, h)
            BY <2>1, <2>4, HandlesIs
        <3> QED BY <3>1, AddrsHandles
    <2> QED BY <1>2, <2>2, <2>3, <2>4 DEF RcStep
<1> QED BY <1>1, <1>2

-----------------------------------------------------------------------------
(* The addresses agree                                                     *)

LEMMA AddressInit == ASSUME Init PROVE AddressInv
<1> USE DEF Init, NetInit, RcInit
<1>1. \A m \in Nodes : handler[m].pc # "announce" /\ conn[m] # "open" /\ UpdsOf(m) = {}
    <2>1. UpdIds(<<>>) = {}
        BY DEF UpdIds, OfKind, Items
    <2> QED BY <2>1 DEF UpdsOf, ToUpdate
<1> QED BY <1>1 DEF AddressInv, UpdatesByOwner, UpdatesPresent, AddrsFollow, Owed, Synced

LEMMA AddressStays == ASSUME AddressInv, UNCHANGED stateVars PROVE AddressInv'
<1> USE DEF stateVars, netVars, rcVars, proxyVars
<1>1. UpdatesByOwner' /\ UpdatesPresent'
    BY DEF AddressInv, UpdatesByOwner, UpdatesPresent, UpdsOf, Mine, IsOpen
<1>2. ASSUME NEW n \in Nodes, NEW id \in Ids, Owed(n, id)' PROVE Informed(n, id)'
    <2>1. Owed(n, id)
        BY <1>2 DEF Owed, Synced, Good, HasTwin, Mine, IsOpen, AllToSay
    <2>2. Informed(n, id) /\ Copy(n)' = Copy(n) /\ After(n)' = After(n)
        BY <2>1 DEF AddressInv, AddrsFollow, Copy, After
    <2> QED BY <2>2, InformedSame DEF SaysTheSame
<1> QED BY <1>1, <1>2 DEF AddressInv, AddrsFollow

LEMMA AddressNext ==
    DInv /\ UInv /\ AllGenuine /\ FollowsInv /\ AgreementInv /\ AddressInv /\ [Next]_vars
    => AddressInv'
<1> SUFFICES ASSUME DInv, UInv, AllGenuine, FollowsInv, AgreementInv, AddressInv, [Next]_vars
             PROVE AddressInv'
    OBVIOUS
<1>1. Routes
    BY DEF AgreementInv
<1>2. ASSUME NEW n \in Nodes, RcStep(n) \/ RcAnnounce(n) PROVE AddressInv'
    BY <1>1, <1>2, AddrsRc
<1>3. ASSUME NEW n \in Nodes, ReaderStep(n) PROVE AddressInv'
    BY <1>3, ReaderReads, AddrsReader
<1>4. ASSUME NEW n \in Nodes, AppStep(n) \/ Open(n) \/ Close(n) PROVE AddressInv'
    BY <1>4, AppIsMoves, AddrsApp
<1>5. ASSUME NEW n \in Nodes, Start(n) \/ Fault(n) PROVE AddressInv'
    BY <1>1, <1>5, StartMoves, FaultMoves, AddrsOthers
<1> QED BY <1>2, <1>3, <1>4, <1>5, AddressStays, StepIs DEF Acts

LEMMA AddressWhenQuiet ==
    ASSUME DInv, AgreementInv, AddressInv, Quiet, NEW n \in Nodes, InStep(n),
           NEW id \in IdsOf(central) \cap IdsOf(preg[n]), id \notin raced[n], ~HasTwin(id),
           IsOpen(id) => ep[id].node # n
    PROVE central[FirstId(central, id)].addr = preg[n][FirstId(preg[n], id)].addr
<1> DEFINE i == FirstId(central, id)
           j == FirstId(preg[n], id)
           s == preg[n]
<1>1. /\ \A m \in Nodes : /\ up[m] = <<>> /\ down[m] = <<>> /\ reader[m] = IdleReader
                          /\ handler[m].pc \in {"none", "idle", "done"} /\ app[m] = IdleApp
      /\ conn[n] = "open" /\ Routes /\ ProxiesFollow
    BY DEF Quiet, InStep, AgreementInv
<1>2. Lists(<<>>) = {} /\ UnregIds(<<>>) = {} /\ Saying(<<>>, id) = {}
    <2>1. Items(<<>>) = {}
        BY DEF Items
    <2> QED BY <2>1 DEF Lists, UnregIds, Saying
<1>3. /\ central \in Seq(Foreign(MadeIds)) /\ s \in Seq(Listed(MadeIds))
      /\ central \in Seq(Listed(MadeIds)) /\ id \in Ids
    <2>1. Foreign(MadeIds) \subseteq Listed(MadeIds)
        BY DEF Foreign, Listed
    <2>2. central \in Seq(Foreign(MadeIds)) /\ s \in Seq(Listed(MadeIds))
        BY DEF DInv, DTypeOK
    <2> QED BY <2>1, <2>2, KnownIds DEF DInv
<1>4. i \in 1..Len(central) /\ central[i].id = id /\ j \in 1..Len(s) /\ s[j].id = id
    BY <1>3, FirstIdIs
<1>5. central[i] \in Entries(central, id)
    BY <1>3, <1>4, ItemsOfSeq, CentralEntries DEF Items
<1>6. s[j] \in Entries(s, id)
    <2>1. id \notin OwnIds(s)
        BY DEF DInv, Owned, OwnedAt
    <2> QED BY <1>4, <2>1 DEF OwnIds, Entries, Items
<1>7. Owed(n, id)
    <2>1. handler[n].pc # "none"
        BY <1>1, <1>2 DEF Routes, Joined
    <2>2. \A m \in Nodes : ToSay(handler[m]) = {}
        BY <1>1 DEF ToSay, ToAdd, Adds, ToUpdate
    <2>3. id \notin AllToSay
        BY <2>2, ToSayIs
    <2> QED BY <1>1, <1>2, <2>1, <2>3 DEF Owed, Synced, Good, Mine
<1>8. Informed(n, id)
    BY <1>3, <1>7 DEF AddressInv, AddrsFollow
<1>9. Copy(n) = s /\ After(n) = <<>>
    BY <1>1, <1>2 DEF Copy, After, Behind
<1> HIDE DEF i, j, s
<1>10. Told(<<>>, s, id, central[i].addr)
    BY <1>5, <1>8, <1>9 DEF Informed
<1>11. s[j].addr = central[i].addr
    BY <1>2, <1>6, <1>10 DEF Told
<1> QED BY <1>11 DEF i, j, s

(* A messagelink that is connected changes its address, and the update is  *)
(* broadcast apart from the announcement and from the list that a process  *)
(* asks for. Still, when nothing is in flight, every proxy finds for an    *)
(* end-point of another process the address in the central registry.       *)
THEOREM AddressesAgree == Spec => []AddressAgreement
<1>1. Init => AgreementInv /\ FollowsInv /\ AddressInv
    BY AgreementInit, FollowsInit, AddressInit
<1>2. DInv /\ AgreementInv /\ AddressInv => AddressAgreement
    BY AddressWhenQuiet DEF AddressAgreement
<1> QED BY <1>1, <1>2, AgreementNext, FollowsNext, AddressNext, Invariance, GenuineInvariance,
           PTL DEF Spec
=============================================================================
