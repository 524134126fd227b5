-------------------------- MODULE DiscoveryProofs --------------------------
(***************************************************************************)
(* The discovery protocol, for any number of processes, end-points, names, *)
(* topics and addresses, with processes that end and connections that      *)
(* break: the central registry holds an id once, a proxy never keeps a     *)
(* pointer to a deleted end-point, and never drops an end-point that is    *)
(* open; entries of the same id agree, an end-point is connected only to   *)
(* peers of its topic; and the central registry follows what the processes *)
(* open and close.                                                         *)
(*                                                                         *)
(* The invariant follows an id on its way.  It is fresh when an end-point  *)
(* is made, and everything that travels is about ids that were made        *)
(* (DTypeOK); it is to be registered, on its way in one request, or in the *)
(* central registry, and never in two of these places (RegisteredOnce);    *)
(* its end-point is in the list of its own proxy, before any other entry   *)
(* with the id (OwnFirst, Owned), so that what the proxy deletes by id is  *)
(* the right entry; it is withdrawn only after the end-point is deleted    *)
(* (Withdrawn); and the list of the central registry, which removes        *)
(* entries from the proxy, is handled once, before the proxy is ready and  *)
(* any end-point exists (ListedOnce).                                      *)
(*                                                                         *)
(* A second part follows the entries themselves: each, wherever it is or   *)
(* travels, is a copy of one that was made, up to the address if it is of  *)
(* a messagelink, since only those are updated by id (AllGenuine).  Hence  *)
(* what an end-point takes from an entry is the address of a peer          *)
(* (PeersInv).  Last, FollowsInv says which requests will make up for what *)
(* the central registry does not list yet, or still lists.                 *)
(***************************************************************************)
EXTENDS Discovery, FiniteSetTheorems, SequenceTheorems, TLAPS

(* The ids that were given to end-points                                   *)
MadeIds == {e.id : e \in made}

(* The entries of a list of the ids M, and those that travel: a pointer    *)
(* stays in its process.                                                   *)
Listed(M) == {e \in Entry : e.id \in M}
Foreign(M) == {e \in Entry : e.id \in M /\ ~e.endpoint}

RequestsOf(M) == [kind: {"register"}, entry: Foreign(M)]
            \cup [kind: {"unregister"}, id: M]
            \cup [kind: {"update-address"}, id: Ids, addr: Addrs]
            \cup {ListReq}

EventsOf(M) == [kind: {"proxy-add"}, entry: Foreign(M)]
          \cup [kind: {"proxy-remove"}, id: M]
          \cup [kind: {"proxy-update-address"}, id: Ids, addr: Addrs]

MessagesOf(M) == EventsOf(M)
            \cup [kind: {"response"},
                  response: {"register", "unregister", "update-address"},
                  success: BOOLEAN]
            \cup [kind: {"list"}, list: Seq(Foreign(M))]

HandlersOf(M) == [pc: {"none", "idle", "done"}]
            \cup [pc: {"announce"}, response: {"register", "unregister", "update-address"},
                  event: EventsOf(M), exclude: SUBSET Nodes]
            \cup [pc: {"list"}, list: Seq(Foreign(M))]

AppsOf(M) == {IdleApp} \cup [pc: {"register", "connect", "unregister"}, entry: Listed(M)]

ReadersOf(M) == {IdleReader} \cup [pc: {"insert"}, todo: Seq(Foreign(M)), list: Seq(Foreign(M))]
                             \cup [pc: {"prune"}, todo: Seq(Listed(M)), list: Seq(Foreign(M))]

DTypeOK ==
    /\ conn \in [Nodes -> {"none", "open", "closed"}]
    /\ links \subseteq Nodes
    /\ up \in [Nodes -> Seq(RequestsOf(MadeIds))]
    /\ down \in [Nodes -> Seq(MessagesOf(MadeIds))]
    /\ central \in Seq(Foreign(MadeIds))
    /\ handler \in [Nodes -> HandlersOf(MadeIds)]
    /\ status \in [Nodes -> {"none", "initializing", "ready", "gone"}]
    /\ preg \in [Nodes -> Seq(Listed(MadeIds))]
    /\ app \in [Nodes -> AppsOf(MadeIds)]
    /\ reader \in [Nodes -> ReadersOf(MadeIds)]
    /\ ep \in [Ids -> Endpoint \cup {Closed}]
    /\ \A id \in Ids : IsOpen(id) => id \in MadeIds
    /\ made \in SUBSET Entry
    /\ raced \in [Nodes -> SUBSET Ids]

-----------------------------------------------------------------------------
(* Registration                                                            *)

IdsOnce(s) == \A i, j \in 1..Len(s) : s[i].id = s[j].id => i = j

(* The requests to register in a queue                                     *)
Registers(q) == {i \in 1..Len(q) : q[i].kind = "register"}
RegIds(q) == {q[i].entry.id : i \in Registers(q)}
RegsOnce(q) == \A i, j \in Registers(q) : q[i].entry.id = q[j].entry.id => i = j

(* The id for which process n has yet to send the request                  *)
Pending(n) == IF app[n].pc = "register" THEN {app[n].entry.id} ELSE {}

RegisteredOnce ==
    /\ IdsOnce(central)
    /\ \A n \in Nodes :
        /\ RegsOnce(up[n])
        /\ RegIds(up[n]) \cap IdsOf(central) = {}
        /\ Pending(n) \cap IdsOf(central) = {}
        /\ \A m \in Nodes :
            /\ Pending(n) \cap RegIds(up[m]) = {}
            /\ m # n => /\ Pending(n) \cap Pending(m) = {}
                        /\ RegIds(up[n]) \cap RegIds(up[m]) = {}

-----------------------------------------------------------------------------
(* End-points                                                              *)

(* An entry with an end-point is the first with its id.                    *)
OwnFirst(s) ==
    \A i, j \in 1..Len(s) : s[i].endpoint /\ s[j].id = s[i].id => i <= j

(* The list s has an entry of this id and type with an end-point.          *)
Owns(s, id, type) == \E i \in 1..Len(s) : s[i].endpoint /\ s[i].id = id /\ s[i].type = type

OwnIds(s) == {s[i].id : i \in {j \in 1..Len(s) : s[j].endpoint}}

OwnedAt(n) ==
    /\ OwnFirst(preg[n])
    /\ \A id \in OwnIds(preg[n]) : IsOpen(id) /\ ep[id].node = n
    /\ \A id, type : Owns(preg[n], id, type) => ep[id].type = type
    /\ app[n].pc \in {"register", "connect"} => app[n].entry.id \in OwnIds(preg[n])
    /\ app[n].pc = "unregister" =>
            /\ app[n].entry.id \notin OwnIds(preg[n])
            /\ IsOpen(app[n].entry.id) /\ ep[app[n].entry.id].node = n

Owned == \A n \in Nodes : OwnedAt(n)

(* An open end-point is in the list of its process, or being closed.       *)
OpenIsOwned ==
    \A id \in Ids : IsOpen(id) =>
        \/ id \in OwnIds(preg[ep[id].node])
        \/ app[ep[id].node].pc = "unregister" /\ app[ep[id].node].entry.id = id

(* The ids in the requests to unregister of a queue, and in the events     *)
UnregIds(q) == {q[i].id : i \in {j \in 1..Len(q) : q[j].kind = "unregister"}}
RemovedIds(q) == {q[i].id : i \in {j \in 1..Len(q) : q[j].kind = "proxy-remove"}}
ToRemove(h) == IF h.pc = "announce" /\ h.event.kind = "proxy-remove" THEN {h.event.id} ELSE {}

WithdrawnAt(n) == UnregIds(up[n]) \cup RemovedIds(down[n]) \cup ToRemove(handler[n])

Withdrawn == \A n \in Nodes, id \in Ids : id \in WithdrawnAt(n) => ~IsOpen(id)

-----------------------------------------------------------------------------
(* The list of the central registry                                        *)

Lists(q) == {i \in 1..Len(q) : q[i].kind = "list"}

(* The list is requested in new_proxy; the request, the copy, the message  *)
(* and the reader that handles it exclude each other, and a proxy that is  *)
(* ready has no part of it left.  Before that it has no end-point.         *)
ListedOnceAt(n) ==
    /\ status[n] = "none" => /\ up[n] = <<>> /\ handler[n].pc = "none"
                             /\ conn[n] = "none" /\ reader[n] = IdleReader
    /\ conn[n] # "open" => down[n] = <<>>
    /\ status[n] = "gone" => conn[n] = "closed"
    /\ Lists(up[n]) # {} => /\ Len(up[n]) = 1 /\ status[n] \in {"initializing", "gone"}
                            /\ handler[n].pc # "list" /\ Lists(down[n]) = {}
                            /\ reader[n] = IdleReader
    /\ handler[n].pc = "list" => /\ status[n] \in {"initializing", "gone"}
                                 /\ Lists(down[n]) = {} /\ reader[n] = IdleReader
    /\ \A i, j \in Lists(down[n]) : i = j
    /\ Lists(down[n]) # {} => status[n] = "initializing" /\ reader[n] = IdleReader
    /\ reader[n] # IdleReader => status[n] = "initializing"
    /\ status[n] # "ready" => OwnIds(preg[n]) = {} /\ app[n] = IdleApp

ListedOnce == \A n \in Nodes : ListedOnceAt(n)

DInv == DTypeOK /\ RegisteredOnce /\ Owned /\ OpenIsOwned /\ Withdrawn /\ ListedOnce

-----------------------------------------------------------------------------
(* The operations on a list of entries                                     *)

LEMMA Least ==
    ASSUME NEW S \in SUBSET Nat, S # {}
    PROVE Min(S) \in S /\ \A j \in S : Min(S) <= j
<1>1. PICK x \in S : \A y \in S : ~(<<y, x>> \in OpToRel(<, Nat))
    BY NatLessThanWellFounded, WFMin
<1>2. ASSUME NEW y \in S PROVE x <= y
    <2>1. x \in Nat /\ y \in Nat /\ <<y, x>> \in Nat \X Nat
        OBVIOUS
    <2>2. OpToRel(<, Nat) = {ss \in Nat \X Nat : ss[1] < ss[2]}
        BY DEF OpToRel
    <2>3. ~(<<y, x>> \in {ss \in Nat \X Nat : ss[1] < ss[2]})
        BY <1>1, <2>2
    <2>4. ~(y < x)
        BY <2>1, <2>3
    <2> QED BY <2>1, <2>4
<1> QED BY <1>2 DEF Min

LEMMA Greatest ==
    ASSUME NEW n \in Nat, NEW S \in SUBSET (1..n), S # {}
    PROVE Max(S) \in S
<1> DEFINE T == {n - x : x \in S}
<1>0. \A x \in S : x \in Nat /\ x <= n
    OBVIOUS
<1>1. T \in SUBSET Nat /\ T # {}
    <2>1. ASSUME NEW y \in T PROVE y \in Nat
        BY <1>0, <2>1
    <2> QED BY <2>1
<1>2. PICK x \in S : n - x = Min(T)
    BY <1>1, Least
<1>3. \A y \in S : n - x <= n - y
    BY <1>1, <1>2, Least
<1>4. \A y \in S : x >= y
    BY <1>0, <1>3
<1> QED BY <1>4 DEF Max

(* FirstId is the place of the first entry with the id.                    *)
LEMMA FirstIdIs ==
    ASSUME NEW E, NEW s \in Seq(E), NEW id, id \in IdsOf(s)
    PROVE /\ FirstId(s, id) \in 1..Len(s)
          /\ s[FirstId(s, id)].id = id
          /\ \A j \in 1..Len(s) : s[j].id = id => FirstId(s, id) <= j
<1> DEFINE I == {i \in 1..Len(s) : s[i].id = id}
<1>1. I \in SUBSET Nat /\ I # {}
    BY DEF IdsOf
<1>2. FirstId(s, id) = Min(I)
    BY <1>1 DEF FirstId, SelectInSeq
<1> QED BY <1>1, <1>2, Least

LEMMA LastSelectedIs ==
    ASSUME NEW E, NEW s \in Seq(E), NEW topic, NEW type
    PROVE LastSelected(s, topic, type) \in 0..Len(s)
<1> DEFINE I == {i \in 1..Len(s) : s[i].topic = topic /\ s[i].type = type}
<1>1. LastSelected(s, topic, type) = IF I # {} THEN Max(I) ELSE 0
    BY DEF LastSelected, SelectLastInSeq
<1>2. Len(s) \in Nat /\ I \in SUBSET (1..Len(s))
    OBVIOUS
<1>3. I # {} => Max(I) \in 1..Len(s)
    BY <1>2, Greatest
<1> QED BY <1>1, <1>2, <1>3

(* What a list t keeps of a list s                                         *)
SameEntries(s, t) ==
    /\ OwnFirst(s) => OwnFirst(t)
    /\ OwnIds(t) = OwnIds(s)
    /\ \A id, type : Owns(t, id, type) <=> Owns(s, id, type)

LEMMA InsertIs ==
    ASSUME NEW E, NEW s \in Seq(E), NEW e \in E
    PROVE LET t == registry_insert(s, e) IN
          /\ t \in Seq(E) /\ IdsOf(t) = IdsOf(s) \cup {e.id}
          /\ IdsOnce(s) /\ e.id \notin IdsOf(s) => IdsOnce(t)
          /\ ~e.endpoint => SameEntries(s, t)
          /\ e.endpoint /\ e.id \notin IdsOf(s) =>
                /\ OwnFirst(s) => OwnFirst(t)
                /\ OwnIds(t) = OwnIds(s) \cup {e.id}
                /\ \A id, type : Owns(t, id, type)
                                    <=> Owns(s, id, type) \/ (id = e.id /\ type = e.type)
<1> DEFINE t == registry_insert(s, e)
           n == Len(s)
<1>1. /\ t \in Seq(E) /\ Len(t) = n + 1 /\ n \in Nat /\ t[n + 1] = e
      /\ \A i \in 1..n : t[i] = s[i]
    BY DEF registry_insert
<1>2. \A i \in 1..Len(t) : i \in 1..n \/ i = n + 1
    BY <1>1
<1>3. \A i \in 1..n : i \in 1..Len(t) /\ i < n + 1
    BY <1>1
<1>4. n + 1 \in 1..Len(t)
    BY <1>1
<1> HIDE DEF t, n
<1>5. IdsOf(t) = IdsOf(s) \cup {e.id}
    BY <1>1, <1>2, <1>3, <1>4 DEF IdsOf, n
<1>6. IdsOnce(s) /\ e.id \notin IdsOf(s) => IdsOnce(t)
    BY <1>1, <1>2 DEF IdsOnce, IdsOf, n
<1>7. ~e.endpoint => SameEntries(s, t)
    <2> SUFFICES ASSUME ~e.endpoint PROVE SameEntries(s, t)
        OBVIOUS
    <2>1. OwnFirst(s) => OwnFirst(t)
        BY <1>1, <1>2, <1>3 DEF OwnFirst, n
    <2>2. OwnIds(t) = OwnIds(s)
        BY <1>1, <1>2, <1>3 DEF OwnIds, n
    <2>3. \A id, type : Owns(t, id, type) <=> Owns(s, id, type)
        BY <1>1, <1>2, <1>3 DEF Owns, n
    <2> QED BY <2>1, <2>2, <2>3 DEF SameEntries
<1>8. e.endpoint /\ e.id \notin IdsOf(s) =>
          /\ OwnFirst(s) => OwnFirst(t)
          /\ OwnIds(t) = OwnIds(s) \cup {e.id}
          /\ \A id, type : Owns(t, id, type)
                              <=> Owns(s, id, type) \/ (id = e.id /\ type = e.type)
    <2> SUFFICES ASSUME e.endpoint, e.id \notin IdsOf(s)
                 PROVE  /\ OwnFirst(s) => OwnFirst(t)
                        /\ OwnIds(t) = OwnIds(s) \cup {e.id}
                        /\ \A id, type : Owns(t, id, type)
                                <=> Owns(s, id, type) \/ (id = e.id /\ type = e.type)
        OBVIOUS
    <2>1. OwnFirst(s) => OwnFirst(t)
        BY <1>1, <1>2, <1>3 DEF OwnFirst, IdsOf, n
    <2>2. OwnIds(t) = OwnIds(s) \cup {e.id}
        BY <1>1, <1>2, <1>3, <1>4 DEF OwnIds, n
    <2>3. \A id, type : Owns(t, id, type)
              <=> Owns(s, id, type) \/ (id = e.id /\ type = e.type)
        BY <1>1, <1>2, <1>3, <1>4 DEF Owns, n
    <2> QED BY <2>1, <2>2, <2>3
<1> QED BY <1>1, <1>5, <1>6, <1>7, <1>8 DEF t

(* The first entry with the id is removed.                                 *)
LEMMA DeleteIs ==
    ASSUME NEW E, NEW s \in Seq(E), NEW id
    PROVE LET t == registry_delete(s, id) IN
          /\ t \in Seq(E) /\ IdsOf(t) \subseteq IdsOf(s)
          /\ IdsOf(s) \subseteq IdsOf(t) \cup {id}
          /\ IdsOnce(s) => IdsOnce(t) /\ id \notin IdsOf(t)
          /\ OwnFirst(s) =>
                /\ OwnFirst(t) /\ OwnIds(t) = OwnIds(s) \ {id}
                /\ \A i, type : Owns(t, i, type) <=> Owns(s, i, type) /\ i # id
<1> DEFINE t == registry_delete(s, id)
           n == Len(s)
           k == FirstId(s, id)
<1>1. CASE id \notin IdsOf(s)
    <2>1. t = s
        BY <1>1 DEF registry_delete
    <2>2. id \notin OwnIds(s) /\ \A type : ~Owns(s, id, type)
        BY <1>1 DEF OwnIds, IdsOf, Owns
    <2> QED BY <1>1, <2>1, <2>2
<1>2. CASE id \in IdsOf(s)
    <2>1. k \in 1..n /\ s[k].id = id /\ \A j \in 1..n : s[j].id = id => k <= j
        BY <1>2, FirstIdIs
    <2>2. t = SubSeq(s, 1, k - 1) \o SubSeq(s, k + 1, n)
        BY <1>2 DEF registry_delete, RemoveAt
    <2> HIDE DEF t, k
    <2>3. /\ t \in Seq(E) /\ n \in Nat /\ Len(t) = n - 1
          /\ \A i \in 1..(k - 1) : t[i] = s[i]
          /\ \A i \in k..(n - 1) : t[i] = s[i + 1]
        <3>1. k \in Int /\ n \in Nat /\ 1 <= k /\ k <= n
            BY <2>1
        <3>2. /\ SubSeq(s, 1, k - 1) \in Seq(E) /\ Len(SubSeq(s, 1, k - 1)) = k - 1
              /\ \A i \in 1..(k - 1) : SubSeq(s, 1, k - 1)[i] = s[i]
            BY <3>1
        <3>3. /\ SubSeq(s, k + 1, n) \in Seq(E) /\ Len(SubSeq(s, k + 1, n)) = n - k
              /\ \A i \in 1..(n - k) : SubSeq(s, k + 1, n)[i] = s[k + i]
            BY <3>1
        <3> DEFINE a == SubSeq(s, 1, k - 1)
                   b == SubSeq(s, k + 1, n)
        <3> HIDE DEF a, b, n
        <3>4. /\ t \in Seq(E) /\ Len(t) = n - 1
              /\ \A i \in 1..(n - 1) : t[i] = IF i <= k - 1 THEN a[i] ELSE b[i - (k - 1)]
            <4>1. /\ a \in Seq(E) /\ Len(a) = k - 1 /\ b \in Seq(E) /\ Len(b) = n - k
                  /\ t = a \o b
                BY <2>2, <3>2, <3>3 DEF a, b, n
            <4>2. /\ t \in Seq(E) /\ Len(t) = Len(a) + Len(b)
                  /\ \A i \in 1..(Len(a) + Len(b)) :
                        t[i] = IF i <= Len(a) THEN a[i] ELSE b[i - Len(a)]
                BY <4>1, ConcatProperties
            <4>3. (k - 1) + (n - k) = n - 1
                BY <3>1
            <4> QED BY <4>1, <4>2, <4>3
        <3>5. \A i \in k..(n - 1) : i - (k - 1) \in 1..(n - k) /\ k + (i - (k - 1)) = i + 1
            BY <3>1
        <3>6. ASSUME NEW i \in 1..(k - 1) PROVE t[i] = s[i]
            <4>1. i \in 1..(n - 1) /\ i <= k - 1
                BY <3>1
            <4>2. t[i] = a[i]
                BY <3>4, <4>1
            <4> QED BY <3>2, <4>2 DEF a
        <3>7. ASSUME NEW i \in k..(n - 1) PROVE t[i] = s[i + 1]
            <4>1. i \in 1..(n - 1) /\ ~(i <= k - 1)
                BY <3>1
            <4>2. t[i] = b[i - (k - 1)]
                BY <3>4, <4>1
            <4> QED BY <3>3, <3>5, <4>2 DEF b
        <3> QED BY <3>1, <3>4, <3>6, <3>7
    <2> HIDE DEF n
    (* where the entries are in the other list                             *)
    <2>4. \A i \in 1..Len(t) : \/ i < k /\ i \in 1..n /\ t[i] = s[i]
                               \/ i >= k /\ i + 1 \in 1..n /\ t[i] = s[i + 1]
        BY <2>1, <2>3
    <2>5. \A i \in 1..n : \/ i = k
                          \/ i < k /\ i \in 1..Len(t) /\ t[i] = s[i]
                          \/ i > k /\ i - 1 \in 1..Len(t) /\ t[i - 1] = s[i]
        BY <2>1, <2>3
    <2>6. IdsOf(t) \subseteq IdsOf(s)
        BY <2>4 DEF IdsOf, n
    <2>7. IdsOnce(s) => IdsOnce(t) /\ id \notin IdsOf(t)
        <3> SUFFICES ASSUME IdsOnce(s) PROVE IdsOnce(t) /\ id \notin IdsOf(t)
            OBVIOUS
        <3>0. k \in Int
            BY <2>1
        <3>1. ASSUME NEW i \in 1..Len(t), NEW j \in 1..Len(t), t[i].id = t[j].id
              PROVE i = j
            <4>1. \/ i < k /\ i \in 1..n /\ t[i] = s[i]
                  \/ i >= k /\ i + 1 \in 1..n /\ t[i] = s[i + 1]
                BY <2>4
            <4>2. \/ j < k /\ j \in 1..n /\ t[j] = s[j]
                  \/ j >= k /\ j + 1 \in 1..n /\ t[j] = s[j + 1]
                BY <2>4
            <4>3. \A x, y \in 1..n : s[x].id = s[y].id => x = y
                BY DEF IdsOnce, n
            <4> QED BY <3>0, <3>1, <4>1, <4>2, <4>3
        <3>2. ASSUME NEW i \in 1..Len(t) PROVE t[i].id # id
            <4>1. \A x \in 1..n : s[x].id = id => x = k
                BY <2>1 DEF IdsOnce, n
            <4> QED BY <2>4, <3>0, <4>1
        <3> QED BY <3>1, <3>2 DEF IdsOnce, IdsOf
    <2>8. ASSUME OwnFirst(s)
          PROVE /\ OwnFirst(t) /\ OwnIds(t) = OwnIds(s) \ {id}
                /\ \A i, type : Owns(t, i, type) <=> Owns(s, i, type) /\ i # id
        <3>1. \A i \in 1..n : s[i].endpoint /\ s[i].id = id => i = k
            BY <2>1, <2>3, <2>8 DEF OwnFirst, n
        <3>2. OwnFirst(t)
            BY <2>1, <2>3, <2>4, <2>8 DEF OwnFirst, n
        <3>3. \A i \in 1..Len(t) : t[i].endpoint =>
                  t[i].id # id /\ \E j \in 1..n : s[j] = t[i]
            BY <2>1, <2>3, <2>4, <3>1
        <3>4. \A i \in 1..n : s[i].id # id => \E j \in 1..Len(t) : t[j] = s[i]
            BY <2>1, <2>5
        <3>5. OwnIds(t) = OwnIds(s) \ {id}
            BY <3>3, <3>4 DEF OwnIds, n
        <3>6. \A i, type : Owns(t, i, type) <=> Owns(s, i, type) /\ i # id
            BY <3>3, <3>4 DEF Owns, n
        <3> QED BY <3>2, <3>5, <3>6
    <2>9. IdsOf(s) \subseteq IdsOf(t) \cup {id}
        BY <2>1, <2>5 DEF IdsOf, n
    <2> QED BY <2>3, <2>6, <2>7, <2>8, <2>9 DEF t
<1> QED BY <1>1, <1>2

(* A list t that differs from s in addresses only                          *)
SameNames(s, t) ==
    /\ Len(t) = Len(s)
    /\ \A i \in 1..Len(s) : /\ t[i].id = s[i].id /\ t[i].type = s[i].type
                            /\ t[i].endpoint = s[i].endpoint

LEMMA SameNamesIs ==
    ASSUME NEW s, NEW t, SameNames(s, t)
    PROVE /\ SameEntries(s, t) /\ IdsOf(t) = IdsOf(s)
          /\ IdsOnce(s) => IdsOnce(t)
<1>1. OwnFirst(s) => OwnFirst(t)
    BY DEF SameNames, OwnFirst
<1>2. OwnIds(t) = OwnIds(s)
    BY DEF SameNames, OwnIds
<1>3. \A id, type : Owns(t, id, type) <=> Owns(s, id, type)
    BY DEF SameNames, Owns
<1>4. IdsOf(t) = IdsOf(s) /\ (IdsOnce(s) => IdsOnce(t))
    BY DEF SameNames, IdsOf, IdsOnce
<1> QED BY <1>1, <1>2, <1>3, <1>4 DEF SameEntries

LEMMA SetAddrIs ==
    ASSUME NEW e \in Entry, NEW addr \in Addrs
    PROVE LET f == [e EXCEPT !.addr = addr] IN
          f \in Entry /\ f.id = e.id /\ f.type = e.type /\ f.endpoint = e.endpoint
BY DEF Entry

LEMMA EncodeIs ==
    ASSUME NEW e \in Entry
    PROVE LET f == registry_entry_encode(e) IN
          f \in Entry /\ f.id = e.id /\ f.type = e.type /\ ~f.endpoint
BY DEF Entry, registry_entry_encode

LEMMA UpdateIs ==
    ASSUME NEW M, NEW E, E = Listed(M) \/ E = Foreign(M),
           NEW s \in Seq(E), NEW id, NEW addr \in Addrs
    PROVE LET t == registry_update_addr(s, id, addr) IN
          t \in Seq(E) /\ SameNames(s, t)
<1>1. CASE id \notin IdsOf(s)
    BY <1>1 DEF registry_update_addr, SameNames
<1>2. CASE id \in IdsOf(s)
    <2> DEFINE k == FirstId(s, id)
               f == [s[k] EXCEPT !.addr = addr]
               t == registry_update_addr(s, id, addr)
    <2>1. k \in 1..Len(s)
        BY <1>2, FirstIdIs
    <2>2. t = [s EXCEPT ![k] = f]
        BY <1>2 DEF registry_update_addr
    <2>3. s[k] \in Entry /\ s[k] \in E
        BY <2>1 DEF Listed, Foreign
    <2>4. /\ f \in Entry /\ f.id = s[k].id /\ f.type = s[k].type
          /\ f.endpoint = s[k].endpoint
        BY <2>3, SetAddrIs
    <2>5. f \in E
        BY <2>3, <2>4 DEF Listed, Foreign
    <2> HIDE DEF f, k, t
    <2>6. /\ t \in Seq(E) /\ Len(t) = Len(s)
          /\ \A i \in 1..Len(s) : t[i] = IF i = k THEN f ELSE s[i]
        BY <2>1, <2>2, <2>5
    <2> QED BY <2>4, <2>6 DEF SameNames, t
<1> QED BY <1>1, <1>2

LEMMA WithEntryIs ==
    ASSUME NEW E, NEW s \in Seq(E), NEW e \in E, ~e.endpoint
    PROVE WithEntry(s, e) \in Seq(E) /\ SameEntries(s, WithEntry(s, e))
<1>1. SameEntries(s, s)
    BY DEF SameEntries
<1>2. registry_insert(s, e) \in Seq(E) /\ SameEntries(s, registry_insert(s, e))
    BY InsertIs
<1> QED BY <1>1, <1>2 DEF WithEntry

LEMMA EncodeListIs ==
    ASSUME NEW M, NEW s \in Seq(Foreign(M))
    PROVE registry_entry_encode_list(s) \in Seq(Foreign(M))
<1> DEFINE t == registry_entry_encode_list(s)
<1>1. \A i \in 1..Len(s) : registry_entry_encode(s[i]) \in Foreign(M)
    BY EncodeIs DEF Foreign
<1>2. t \in [1..Len(s) -> Foreign(M)] /\ Len(s) \in Nat
    BY <1>1 DEF registry_entry_encode_list
<1> QED BY <1>2, SeqDef

LEMMA LocalIdsIs ==
    ASSUME NEW s, NEW topic, NEW type
    PROVE LocalIds(s, topic, type) \subseteq OwnIds(s) /\ OwnIds(s) \subseteq IdsOf(s)
BY DEF LocalIds, OwnIds, IdsOf

-----------------------------------------------------------------------------
(* The operations on a queue                                               *)

(* A request that withdraws an id comes after the one that registers it.   *)
InTurn(q) ==
    \A i, j \in 1..Len(q) :
        q[i].kind = "unregister" /\ q[j].kind = "register" /\ q[j].entry.id = q[i].id => j < i

(* What the queue t has left of the queue q                                *)
PartOf(q, t) ==
    /\ RegIds(t) \subseteq RegIds(q) /\ (RegsOnce(q) => RegsOnce(t))
    /\ UnregIds(t) \subseteq UnregIds(q)
    /\ RemovedIds(t) \subseteq RemovedIds(q)
    /\ Lists(q) = {} => Lists(t) = {}
    /\ (\A i, j \in Lists(q) : i = j) => (\A i, j \in Lists(t) : i = j)
    /\ InTurn(q) => InTurn(t)

ShiftedBy(q, t, d) == \A i \in 1..Len(t) : i + d \in 1..Len(q) /\ t[i] = q[i + d]

LEMMA ShiftedIsPart ==
    ASSUME NEW q, NEW t, NEW d \in {0, 1}, ShiftedBy(q, t, d)
    PROVE PartOf(q, t)
<1>0. \A i \in 1..Len(t) : i + d \in 1..Len(q) /\ t[i] = q[i + d]
    BY DEF ShiftedBy
<1>1. \A i \in 1..Len(t) : \E j \in 1..Len(q) : t[i] = q[j]
    BY <1>0
<1>2. RegIds(t) \subseteq RegIds(q)
    <2>1. ASSUME NEW i \in Registers(t) PROVE t[i].entry.id \in RegIds(q)
        <3>1. PICK j \in 1..Len(q) : t[i] = q[j]
            BY <1>1 DEF Registers
        <3> QED BY <3>1 DEF Registers, RegIds
    <2> QED BY <2>1 DEF RegIds
<1>3. UnregIds(t) \subseteq UnregIds(q) /\ RemovedIds(t) \subseteq RemovedIds(q)
    BY <1>1 DEF UnregIds, RemovedIds
<1>4. ASSUME RegsOnce(q) PROVE RegsOnce(t)
    <2> SUFFICES ASSUME NEW i \in Registers(t), NEW j \in Registers(t),
                        t[i].entry.id = t[j].entry.id
                 PROVE i = j
        BY DEF RegsOnce
    <2>1. i \in Int /\ j \in Int /\ i + d \in Registers(q) /\ j + d \in Registers(q)
          /\ t[i] = q[i + d] /\ t[j] = q[j + d]
        BY <1>0 DEF Registers
    <2>2. i + d = j + d
        BY <1>4, <2>1 DEF RegsOnce
    <2> QED BY <2>1, <2>2
<1>5. \A i \in Lists(t) : i \in Int /\ i + d \in Lists(q)
    BY <1>0 DEF Lists
<1>6. Lists(q) = {} => Lists(t) = {}
    BY <1>5
<1>7. ASSUME \A i, j \in Lists(q) : i = j PROVE \A i, j \in Lists(t) : i = j
    <2> SUFFICES ASSUME NEW i \in Lists(t), NEW j \in Lists(t) PROVE i = j
        OBVIOUS
    <2>1. i + d = j + d /\ i \in Int /\ j \in Int
        BY <1>5, <1>7
    <2> QED BY <2>1
<1>8. ASSUME InTurn(q) PROVE InTurn(t)
    <2> SUFFICES ASSUME NEW i \in 1..Len(t), NEW j \in 1..Len(t), t[i].kind = "unregister",
                        t[j].kind = "register", t[j].entry.id = t[i].id
                 PROVE j < i
        BY DEF InTurn
    <2>1. /\ i + d \in 1..Len(q) /\ j + d \in 1..Len(q) /\ t[i] = q[i + d] /\ t[j] = q[j + d]
        BY <1>0
    <2>2. j + d < i + d
        BY <1>8, <2>1 DEF InTurn
    <2> QED BY <2>2
<1> QED BY <1>2, <1>3, <1>4, <1>6, <1>7, <1>8 DEF PartOf

LEMMA TailIs ==
    ASSUME NEW S, NEW q \in Seq(S), q # <<>>
    PROVE /\ Head(q) \in S /\ Tail(q) \in Seq(S) /\ PartOf(q, Tail(q))
          /\ Head(q).kind = "register" =>
                /\ Head(q).entry.id \in RegIds(q)
                /\ RegsOnce(q) => Head(q).entry.id \notin RegIds(Tail(q))
          /\ Head(q).kind = "unregister" => Head(q).id \in UnregIds(q)
          /\ Head(q).kind = "proxy-remove" => Head(q).id \in RemovedIds(q)
          /\ Head(q).kind = "list" =>
                /\ Lists(q) # {}
                /\ (\A i, j \in Lists(q) : i = j) => Lists(Tail(q)) = {}
<1> DEFINE t == Tail(q)
<1>1. /\ Head(q) \in S /\ t \in Seq(S) /\ Len(t) = Len(q) - 1 /\ Len(t) \in Nat
      /\ Len(q) \in Nat /\ Head(q) = q[1] /\ 1 \in 1..Len(q)
      /\ \A i \in 1..Len(t) : t[i] = q[i + 1]
    BY HeadTailProperties, LenProperties, EmptySeq
<1> HIDE DEF t
<1>2. \A i \in 1..Len(t) : i + 1 \in 1..Len(q) /\ i + 1 # 1
    BY <1>1
<1>3. PartOf(q, t)
    <2>1. ShiftedBy(q, t, 1)
        BY <1>1, <1>2 DEF ShiftedBy
    <2> QED BY <2>1, ShiftedIsPart
<1>4. ASSUME Head(q).kind = "register", RegsOnce(q)
      PROVE Head(q).entry.id \notin RegIds(t)
    <2>1. 1 \in Registers(q)
        BY <1>1, <1>4 DEF Registers
    <2>2. \A i \in Registers(t) : i + 1 \in Registers(q) /\ t[i] = q[i + 1] /\ i + 1 # 1
        BY <1>1, <1>2 DEF Registers
    <2> QED BY <1>1, <1>4, <2>1, <2>2, ZenonT(30) DEF RegsOnce, RegIds
<1>5. Head(q).kind = "register" => Head(q).entry.id \in RegIds(q)
    BY <1>1 DEF RegIds, Registers
<1>6. /\ Head(q).kind = "unregister" => Head(q).id \in UnregIds(q)
      /\ Head(q).kind = "proxy-remove" => Head(q).id \in RemovedIds(q)
    BY <1>1 DEF UnregIds, RemovedIds
<1>7. ASSUME Head(q).kind = "list"
      PROVE /\ Lists(q) # {}
            /\ (\A i, j \in Lists(q) : i = j) => Lists(t) = {}
    <2>1. 1 \in Lists(q)
        BY <1>1, <1>7 DEF Lists
    <2>2. \A i \in Lists(t) : i + 1 \in Lists(q) /\ i + 1 # 1
        BY <1>1, <1>2 DEF Lists
    <2> QED BY <2>1, <2>2
<1> QED BY <1>1, <1>3, <1>4, <1>5, <1>6, <1>7 DEF t

LEMMA PrefixIs ==
    ASSUME NEW S, NEW q \in Seq(S), NEW k \in 0..Len(q)
    PROVE /\ SubSeq(q, 1, k) \in Seq(S) /\ PartOf(q, SubSeq(q, 1, k))
          /\ Len(SubSeq(q, 1, k)) = k
<1> DEFINE t == SubSeq(q, 1, k)
<1>1. /\ t \in Seq(S) /\ Len(t) = k /\ Len(q) \in Nat
      /\ \A i \in 1..k : t[i] = q[i]
    OBVIOUS
<1> HIDE DEF t
<1>2. ShiftedBy(q, t, 0)
    <2>1. \A i \in 1..k : i + 0 = i /\ i \in 1..Len(q)
        BY <1>1
    <2> QED BY <1>1, <2>1 DEF ShiftedBy
<1>3. PartOf(q, t)
    BY <1>2, ShiftedIsPart
<1> QED BY <1>1, <1>3 DEF t

LEMMA AppendIs ==
    ASSUME NEW S, NEW q \in Seq(S), NEW m \in S
    PROVE LET t == Append(q, m) IN
          /\ t \in Seq(S)
          /\ RegIds(t) = RegIds(q) \cup (IF m.kind = "register" THEN {m.entry.id} ELSE {})
          /\ RegsOnce(q) /\ (m.kind = "register" => m.entry.id \notin RegIds(q)) => RegsOnce(t)
          /\ UnregIds(t) = UnregIds(q) \cup (IF m.kind = "unregister" THEN {m.id} ELSE {})
          /\ RemovedIds(t) = RemovedIds(q) \cup (IF m.kind = "proxy-remove" THEN {m.id} ELSE {})
          /\ m.kind # "list" => Lists(t) = Lists(q)
          /\ Lists(q) = {} => \A i, j \in Lists(t) : i = j
          /\ InTurn(q) /\ (m.kind = "register" => m.entry.id \notin UnregIds(q)) => InTurn(t)
<1> DEFINE t == Append(q, m)
           n == Len(q)
<1>1. /\ t \in Seq(S) /\ Len(t) = n + 1 /\ n \in Nat /\ t[n + 1] = m
      /\ \A i \in 1..n : t[i] = q[i]
    OBVIOUS
<1>2. /\ \A i \in 1..Len(t) : i \in 1..n \/ i = n + 1
      /\ \A i \in 1..n : i \in 1..Len(t) /\ i # n + 1
      /\ n + 1 \in 1..Len(t)
    BY <1>1
<1> HIDE DEF t, n
<1>3. Registers(t) = Registers(q) \cup (IF m.kind = "register" THEN {n + 1} ELSE {})
    BY <1>1, <1>2 DEF Registers, n
<1>4. \A i \in Registers(q) : t[i] = q[i]
    BY <1>1 DEF Registers, n
<1>5. RegIds(t) = RegIds(q) \cup (IF m.kind = "register" THEN {m.entry.id} ELSE {})
    BY <1>1, <1>3, <1>4 DEF RegIds
<1>6. RegsOnce(q) /\ (m.kind = "register" => m.entry.id \notin RegIds(q)) => RegsOnce(t)
    BY <1>1, <1>3, <1>4 DEF RegsOnce, RegIds
<1>7. UnregIds(t) = UnregIds(q) \cup (IF m.kind = "unregister" THEN {m.id} ELSE {})
    BY <1>1, <1>2 DEF UnregIds, n
<1>8. RemovedIds(t) = RemovedIds(q) \cup (IF m.kind = "proxy-remove" THEN {m.id} ELSE {})
    BY <1>1, <1>2 DEF RemovedIds, n
<1>9. Lists(t) = Lists(q) \cup (IF m.kind = "list" THEN {n + 1} ELSE {})
    BY <1>1, <1>2 DEF Lists, n
<1>10. ASSUME InTurn(q), m.kind = "register" => m.entry.id \notin UnregIds(q) PROVE InTurn(t)
    <2> SUFFICES ASSUME NEW i \in 1..Len(t), NEW j \in 1..Len(t), t[i].kind = "unregister",
                        t[j].kind = "register", t[j].entry.id = t[i].id
                 PROVE j < i
        BY DEF InTurn
    <2>1. CASE i \in 1..n /\ j \in 1..n
        BY <1>1, <1>10, <2>1 DEF InTurn, n
    <2>2. CASE i \in 1..n /\ j = n + 1
        BY <1>1, <1>10, <2>2 DEF UnregIds, n
    <2>3. CASE i = n + 1 /\ j \in 1..n
        BY <1>1, <2>3
    <2> QED BY <1>1, <1>2, <2>1, <2>2, <2>3
<1> QED BY <1>1, <1>5, <1>6, <1>7, <1>8, <1>9, <1>10 DEF t

LEMMA AppendOtherIs ==
    ASSUME NEW S, NEW q \in Seq(S), NEW m \in S,
           m.kind \notin {"register", "unregister", "proxy-remove", "list"}
    PROVE /\ RegIds(Append(q, m)) = RegIds(q) /\ (RegsOnce(q) => RegsOnce(Append(q, m)))
          /\ UnregIds(Append(q, m)) = UnregIds(q)
          /\ RemovedIds(Append(q, m)) = RemovedIds(q)
          /\ Lists(Append(q, m)) = Lists(q)
<1> DEFINE t == Append(q, m)
<1>1. /\ RegIds(t) = RegIds(q) \cup (IF m.kind = "register" THEN {m.entry.id} ELSE {})
      /\ RegsOnce(q) /\ (m.kind = "register" => m.entry.id \notin RegIds(q)) => RegsOnce(t)
      /\ UnregIds(t) = UnregIds(q) \cup (IF m.kind = "unregister" THEN {m.id} ELSE {})
      /\ RemovedIds(t) = RemovedIds(q) \cup (IF m.kind = "proxy-remove" THEN {m.id} ELSE {})
      /\ m.kind # "list" => Lists(t) = Lists(q)
    BY AppendIs
<1> HIDE DEF t
<1> QED BY <1>1 DEF t

LEMMA AppendListIs ==
    ASSUME NEW S, NEW q \in Seq(S), NEW m \in S, m.kind = "list"
    PROVE /\ RemovedIds(Append(q, m)) = RemovedIds(q)
          /\ Lists(q) = {} => \A i, j \in Lists(Append(q, m)) : i = j
<1> DEFINE t == Append(q, m)
<1>1. /\ RemovedIds(t) = RemovedIds(q) \cup (IF m.kind = "proxy-remove" THEN {m.id} ELSE {})
      /\ Lists(q) = {} => \A i, j \in Lists(t) : i = j
    BY AppendIs, ZenonT(30)
<1> HIDE DEF t
<1> QED BY <1>1 DEF t

(* Requests to update an address are none of these.                        *)
LEMMA ConcatUpdatesIs ==
    ASSUME NEW S, NEW q \in Seq(S), NEW u \in Seq(S),
           \A i \in 1..Len(u) : u[i].kind = "update-address"
    PROVE LET t == q \o u IN
          /\ t \in Seq(S)
          /\ RegIds(t) = RegIds(q) /\ (RegsOnce(q) => RegsOnce(t))
          /\ UnregIds(t) = UnregIds(q) /\ Lists(t) = Lists(q)
          /\ InTurn(q) => InTurn(t)
<1> DEFINE t == q \o u
           n == Len(q)
<1>1. /\ t \in Seq(S) /\ n \in Nat /\ Len(u) \in Nat /\ Len(t) = n + Len(u)
      /\ \A i \in 1..(n + Len(u)) : t[i] = IF i <= n THEN q[i] ELSE u[i - n]
    BY ConcatProperties, LenProperties
<1> HIDE DEF t, n
<1>2. /\ \A i \in 1..Len(t) : \/ i \in 1..n /\ t[i] = q[i]
                              \/ i \notin 1..n /\ t[i].kind = "update-address"
      /\ \A i \in 1..n : i \in 1..Len(t) /\ t[i] = q[i]
    <2>1. ASSUME NEW i \in 1..Len(t), ~(i <= n) PROVE t[i].kind = "update-address"
        <3>1. i - n \in 1..Len(u) /\ t[i] = u[i - n]
            BY <1>1, <2>1
        <3> QED BY <3>1
    <2>2. \A i \in 1..Len(t) : i <= n => i \in 1..n /\ t[i] = q[i]
        BY <1>1
    <2>3. \A i \in 1..Len(t) : ~(i <= n) => i \notin 1..n
        BY <1>1
    <2>4. \A i \in 1..n : i \in 1..Len(t) /\ t[i] = q[i]
        BY <1>1
    <2> QED BY <2>1, <2>2, <2>3, <2>4
<1>3. Registers(t) = Registers(q) /\ \A i \in Registers(q) : t[i] = q[i]
    BY <1>2 DEF Registers, n
<1>4. RegIds(t) = RegIds(q) /\ (RegsOnce(q) => RegsOnce(t))
    BY <1>3 DEF RegIds, RegsOnce
<1>5. UnregIds(t) = UnregIds(q)
    BY <1>2 DEF UnregIds, n
<1>6. Lists(t) = Lists(q)
    BY <1>2 DEF Lists, n
<1>7. InTurn(q) => InTurn(t)
    BY <1>2 DEF InTurn, n
<1> QED BY <1>1, <1>4, <1>5, <1>6, <1>7 DEF t

-----------------------------------------------------------------------------
(* What is on its way                                                      *)

LEMMA RequestKinds ==
    ASSUME NEW M, NEW r \in RequestsOf(M)
    PROVE /\ r.kind = "register" => r.entry \in Foreign(M)
          /\ r.kind = "unregister" => r.id \in M
          /\ r.kind = "update-address" => r.id \in Ids /\ r.addr \in Addrs
BY DEF RequestsOf, ListReq

LEMMA EventKinds ==
    ASSUME NEW M, NEW r \in EventsOf(M)
    PROVE /\ r \in MessagesOf(M)
          /\ r.kind \in {"proxy-add", "proxy-remove", "proxy-update-address"}
          /\ r.kind = "proxy-add" => r.entry \in Foreign(M)
          /\ r.kind = "proxy-remove" => r.id \in M
          /\ r.kind = "proxy-update-address" => r.id \in Ids /\ r.addr \in Addrs
BY DEF EventsOf, MessagesOf

LEMMA MessageKinds ==
    ASSUME NEW M, NEW r \in MessagesOf(M)
    PROVE /\ r.kind = "proxy-add" => r.entry \in Foreign(M)
          /\ r.kind = "proxy-remove" => r.id \in M
          /\ r.kind = "proxy-update-address" => r.id \in Ids /\ r.addr \in Addrs
          /\ r.kind = "list" => r.list \in Seq(Foreign(M))
<1>1. CASE r \in EventsOf(M)
    BY <1>1, EventKinds
<1>2. CASE r \in [kind: {"response"},
                  response: {"register", "unregister", "update-address"}, success: BOOLEAN]
    BY <1>2
<1>3. CASE r \in [kind: {"list"}, list: Seq(Foreign(M))]
    BY <1>3
<1> QED BY <1>1, <1>2, <1>3 DEF MessagesOf

LEMMA HandlerKinds ==
    ASSUME NEW M, NEW h \in HandlersOf(M)
    PROVE /\ h.pc = "announce" => /\ h.event \in EventsOf(M)
                                  /\ h.response \in {"register", "unregister", "update-address"}
          /\ h.pc = "list" => h.list \in Seq(Foreign(M))
BY DEF HandlersOf

LEMMA AppKinds ==
    ASSUME NEW M, NEW a \in AppsOf(M)
    PROVE /\ a.pc \in {"idle", "register", "connect", "unregister"}
          /\ a.pc = "idle" <=> a = IdleApp
          /\ a.pc \in {"register", "connect", "unregister"} => a.entry \in Listed(M)
BY DEF AppsOf, IdleApp

LEMMA ReaderKinds ==
    ASSUME NEW M, NEW r \in ReadersOf(M)
    PROVE /\ r.pc \in {"idle", "insert", "prune"}
          /\ r.pc = "idle" <=> r = IdleReader
          /\ r.pc # "idle" => r.list \in Seq(Foreign(M))
          /\ r.pc = "insert" => r.todo \in Seq(Foreign(M))
          /\ r.pc = "prune" => r.todo \in Seq(Listed(M))
BY DEF ReadersOf, IdleReader

(* What is known of the ids of an end-point that is made stays so.         *)
LEMMA KindsGrow ==
    ASSUME NEW M, NEW N, M \subseteq N
    PROVE /\ Listed(M) \subseteq Listed(N) /\ Foreign(M) \subseteq Foreign(N)
          /\ Seq(Listed(M)) \subseteq Seq(Listed(N)) /\ Seq(Foreign(M)) \subseteq Seq(Foreign(N))
          /\ Seq(RequestsOf(M)) \subseteq Seq(RequestsOf(N))
          /\ Seq(MessagesOf(M)) \subseteq Seq(MessagesOf(N))
          /\ HandlersOf(M) \subseteq HandlersOf(N) /\ AppsOf(M) \subseteq AppsOf(N)
          /\ ReadersOf(M) \subseteq ReadersOf(N)
<1>1. Listed(M) \subseteq Listed(N) /\ Foreign(M) \subseteq Foreign(N)
    BY DEF Listed, Foreign
<1>2. Seq(Listed(M)) \subseteq Seq(Listed(N)) /\ Seq(Foreign(M)) \subseteq Seq(Foreign(N))
    BY <1>1, SeqMonotonic
<1>3. RequestsOf(M) \subseteq RequestsOf(N)
    BY <1>1 DEF RequestsOf
<1>4. EventsOf(M) \subseteq EventsOf(N)
    BY <1>1 DEF EventsOf
<1>5. MessagesOf(M) \subseteq MessagesOf(N)
    BY <1>2, <1>4 DEF MessagesOf
<1>6. Seq(RequestsOf(M)) \subseteq Seq(RequestsOf(N))
      /\ Seq(MessagesOf(M)) \subseteq Seq(MessagesOf(N))
    BY <1>3, <1>5, SeqMonotonic
<1>7. HandlersOf(M) \subseteq HandlersOf(N)
    BY <1>2, <1>4 DEF HandlersOf
<1>8. AppsOf(M) \subseteq AppsOf(N)
    BY <1>1 DEF AppsOf
<1>9. ReadersOf(M) \subseteq ReadersOf(N)
    BY <1>2 DEF ReadersOf
<1> QED BY <1>1, <1>2, <1>6, <1>7, <1>8, <1>9

-----------------------------------------------------------------------------
(* The end-points                                                          *)

EpTypeOK == ep \in [Ids -> Endpoint \cup {Closed}]

(* f has the same end-points as ep, but for the ids of S, which are closed. *)
EpKeeps(f, S) ==
    /\ f \in [Ids -> Endpoint \cup {Closed}]
    /\ \A id \in Ids \ S : /\ f[id] # Closed <=> IsOpen(id)
                           /\ IsOpen(id) => f[id].node = ep[id].node /\ f[id].type = ep[id].type
    /\ \A id \in S \cap Ids : f[id] = Closed

LEMMA EndpointNotClosed == Closed \notin Endpoint
BY DEF Closed, Endpoint, Types

LEMMA OpenIsEndpoint ==
    ASSUME EpTypeOK, NEW id \in Ids
    PROVE IsOpen(id) <=> ep[id] \in Endpoint
BY EndpointNotClosed DEF EpTypeOK, IsOpen

LEMMA SetRemoteIs ==
    ASSUME EpTypeOK, NEW S \in SUBSET Ids, \A id \in S : IsOpen(id),
           NEW a \in Addrs \cup {NoAddr}
    PROVE EpKeeps(SetRemote(S, a), {})
<1> DEFINE f == SetRemote(S, a)
<1>1. ASSUME NEW id \in Ids
      PROVE /\ f[id] \in Endpoint \cup {Closed} /\ (f[id] # Closed <=> IsOpen(id))
            /\ IsOpen(id) => f[id].node = ep[id].node /\ f[id].type = ep[id].type
    <2>1. CASE id \notin S
        <3>1. f[id] = ep[id]
            BY <2>1 DEF SetRemote
        <3> QED BY <3>1 DEF EpTypeOK, IsOpen
    <2>2. CASE id \in S
        <3> DEFINE p == [ep[id] EXCEPT !.remote = a]
        <3>1. f[id] = p
            BY <2>2 DEF SetRemote
        <3>2. ep[id] \in Endpoint
            BY <2>2, OpenIsEndpoint
        <3>3. p \in Endpoint /\ p.node = ep[id].node /\ p.type = ep[id].type
            BY <3>2, AddrAssumption DEF Endpoint
        <3> HIDE DEF p
        <3> QED BY <2>2, <3>1, <3>3, EndpointNotClosed
    <2> QED BY <2>1, <2>2
<1>2. f \in [Ids -> Endpoint \cup {Closed}]
    BY <1>1 DEF SetRemote
<1> QED BY <1>1, <1>2 DEF EpKeeps

LEMMA AddLinkIs ==
    ASSUME EpTypeOK, NEW id \in Ids, IsOpen(id), NEW S \in SUBSET Addrs
    PROVE EpKeeps(datahub_add_link(id, S), {})
<1> DEFINE p == [ep[id] EXCEPT !.links = ep[id].links \cup S]
           f == datahub_add_link(id, S)
<1>1. ep[id] \in Endpoint
    BY OpenIsEndpoint
<1>2. p \in Endpoint /\ p.node = ep[id].node /\ p.type = ep[id].type
    BY <1>1 DEF Endpoint
<1>3. f = [ep EXCEPT ![id] = p]
    BY DEF datahub_add_link
<1> HIDE DEF p, f
<1>4. f \in [Ids -> Endpoint \cup {Closed}] /\ \A i \in Ids : f[i] = IF i = id THEN p ELSE ep[i]
    BY <1>2, <1>3 DEF EpTypeOK
<1> QED BY <1>2, <1>4, EndpointNotClosed DEF EpKeeps, IsOpen, f

LEMMA MessagelinkConnectIs ==
    ASSUME EpTypeOK, NEW S \in SUBSET Ids, \A id \in S : IsOpen(id),
           NEW a \in Addrs, NEW local \in [S -> Addrs]
    PROVE EpKeeps(client_messagelink_connect(S, a, local), {})
<1> DEFINE f == client_messagelink_connect(S, a, local)
<1>1. ASSUME NEW id \in Ids
      PROVE /\ f[id] \in Endpoint \cup {Closed} /\ (f[id] # Closed <=> IsOpen(id))
            /\ IsOpen(id) => f[id].node = ep[id].node /\ f[id].type = ep[id].type
    <2>1. CASE id \notin S
        <3>1. f[id] = ep[id]
            BY <2>1 DEF client_messagelink_connect
        <3> QED BY <3>1 DEF EpTypeOK, IsOpen
    <2>2. CASE id \in S
        <3> DEFINE p == IF Listening(a) THEN [ep[id] EXCEPT !.remote = a, !.addr = local[id]]
                        ELSE [ep[id] EXCEPT !.remote = NoAddr, !.addr = Addr0]
        <3>1. f[id] = p
            BY <2>2 DEF client_messagelink_connect
        <3>2. ep[id] \in Endpoint /\ local[id] \in Addrs
            BY <2>2, OpenIsEndpoint
        <3>3. p \in Endpoint /\ p.node = ep[id].node /\ p.type = ep[id].type
            BY <3>2, AddrAssumption DEF Endpoint
        <3> HIDE DEF p
        <3> QED BY <2>2, <3>1, <3>3, EndpointNotClosed
    <2> QED BY <2>1, <2>2
<1>2. f \in [Ids -> Endpoint \cup {Closed}]
    BY <1>1 DEF client_messagelink_connect
<1> QED BY <1>1, <1>2 DEF EpKeeps

LEMMA DeleteEndpointsIs ==
    ASSUME EpTypeOK, NEW S \in SUBSET Ids
    PROVE EpKeeps(DeleteEndpoints(S), S)
<1> DEFINE f == DeleteEndpoints(S)
           lost == {ep[id].addr : id \in {i \in S : ep[i].type = "messagehub"}}
<1>0. f = [id \in Ids |-> IF id \in S THEN Closed
                          ELSE IF ep[id].type = "messagelink" /\ ep[id].remote \in lost
                          THEN [ep[id] EXCEPT !.remote = NoAddr, !.addr = Addr0]
                          ELSE ep[id]]
    BY DEF DeleteEndpoints
<1> HIDE DEF f, lost
<1>1. ASSUME NEW id \in Ids \ S
      PROVE /\ f[id] \in Endpoint \cup {Closed} /\ (f[id] # Closed <=> IsOpen(id))
            /\ IsOpen(id) => f[id].node = ep[id].node /\ f[id].type = ep[id].type
    <2>1. CASE f[id] = ep[id]
        BY <2>1 DEF EpTypeOK, IsOpen
    <2>2. CASE /\ ep[id].type = "messagelink"
               /\ f[id] = [ep[id] EXCEPT !.remote = NoAddr, !.addr = Addr0]
        <3> DEFINE p == [ep[id] EXCEPT !.remote = NoAddr, !.addr = Addr0]
        <3>1. ep[id] \in Endpoint
            BY <2>2 DEF EpTypeOK, Closed
        <3>2. p \in Endpoint /\ p.node = ep[id].node /\ p.type = ep[id].type
            BY <3>1, AddrAssumption DEF Endpoint
        <3>3. f[id] = p
            BY <2>2
        <3> HIDE DEF p
        <3> QED BY <3>1, <3>2, <3>3, EndpointNotClosed, OpenIsEndpoint
    <2> QED BY <1>0, <2>1, <2>2
<1>2. \A id \in S : f[id] = Closed
    BY <1>0
<1>3. f \in [Ids -> Endpoint \cup {Closed}]
    BY <1>0, <1>1, <1>2
<1> QED BY <1>1, <1>2, <1>3 DEF EpKeeps, f

-----------------------------------------------------------------------------
(* Steps that leave a part of the invariant alone                          *)

LEMMA KnownIds ==
    ASSUME DTypeOK, NEW n \in Nodes
    PROVE /\ MadeIds \subseteq Ids
          /\ OwnIds(preg[n]) \subseteq MadeIds /\ IdsOf(preg[n]) \subseteq MadeIds
          /\ app[n].pc \in {"register", "connect", "unregister"} => app[n].entry.id \in MadeIds
<1>1. MadeIds \subseteq Ids
    BY DEF DTypeOK, MadeIds, Entry
<1>2. ASSUME NEW i \in 1..Len(preg[n]) PROVE preg[n][i].id \in MadeIds
    <2>1. preg[n] \in Seq(Listed(MadeIds))
        BY DEF DTypeOK
    <2>2. preg[n][i] \in Listed(MadeIds)
        BY <2>1, ElementOfSeq
    <2> QED BY <2>2 DEF Listed
<1>3. app[n] \in AppsOf(MadeIds)
    BY DEF DTypeOK
<1>4. app[n].pc \in {"register", "connect", "unregister"} => app[n].entry.id \in MadeIds
    BY <1>3, AppKinds DEF Listed
<1> QED BY <1>1, <1>2, <1>4 DEF OwnIds, IdsOf

LEMMA RegisteredAlone ==
    ASSUME RegisteredOnce, IdsOnce(central'), IdsOf(central') \subseteq IdsOf(central),
           \A n \in Nodes : /\ RegsOnce(up'[n]) /\ RegIds(up'[n]) \subseteq RegIds(up[n])
                            /\ Pending(n)' \subseteq Pending(n)
    PROVE RegisteredOnce'
<1>1. IdsOnce(central)'
    OBVIOUS
<1>2. ASSUME NEW n \in Nodes
      PROVE /\ RegsOnce(up[n])' /\ (RegIds(up[n]) \cap IdsOf(central) = {})'
            /\ (Pending(n) \cap IdsOf(central) = {})'
            /\ \A m \in Nodes :
                /\ (Pending(n) \cap RegIds(up[m]) = {})'
                /\ m # n => /\ (Pending(n) \cap Pending(m) = {})'
                            /\ (RegIds(up[n]) \cap RegIds(up[m]) = {})'
    BY DEF RegisteredOnce
<1> QED BY <1>1, <1>2 DEF RegisteredOnce

LEMMA WithdrawnAlone ==
    ASSUME Withdrawn,
           \A n \in Nodes, id \in Ids :
                id \in WithdrawnAt(n)' => id \in WithdrawnAt(n) \/ ~IsOpen(id),
           \A id \in Ids : IsOpen(id)' => IsOpen(id)
    PROVE Withdrawn'
BY DEF Withdrawn

LEMMA OwnedAlone ==
    ASSUME Owned, OpenIsOwned, DTypeOK, DTypeOK', EpKeeps(ep', {}),
           \A n \in Nodes : SameEntries(preg[n], preg'[n]),
           \A n \in Nodes : \/ app'[n] = app[n]
                            \/ app'[n].pc = "idle" /\ app[n].pc # "unregister"
                            \/ /\ app'[n].pc = "connect" /\ app[n].pc = "register"
                               /\ app'[n].entry = app[n].entry
    PROVE Owned' /\ OpenIsOwned'
<1>1. \A id \in Ids : /\ IsOpen(id)' <=> IsOpen(id)
                      /\ IsOpen(id) => ep'[id].node = ep[id].node /\ ep'[id].type = ep[id].type
    BY DEF EpKeeps, IsOpen
<1>2. ASSUME NEW n \in Nodes PROVE OwnedAt(n)'
    <2>1. OwnedAt(n) /\ SameEntries(preg[n], preg'[n])
        BY DEF Owned
    <2>2. /\ OwnIds(preg[n]) \subseteq Ids
          /\ app[n].pc \in {"register", "connect", "unregister"} => app[n].entry.id \in Ids
        BY KnownIds
    <2>3. OwnFirst(preg'[n]) /\ OwnIds(preg'[n]) = OwnIds(preg[n])
        BY <2>1 DEF SameEntries, OwnedAt
    <2>4. \A id \in OwnIds(preg'[n]) : IsOpen(id)' /\ ep'[id].node = n
        BY <1>1, <2>1, <2>2, <2>3 DEF OwnedAt
    <2>5. ASSUME NEW id, NEW type, Owns(preg'[n], id, type) PROVE ep'[id].type = type
        <3>1. Owns(preg[n], id, type) /\ id \in OwnIds(preg[n])
            BY <2>1, <2>5, SMTT(30) DEF SameEntries, Owns, OwnIds
        <3> QED BY <1>1, <2>1, <2>2, <3>1, SMTT(30) DEF OwnedAt
    <2>6. \/ app'[n] = app[n] \/ app'[n].pc = "idle"
          \/ /\ app'[n].pc = "connect" /\ app[n].pc = "register"
             /\ app'[n].entry = app[n].entry
        OBVIOUS
    <2>7. /\ app'[n].pc \in {"register", "connect"} => app'[n].entry.id \in OwnIds(preg'[n])
          /\ app'[n].pc = "unregister" =>
                /\ app'[n].entry.id \notin OwnIds(preg'[n])
                /\ ep'[app'[n].entry.id] # Closed /\ ep'[app'[n].entry.id].node = n
        <3>1. CASE app'[n] = app[n]
            <4>1. ASSUME app[n].pc = "unregister"
                  PROVE /\ IsOpen(app[n].entry.id)' /\ ep'[app[n].entry.id].node = n
                        /\ app[n].entry.id \notin OwnIds(preg[n])
                BY <1>1, <2>1, <2>2, <4>1 DEF OwnedAt
            <4> QED BY <2>1, <2>3, <3>1, <4>1 DEF OwnedAt, IsOpen
        <3>2. CASE app'[n].pc = "idle"
            BY <3>2
        <3>3. CASE /\ app'[n].pc = "connect" /\ app[n].pc = "register"
                   /\ app'[n].entry = app[n].entry
            BY <2>1, <2>3, <3>3 DEF OwnedAt
        <3> QED BY <2>6, <3>1, <3>2, <3>3
    <2> QED BY <2>3, <2>4, <2>5, <2>7 DEF OwnedAt, IsOpen
<1>3. OpenIsOwned'
    <2> SUFFICES ASSUME NEW id \in Ids, IsOpen(id)'
                 PROVE \/ id \in OwnIds(preg'[ep'[id].node])
                       \/ /\ app'[ep'[id].node].pc = "unregister"
                          /\ app'[ep'[id].node].entry.id = id
        BY DEF OpenIsOwned
    <2>1. IsOpen(id) /\ ep'[id].node = ep[id].node
        BY <1>1
    <2>2. ep[id].node \in Nodes
        BY <2>1, OpenIsEndpoint DEF DTypeOK, EpTypeOK, Endpoint
    <2>3. OwnIds(preg'[ep[id].node]) = OwnIds(preg[ep[id].node])
        BY <2>2 DEF SameEntries
    <2>4. app'[ep[id].node] = app[ep[id].node] \/ app[ep[id].node].pc # "unregister"
        BY <2>2
    <2> QED BY <2>1, <2>3, <2>4 DEF OpenIsOwned
<1> QED BY <1>2, <1>3 DEF Owned

(* The request for the list, its copy and the list, in the central         *)
(* registry and on the way                                                 *)
LEMMA ListedAlone ==
    ASSUME DTypeOK, NEW n \in Nodes, ListedOnceAt(n),
           UNCHANGED <<status, conn, reader, preg, app>>,
           status[n] = "none" => up'[n] = <<>> /\ handler'[n].pc = "none",
           conn[n] # "open" => down'[n] = <<>>,
           Lists(up'[n]) # {} =>
                up'[n] = up[n] /\ handler'[n].pc # "list" /\ Lists(down'[n]) = {},
           handler'[n].pc = "list" =>
                Lists(down'[n]) = {} /\ (Lists(up[n]) # {} \/ handler[n].pc = "list"),
           Lists(down'[n]) # {} => Lists(down[n]) # {} \/ handler[n].pc = "list",
           \A i, j \in Lists(down'[n]) : i = j
    PROVE ListedOnceAt(n)'
<1>1. Lists(<<>>) = {}
    BY DEF Lists
<1>2. Lists(down'[n]) # {} => conn[n] = "open"
    BY <1>1
<1>3. ASSUME Lists(up'[n]) # {}
      PROVE /\ Len(up'[n]) = 1 /\ status[n] \in {"initializing", "gone"}
            /\ reader[n] = IdleReader
    BY <1>3 DEF ListedOnceAt
<1>4. ASSUME handler'[n].pc = "list"
      PROVE status[n] \in {"initializing", "gone"} /\ reader[n] = IdleReader
    BY <1>4 DEF ListedOnceAt
<1>5. ASSUME Lists(down'[n]) # {}
      PROVE status[n] = "initializing" /\ reader[n] = IdleReader
    BY <1>2, <1>5 DEF ListedOnceAt
<1> QED BY <1>3, <1>4, <1>5 DEF ListedOnceAt

-----------------------------------------------------------------------------
(* The central registry                                                    *)

LEMMA ProxiesAlone ==
    ASSUME Owned, OpenIsOwned, UNCHANGED proxyVars
    PROVE Owned' /\ OpenIsOwned' /\ MadeIds' = MadeIds
BY DEF proxyVars, Owned, OwnedAt, OpenIsOwned, IsOpen, MadeIds

(* A message that is sent to the proxy of n                                *)
LEMMA SendToIs ==
    ASSUME DTypeOK, NEW n \in Nodes, NEW msg \in MessagesOf(MadeIds),
           down' = SendTo({n}, msg)
    PROVE /\ down' \in [Nodes -> Seq(MessagesOf(MadeIds))]
          /\ \A m \in Nodes :
                /\ conn[m] # "open" \/ m # n => down'[m] = down[m]
                /\ m = n /\ conn[m] = "open" => down'[m] = Append(down[m], msg)
<1>1. \A m \in Nodes : down'[m] = IF m = n /\ conn[m] = "open" THEN Append(down[m], msg)
                                  ELSE down[m]
    BY DEF SendTo, CanSend
<1>2. \A m \in Nodes : down[m] \in Seq(MessagesOf(MadeIds))
    BY DEF DTypeOK
<1>3. \A m \in Nodes : down'[m] \in Seq(MessagesOf(MadeIds))
    <2>1. \A m \in Nodes : Append(down[m], msg) \in Seq(MessagesOf(MadeIds))
        BY <1>2, AppendProperties
    <2> QED BY <1>1, <1>2, <2>1
<1>4. DOMAIN down' = Nodes /\ down' = [m \in Nodes |-> down'[m]]
    BY DEF SendTo
<1> QED BY <1>1, <1>3, <1>4

(* The messages to the proxies, after a response                           *)
SameMessages ==
    /\ down' \in [Nodes -> Seq(MessagesOf(MadeIds))]
    /\ \A m \in Nodes : /\ RemovedIds(down'[m]) = RemovedIds(down[m])
                        /\ Lists(down'[m]) = Lists(down[m])
                        /\ conn[m] # "open" => down'[m] = down[m]

LEMMA ResponseIs ==
    ASSUME DTypeOK, NEW n \in Nodes, NEW r \in {"register", "unregister", "update-address"},
           NEW ok \in BOOLEAN, down' = SendTo({n}, Response(r, ok))
    PROVE SameMessages
<1> DEFINE msg == Response(r, ok)
<1>1. msg \in MessagesOf(MadeIds) /\ msg.kind = "response"
    BY DEF Response, MessagesOf
<1> HIDE DEF msg
<1>2. down' = SendTo({n}, msg)
    BY DEF msg
<1>3. ASSUME NEW m \in Nodes
      PROVE /\ RemovedIds(down'[m]) = RemovedIds(down[m])
            /\ Lists(down'[m]) = Lists(down[m])
    <2>1. CASE down'[m] = down[m]
        BY <2>1
    <2>2. CASE down'[m] = Append(down[m], msg)
        <3>1. down[m] \in Seq(MessagesOf(MadeIds))
            BY DEF DTypeOK
        <3>2. /\ RemovedIds(Append(down[m], msg)) = RemovedIds(down[m])
              /\ Lists(Append(down[m], msg)) = Lists(down[m])
            BY <1>1, <3>1, AppendOtherIs
        <3> QED BY <2>2, <3>2
    <2> QED BY <1>1, <1>2, <2>1, <2>2, SendToIs
<1> QED BY <1>1, <1>2, <1>3, SendToIs DEF SameMessages

(* A handler takes a request.                                              *)
TakesRequest(n) ==
    /\ handler[n] = Idle /\ up[n] # <<>>
    /\ up' = [up EXCEPT ![n] = Tail(@)]
    /\ UNCHANGED <<conn, links, proxyVars, raced>>

LEMMA RequestIs ==
    ASSUME DInv, NEW n \in Nodes, TakesRequest(n)
    PROVE /\ up' \in [Nodes -> Seq(RequestsOf(MadeIds))]
          /\ Head(up[n]) \in RequestsOf(MadeIds)
          /\ status[n] # "none"
          /\ \A m \in Nodes : /\ RegsOnce(up'[m]) /\ RegIds(up'[m]) \subseteq RegIds(up[m])
                              /\ UnregIds(up'[m]) \subseteq UnregIds(up[m])
                              /\ m # n => up'[m] = up[m]
          /\ Lists(up'[n]) = {}
          /\ Head(up[n]).kind = "list" => Lists(up[n]) # {}
          /\ Head(up[n]).kind = "unregister" => Head(up[n]).id \in UnregIds(up[n])
          /\ Head(up[n]).kind = "register" =>
                /\ Head(up[n]).entry.id \in RegIds(up[n])
                /\ Head(up[n]).entry.id \notin RegIds(up'[n])
<1> DEFINE q == up[n]
<1>1. q \in Seq(RequestsOf(MadeIds)) /\ q # <<>> /\ RegsOnce(q) /\ up'[n] = Tail(q)
      /\ \A m \in Nodes \ {n} : up'[m] = up[m]
    BY DEF DInv, DTypeOK, TakesRequest, RegisteredOnce
<1>2. /\ Head(q) \in RequestsOf(MadeIds) /\ Tail(q) \in Seq(RequestsOf(MadeIds))
      /\ PartOf(q, Tail(q))
      /\ Head(q).kind = "register" =>
            Head(q).entry.id \in RegIds(q) /\ Head(q).entry.id \notin RegIds(Tail(q))
      /\ Head(q).kind = "unregister" => Head(q).id \in UnregIds(q)
      /\ Head(q).kind = "list" => Lists(q) # {}
    BY <1>1, TailIs
<1>3. Lists(Tail(q)) = {}
    <2>1. CASE Lists(q) = {}
        BY <1>2, <2>1 DEF PartOf
    <2>2. CASE Lists(q) # {}
        <3>1. Len(q) = 1
            BY <2>2 DEF DInv, ListedOnce, ListedOnceAt
        <3>2. \A i, j \in Lists(q) : i = j
            BY <3>1 DEF Lists
        <3>3. q[1].kind = "list" /\ Head(q) = q[1]
            BY <1>1, <2>2, <3>1 DEF Lists
        <3> QED BY <1>1, <3>2, <3>3, TailIs
    <2> QED BY <2>1, <2>2
<1>4. status[n] # "none"
    BY <1>1 DEF DInv, ListedOnce, ListedOnceAt
<1>5. up' \in [Nodes -> Seq(RequestsOf(MadeIds))]
    BY <1>2 DEF DInv, DTypeOK, TakesRequest
<1>6. \A m \in Nodes : RegsOnce(up[m])
    BY DEF DInv, RegisteredOnce
<1> QED BY <1>1, <1>2, <1>3, <1>4, <1>5, <1>6 DEF PartOf

LEMMA RequestStep ==
    ASSUME DInv, NEW n \in Nodes, TakesRequest(n), RegisteredOnce',
           central' \in Seq(Foreign(MadeIds)),
           NEW h \in HandlersOf(MadeIds), handler' = [handler EXCEPT ![n] = h],
           \A id \in Ids : id \in ToRemove(h) => ~IsOpen(id),
           h.pc = "list" => Head(up[n]).kind = "list",
           SameMessages
    PROVE DInv'
<1>1. Owned' /\ OpenIsOwned' /\ MadeIds' = MadeIds
    BY ProxiesAlone DEF DInv, TakesRequest
<1>2. handler' \in [Nodes -> HandlersOf(MadeIds)] /\ handler'[n] = h
      /\ \A m \in Nodes \ {n} : handler'[m] = handler[m]
    BY DEF DInv, DTypeOK
<1>3. DTypeOK'
    BY <1>1, <1>2, RequestIs
       DEF DInv, DTypeOK, TakesRequest, proxyVars, SameMessages, IsOpen
<1>4. Withdrawn'
    <2>1. ASSUME NEW m \in Nodes, NEW id \in Ids, id \in WithdrawnAt(m)'
          PROVE id \in WithdrawnAt(m) \/ ~IsOpen(id)
        <3>1. /\ UnregIds(up'[m]) \subseteq UnregIds(up[m])
              /\ RemovedIds(down'[m]) = RemovedIds(down[m])
              /\ id \in ToRemove(handler'[m]) => id \in ToRemove(handler[m]) \/ ~IsOpen(id)
            BY <1>2, RequestIs DEF SameMessages
        <3> QED BY <2>1, <3>1 DEF WithdrawnAt
    <2>2. \A id \in Ids : IsOpen(id)' => IsOpen(id)
        BY DEF TakesRequest, proxyVars, IsOpen
    <2> QED BY <2>1, <2>2, WithdrawnAlone DEF DInv
<1>5. ASSUME NEW m \in Nodes PROVE ListedOnceAt(m)'
    <2>1. /\ ListedOnceAt(m) /\ DTypeOK
          /\ UNCHANGED <<status, conn, reader, preg, app>>
        BY DEF DInv, ListedOnce, TakesRequest, proxyVars
    <2>2. Lists(down'[m]) = Lists(down[m]) /\ (conn[m] # "open" => down'[m] = <<>>)
        BY <2>1 DEF SameMessages, ListedOnceAt
    <2>3. \A i, j \in Lists(down'[m]) : i = j
        BY <2>1, <2>2 DEF ListedOnceAt
    <2>4. CASE m = n
        <3>1. Lists(up'[m]) = {} /\ status[m] # "none"
            BY <2>4, RequestIs
        <3>2. handler'[m].pc = "list" => Lists(up[m]) # {}
            BY <1>2, <2>4, RequestIs
        <3>3. Lists(up[m]) # {} => Lists(down[m]) = {}
            BY <2>1 DEF ListedOnceAt
        <3> QED BY <2>1, <2>2, <2>3, <3>1, <3>2, <3>3, ListedAlone
    <2>5. CASE m # n
        <3>1. up'[m] = up[m] /\ handler'[m] = handler[m]
            BY <1>2, <2>5, RequestIs
        <3>2. /\ status[m] = "none" => up'[m] = <<>> /\ handler'[m].pc = "none"
              /\ Lists(up'[m]) # {} => handler'[m].pc # "list" /\ Lists(down'[m]) = {}
              /\ handler'[m].pc = "list" => Lists(down'[m]) = {} /\ handler[m].pc = "list"
            BY <2>1, <2>2, <3>1 DEF ListedOnceAt
        <3> QED BY <2>1, <2>2, <2>3, <3>1, <3>2, ListedAlone
    <2> QED BY <2>4, <2>5
<1> QED BY <1>1, <1>3, <1>4, <1>5 DEF DInv, ListedOnce

(* The id is registered for the first time.                                *)
LEMMA RegisterStep ==
    ASSUME DInv, NEW n \in Nodes, rcregistry_register(n), UNCHANGED <<proxyVars, raced>>
    PROVE DInv'
<1> DEFINE e == Head(up[n]).entry
           h == [pc |-> "announce", response |-> "register", event |-> AddEvent(e),
                 exclude |-> {}]
<1>1. /\ TakesRequest(n) /\ Head(up[n]).kind = "register"
      /\ central' = registry_insert(central, e) /\ handler' = [handler EXCEPT ![n] = h]
      /\ down' = down
    BY DEF rcregistry_register, HasRequest, Announce, TakesRequest
<1>2. e \in Foreign(MadeIds)
    BY <1>1, RequestIs, RequestKinds
<1>3. h \in HandlersOf(MadeIds) /\ h.pc = "announce" /\ ToRemove(h) = {}
    <2>1. registry_entry_encode(e) \in Foreign(MadeIds)
        BY <1>2, EncodeIs DEF Foreign
    <2>2. AddEvent(e) \in EventsOf(MadeIds) /\ AddEvent(e).kind = "proxy-add"
        BY <2>1 DEF AddEvent, EventsOf
    <2> QED BY <2>2 DEF HandlersOf, ToRemove
<1>4. SameMessages
    BY <1>1 DEF SameMessages, DInv, DTypeOK, ListedOnce, ListedOnceAt
<1>5. /\ central' \in Seq(Foreign(MadeIds)) /\ IdsOf(central') = IdsOf(central) \cup {e.id}
      /\ IdsOnce(central) /\ e.id \notin IdsOf(central) => IdsOnce(central')
    <2>1. central \in Seq(Foreign(MadeIds))
        BY DEF DInv, DTypeOK
    <2> HIDE DEF e
    <2> QED BY <1>1, <1>2, <2>1, InsertIs
<1>6. RegisteredOnce'
    <2> HIDE DEF e, h
    <2>1. e.id \in RegIds(up[n]) /\ e.id \notin RegIds(up'[n])
          /\ \A m \in Nodes : /\ RegsOnce(up'[m]) /\ RegIds(up'[m]) \subseteq RegIds(up[m])
                              /\ Pending(m)' = Pending(m)
        BY <1>1, RequestIs DEF e, TakesRequest, proxyVars, Pending
    <2>2. /\ IdsOnce(central) /\ e.id \notin IdsOf(central)
          /\ \A m \in Nodes : e.id \notin Pending(m) /\ e.id \notin RegIds(up'[m])
        BY <2>1 DEF DInv, RegisteredOnce
    <2>3. IdsOnce(central')
        BY <1>5, <2>2
    <2>4. ASSUME NEW m \in Nodes
          PROVE RegIds(up'[m]) \cap IdsOf(central') = {} /\ Pending(m)' \cap IdsOf(central') = {}
        BY <1>5, <2>1, <2>2 DEF DInv, RegisteredOnce
    <2>5. ASSUME NEW m \in Nodes, NEW k \in Nodes
          PROVE /\ Pending(m)' \cap RegIds(up'[k]) = {}
                /\ k # m => /\ Pending(m)' \cap Pending(k)' = {}
                            /\ RegIds(up'[m]) \cap RegIds(up'[k]) = {}
        BY <2>1 DEF DInv, RegisteredOnce
    <2> QED BY <2>1, <2>3, <2>4, <2>5 DEF RegisteredOnce
<1> HIDE DEF e, h
<1> QED BY <1>1, <1>3, <1>4, <1>5, <1>6, RequestStep

(* A step in which no id is registered                                     *)
LEMMA RequestNotRegister ==
    ASSUME DInv, NEW n \in Nodes, TakesRequest(n),
           IdsOnce(central'), IdsOf(central') \subseteq IdsOf(central)
    PROVE RegisteredOnce'
<1>1. \A m \in Nodes : /\ RegsOnce(up'[m]) /\ RegIds(up'[m]) \subseteq RegIds(up[m])
                       /\ Pending(m)' = Pending(m)
    BY RequestIs DEF TakesRequest, proxyVars, Pending
<1> QED BY <1>1, RegisteredAlone DEF DInv

LEMMA DownUnchanged == ASSUME DInv, down' = down PROVE SameMessages
BY DEF SameMessages, DInv, DTypeOK

(* The id that is withdrawn is in the request.                             *)
LEMMA UnregisterStep ==
    ASSUME DInv, NEW n \in Nodes, rcregistry_unregister(n), UNCHANGED <<proxyVars, raced>>
    PROVE DInv'
<1> DEFINE id == Head(up[n]).id
           h == [pc |-> "announce", response |-> "unregister", event |-> RemoveEvent(id),
                 exclude |-> {}]
<1>1. /\ TakesRequest(n) /\ Head(up[n]).kind = "unregister"
      /\ central' = registry_delete(central, id)
      /\ \/ handler' = [handler EXCEPT ![n] = h] /\ down' = down
         \/ down' = SendTo({n}, Response("unregister", FALSE)) /\ handler' = handler
    BY DEF rcregistry_unregister, HasRequest, Announce, TakesRequest
<1>2. id \in MadeIds /\ id \in UnregIds(up[n])
    BY <1>1, RequestIs, RequestKinds
<1>3. h \in HandlersOf(MadeIds) /\ h.pc = "announce" /\ ToRemove(h) = {id}
    <2>1. RemoveEvent(id) \in EventsOf(MadeIds) /\ RemoveEvent(id).kind = "proxy-remove"
          /\ RemoveEvent(id).id = id
        BY <1>2 DEF RemoveEvent, EventsOf
    <2> QED BY <2>1 DEF HandlersOf, ToRemove
<1>4. id \in Ids => ~IsOpen(id)
    BY <1>2 DEF DInv, Withdrawn, WithdrawnAt
<1>5. /\ central' \in Seq(Foreign(MadeIds)) /\ IdsOf(central') \subseteq IdsOf(central)
      /\ IdsOnce(central')
    <2>1. central \in Seq(Foreign(MadeIds)) /\ IdsOnce(central)
        BY DEF DInv, DTypeOK, RegisteredOnce
    <2> HIDE DEF id
    <2> QED BY <1>1, <2>1, DeleteIs
<1>6. RegisteredOnce'
    BY <1>1, <1>5, RequestNotRegister
<1>7. SameMessages
    BY <1>1, DownUnchanged, ResponseIs DEF DInv
<1>8. CASE handler' = [handler EXCEPT ![n] = h]
    <2> HIDE DEF id, h
    <2> QED BY <1>1, <1>3, <1>4, <1>5, <1>6, <1>7, <1>8, RequestStep
<1>9. CASE handler' = handler
    <2>1. handler' = [handler EXCEPT ![n] = Idle]
        BY <1>1, <1>9 DEF TakesRequest, DInv, DTypeOK
    <2>2. Idle \in HandlersOf(MadeIds) /\ ToRemove(Idle) = {} /\ Idle.pc # "list"
        BY DEF Idle, HandlersOf, ToRemove
    <2> HIDE DEF id, h
    <2> QED BY <1>1, <1>5, <1>6, <1>7, <2>1, <2>2, RequestStep
<1> QED BY <1>1, <1>8, <1>9

LEMMA UpdateAddressStep ==
    ASSUME DInv, NEW n \in Nodes, rcregistry_update_address(n),
           UNCHANGED <<proxyVars, raced>>
    PROVE DInv'
<1> DEFINE id == Head(up[n]).id
           a == Head(up[n]).addr
           h == [pc |-> "announce", response |-> "update-address",
                 event |-> UpdateAddressEvent(id, a), exclude |-> {n}]
<1>1. /\ TakesRequest(n) /\ Head(up[n]).kind = "update-address"
      /\ central' = registry_update_addr(central, id, a)
      /\ handler' = [handler EXCEPT ![n] = h] /\ down' = down
    BY DEF rcregistry_update_address, HasRequest, Announce, TakesRequest
<1>2. id \in Ids /\ a \in Addrs
    BY <1>1, RequestIs, RequestKinds
<1>3. h \in HandlersOf(MadeIds) /\ h.pc = "announce" /\ ToRemove(h) = {}
    <2>1. /\ UpdateAddressEvent(id, a) \in EventsOf(MadeIds)
          /\ UpdateAddressEvent(id, a).kind = "proxy-update-address"
        BY <1>2 DEF UpdateAddressEvent, EventsOf
    <2> QED BY <2>1 DEF HandlersOf, ToRemove
<1>4. /\ central' \in Seq(Foreign(MadeIds)) /\ IdsOf(central') = IdsOf(central)
      /\ IdsOnce(central')
    <2>1. central \in Seq(Foreign(MadeIds)) /\ IdsOnce(central)
        BY DEF DInv, DTypeOK, RegisteredOnce
    <2> HIDE DEF id, a
    <2>2. central' \in Seq(Foreign(MadeIds)) /\ SameNames(central, central')
        BY <1>1, <1>2, <2>1, UpdateIs
    <2> QED BY <2>1, <2>2, SameNamesIs
<1>5. RegisteredOnce' /\ SameMessages
    BY <1>1, <1>4, RequestNotRegister, DownUnchanged
<1> HIDE DEF id, a, h
<1> QED BY <1>1, <1>3, <1>4, <1>5, RequestStep

LEMMA SelectListStep ==
    ASSUME DInv, NEW n \in Nodes, rcregistry_select_list(n), UNCHANGED <<proxyVars, raced>>
    PROVE DInv'
<1> DEFINE h == [pc |-> "list", list |-> registry_entry_encode_list(central)]
<1>1. /\ TakesRequest(n) /\ Head(up[n]).kind = "list"
      /\ central' = central /\ handler' = [handler EXCEPT ![n] = h] /\ down' = down
    BY DEF rcregistry_select_list, HasRequest, TakesRequest
<1>2. central \in Seq(Foreign(MadeIds)) /\ IdsOnce(central)
    BY DEF DInv, DTypeOK, RegisteredOnce
<1>3. h \in HandlersOf(MadeIds) /\ ToRemove(h) = {}
    BY <1>2, EncodeListIs DEF HandlersOf, ToRemove
<1>4. RegisteredOnce' /\ SameMessages
    BY <1>1, <1>2, RequestNotRegister, DownUnchanged
<1> HIDE DEF h
<1> QED BY <1>1, <1>2, <1>3, <1>4, RequestStep

(* The steps of a handler that takes no request                            *)
LEMMA HandlerStep ==
    ASSUME DInv, NEW n \in Nodes,
           UNCHANGED <<conn, up, central, proxyVars>>,
           links' \subseteq Nodes, raced' \in [Nodes -> SUBSET Ids],
           NEW pc \in {"idle", "done"}, handler' = [handler EXCEPT ![n] = [pc |-> pc]],
           status[n] # "none",
           down' \in [Nodes -> Seq(MessagesOf(MadeIds))],
           \A m \in Nodes : conn[m] # "open" => down'[m] = down[m],
           \A m \in Nodes : RemovedIds(down'[m]) \subseteq RemovedIds(down[m]) \cup ToRemove(handler[n]),
           \A m \in Nodes : \/ Lists(down'[m]) = Lists(down[m])
                            \/ /\ m = n /\ handler[n].pc = "list"
                               /\ \A i, j \in Lists(down'[m]) : i = j
    PROVE DInv'
<1>1. Owned' /\ OpenIsOwned' /\ MadeIds' = MadeIds
    BY ProxiesAlone DEF DInv
<1>2. /\ handler' \in [Nodes -> HandlersOf(MadeIds)] /\ handler'[n] = [pc |-> pc]
      /\ \A m \in Nodes \ {n} : handler'[m] = handler[m]
    BY DEF DInv, DTypeOK, HandlersOf
<1>3. DTypeOK'
    BY <1>1, <1>2 DEF DInv, DTypeOK, proxyVars, IsOpen
<1>4. RegisteredOnce'
    BY DEF DInv, RegisteredOnce, Pending, proxyVars
<1>5. Withdrawn'
    <2>1. ASSUME NEW m \in Nodes, NEW id \in Ids, id \in WithdrawnAt(m)' PROVE ~IsOpen(id)
        <3>1. id \in WithdrawnAt(m) \/ id \in ToRemove(handler[n])
            BY <1>2, <2>1 DEF WithdrawnAt, ToRemove
        <3>2. id \in ToRemove(handler[n]) => id \in WithdrawnAt(n)
            BY DEF WithdrawnAt
        <3> QED BY <3>1, <3>2 DEF DInv, Withdrawn
    <2>2. \A id \in Ids : IsOpen(id)' => IsOpen(id)
        BY DEF proxyVars, IsOpen
    <2> QED BY <2>1, <2>2, WithdrawnAlone DEF DInv
<1>6. ASSUME NEW m \in Nodes PROVE ListedOnceAt(m)'
    <2>1. /\ ListedOnceAt(m) /\ DTypeOK
          /\ UNCHANGED <<status, conn, reader, preg, app, up>>
        BY DEF DInv, ListedOnce, proxyVars
    <2>2. conn[m] # "open" => down'[m] = <<>>
        BY <2>1 DEF ListedOnceAt
    <2>3. handler'[m].pc = "list" => handler[m].pc = "list" /\ m # n
        BY <1>2
    <2>4. CASE Lists(down'[m]) = Lists(down[m])
        <3>1. /\ status[m] = "none" => up'[m] = <<>> /\ handler'[m].pc = "none"
              /\ Lists(up'[m]) # {} => handler'[m].pc # "list" /\ Lists(down'[m]) = {}
              /\ handler'[m].pc = "list" => Lists(down'[m]) = {}
              /\ \A i, j \in Lists(down'[m]) : i = j
            BY <1>2, <2>1, <2>3, <2>4 DEF ListedOnceAt
        <3> QED BY <2>1, <2>2, <2>3, <2>4, <3>1, ListedAlone
    <2>5. CASE /\ m = n /\ handler[n].pc = "list"
               /\ \A i, j \in Lists(down'[m]) : i = j
        <3>1. Lists(up'[m]) = {}
            BY <2>1, <2>5 DEF ListedOnceAt
        <3> QED BY <2>1, <2>2, <2>3, <2>5, <3>1, ListedAlone
    <2> QED BY <2>4, <2>5
<1> QED BY <1>1, <1>3, <1>4, <1>5, <1>6 DEF DInv, ListedOnce

LEMMA InitInv == ASSUME Init PROVE DInv
<1> USE DEF Init, NetInit, RcInit, ProxyInit
<1>1. ASSUME NEW E PROVE <<>> \in Seq(E)
    OBVIOUS
<1>2. /\ RegIds(<<>>) = {} /\ RegsOnce(<<>>) /\ UnregIds(<<>>) = {}
      /\ RemovedIds(<<>>) = {} /\ Lists(<<>>) = {}
      /\ OwnIds(<<>>) = {} /\ OwnFirst(<<>>) /\ \A id, type : ~Owns(<<>>, id, type)
    BY DEF RegIds, Registers, RegsOnce, UnregIds, RemovedIds, Lists, OwnIds, OwnFirst, Owns
<1>3. \A n \in Nodes : /\ app[n].pc = "idle" /\ reader[n] = IdleReader
                       /\ app[n] = IdleApp /\ handler[n].pc = "none"
    BY DEF IdleApp
<1>4. \A id \in Ids : ~IsOpen(id)
    BY DEF IsOpen
<1>5. DTypeOK
    <2>1. RegistryEntry \in Foreign(MadeIds)
        BY RegistryEntryAssumption DEF MadeIds, Foreign
    <2>2. central \in Seq(Foreign(MadeIds))
        BY <2>1
    <2>3. handler \in [Nodes -> HandlersOf(MadeIds)]
        BY DEF HandlersOf
    <2>4. /\ up \in [Nodes -> Seq(RequestsOf(MadeIds))]
          /\ down \in [Nodes -> Seq(MessagesOf(MadeIds))]
          /\ preg \in [Nodes -> Seq(Listed(MadeIds))]
        BY <1>1
    <2>5. app \in [Nodes -> AppsOf(MadeIds)] /\ reader \in [Nodes -> ReadersOf(MadeIds)]
        BY DEF AppsOf, ReadersOf
    <2>6. made \in SUBSET Entry
        BY RegistryEntryAssumption
    <2>7. /\ conn \in [Nodes -> {"none", "open", "closed"}] /\ links \subseteq Nodes
          /\ status \in [Nodes -> {"none", "initializing", "ready", "gone"}]
          /\ ep \in [Ids -> Endpoint \cup {Closed}]
          /\ raced \in [Nodes -> SUBSET Ids]
        OBVIOUS
    <2> QED BY <1>4, <2>2, <2>3, <2>4, <2>5, <2>6, <2>7 DEF DTypeOK
<1>6. RegisteredOnce
    <2>1. IdsOnce(central)
        <3>1. Len(central) = 1
            OBVIOUS
        <3> QED BY <3>1 DEF IdsOnce
    <2>2. \A n \in Nodes : Pending(n) = {} /\ up[n] = <<>>
        BY <1>3 DEF Pending
    <2> QED BY <1>2, <2>1, <2>2 DEF RegisteredOnce
<1>7. Owned /\ OpenIsOwned
    <2>1. \A n \in Nodes : preg[n] = <<>>
        OBVIOUS
    <2> QED BY <1>2, <1>3, <1>4, <2>1 DEF Owned, OwnedAt, OpenIsOwned
<1>8. Withdrawn
    BY <1>4 DEF Withdrawn
<1>9. ListedOnce
    <2>1. \A n \in Nodes : /\ up[n] = <<>> /\ down[n] = <<>> /\ preg[n] = <<>>
                           /\ status[n] = "none" /\ conn[n] = "none"
        OBVIOUS
    <2> QED BY <1>2, <1>3, <2>1 DEF ListedOnce, ListedOnceAt
<1> QED BY <1>5, <1>6, <1>7, <1>8, <1>9 DEF DInv

LEMMA AddLinkStep ==
    ASSUME DInv, NEW n \in Nodes, messagehub_add_link(n), UNCHANGED <<proxyVars, raced>>
    PROVE DInv'
<1>1. /\ handler[n].pc = "none" /\ conn[n] = "open" /\ links' = links \cup {n}
      /\ handler' = [handler EXCEPT ![n] = [pc |-> "idle"]]
      /\ UNCHANGED <<conn, up, down, central>>
    BY DEF messagehub_add_link, CanSend, Idle
<1>2. status[n] # "none"
    BY <1>1 DEF DInv, ListedOnce, ListedOnceAt
<1>3. /\ links' \subseteq Nodes /\ raced' \in [Nodes -> SUBSET Ids]
      /\ down' \in [Nodes -> Seq(MessagesOf(MadeIds))]
    BY <1>1 DEF DInv, DTypeOK
<1> QED BY <1>1, <1>2, <1>3, HandlerStep

LEMMA RemoveLinkStep ==
    ASSUME DInv, NEW n \in Nodes, messagehub_remove_link(n), UNCHANGED <<proxyVars, raced>>
    PROVE DInv'
<1>1. /\ conn[n] = "closed" /\ links' = links \ {n}
      /\ handler' = [handler EXCEPT ![n] = [pc |-> "done"]]
      /\ UNCHANGED <<conn, up, down, central>>
    BY DEF messagehub_remove_link
<1>2. status[n] # "none"
    BY <1>1 DEF DInv, ListedOnce, ListedOnceAt
<1>3. /\ links' \subseteq Nodes /\ raced' \in [Nodes -> SUBSET Ids]
      /\ down' \in [Nodes -> Seq(MessagesOf(MadeIds))]
    BY <1>1 DEF DInv, DTypeOK
<1> QED BY <1>1, <1>2, <1>3, HandlerStep

LEMMA SendListStep ==
    ASSUME DInv, NEW n \in Nodes, rcregistry_send_list(n), UNCHANGED <<proxyVars, raced>>
    PROVE DInv'
<1> DEFINE msg == ListResponse(handler[n].list)
<1>1. /\ handler[n].pc = "list" /\ down' = SendTo({n}, msg)
      /\ handler' = [handler EXCEPT ![n] = [pc |-> "idle"]]
      /\ UNCHANGED <<conn, up, links, central>>
    BY DEF rcregistry_send_list, Idle
<1>2. status[n] # "none" /\ Lists(down[n]) = {}
    BY <1>1 DEF DInv, ListedOnce, ListedOnceAt
<1>3. msg \in MessagesOf(MadeIds) /\ msg.kind = "list"
    <2>1. handler[n] \in HandlersOf(MadeIds)
        BY DEF DInv, DTypeOK
    <2>2. handler[n].list \in Seq(Foreign(MadeIds))
        BY <1>1, <2>1, HandlerKinds
    <2> QED BY <2>2 DEF ListResponse, MessagesOf
<1> HIDE DEF msg
<1>4. /\ down' \in [Nodes -> Seq(MessagesOf(MadeIds))]
      /\ \A m \in Nodes :
            /\ conn[m] # "open" \/ m # n => down'[m] = down[m]
            /\ m = n /\ conn[m] = "open" => down'[m] = Append(down[m], msg)
    BY <1>1, <1>3, SendToIs DEF DInv
<1>5. ASSUME NEW m \in Nodes
      PROVE /\ RemovedIds(down'[m]) \subseteq RemovedIds(down[m])
            /\ \/ Lists(down'[m]) = Lists(down[m])
               \/ /\ m = n /\ handler[n].pc = "list"
                  /\ \A i, j \in Lists(down'[m]) : i = j
    <2>1. CASE down'[m] = down[m]
        BY <2>1
    <2>2. CASE m = n /\ down'[m] = Append(down[m], msg)
        <3>1. down[m] \in Seq(MessagesOf(MadeIds))
            BY DEF DInv, DTypeOK
        <3> DEFINE q == down[m]
                   t == Append(q, msg)
        <3> HIDE DEF q
        <3>2. /\ RemovedIds(t) = RemovedIds(q)
              /\ Lists(q) = {} => \A i, j \in Lists(t) : i = j
            BY <1>3, <3>1, AppendListIs DEF q
        <3> HIDE DEF t
        <3>3. down'[m] = t
            BY <2>2 DEF t, q
        <3> QED BY <1>1, <1>2, <1>3, <2>2, <3>2, <3>3 DEF q
    <2> QED BY <1>4, <2>1, <2>2
<1>6. links' \subseteq Nodes /\ raced' \in [Nodes -> SUBSET Ids]
    BY <1>1 DEF DInv, DTypeOK
<1> QED BY <1>1, <1>2, <1>4, <1>5, <1>6, HandlerStep

(* The messages of an announcement: the response, then the event           *)
LEMMA AnnounceIs ==
    ASSUME NEW M, NEW q \in Seq(MessagesOf(M)), NEW r \in MessagesOf(M),
           r.kind = "response", NEW ev \in EventsOf(M),
           NEW a, a = q \/ a = Append(q, r), NEW t, t = a \/ t = Append(a, ev)
    PROVE /\ t \in Seq(MessagesOf(M)) /\ Lists(t) = Lists(q)
          /\ RemovedIds(t) \subseteq RemovedIds(q)
                \cup (IF ev.kind = "proxy-remove" THEN {ev.id} ELSE {})
<1>1. /\ a \in Seq(MessagesOf(M)) /\ Lists(a) = Lists(q) /\ RemovedIds(a) = RemovedIds(q)
    <2>1. CASE a = q
        BY <2>1
    <2>2. CASE a = Append(q, r)
        <3>1. Append(q, r) \in Seq(MessagesOf(M))
            OBVIOUS
        <3>2. /\ RemovedIds(Append(q, r)) = RemovedIds(q)
              /\ Lists(Append(q, r)) = Lists(q)
            BY AppendOtherIs
        <3> QED BY <2>2, <3>1, <3>2
    <2> QED BY <2>1, <2>2
<1>2. ev \in MessagesOf(M) /\ ev.kind # "list"
    BY EventKinds
<1>3. CASE t = Append(a, ev)
    <2>2. /\ Append(a, ev) \in Seq(MessagesOf(M))
          /\ RemovedIds(Append(a, ev)) = RemovedIds(a)
                \cup (IF ev.kind = "proxy-remove" THEN {ev.id} ELSE {})
          /\ Lists(Append(a, ev)) = Lists(a)
        BY <1>1, <1>2, AppendIs
    <2> QED BY <1>1, <1>3, <2>2
<1> QED BY <1>1, <1>3

LEMMA AnnounceStep ==
    ASSUME DInv, NEW n \in Nodes, RcAnnounce(n)
    PROVE DInv'
<1> DEFINE h == handler[n]
           r == Response(h.response, TRUE)
           a(m) == IF m = n /\ CanSend(m) THEN Append(down[m], r) ELSE down[m]
           b(m) == IF m \in links \ h.exclude /\ CanSend(m) THEN <<h.event>> ELSE <<>>
<1>1. /\ handler[n].pc = "announce" /\ handler' = [handler EXCEPT ![n] = [pc |-> "idle"]]
      /\ down' = [m \in Nodes |-> a(m) \o b(m)]
      /\ UNCHANGED <<conn, links, up, central, proxyVars>>
      /\ raced' = [m \in Nodes |-> IF handler[m].pc = "list"
                                   THEN raced[m] \cup {EventId(h.event)} ELSE raced[m]]
    BY DEF RcAnnounce, rcregistry_announce, Idle
<1>2. status[n] # "none"
    BY <1>1 DEF DInv, ListedOnce, ListedOnceAt
<1>3. /\ h.event \in EventsOf(MadeIds)
      /\ h.response \in {"register", "unregister", "update-address"}
    <2>1. handler[n] \in HandlersOf(MadeIds)
        BY DEF DInv, DTypeOK
    <2> QED BY <1>1, <2>1, HandlerKinds
<1>4. r \in MessagesOf(MadeIds) /\ r.kind = "response"
    BY <1>3 DEF Response, MessagesOf
<1>5. EventId(h.event) \in Ids
    <2>1. MadeIds \subseteq Ids
        BY KnownIds DEF DInv
    <2>2. \A e \in Foreign(MadeIds) : e.id \in MadeIds
        BY DEF Foreign
    <2> HIDE DEF h
    <2> QED BY <1>3, <2>1, <2>2, EventKinds DEF EventId
<1>6. raced' \in [Nodes -> SUBSET Ids] /\ links' \subseteq Nodes
    BY <1>1, <1>5 DEF DInv, DTypeOK
<1>7. IF h.event.kind = "proxy-remove" THEN ToRemove(handler[n]) = {h.event.id}
                                       ELSE ToRemove(handler[n]) = {}
    BY <1>1 DEF ToRemove
<1>8. ASSUME NEW m \in Nodes
      PROVE /\ a(m) = down[m] \/ a(m) = Append(down[m], r)
            /\ a(m) \o b(m) = a(m) \/ a(m) \o b(m) = Append(a(m), h.event)
    <2>1. a(m) = down[m] \/ a(m) = Append(down[m], r)
        OBVIOUS
    <2>2. down[m] \in Seq(MessagesOf(MadeIds)) /\ h.event \in MessagesOf(MadeIds)
        BY <1>3, EventKinds DEF DInv, DTypeOK
    <2>3. a(m) \in Seq(MessagesOf(MadeIds))
        BY <1>4, <2>1, <2>2, AppendProperties
    <2>4. b(m) = <<>> \/ b(m) = <<h.event>>
        OBVIOUS
    <2> HIDE DEF a, b, h
    <2>5. a(m) \o <<>> = a(m) /\ a(m) \o <<h.event>> = Append(a(m), h.event)
        BY <2>2, <2>3, ConcatEmptySeq, AppendIsConcat
    <2> QED BY <2>1, <2>4, <2>5
<1>9. ASSUME NEW m \in Nodes
      PROVE /\ conn[m] # "open" => down'[m] = down[m]
            /\ down'[m] \in Seq(MessagesOf(MadeIds)) /\ Lists(down'[m]) = Lists(down[m])
            /\ RemovedIds(down'[m]) \subseteq RemovedIds(down[m]) \cup ToRemove(handler[n])
    <2>1. down[m] \in Seq(MessagesOf(MadeIds))
        BY DEF DInv, DTypeOK
    <2>2. conn[m] # "open" => a(m) \o b(m) = down[m]
        <3>1. conn[m] # "open" => a(m) \o b(m) = down[m] \o <<>>
            BY DEF CanSend
        <3> QED BY <2>1, <3>1, ConcatEmptySeq
    <2>3. down'[m] = a(m) \o b(m)
        BY <1>1
    <2> DEFINE q == down[m]
               x == a(m)
               t == x \o b(m)
               ev == h.event
    <2>4. /\ x = q \/ x = Append(q, r)
          /\ t = x \/ t = Append(x, ev)
          /\ q \in Seq(MessagesOf(MadeIds))
        BY <1>8, <2>1
    <2>5. ev \in EventsOf(MadeIds)
        BY <1>3
    <2> HIDE DEF q, t, x, r, ev
    <2>6. /\ t \in Seq(MessagesOf(MadeIds)) /\ Lists(t) = Lists(q)
          /\ RemovedIds(t) \subseteq RemovedIds(q)
                \cup (IF ev.kind = "proxy-remove" THEN {ev.id} ELSE {})
        BY <1>4, <2>4, <2>5, AnnounceIs
    <2>7. down'[m] = t
        BY <2>3 DEF t, x
    <2> QED BY <1>7, <2>2, <2>3, <2>6, <2>7 DEF q, ev
<1>10. down' \in [Nodes -> Seq(MessagesOf(MadeIds))]
    <2>1. down' = [m \in Nodes |-> down'[m]]
        BY <1>1
    <2> QED BY <1>9, <2>1
<1> HIDE DEF h, r, a, b
<1> QED BY <1>1, <1>2, <1>6, <1>9, <1>10, HandlerStep

LEMMA RcIsInv ==
    ASSUME DInv, NEW n \in Nodes, RcStep(n) \/ RcAnnounce(n)
    PROVE DInv'
<1>1. CASE RcAnnounce(n)
    BY <1>1, AnnounceStep
<1>2. CASE RcStep(n)
    <2>1. UNCHANGED <<proxyVars, raced>>
        BY <1>2 DEF RcStep
    <2> QED BY <1>2, <2>1, AddLinkStep, RemoveLinkStep, RegisterStep, UnregisterStep,
               UpdateAddressStep, SelectListStep, SendListStep DEF RcStep
<1> QED BY <1>1, <1>2

-----------------------------------------------------------------------------
(* The reader thread of a proxy                                            *)

LEMMA DeleteOther ==
    ASSUME NEW E, NEW s \in Seq(E), NEW id, OwnFirst(s), id \notin OwnIds(s)
    PROVE registry_delete(s, id) \in Seq(E) /\ SameEntries(s, registry_delete(s, id))
<1> DEFINE t == registry_delete(s, id)
<1>1. /\ t \in Seq(E) /\ OwnFirst(t) /\ OwnIds(t) = OwnIds(s) \ {id}
      /\ \A i, type : Owns(t, i, type) <=> Owns(s, i, type) /\ i # id
    BY DeleteIs
<1> HIDE DEF t
<1>2. \A i, type : Owns(s, i, type) => i \in OwnIds(s)
    BY DEF Owns, OwnIds
<1> QED BY <1>1, <1>2 DEF SameEntries, t

(* A message is taken from the queue.                                      *)
LEMMA MessageIs ==
    ASSUME DInv, NEW n \in Nodes, NEW kind, HasMessage(n, kind), Consume(n)
    PROVE /\ down' \in [Nodes -> Seq(MessagesOf(MadeIds))]
          /\ Head(down[n]) \in MessagesOf(MadeIds) /\ Head(down[n]).kind = kind
          /\ conn[n] = "open" /\ reader[n] = IdleReader
          /\ \A m \in Nodes : PartOf(down[m], down'[m]) /\ (m # n => down'[m] = down[m])
          /\ kind = "proxy-remove" => Head(down[n]).id \in RemovedIds(down[n])
          /\ kind = "list" => Lists(down[n]) # {} /\ Lists(down'[n]) = {}
<1> DEFINE q == down[n]
<1>1. /\ q \in Seq(MessagesOf(MadeIds)) /\ q # <<>> /\ Head(q).kind = kind
      /\ reader[n] = IdleReader /\ down' = [down EXCEPT ![n] = Tail(q)]
    BY DEF DInv, DTypeOK, HasMessage, Consume
<1>2. conn[n] = "open" /\ \A i, j \in Lists(q) : i = j
    BY <1>1 DEF DInv, ListedOnce, ListedOnceAt
<1>3. /\ Head(q) \in MessagesOf(MadeIds) /\ Tail(q) \in Seq(MessagesOf(MadeIds))
      /\ PartOf(q, Tail(q))
      /\ kind = "proxy-remove" => Head(q).id \in RemovedIds(q)
    BY <1>1, TailIs
<1>4. kind = "list" => Lists(q) # {} /\ Lists(Tail(q)) = {}
    <2>1. Head(q).kind = "list" =>
                /\ Lists(q) # {}
                /\ (\A i, j \in Lists(q) : i = j) => Lists(Tail(q)) = {}
        BY <1>1, TailIs
    <2> QED BY <1>1, <1>2, <2>1
<1>5. down' \in [Nodes -> Seq(MessagesOf(MadeIds))] /\ down'[n] = Tail(q)
      /\ \A m \in Nodes \ {n} : down'[m] = down[m]
    <2> HIDE DEF q
    <2> QED BY <1>1, <1>3 DEF DInv, DTypeOK
<1>6. \A m \in Nodes : PartOf(down[m], down[m])
    BY DEF PartOf
<1> QED BY <1>1, <1>2, <1>3, <1>4, <1>5, <1>6

(* What the reader thread does to the list, the end-points and the queue   *)
(* of requests of its process                                              *)
ReaderKeeps(n) ==
    /\ UNCHANGED <<conn, links, rcVars, app, made, raced>>
    /\ preg' \in [Nodes -> Seq(Listed(MadeIds))]
    /\ \A m \in Nodes : SameEntries(preg[m], preg'[m])
    /\ EpKeeps(ep', {})
    /\ up' \in [Nodes -> Seq(RequestsOf(MadeIds))]
    /\ \A m \in Nodes : /\ RegsOnce(up'[m]) /\ RegIds(up'[m]) = RegIds(up[m])
                        /\ UnregIds(up'[m]) = UnregIds(up[m])
                        /\ Lists(up'[m]) = Lists(up[m])
                        /\ status[m] # "ready" => up'[m] = up[m]
                        /\ InTurn(up[m]) => InTurn(up'[m])

LEMMA ReaderKeepsInv ==
    ASSUME DInv, NEW n \in Nodes, ReaderKeeps(n),
           down' \in [Nodes -> Seq(MessagesOf(MadeIds))],
           \A m \in Nodes : RemovedIds(down'[m]) \subseteq RemovedIds(down[m]),
           status' \in [Nodes -> {"none", "initializing", "ready", "gone"}],
           reader' \in [Nodes -> ReadersOf(MadeIds)],
           \A m \in Nodes : ListedOnceAt(m)'
    PROVE DInv'
<1>1. MadeIds' = MadeIds /\ \A id \in Ids : IsOpen(id)' <=> IsOpen(id)
    BY DEF ReaderKeeps, MadeIds, EpKeeps, IsOpen
<1>2. DTypeOK'
    <2>1. ep' \in [Ids -> Endpoint \cup {Closed}]
        BY DEF ReaderKeeps, EpKeeps
    <2>2. \A id \in Ids : IsOpen(id)' => id \in MadeIds
        BY <1>1 DEF DInv, DTypeOK
    <2> QED BY <1>1, <2>1, <2>2 DEF DInv, DTypeOK, ReaderKeeps, rcVars
<1>3. RegisteredOnce'
    <2>1. UNCHANGED central /\ \A m \in Nodes : Pending(m)' = Pending(m)
        BY DEF ReaderKeeps, rcVars, Pending
    <2>2. IdsOnce(central)
        BY DEF DInv, RegisteredOnce
    <2>3. \A m \in Nodes : /\ RegsOnce(up'[m]) /\ RegIds(up'[m]) \subseteq RegIds(up[m])
                           /\ Pending(m)' \subseteq Pending(m)
        BY <2>1 DEF ReaderKeeps
    <2> QED BY <2>1, <2>2, <2>3, RegisteredAlone DEF DInv
<1>4. Owned' /\ OpenIsOwned'
    BY <1>2, OwnedAlone DEF DInv, ReaderKeeps
<1>5. Withdrawn'
    <2>1. ASSUME NEW m \in Nodes, NEW id \in Ids, id \in WithdrawnAt(m)'
          PROVE id \in WithdrawnAt(m)
        <3>1. /\ UnregIds(up'[m]) = UnregIds(up[m]) /\ handler' = handler
              /\ RemovedIds(down'[m]) \subseteq RemovedIds(down[m])
            BY DEF ReaderKeeps, rcVars
        <3> QED BY <2>1, <3>1 DEF WithdrawnAt
    <2> QED BY <1>1, <2>1, WithdrawnAlone DEF DInv
<1> QED BY <1>2, <1>3, <1>4, <1>5 DEF DInv, ListedOnce

LEMMA HandleMessage ==
    ASSUME DInv, NEW n \in Nodes, NEW kind, kind # "list", HasMessage(n, kind), Consume(n),
           ReaderKeeps(n), UNCHANGED <<status, reader>>
    PROVE DInv' /\ ReaderKeeps(n)
<1>1. ASSUME NEW m \in Nodes PROVE ListedOnceAt(m)'
    <2>1. /\ ListedOnceAt(m) /\ UNCHANGED <<status, reader, conn, handler, app>>
          /\ SameEntries(preg[m], preg'[m])
          /\ status[m] # "ready" => up'[m] = up[m]
        BY DEF DInv, ListedOnce, ReaderKeeps, rcVars
    <2>2. PartOf(down[m], down'[m]) /\ (m = n => conn[m] = "open") /\ (m # n => down'[m] = down[m])
        BY MessageIs
    <2>3. Lists(up'[m]) = Lists(up[m]) /\ (Lists(up[m]) # {} => status[m] # "ready")
        BY <2>1 DEF ListedOnceAt, ReaderKeeps
    <2>4. OwnIds(preg'[m]) = OwnIds(preg[m])
        BY <2>1 DEF SameEntries
    <2> QED BY <2>1, <2>2, <2>3, <2>4 DEF ListedOnceAt, PartOf
<1>2. /\ down' \in [Nodes -> Seq(MessagesOf(MadeIds))]
      /\ \A m \in Nodes : RemovedIds(down'[m]) \subseteq RemovedIds(down[m])
    BY MessageIs DEF PartOf
<1>3. /\ status' \in [Nodes -> {"none", "initializing", "ready", "gone"}]
      /\ reader' \in [Nodes -> ReadersOf(MadeIds)]
    BY DEF DInv, DTypeOK
<1> QED BY <1>1, <1>2, <1>3, ReaderKeepsInv

LEMMA EpSame == ASSUME EpTypeOK PROVE EpKeeps(ep, {})
BY DEF EpTypeOK, EpKeeps, IsOpen

(* A reader that changes its own list and sends nothing                    *)
LEMMA ReaderKeepsIs ==
    ASSUME DInv, NEW n \in Nodes, UNCHANGED <<conn, links, rcVars, up, app, made, raced>>,
           NEW s \in Seq(Listed(MadeIds)), SameEntries(preg[n], s),
           preg' = [preg EXCEPT ![n] = s], ep' = ep \/ EpKeeps(ep', {})
    PROVE ReaderKeeps(n)
<1>1. EpKeeps(ep', {})
    BY EpSame DEF DInv, DTypeOK, EpTypeOK
<1>2. /\ preg' \in [Nodes -> Seq(Listed(MadeIds))] /\ preg'[n] = s
      /\ \A m \in Nodes \ {n} : preg'[m] = preg[m]
    BY DEF DInv, DTypeOK
<1>3. \A m \in Nodes : SameEntries(preg[m], preg'[m])
    BY <1>2 DEF SameEntries
<1>4. up \in [Nodes -> Seq(RequestsOf(MadeIds))] /\ \A m \in Nodes : RegsOnce(up[m])
    BY DEF DInv, DTypeOK, RegisteredOnce
<1> QED BY <1>1, <1>2, <1>3, <1>4 DEF ReaderKeeps

(* The entry of an event is inserted.                                      *)
LEMMA AddIs ==
    ASSUME DInv, NEW n \in Nodes, NEW types, HandleAdd(n, types)
    PROVE LET e == Head(down[n]).entry
              s == WithEntry(preg[n], e) IN
          /\ e \in Foreign(MadeIds)
          /\ s \in Seq(Listed(MadeIds)) /\ SameEntries(preg[n], s)
          /\ OwnIds(s) \subseteq Ids /\ \A id \in OwnIds(s) : IsOpen(id)
<1> DEFINE e == Head(down[n]).entry
           s == WithEntry(preg[n], e)
<1>1. HasMessage(n, "proxy-add") /\ Consume(n)
    BY DEF HandleAdd
<1>2. e \in Foreign(MadeIds)
    <2>1. Head(down[n]) \in MessagesOf(MadeIds) /\ Head(down[n]).kind = "proxy-add"
        BY <1>1, MessageIs
    <2> QED BY <2>1, MessageKinds
<1>3. e \in Listed(MadeIds) /\ ~e.endpoint
    BY <1>2 DEF Foreign, Listed
<1>4. preg[n] \in Seq(Listed(MadeIds))
    BY DEF DInv, DTypeOK
<1> HIDE DEF e
<1>5. s \in Seq(Listed(MadeIds)) /\ SameEntries(preg[n], s)
    BY <1>3, <1>4, WithEntryIs
<1>6. OwnIds(s) = OwnIds(preg[n]) /\ OwnIds(preg[n]) \subseteq Ids
    BY <1>5, KnownIds DEF SameEntries, DInv
<1>7. \A id \in OwnIds(preg[n]) : IsOpen(id)
    BY DEF DInv, Owned, OwnedAt
<1> QED BY <1>2, <1>5, <1>6, <1>7 DEF e

LEMMA RegisterAddStep ==
    ASSUME DInv, NEW n \in Nodes, proxy_handle_register_add(n), UNCHANGED <<rcVars, raced>>
    PROVE DInv' /\ ReaderKeeps(n)
<1> DEFINE s == WithEntry(preg[n], Head(down[n]).entry)
<1>1. /\ HandleAdd(n, {"messagelink", "streamerlink", "service"})
      /\ HasMessage(n, "proxy-add") /\ Consume(n)
      /\ preg' = [preg EXCEPT ![n] = s]
      /\ UNCHANGED <<conn, links, up, status, app, reader, made, ep>>
    BY DEF proxy_handle_register_add, HandleAdd
<1>2. s \in Seq(Listed(MadeIds)) /\ SameEntries(preg[n], s)
    BY <1>1, AddIs
<1> HIDE DEF s
<1>3. ReaderKeeps(n)
    BY <1>1, <1>2, ReaderKeepsIs
<1> QED BY <1>1, <1>3, HandleMessage

LEMMA ConnectDatalinkStep ==
    ASSUME DInv, NEW n \in Nodes, proxy_connect_datalink(n), UNCHANGED <<rcVars, raced>>
    PROVE DInv' /\ ReaderKeeps(n)
<1> DEFINE e == Head(down[n]).entry
           s == WithEntry(preg[n], e)
           k == LastSelected(s, e.topic, "datahub")
<1>1. /\ HandleAdd(n, {"datalink"}) /\ HasMessage(n, "proxy-add") /\ Consume(n)
      /\ preg' = [preg EXCEPT ![n] = s]
      /\ ep' = IF k # 0 /\ s[k].endpoint THEN datahub_add_link(s[k].id, {e.addr}) ELSE ep
      /\ UNCHANGED <<conn, links, up, status, app, reader, made>>
    BY DEF proxy_connect_datalink, HandleAdd
<1>2. /\ e \in Foreign(MadeIds)
      /\ s \in Seq(Listed(MadeIds)) /\ SameEntries(preg[n], s)
      /\ OwnIds(s) \subseteq Ids /\ \A id \in OwnIds(s) : IsOpen(id)
    BY <1>1, AddIs
<1>3. ep' = ep \/ EpKeeps(ep', {})
    <2>1. EpTypeOK
        BY DEF DInv, DTypeOK, EpTypeOK
    <2>2. e.addr \in Addrs
        BY <1>2 DEF Foreign, Entry
    <2>3. k \in 0..Len(s)
        <3> HIDE DEF s, e
        <3> QED BY <1>2, LastSelectedIs
    <2>4. ASSUME k # 0, s[k].endpoint PROVE s[k].id \in OwnIds(s)
        <3>1. k \in 1..Len(s)
            BY <2>3, <2>4
        <3> HIDE DEF s, k
        <3> QED BY <2>4, <3>1 DEF OwnIds
    <2> HIDE DEF s, e, k
    <2>5. ASSUME k # 0, s[k].endpoint
          PROVE EpKeeps(datahub_add_link(s[k].id, {e.addr}), {})
        BY <1>2, <2>1, <2>2, <2>4, <2>5, AddLinkIs
    <2> QED BY <1>1, <2>5
<1> HIDE DEF s, e, k
<1>4. ReaderKeeps(n)
    BY <1>1, <1>2, <1>3, ReaderKeepsIs
<1> QED BY <1>1, <1>4, HandleMessage

LEMMA ConnectLinksStep ==
    ASSUME DInv, NEW n \in Nodes, NEW linkType, NEW hubType,
           ConnectLinks(n, linkType, hubType), UNCHANGED <<rcVars, raced>>
    PROVE DInv' /\ ReaderKeeps(n)
<1> DEFINE e == Head(down[n]).entry
           s == WithEntry(preg[n], e)
           L == LocalIds(s, e.topic, linkType)
<1>1. /\ HandleAdd(n, {hubType}) /\ HasMessage(n, "proxy-add") /\ Consume(n)
      /\ preg' = [preg EXCEPT ![n] = s]
      /\ ep' = SetRemote(L, e.addr)
      /\ UNCHANGED <<conn, links, up, status, app, reader, made>>
    BY DEF ConnectLinks, HandleAdd
<1>2. /\ e \in Foreign(MadeIds)
      /\ s \in Seq(Listed(MadeIds)) /\ SameEntries(preg[n], s)
      /\ OwnIds(s) \subseteq Ids /\ \A id \in OwnIds(s) : IsOpen(id)
    BY <1>1, AddIs
<1>3. e.addr \in Addrs
    BY <1>2 DEF Foreign, Entry
<1>4. L \in SUBSET Ids /\ \A id \in L : IsOpen(id)
    BY <1>2, LocalIdsIs
<1> HIDE DEF s, e, L
<1>5. EpKeeps(ep', {})
    BY <1>1, <1>3, <1>4, SetRemoteIs DEF DInv, DTypeOK, EpTypeOK
<1>6. ReaderKeeps(n)
    BY <1>1, <1>2, <1>5, ReaderKeepsIs
<1> QED BY <1>1, <1>6, HandleMessage

LEMMA RegisterRemoveStep ==
    ASSUME DInv, NEW n \in Nodes, proxy_handle_register_remove(n), UNCHANGED <<rcVars, raced>>
    PROVE DInv' /\ ReaderKeeps(n)
<1> DEFINE id == Head(down[n]).id
           s == preg[n]
           t == registry_delete(s, id)
           e == s[FirstId(s, id)]
<1>1. /\ HasMessage(n, "proxy-remove") /\ Consume(n)
      /\ IF id \notin IdsOf(s) THEN UNCHANGED <<preg, ep>>
         ELSE /\ preg' = [preg EXCEPT ![n] = t]
              /\ ep' = IF e.type = "datahub"
                       THEN SetRemote(LocalIds(t, e.topic, "datalink"), NoAddr) ELSE ep
      /\ UNCHANGED <<conn, links, up, status, app, reader, made>>
    BY DEF proxy_handle_register_remove
<1>2. id \in RemovedIds(down[n]) /\ id \in Ids
    <2>1. /\ Head(down[n]) \in MessagesOf(MadeIds) /\ Head(down[n]).kind = "proxy-remove"
          /\ Head(down[n]).id \in RemovedIds(down[n])
        BY <1>1, MessageIs
    <2>2. MadeIds \subseteq Ids
        BY KnownIds DEF DInv
    <2> QED BY <2>1, <2>2, MessageKinds
<1>3. ~IsOpen(id)
    BY <1>2 DEF DInv, Withdrawn, WithdrawnAt
<1>4. s \in Seq(Listed(MadeIds)) /\ OwnFirst(s) /\ id \notin OwnIds(s)
    BY <1>3 DEF DInv, DTypeOK, Owned, OwnedAt
<1>5. OwnIds(s) \subseteq Ids /\ \A i \in OwnIds(s) : IsOpen(i)
    BY KnownIds DEF DInv, Owned, OwnedAt
<1> HIDE DEF id, s
<1>6. t \in Seq(Listed(MadeIds)) /\ SameEntries(s, t)
    BY <1>4, DeleteOther
<1> HIDE DEF t, e
<1>7. CASE UNCHANGED <<preg, ep>>
    <2>1. preg' = [preg EXCEPT ![n] = s] /\ SameEntries(preg[n], s)
        BY <1>7 DEF DInv, DTypeOK, s, SameEntries
    <2>2. ReaderKeeps(n)
        BY <1>1, <1>4, <1>7, <2>1, ReaderKeepsIs
    <2> QED BY <1>1, <2>2, HandleMessage
<1>8. CASE /\ preg' = [preg EXCEPT ![n] = t]
           /\ ep' = IF e.type = "datahub"
                    THEN SetRemote(LocalIds(t, e.topic, "datalink"), NoAddr) ELSE ep
    <2>1. LocalIds(t, e.topic, "datalink") \subseteq OwnIds(s)
        BY <1>6, LocalIdsIs DEF SameEntries
    <2>2. EpKeeps(SetRemote(LocalIds(t, e.topic, "datalink"), NoAddr), {})
        BY <1>5, <2>1, SetRemoteIs DEF DInv, DTypeOK, EpTypeOK
    <2>3. ep' = ep \/ EpKeeps(ep', {})
        BY <1>8, <2>2
    <2>4. SameEntries(preg[n], t)
        BY <1>6 DEF s
    <2>5. ReaderKeeps(n)
        BY <1>1, <1>6, <1>8, <2>3, <2>4, ReaderKeepsIs
    <2> QED BY <1>1, <2>5, HandleMessage
<1> QED BY <1>1, <1>7, <1>8

LEMMA HandleUpdateAddressStep ==
    ASSUME DInv, NEW n \in Nodes, proxy_handle_update_address(n), UNCHANGED <<rcVars, raced>>
    PROVE DInv' /\ ReaderKeeps(n)
<1> DEFINE id == Head(down[n]).id
           a == Head(down[n]).addr
           t == registry_update_addr(preg[n], id, a)
<1>1. /\ HasMessage(n, "proxy-update-address") /\ Consume(n)
      /\ preg' = [preg EXCEPT ![n] = t]
      /\ UNCHANGED <<conn, links, up, status, app, reader, made, ep>>
    BY DEF proxy_handle_update_address
<1>2. a \in Addrs
    <2>1. /\ Head(down[n]) \in MessagesOf(MadeIds)
          /\ Head(down[n]).kind = "proxy-update-address"
        BY <1>1, MessageIs
    <2> QED BY <2>1, MessageKinds
<1>3. preg[n] \in Seq(Listed(MadeIds))
    BY DEF DInv, DTypeOK
<1> HIDE DEF id, a
<1>4. t \in Seq(Listed(MadeIds)) /\ SameNames(preg[n], t)
    BY <1>2, <1>3, UpdateIs
<1> HIDE DEF t
<1>5. SameEntries(preg[n], t)
    BY <1>4, SameNamesIs
<1>6. ReaderKeeps(n)
    BY <1>1, <1>4, <1>5, ReaderKeepsIs
<1> QED BY <1>1, <1>6, HandleMessage

LEMMA OnResponseStep ==
    ASSUME DInv, NEW n \in Nodes, proxy_onresponse(n), UNCHANGED <<rcVars, raced>>
    PROVE DInv' /\ ReaderKeeps(n)
<1>1. /\ HasMessage(n, "response") /\ Consume(n)
      /\ UNCHANGED <<conn, links, up, status, preg, app, reader, ep, made>>
    BY DEF proxy_onresponse
<1>2. /\ preg[n] \in Seq(Listed(MadeIds)) /\ preg' = [preg EXCEPT ![n] = preg[n]]
      /\ SameEntries(preg[n], preg[n])
    BY <1>1 DEF DInv, DTypeOK, SameEntries
<1>3. ReaderKeeps(n)
    BY <1>1, <1>2, ReaderKeepsIs
<1> QED BY <1>1, <1>3, HandleMessage

(* The messages in which the reader thread updates the addresses           *)
LEMMA OrderIs ==
    ASSUME NEW E, NEW s \in Seq(E), NEW L, L \subseteq IdsOf(s), NEW order \in SetToSeqs(L)
    PROVE /\ Len(order) \in Nat /\ \A i \in 1..Len(order) : order[i] \in L
          /\ L = {} => Len(order) = 0
<1>1. IsFiniteSet(L)
    <2>1. IsFiniteSet(1..Len(s))
        BY FS_Interval
    <2> DEFINE f == [i \in 1..Len(s) |-> s[i].id]
    <2>2. f \in Surjection(1..Len(s), IdsOf(s))
        BY DEF Surjection, IdsOf
    <2>3. IsFiniteSet(IdsOf(s))
        BY <2>1, <2>2, FS_Surjection DEF ExistsSurjection
    <2> QED BY <2>3, FS_Subset
<1>2. Cardinality(L) \in Nat /\ (L = {} => Cardinality(L) = 0)
    BY <1>1, FS_CardinalityType, FS_EmptySet
<1>3. order \in [1..Cardinality(L) -> L]
    BY DEF SetToSeqs
<1> QED BY <1>2, <1>3

LEMMA UpdatesAre ==
    ASSUME NEW M, NEW L \in SUBSET Ids, NEW order, Len(order) \in Nat,
           \A i \in 1..Len(order) : order[i] \in L, NEW local \in [L -> Addrs]
    PROVE LET u == [i \in 1..Len(order) |-> UpdateAddressReq(order[i], local[order[i]])] IN
          /\ u \in Seq(RequestsOf(M)) /\ Len(u) = Len(order)
          /\ \A i \in 1..Len(u) : u[i].kind = "update-address"
<1> DEFINE u == [i \in 1..Len(order) |-> UpdateAddressReq(order[i], local[order[i]])]
<1>1. \A i \in 1..Len(order) : /\ u[i] = UpdateAddressReq(order[i], local[order[i]])
                               /\ order[i] \in Ids /\ local[order[i]] \in Addrs
    OBVIOUS
<1>2. \A i \in 1..Len(order) : u[i] \in RequestsOf(M) /\ u[i].kind = "update-address"
    <2> HIDE DEF u
    <2> SUFFICES ASSUME NEW i \in 1..Len(order)
                 PROVE u[i] \in RequestsOf(M) /\ u[i].kind = "update-address"
        OBVIOUS
    <2> DEFINE a == local[order[i]]
               id == order[i]
    <2>1. id \in Ids /\ a \in Addrs /\ u[i] = UpdateAddressReq(id, a)
        BY <1>1
    <2> HIDE DEF id, a
    <2> QED BY <2>1 DEF UpdateAddressReq, RequestsOf
<1>3. u \in [1..Len(order) -> RequestsOf(M)]
    BY <1>2
<1> HIDE DEF u
<1>4. u \in Seq(RequestsOf(M)) /\ Len(u) = Len(order)
    BY <1>3
<1> QED BY <1>2, <1>4 DEF u

LEMMA UpIs ==
    ASSUME DInv, NEW n \in Nodes, NEW u \in Seq(RequestsOf(MadeIds)),
           \A i \in 1..Len(u) : u[i].kind = "update-address",
           status[n] # "ready" => u = <<>>,
           up' = up \/ up' = [up EXCEPT ![n] = up[n] \o u]
    PROVE /\ up' \in [Nodes -> Seq(RequestsOf(MadeIds))]
          /\ \A m \in Nodes : /\ RegsOnce(up'[m]) /\ RegIds(up'[m]) = RegIds(up[m])
                              /\ UnregIds(up'[m]) = UnregIds(up[m])
                              /\ Lists(up'[m]) = Lists(up[m])
                              /\ status[m] # "ready" => up'[m] = up[m]
                              /\ InTurn(up[m]) => InTurn(up'[m])
<1> DEFINE q == up[n]
           t == q \o u
<1>1. /\ up \in [Nodes -> Seq(RequestsOf(MadeIds))] /\ q \in Seq(RequestsOf(MadeIds))
      /\ \A m \in Nodes : RegsOnce(up[m])
    BY DEF DInv, DTypeOK, RegisteredOnce
<1>2. /\ t \in Seq(RequestsOf(MadeIds))
      /\ RegIds(t) = RegIds(q) /\ RegsOnce(t)
      /\ UnregIds(t) = UnregIds(q) /\ Lists(t) = Lists(q) /\ (InTurn(q) => InTurn(t))
    <2>1. RegsOnce(q)
        BY <1>1
    <2> HIDE DEF q
    <2>2. /\ t \in Seq(RequestsOf(MadeIds))
          /\ RegIds(t) = RegIds(q) /\ (RegsOnce(q) => RegsOnce(t))
          /\ UnregIds(t) = UnregIds(q) /\ Lists(t) = Lists(q) /\ (InTurn(q) => InTurn(t))
        BY <1>1, ConcatUpdatesIs
    <2> QED BY <2>1, <2>2
<1>3. u = <<>> => t = q
    BY <1>1, ConcatEmptySeq
<1>4. CASE up' = up
    BY <1>1, <1>4
<1>5. CASE up' = [up EXCEPT ![n] = t]
    <2> HIDE DEF t
    <2>1. up'[n] = t /\ \A m \in Nodes \ {n} : up'[m] = up[m]
        BY <1>1, <1>5
    <2>2. up' \in [Nodes -> Seq(RequestsOf(MadeIds))]
        BY <1>1, <1>2, <1>5
    <2> QED BY <1>1, <1>2, <1>3, <2>1, <2>2
<1> QED BY <1>4, <1>5

LEMMA ConnectMessagehubStep ==
    ASSUME DInv, NEW n \in Nodes, proxy_connect_messagehub(n), UNCHANGED <<rcVars, raced>>
    PROVE DInv' /\ ReaderKeeps(n)
<1> DEFINE e == Head(down[n]).entry
           s == WithEntry(preg[n], e)
           L == {id \in LocalIds(s, e.topic, "messagelink") : ep[id].remote # e.addr}
           t(local) == [i \in 1..Len(s) |->
                          IF Listening(e.addr) /\ s[i].id \in L /\ i = FirstId(s, s[i].id)
                          THEN [s[i] EXCEPT !.addr = local[s[i].id]] ELSE s[i]]
           u(local, order) == [i \in 1..Len(order) |->
                                 UpdateAddressReq(order[i], local[order[i]])]
<1>1. /\ HandleAdd(n, {"messagehub"}) /\ HasMessage(n, "proxy-add") /\ Consume(n)
      /\ UNCHANGED <<conn, links, status, app, reader, made>>
      /\ \E local \in [L -> FreeAddrs], order \in SetToSeqs(L) :
            /\ ep' = client_messagelink_connect(L, e.addr, local)
            /\ preg' = [preg EXCEPT ![n] = t(local)]
            /\ up' = up \/ up' = [up EXCEPT ![n] = up[n] \o u(local, order)]
    BY DEF proxy_connect_messagehub, HandleAdd
<1>2. PICK local \in [L -> FreeAddrs], order \in SetToSeqs(L) :
            /\ ep' = client_messagelink_connect(L, e.addr, local)
            /\ preg' = [preg EXCEPT ![n] = t(local)]
            /\ up' = up \/ up' = [up EXCEPT ![n] = up[n] \o u(local, order)]
    BY <1>1
<1>3. /\ e \in Foreign(MadeIds)
      /\ s \in Seq(Listed(MadeIds)) /\ SameEntries(preg[n], s)
      /\ OwnIds(s) \subseteq Ids /\ \A id \in OwnIds(s) : IsOpen(id)
    BY <1>1, AddIs
<1>4. e.addr \in Addrs
    BY <1>3 DEF Foreign, Entry
<1>5. L \subseteq OwnIds(s) /\ L \subseteq IdsOf(s) /\ L \in SUBSET Ids /\ \A id \in L : IsOpen(id)
    BY <1>3, LocalIdsIs
<1>6. local \in [L -> Addrs]
    BY DEF FreeAddrs
<1> DEFINE tt == t(local)
           uu == u(local, order)
<1>7. tt \in Seq(Listed(MadeIds)) /\ SameNames(s, tt)
    <2> HIDE DEF s, L, e
    <2>1. ASSUME NEW i \in 1..Len(s)
          PROVE /\ tt[i] \in Listed(MadeIds) /\ tt[i].id = s[i].id /\ tt[i].type = s[i].type
                /\ tt[i].endpoint = s[i].endpoint
        <3>1. s[i] \in Listed(MadeIds)
            BY <1>3, ElementOfSeq
        <3>2. s[i] \in Entry /\ s[i].id \in MadeIds
            BY <3>1 DEF Listed
        <3>3. CASE tt[i] = s[i]
            BY <3>1, <3>3
        <3>4. CASE s[i].id \in L /\ tt[i] = [s[i] EXCEPT !.addr = local[s[i].id]]
            <4> DEFINE a == local[s[i].id]
                       f == [s[i] EXCEPT !.addr = a]
            <4>1. a \in Addrs
                BY <1>6, <3>4
            <4>2. tt[i] = f
                BY <3>4
            <4> HIDE DEF a, tt
            <4>3. f \in Entry /\ f.id = s[i].id /\ f.type = s[i].type /\ f.endpoint = s[i].endpoint
                BY <3>2, <4>1, SetAddrIs
            <4> HIDE DEF f
            <4> QED BY <3>2, <4>2, <4>3 DEF Listed
        <3> QED BY <3>3, <3>4
    <2>2. Len(s) \in Nat /\ DOMAIN tt = 1..Len(s) /\ tt = [i \in 1..Len(s) |-> tt[i]]
        BY <1>3
    <2> HIDE DEF tt
    <2>3. tt \in [1..Len(s) -> Listed(MadeIds)]
        BY <2>1, <2>2
    <2>4. tt \in Seq(Listed(MadeIds)) /\ Len(tt) = Len(s)
        BY <2>2, <2>3
    <2> QED BY <2>1, <2>4 DEF SameNames
<1>8. SameEntries(preg[n], tt)
    <2> HIDE DEF tt, s
    <2>1. SameEntries(s, tt)
        BY <1>7, SameNamesIs
    <2> QED BY <1>3, <2>1 DEF SameEntries
<1>9. /\ uu \in Seq(RequestsOf(MadeIds)) /\ \A i \in 1..Len(uu) : uu[i].kind = "update-address"
      /\ L = {} => uu = <<>>
    <2> HIDE DEF s, L, e
    <2>1. /\ Len(order) \in Nat /\ \A i \in 1..Len(order) : order[i] \in L
          /\ L = {} => Len(order) = 0
        BY <1>3, <1>5, OrderIs
    <2>2. /\ uu \in Seq(RequestsOf(MadeIds)) /\ Len(uu) = Len(order)
          /\ \A i \in 1..Len(uu) : uu[i].kind = "update-address"
        BY <1>5, <1>6, <2>1, UpdatesAre
    <2> HIDE DEF uu
    <2> QED BY <2>1, <2>2, EmptySeq
<1>10. status[n] # "ready" => uu = <<>>
    <2>1. status[n] # "ready" => OwnIds(preg[n]) = {}
        BY DEF DInv, ListedOnce, ListedOnceAt
    <2> HIDE DEF s, uu, L
    <2> QED BY <1>3, <1>5, <1>9, <2>1 DEF SameEntries
<1>11. EpKeeps(ep', {})
    <2> HIDE DEF s, L, e
    <2> QED BY <1>2, <1>4, <1>5, <1>6, MessagelinkConnectIs DEF DInv, DTypeOK, EpTypeOK
<1>12. preg' = [preg EXCEPT ![n] = tt] /\ (up' = up \/ up' = [up EXCEPT ![n] = up[n] \o uu])
    BY <1>2
<1> HIDE DEF s, L, e, t, u, tt, uu
<1>13. ReaderKeeps(n)
    <2>1. /\ preg' \in [Nodes -> Seq(Listed(MadeIds))] /\ preg'[n] = tt
          /\ \A m \in Nodes \ {n} : preg'[m] = preg[m]
        BY <1>7, <1>12 DEF DInv, DTypeOK
    <2>2. \A m \in Nodes : SameEntries(preg[m], preg'[m])
        BY <1>8, <2>1 DEF SameEntries
    <2>3. /\ up' \in [Nodes -> Seq(RequestsOf(MadeIds))]
          /\ \A m \in Nodes : /\ RegsOnce(up'[m]) /\ RegIds(up'[m]) = RegIds(up[m])
                              /\ UnregIds(up'[m]) = UnregIds(up[m])
                              /\ Lists(up'[m]) = Lists(up[m])
                              /\ status[m] # "ready" => up'[m] = up[m]
                              /\ InTurn(up[m]) => InTurn(up'[m])
        BY <1>9, <1>10, <1>12, UpIs
    <2> QED BY <1>1, <1>11, <2>1, <2>2, <2>3 DEF ReaderKeeps
<1> QED BY <1>1, <1>13, HandleMessage

(* The list is taken from the queue.                                       *)
LEMMA HandleListStep ==
    ASSUME DInv, NEW n \in Nodes, proxy_handle_update_list(n), UNCHANGED <<rcVars, raced>>
    PROVE DInv' /\ ReaderKeeps(n)
<1> DEFINE s == Head(down[n]).list
           r == [pc |-> "insert", todo |-> s, list |-> s]
<1>1. /\ HasMessage(n, "list") /\ Consume(n) /\ reader' = [reader EXCEPT ![n] = r]
      /\ UNCHANGED <<conn, links, up, status, preg, app, ep, made>>
    BY DEF proxy_handle_update_list
<1>2. /\ down' \in [Nodes -> Seq(MessagesOf(MadeIds))]
      /\ Head(down[n]) \in MessagesOf(MadeIds) /\ Head(down[n]).kind = "list"
      /\ conn[n] = "open" /\ reader[n] = IdleReader
      /\ \A m \in Nodes : PartOf(down[m], down'[m]) /\ (m # n => down'[m] = down[m])
      /\ Lists(down[n]) # {} /\ Lists(down'[n]) = {}
    BY <1>1, MessageIs
<1>3. r \in ReadersOf(MadeIds)
    <2>1. s \in Seq(Foreign(MadeIds))
        BY <1>2, MessageKinds
    <2> QED BY <2>1 DEF ReadersOf
<1>4. ReaderKeeps(n)
    <2>1. /\ preg[n] \in Seq(Listed(MadeIds)) /\ preg' = [preg EXCEPT ![n] = preg[n]]
          /\ SameEntries(preg[n], preg[n])
        BY <1>1 DEF DInv, DTypeOK, SameEntries
    <2> QED BY <1>1, <2>1, ReaderKeepsIs
<1> HIDE DEF r
<1>5. /\ reader' \in [Nodes -> ReadersOf(MadeIds)]
      /\ \A m \in Nodes \ {n} : reader'[m] = reader[m]
    BY <1>1, <1>3 DEF DInv, DTypeOK
<1>6. ASSUME NEW m \in Nodes PROVE ListedOnceAt(m)'
    <2>1. ListedOnceAt(m) /\ UNCHANGED <<status, conn, handler, app, preg, up>>
        BY <1>1 DEF DInv, ListedOnce, rcVars
    <2>2. CASE m = n
        <3>1. /\ status[m] = "initializing" /\ Lists(up[m]) = {} /\ handler[m].pc # "list"
            BY <1>2, <2>1, <2>2 DEF ListedOnceAt
        <3> QED BY <1>2, <2>1, <2>2, <3>1 DEF ListedOnceAt
    <2>3. CASE m # n
        BY <1>2, <1>5, <2>1, <2>3 DEF ListedOnceAt
    <2> QED BY <2>2, <2>3
<1>7. \A m \in Nodes : RemovedIds(down'[m]) \subseteq RemovedIds(down[m])
    BY <1>2 DEF PartOf
<1>8. status' \in [Nodes -> {"none", "initializing", "ready", "gone"}]
    BY <1>1 DEF DInv, DTypeOK
<1> QED BY <1>2, <1>4, <1>5, <1>6, <1>7, <1>8, ReaderKeepsInv

(* A step of the reader thread on the list it has taken                    *)
LEMMA ListStep ==
    ASSUME DInv, NEW n \in Nodes, ReaderKeeps(n), reader[n] # IdleReader,
           UNCHANGED <<up, down>>,
           NEW r \in ReadersOf(MadeIds), reader' = [reader EXCEPT ![n] = r],
           NEW st \in {"initializing", "ready"}, status' = [status EXCEPT ![n] = st],
           st = "ready" => r = IdleReader
    PROVE DInv' /\ ReaderKeeps(n)
<1>1. /\ reader' \in [Nodes -> ReadersOf(MadeIds)] /\ reader'[n] = r
      /\ \A m \in Nodes \ {n} : reader'[m] = reader[m]
    BY DEF DInv, DTypeOK
<1>2. /\ status' \in [Nodes -> {"none", "initializing", "ready", "gone"}] /\ status'[n] = st
      /\ \A m \in Nodes \ {n} : status'[m] = status[m]
    BY DEF DInv, DTypeOK
<1>3. ASSUME NEW m \in Nodes PROVE ListedOnceAt(m)'
    <2>1. /\ ListedOnceAt(m) /\ UNCHANGED <<conn, handler, app, up, down>>
          /\ OwnIds(preg'[m]) = OwnIds(preg[m])
        BY DEF DInv, ListedOnce, ReaderKeeps, rcVars, SameEntries
    <2>2. CASE m = n
        <3>1. /\ status[m] = "initializing" /\ Lists(up[m]) = {} /\ handler[m].pc # "list"
              /\ Lists(down[m]) = {}
            BY <2>1, <2>2 DEF ListedOnceAt
        <3> QED BY <1>1, <1>2, <2>1, <2>2, <3>1 DEF ListedOnceAt
    <2>3. CASE m # n
        BY <1>1, <1>2, <2>1, <2>3 DEF ListedOnceAt
    <2> QED BY <2>2, <2>3
<1>4. down' \in [Nodes -> Seq(MessagesOf(MadeIds))]
    BY DEF DInv, DTypeOK
<1> QED BY <1>1, <1>2, <1>3, <1>4, ReaderKeepsInv

LEMMA ListSteps ==
    ASSUME DInv, NEW n \in Nodes, UNCHANGED <<rcVars, raced>>,
           \/ update_list_insert(n) \/ update_list_select(n)
           \/ update_list_prune(n) \/ update_list_ready(n)
    PROVE DInv' /\ ReaderKeeps(n)
<1>1. /\ reader[n] \in ReadersOf(MadeIds) /\ reader[n].pc # "idle" /\ reader[n] # IdleReader
      /\ UNCHANGED <<conn, links, up, down, app, ep, made>>
      /\ preg[n] \in Seq(Listed(MadeIds)) /\ SameEntries(preg[n], preg[n])
    BY DEF DInv, DTypeOK, SameEntries, netVars, IdleReader, update_list_insert,
           update_list_select, update_list_prune, update_list_ready
<1>2. status[n] = "initializing" /\ OwnIds(preg[n]) = {} /\ OwnFirst(preg[n])
    BY <1>1 DEF DInv, ListedOnce, ListedOnceAt, Owned, OwnedAt
<1>3. /\ reader[n].list \in Seq(Foreign(MadeIds))
      /\ reader[n].pc = "insert" => reader[n].todo \in Seq(Foreign(MadeIds))
      /\ reader[n].pc = "prune" => reader[n].todo \in Seq(Listed(MadeIds))
    BY <1>1, ReaderKinds
<1>4. /\ status' = status => status' = [status EXCEPT ![n] = "initializing"]
      /\ preg' = preg => preg' = [preg EXCEPT ![n] = preg[n]]
    BY <1>2 DEF DInv, DTypeOK
<1>5. \A t : reader' = [reader EXCEPT ![n].todo = t] =>
            reader' = [reader EXCEPT ![n] =
                         [pc |-> reader[n].pc, todo |-> t, list |-> reader[n].list]]
    <2>1. reader[n] = [pc |-> reader[n].pc, todo |-> reader[n].todo, list |-> reader[n].list]
        BY <1>1 DEF ReadersOf, IdleReader
    <2> QED BY <2>1 DEF DInv, DTypeOK
<1>6. CASE update_list_insert(n)
    <2> DEFINE e == Head(reader[n].todo)
               s == WithEntry(preg[n], e)
               t == Tail(reader[n].todo)
               r == [pc |-> "insert", todo |-> t, list |-> reader[n].list]
    <2>1. /\ reader[n].pc = "insert" /\ reader[n].todo # <<>> /\ UNCHANGED status
          /\ preg' = [preg EXCEPT ![n] = s] /\ reader' = [reader EXCEPT ![n].todo = t]
        BY <1>6 DEF update_list_insert
    <2>2. e \in Foreign(MadeIds) /\ t \in Seq(Foreign(MadeIds))
        BY <1>3, <2>1, HeadTailProperties
    <2>3. e \in Listed(MadeIds) /\ ~e.endpoint
        BY <2>2 DEF Listed, Foreign
    <2>4. r \in ReadersOf(MadeIds)
        BY <1>3, <2>2 DEF ReadersOf
    <2>5. reader' = [reader EXCEPT ![n] = r]
        BY <1>5, <2>1
    <2> HIDE DEF e, t, r
    <2>6. s \in Seq(Listed(MadeIds)) /\ SameEntries(preg[n], s)
        BY <1>1, <2>3, WithEntryIs
    <2> HIDE DEF s
    <2>7. ReaderKeeps(n)
        BY <1>1, <2>1, <2>6, ReaderKeepsIs
    <2> QED BY <1>1, <1>4, <2>1, <2>4, <2>5, <2>7, ListStep
<1>7. CASE update_list_select(n)
    <2> DEFINE r == [pc |-> "prune", todo |-> preg[n], list |-> reader[n].list]
    <2>1. reader' = [reader EXCEPT ![n] = r] /\ UNCHANGED <<status, preg>>
        BY <1>7 DEF update_list_select
    <2>2. r \in ReadersOf(MadeIds)
        BY <1>1, <1>3 DEF ReadersOf
    <2> HIDE DEF r
    <2>3. ReaderKeeps(n)
        BY <1>1, <1>4, <2>1, ReaderKeepsIs
    <2> QED BY <1>1, <1>4, <2>1, <2>2, <2>3, ListStep
<1>8. CASE update_list_prune(n)
    <2> DEFINE id == Last(reader[n].todo).id
               t == Front(reader[n].todo)
               s == registry_delete(preg[n], id)
               r == [pc |-> "prune", todo |-> t, list |-> reader[n].list]
    <2>1. /\ reader[n].pc = "prune" /\ reader[n].todo # <<>> /\ UNCHANGED status
          /\ preg' = [preg EXCEPT ![n] = s] \/ preg' = preg
          /\ reader' = [reader EXCEPT ![n].todo = t]
        BY <1>8 DEF update_list_prune
    <2>2. t \in Seq(Listed(MadeIds))
        <3> DEFINE q == reader[n].todo
        <3>1. q \in Seq(Listed(MadeIds)) /\ q # <<>>
            BY <1>3, <2>1
        <3> HIDE DEF q
        <3>2. Len(q) - 1 \in 0..Len(q)
            BY <3>1, EmptySeq, LenProperties
        <3>3. SubSeq(q, 1, Len(q) - 1) \in Seq(Listed(MadeIds))
            BY <3>1, <3>2, PrefixIs
        <3> QED BY <3>3 DEF q, Front
    <2>3. r \in ReadersOf(MadeIds)
        BY <1>3, <2>2 DEF ReadersOf
    <2>4. reader' = [reader EXCEPT ![n] = r]
        BY <1>5, <2>1
    <2> HIDE DEF id, t, r
    <2>5. s \in Seq(Listed(MadeIds)) /\ SameEntries(preg[n], s)
        BY <1>1, <1>2, DeleteOther
    <2> HIDE DEF s
    <2>6. ReaderKeeps(n)
        BY <1>1, <1>4, <2>1, <2>5, ReaderKeepsIs
    <2> QED BY <1>1, <1>4, <2>1, <2>3, <2>4, <2>6, ListStep
<1>9. CASE update_list_ready(n)
    <2>1. /\ status' = [status EXCEPT ![n] = "ready"] /\ UNCHANGED preg
          /\ reader' = [reader EXCEPT ![n] = IdleReader]
        BY <1>9 DEF update_list_ready
    <2>2. IdleReader \in ReadersOf(MadeIds)
        BY DEF ReadersOf
    <2>3. ReaderKeeps(n)
        BY <1>1, <1>4, <2>1, ReaderKeepsIs
    <2> QED BY <1>1, <2>1, <2>2, <2>3, ListStep
<1> QED BY <1>6, <1>7, <1>8, <1>9

LEMMA ReaderIsInv ==
    ASSUME DInv, NEW n \in Nodes, ReaderStep(n)
    PROVE DInv' /\ ReaderKeeps(n)
<1>1. UNCHANGED <<rcVars, raced>>
    BY DEF ReaderStep
<1>2. CASE \/ proxy_handle_register_add(n) \/ proxy_connect_datalink(n)
           \/ proxy_connect_messagehub(n)
    BY <1>1, <1>2, RegisterAddStep, ConnectDatalinkStep, ConnectMessagehubStep
<1>3. CASE proxy_connect_datahub(n) \/ proxy_connect_streamer(n)
    BY <1>1, <1>3, ConnectLinksStep DEF proxy_connect_datahub, proxy_connect_streamer
<1>4. CASE \/ proxy_handle_register_remove(n) \/ proxy_handle_update_address(n)
           \/ proxy_onresponse(n) \/ proxy_handle_update_list(n)
    BY <1>1, <1>4, RegisterRemoveStep, HandleUpdateAddressStep, OnResponseStep, HandleListStep
<1>5. CASE \/ update_list_insert(n) \/ update_list_select(n)
           \/ update_list_prune(n) \/ update_list_ready(n)
    BY <1>1, <1>5, ListSteps
<1> QED BY <1>2, <1>3, <1>4, <1>5 DEF ReaderStep

-----------------------------------------------------------------------------
(* The application's thread                                                *)

(* A process that is ready changes its own variables.                      *)
LEMMA ReadyListed ==
    ASSUME DInv, NEW n \in Nodes, status[n] = "ready",
           UNCHANGED <<conn, down, handler, status, reader>>,
           \A m \in Nodes \ {n} : UNCHANGED <<up[m], preg[m], app[m]>>,
           Lists(up'[n]) = {}
    PROVE ListedOnce'
<1> SUFFICES ASSUME NEW m \in Nodes PROVE ListedOnceAt(m)'
    BY DEF ListedOnce
<1>1. ListedOnceAt(m)
    BY DEF DInv, ListedOnce
<1>2. CASE m = n
    BY <1>1, <1>2 DEF ListedOnceAt
<1>3. CASE m # n
    BY <1>1, <1>3 DEF ListedOnceAt
<1> QED BY <1>2, <1>3

LEMMA BusyIsReady ==
    ASSUME DInv, NEW n \in Nodes, app[n].pc # "idle"
    PROVE status[n] = "ready" /\ Lists(up[n]) = {} /\ app[n].entry \in Listed(MadeIds)
<1>1. app[n] \in AppsOf(MadeIds) /\ app[n] # IdleApp
    BY DEF DInv, DTypeOK, IdleApp
<1>2. status[n] = "ready" /\ Lists(up[n]) = {}
    BY <1>1 DEF DInv, ListedOnce, ListedOnceAt
<1> QED BY <1>1, <1>2, AppKinds

(* A proxy_open_* function has connected its end-point.                    *)
LEMMA ConnectedStep ==
    ASSUME DInv, NEW n \in Nodes, app[n].pc = "connect", Connected(n),
           ep' = ep \/ EpKeeps(ep', {}), UNCHANGED <<rcVars, raced>>
    PROVE DInv' /\ EpKeeps(ep', {})
<1>1. /\ app' = [app EXCEPT ![n] = IdleApp]
      /\ UNCHANGED <<conn, links, up, down, central, handler, raced, status, preg, reader, made>>
    BY DEF Connected, netVars, rcVars
<1>2. EpKeeps(ep', {})
    BY EpSame DEF DInv, DTypeOK, EpTypeOK
<1>3. MadeIds' = MadeIds /\ \A id \in Ids : IsOpen(id)' <=> IsOpen(id)
    BY <1>1, <1>2 DEF MadeIds, EpKeeps, IsOpen
<1>4. /\ app' \in [Nodes -> AppsOf(MadeIds)] /\ app'[n].pc = "idle"
      /\ \A m \in Nodes \ {n} : app'[m] = app[m]
    BY <1>1 DEF DInv, DTypeOK, AppsOf, IdleApp
<1>5. DTypeOK'
    BY <1>1, <1>2, <1>3, <1>4 DEF DInv, DTypeOK, EpKeeps
<1>6. RegisteredOnce'
    <2>1. \A m \in Nodes : Pending(m)' = Pending(m)
        BY <1>4 DEF Pending
    <2> QED BY <1>1, <2>1 DEF DInv, RegisteredOnce
<1>7. Owned' /\ OpenIsOwned'
    <2>1. \A m \in Nodes : SameEntries(preg[m], preg'[m])
        BY <1>1 DEF SameEntries
    <2>2. \A m \in Nodes : app'[m] = app[m] \/ (app'[m].pc = "idle" /\ app[m].pc # "unregister")
        BY <1>4
    <2> QED BY <1>2, <1>5, <2>1, <2>2, OwnedAlone DEF DInv
<1>8. Withdrawn'
    BY <1>1, <1>3 DEF DInv, Withdrawn, WithdrawnAt
<1>9. ListedOnce'
    BY <1>1, <1>4, BusyIsReady, ReadyListed
<1> QED BY <1>2, <1>5, <1>6, <1>7, <1>8, <1>9 DEF DInv

(* The end-point that is being connected is open.                          *)
LEMMA ConnectingIs ==
    ASSUME DInv, NEW n \in Nodes, app[n].pc = "connect"
    PROVE /\ app[n].entry.id \in Ids /\ IsOpen(app[n].entry.id)
          /\ \A i \in 1..Len(preg[n]) : preg[n][i].addr \in Addrs
<1>1. app[n].entry.id \in OwnIds(preg[n])
    BY DEF DInv, Owned, OwnedAt
<1>2. app[n].entry.id \in Ids /\ IsOpen(app[n].entry.id)
    BY <1>1, KnownIds DEF DInv, Owned, OwnedAt
<1>3. ASSUME NEW i \in 1..Len(preg[n]) PROVE preg[n][i].addr \in Addrs
    <2>1. preg[n] \in Seq(Listed(MadeIds))
        BY DEF DInv, DTypeOK
    <2>2. preg[n][i] \in Listed(MadeIds)
        BY <2>1, ElementOfSeq
    <2> QED BY <2>2 DEF Listed, Entry
<1> QED BY <1>2, <1>3

LEMMA OpenLinkStep ==
    ASSUME DInv, NEW n \in Nodes, NEW linkType, NEW hubType,
           OpenLink(n, linkType, hubType), UNCHANGED <<rcVars, raced>>
    PROVE DInv' /\ EpKeeps(ep', {})
<1> DEFINE id == app[n].entry.id
           k == LastSelected(preg[n], app[n].entry.topic, hubType)
<1>1. /\ app[n].pc = "connect" /\ Connected(n)
      /\ ep' = ep \/ (k # 0 /\ ep' = SetRemote({id}, preg[n][k].addr))
    BY DEF OpenLink, Connecting
<1>2. k \in 0..Len(preg[n])
    BY LastSelectedIs DEF DInv, DTypeOK
<1> HIDE DEF k
<1>3. id \in Ids /\ IsOpen(id) /\ (k # 0 => preg[n][k].addr \in Addrs)
    <2>1. k # 0 => k \in 1..Len(preg[n])
        BY <1>2
    <2> QED BY <1>1, <2>1, ConnectingIs
<1>4. k # 0 => EpKeeps(SetRemote({id}, preg[n][k].addr), {})
    <2> DEFINE a == preg[n][k].addr
    <2> HIDE DEF id, a
    <2>1. k # 0 => a \in Addrs
        BY <1>3 DEF a
    <2>2. EpTypeOK /\ {id} \in SUBSET Ids /\ \A i \in {id} : IsOpen(i)
        BY <1>3 DEF DInv, DTypeOK, EpTypeOK
    <2>3. k # 0 => EpKeeps(SetRemote({id}, a), {})
        BY <2>1, <2>2, SetRemoteIs
    <2> QED BY <2>3 DEF a
<1> QED BY <1>1, <1>4, ConnectedStep

LEMMA OpenDatahubStep ==
    ASSUME DInv, NEW n \in Nodes, proxy_open_datahub(n), UNCHANGED <<rcVars, raced>>
    PROVE DInv' /\ EpKeeps(ep', {})
<1> DEFINE id == app[n].entry.id
           S == {preg[n][i].addr : i \in {j \in 1..Len(preg[n]) :
                                            /\ preg[n][j].type = "datalink"
                                            /\ preg[n][j].topic = app[n].entry.topic}}
<1>1. app[n].pc = "connect" /\ Connected(n) /\ ep' = datahub_add_link(id, S)
    BY DEF proxy_open_datahub, Connecting
<1>2. id \in Ids /\ IsOpen(id) /\ S \in SUBSET Addrs
    BY <1>1, ConnectingIs
<1>3. EpTypeOK
    BY DEF DInv, DTypeOK, EpTypeOK
<1> HIDE DEF id, S
<1>4. EpKeeps(ep', {})
    BY <1>1, <1>2, <1>3, AddLinkIs
<1> QED BY <1>1, <1>4, ConnectedStep

LEMMA OpenMessagelinkStep ==
    ASSUME DInv, NEW n \in Nodes, proxy_open_messagelink(n), UNCHANGED <<rcVars, raced>>
    PROVE DInv' /\ EpKeeps(ep', {})
<1> DEFINE id == app[n].entry.id
           k == LastSelected(preg[n], app[n].entry.topic, "messagehub")
           a == preg[n][k].addr
<1>1. /\ app[n].pc = "connect" /\ Connected(n)
      /\ \/ ep' = ep
         \/ /\ k # 0
            /\ \E local \in [{id} -> FreeAddrs] : ep' = client_messagelink_connect({id}, a, local)
    BY DEF proxy_open_messagelink, Connecting
<1>2. k \in 0..Len(preg[n])
    BY LastSelectedIs DEF DInv, DTypeOK
<1> HIDE DEF k
<1>3. id \in Ids /\ IsOpen(id) /\ (k # 0 => a \in Addrs)
    <2>1. k # 0 => k \in 1..Len(preg[n])
        BY <1>2
    <2> QED BY <1>1, <2>1, ConnectingIs
<1> HIDE DEF id, a
<1>4. EpTypeOK /\ {id} \in SUBSET Ids /\ \A i \in {id} : IsOpen(i)
    BY <1>3 DEF DInv, DTypeOK, EpTypeOK
<1>5. \A local \in [{id} -> FreeAddrs] : local \in [{id} -> Addrs]
    BY DEF FreeAddrs
<1>6. ASSUME k # 0, NEW local \in [{id} -> FreeAddrs]
      PROVE EpKeeps(client_messagelink_connect({id}, a, local), {})
    BY <1>3, <1>4, <1>5, <1>6, MessagelinkConnectIs
<1>7. ep' = ep \/ EpKeeps(ep', {})
    BY <1>1, <1>6
<1> QED BY <1>1, <1>7, ConnectedStep

(* The request to register: the id is no longer to be registered, but on   *)
(* its way.                                                                *)
LEMMA RegisterRequestStep ==
    ASSUME DInv, NEW n \in Nodes, proxy_send_register_request(n), UNCHANGED <<rcVars, raced>>
    PROVE DInv'
<1> DEFINE e == app[n].entry
           msg == RegisterReq(e)
           t == Append(up[n], msg)
           x == IF e.type \in ConnectTypes THEN [pc |-> "connect", entry |-> e] ELSE IdleApp
<1>1. /\ app[n].pc = "register" /\ conn[n] = "open"
      /\ up' = [up EXCEPT ![n] = t] /\ app' = [app EXCEPT ![n] = x]
      /\ UNCHANGED <<conn, links, down, central, handler, raced, status, preg, reader, ep, made>>
    BY DEF proxy_send_register_request, CanSend, rcVars
<1>2. status[n] = "ready" /\ Lists(up[n]) = {} /\ e \in Listed(MadeIds)
    BY <1>1, BusyIsReady
<1>3. msg \in RequestsOf(MadeIds) /\ msg.kind = "register" /\ msg.entry.id = e.id
    <2> HIDE DEF e
    <2>1. registry_entry_encode(e) \in Foreign(MadeIds) /\ registry_entry_encode(e).id = e.id
        BY <1>2, EncodeIs DEF Listed, Foreign
    <2> QED BY <2>1 DEF RegisterReq, RequestsOf
<1>4. x \in AppsOf(MadeIds)
      /\ (x.pc = "idle" \/ (x.pc = "connect" /\ x.entry = e)) /\ x.pc # "register"
    BY <1>2 DEF AppsOf, IdleApp
<1>5. /\ e.id \in Pending(n) /\ e.id \notin RegIds(up[n]) /\ RegsOnce(up[n])
      /\ up[n] \in Seq(RequestsOf(MadeIds))
    BY <1>1 DEF DInv, DTypeOK, RegisteredOnce, Pending
<1> HIDE DEF msg, x
<1>6. /\ t \in Seq(RequestsOf(MadeIds)) /\ RegIds(t) = RegIds(up[n]) \cup {e.id}
      /\ RegsOnce(t) /\ UnregIds(t) = UnregIds(up[n]) /\ Lists(t) = {}
    <2> DEFINE q == up[n]
    <2> HIDE DEF q
    <2>1. /\ Append(q, msg) \in Seq(RequestsOf(MadeIds))
          /\ RegIds(Append(q, msg)) = RegIds(q) \cup (IF msg.kind = "register" THEN {msg.entry.id} ELSE {})
          /\ RegsOnce(q) /\ (msg.kind = "register" => msg.entry.id \notin RegIds(q))
                => RegsOnce(Append(q, msg))
          /\ UnregIds(Append(q, msg)) = UnregIds(q) \cup (IF msg.kind = "unregister" THEN {msg.id} ELSE {})
          /\ msg.kind # "list" => Lists(Append(q, msg)) = Lists(q)
        <3>1. q \in Seq(RequestsOf(MadeIds)) /\ msg \in RequestsOf(MadeIds)
            BY <1>3, <1>5 DEF q
        <3> QED BY <3>1, AppendIs
    <2>2. t = Append(q, msg)
        BY DEF q
    <2> HIDE DEF t
    <2> QED BY <1>2, <1>3, <1>5, <2>1, <2>2 DEF q
<1> HIDE DEF t
<1>7. /\ up' \in [Nodes -> Seq(RequestsOf(MadeIds))] /\ up'[n] = t
      /\ \A m \in Nodes \ {n} : up'[m] = up[m]
    BY <1>1, <1>6 DEF DInv, DTypeOK
<1>8. /\ app' \in [Nodes -> AppsOf(MadeIds)] /\ app'[n] = x
      /\ \A m \in Nodes \ {n} : app'[m] = app[m]
    BY <1>1, <1>4 DEF DInv, DTypeOK
<1>9. MadeIds' = MadeIds /\ \A id \in Ids : IsOpen(id)' <=> IsOpen(id)
    BY <1>1 DEF MadeIds, IsOpen
<1>10. DTypeOK'
    BY <1>1, <1>7, <1>8, <1>9 DEF DInv, DTypeOK
<1>11. RegisteredOnce'
    <2>1. Pending(n)' = {} /\ \A m \in Nodes \ {n} : Pending(m)' = Pending(m)
        BY <1>4, <1>8 DEF Pending
    <2>2. ASSUME NEW m \in Nodes
          PROVE RegsOnce(up'[m]) /\ RegIds(up'[m]) \cap IdsOf(central) = {}
                /\ Pending(m)' \cap IdsOf(central) = {}
        <3>1. CASE m = n
            BY <1>5, <1>6, <1>7, <2>1, <3>1 DEF DInv, RegisteredOnce
        <3>2. CASE m # n
            BY <1>7, <2>1, <3>2 DEF DInv, RegisteredOnce
        <3> QED BY <3>1, <3>2
    <2>3. ASSUME NEW m \in Nodes, NEW k \in Nodes
          PROVE /\ Pending(m)' \cap RegIds(up'[k]) = {}
                /\ k # m => /\ Pending(m)' \cap Pending(k)' = {}
                            /\ RegIds(up'[m]) \cap RegIds(up'[k]) = {}
        <3>1. /\ Pending(m) \cap RegIds(up[k]) = {}
              /\ k # m => /\ Pending(m) \cap Pending(k) = {}
                          /\ RegIds(up[m]) \cap RegIds(up[k]) = {}
              /\ m # n => e.id \notin Pending(m)
              /\ e.id \notin RegIds(up[m]) /\ e.id \notin RegIds(up[k])
            BY <1>5 DEF DInv, RegisteredOnce
        <3>2. RegIds(up'[k]) \subseteq RegIds(up[k]) \cup (IF k = n THEN {e.id} ELSE {})
              /\ RegIds(up'[m]) \subseteq RegIds(up[m]) \cup (IF m = n THEN {e.id} ELSE {})
            BY <1>6, <1>7
        <3>3. Pending(m)' \subseteq Pending(m) /\ (m = n => Pending(m)' = {})
              /\ Pending(k)' \subseteq Pending(k)
            BY <2>1
        <3> QED BY <3>1, <3>2, <3>3
    <2>4. IdsOnce(central') /\ central' = central
        BY <1>1 DEF DInv, RegisteredOnce
    <2> QED BY <2>2, <2>3, <2>4 DEF RegisteredOnce
<1>12. Owned' /\ OpenIsOwned'
    <2>1. \A m \in Nodes : SameEntries(preg[m], preg'[m])
        BY <1>1 DEF SameEntries
    <2>2. \A m \in Nodes : \/ app'[m] = app[m]
                           \/ app'[m].pc = "idle" /\ app[m].pc # "unregister"
                           \/ /\ app'[m].pc = "connect" /\ app[m].pc = "register"
                              /\ app'[m].entry = app[m].entry
        BY <1>1, <1>4, <1>8
    <2>3. EpKeeps(ep', {})
        BY <1>1, EpSame DEF DInv, DTypeOK, EpTypeOK
    <2> QED BY <1>10, <2>1, <2>2, <2>3, OwnedAlone DEF DInv
<1>13. Withdrawn'
    <2>1. \A m \in Nodes : WithdrawnAt(m)' = WithdrawnAt(m)
        BY <1>1, <1>6, <1>7 DEF WithdrawnAt
    <2> QED BY <1>9, <2>1 DEF DInv, Withdrawn
<1>14. ListedOnce'
    BY <1>1, <1>2, <1>6, <1>7, <1>8, ReadyListed
<1> QED BY <1>10, <1>11, <1>12, <1>13, <1>14 DEF DInv

(* End-points of process n are deleted, and the entries of its list with   *)
(* them.                                                                   *)
LEMMA OwnedGone ==
    ASSUME DInv, NEW n \in Nodes, NEW S \in SUBSET Ids, EpKeeps(ep', S),
           \A id \in S : IsOpen(id) /\ ep[id].node = n,
           NEW s \in Seq(Listed(MadeIds)), preg' = [preg EXCEPT ![n] = s],
           OwnFirst(s), OwnIds(s) = OwnIds(preg[n]) \ S,
           \A id, type : Owns(s, id, type) => Owns(preg[n], id, type),
           app' = [app EXCEPT ![n] = IdleApp],
           app[n].pc = "unregister" => app[n].entry.id \in S
    PROVE /\ Owned' /\ OpenIsOwned'
          /\ \A id \in Ids : IsOpen(id)' => IsOpen(id)
          /\ ep' \in [Ids -> Endpoint \cup {Closed}]
          /\ preg' \in [Nodes -> Seq(Listed(MadeIds))]
          /\ app' \in [Nodes -> AppsOf(MadeIds)]
          /\ app'[n] = IdleApp /\ preg'[n] = s
          /\ \A m \in Nodes \ {n} : app'[m] = app[m] /\ preg'[m] = preg[m]
<1>1. /\ preg' \in [Nodes -> Seq(Listed(MadeIds))] /\ preg'[n] = s
      /\ \A m \in Nodes \ {n} : preg'[m] = preg[m]
    BY DEF DInv, DTypeOK
<1>2. /\ app' \in [Nodes -> AppsOf(MadeIds)] /\ app'[n] = IdleApp /\ IdleApp.pc = "idle"
      /\ \A m \in Nodes \ {n} : app'[m] = app[m]
    BY DEF DInv, DTypeOK, AppsOf, IdleApp
<1>3. /\ \A id \in Ids \ S : /\ IsOpen(id)' <=> IsOpen(id)
                             /\ IsOpen(id) => ep'[id].node = ep[id].node /\ ep'[id].type = ep[id].type
      /\ \A id \in S : ~IsOpen(id)'
      /\ ep' \in [Ids -> Endpoint \cup {Closed}]
    BY DEF EpKeeps, IsOpen
<1>4. ASSUME NEW m \in Nodes PROVE OwnedAt(m)'
    <2>1. OwnedAt(m) /\ OwnIds(preg[m]) \subseteq Ids
          /\ (app[m].pc \in {"register", "connect", "unregister"} => app[m].entry.id \in Ids)
        BY KnownIds DEF DInv, Owned
    <2>2. CASE m = n
        <3>1. \A id \in OwnIds(s) : id \in Ids \ S /\ IsOpen(id) /\ ep[id].node = n
            BY <2>1, <2>2 DEF OwnedAt
        <3>2. \A id \in OwnIds(preg'[m]) : IsOpen(id)' /\ ep'[id].node = m
            BY <1>1, <1>3, <2>2, <3>1
        <3>3. ASSUME NEW id, NEW type, Owns(preg'[m], id, type) PROVE ep'[id].type = type
            <4>1. Owns(preg[m], id, type) /\ id \in OwnIds(s)
                BY <1>1, <2>2, <3>3 DEF Owns, OwnIds
            <4> QED BY <1>3, <2>1, <3>1, <4>1 DEF OwnedAt
        <3>4. OwnFirst(preg'[m]) /\ app'[m].pc = "idle"
            BY <1>1, <1>2, <2>2
        <3> QED BY <3>2, <3>3, <3>4 DEF OwnedAt
    <2>3. CASE m # n
        <3>1. \A id \in OwnIds(preg[m]) : id \in Ids \ S
            BY <2>1, <2>3 DEF OwnedAt
        <3>2. app[m].pc = "unregister" => app[m].entry.id \in Ids \ S
            BY <2>1, <2>3 DEF OwnedAt
        <3>3. preg'[m] = preg[m] /\ app'[m] = app[m]
            BY <1>1, <1>2, <2>3
        <3>4. \A id \in OwnIds(preg'[m]) : IsOpen(id)' /\ ep'[id].node = m
            BY <1>3, <2>1, <3>1, <3>3 DEF OwnedAt
        <3>5. ASSUME NEW id, NEW type, Owns(preg'[m], id, type) PROVE ep'[id].type = type
            <4>1. Owns(preg[m], id, type) /\ id \in OwnIds(preg[m])
                BY <3>3, <3>5 DEF Owns, OwnIds
            <4> QED BY <1>3, <2>1, <3>1, <4>1 DEF OwnedAt
        <3>6. app'[m].pc = "unregister" =>
                /\ app'[m].entry.id \notin OwnIds(preg'[m])
                /\ ep'[app'[m].entry.id] # Closed /\ ep'[app'[m].entry.id].node = m
            <4> SUFFICES ASSUME app[m].pc = "unregister"
                         PROVE /\ app[m].entry.id \notin OwnIds(preg[m])
                               /\ ep'[app[m].entry.id] # Closed
                               /\ ep'[app[m].entry.id].node = m
                BY <3>3
            <4> DEFINE id == app[m].entry.id
            <4>1. /\ id \in Ids \ S /\ IsOpen(id) /\ ep[id].node = m
                  /\ id \notin OwnIds(preg[m])
                BY <2>1, <3>2 DEF OwnedAt
            <4> HIDE DEF id
            <4>2. ep'[id] # Closed /\ ep'[id].node = m
                BY <1>3, <4>1 DEF IsOpen
            <4> QED BY <4>1, <4>2 DEF id
        <3>7. /\ OwnFirst(preg'[m])
              /\ app'[m].pc \in {"register", "connect"} => app'[m].entry.id \in OwnIds(preg'[m])
            BY <2>1, <3>3 DEF OwnedAt
        <3> QED BY <3>4, <3>5, <3>6, <3>7 DEF OwnedAt, IsOpen
    <2> QED BY <2>2, <2>3
<1>5. OpenIsOwned'
    <2> SUFFICES ASSUME NEW id \in Ids, IsOpen(id)'
                 PROVE \/ id \in OwnIds(preg'[ep'[id].node])
                       \/ /\ app'[ep'[id].node].pc = "unregister"
                          /\ app'[ep'[id].node].entry.id = id
        BY DEF OpenIsOwned
    <2>1. id \notin S /\ IsOpen(id) /\ ep'[id].node = ep[id].node
        BY <1>3
    <2>2. ep[id].node \in Nodes
        BY <2>1, OpenIsEndpoint DEF DInv, DTypeOK, EpTypeOK, Endpoint
    <2>3. \/ id \in OwnIds(preg[ep[id].node])
          \/ app[ep[id].node].pc = "unregister" /\ app[ep[id].node].entry.id = id
        BY <2>1 DEF DInv, OpenIsOwned
    <2>4. CASE ep[id].node = n
        BY <1>1, <2>1, <2>3, <2>4
    <2>5. CASE ep[id].node # n
        BY <1>1, <1>2, <2>1, <2>2, <2>3, <2>5
    <2> QED BY <2>4, <2>5
<1> QED BY <1>1, <1>2, <1>3, <1>4, <1>5 DEF Owned

(* An entry is taken out of the list, and its end-point stays for now.     *)
LEMMA TakenOut ==
    ASSUME DInv, NEW n \in Nodes, NEW id \in Ids, NEW e \in Listed(MadeIds), e.id = id,
           status[n] = "ready", app[n].pc \in {"idle", "register"},
           IsOpen(id), ep[id].node = n,
           preg' = [preg EXCEPT ![n] = registry_delete(preg[n], id)],
           app' = [app EXCEPT ![n] = [pc |-> "unregister", entry |-> e]],
           UNCHANGED <<conn, links, up, down, central, handler, raced, status, reader, ep, made>>
    PROVE DInv'
<1> DEFINE s == registry_delete(preg[n], id)
           x == [pc |-> "unregister", entry |-> e]
<1>1. /\ status[n] = "ready" /\ app[n].pc # "unregister" /\ IsOpen(id) /\ ep[id].node = n
      /\ preg' = [preg EXCEPT ![n] = s]
      /\ UNCHANGED <<conn, links, up, down, central, handler, raced, status, reader, ep, made>>
    OBVIOUS
<1>3. x \in AppsOf(MadeIds) /\ x.pc = "unregister" /\ x.entry.id = id
    BY DEF AppsOf
<1>4. app' = [app EXCEPT ![n] = x]
    OBVIOUS
<1>5. preg[n] \in Seq(Listed(MadeIds)) /\ OwnFirst(preg[n])
    BY DEF DInv, DTypeOK, Owned, OwnedAt
<1>6. /\ s \in Seq(Listed(MadeIds)) /\ OwnFirst(s) /\ OwnIds(s) = OwnIds(preg[n]) \ {id}
      /\ \A i, type : Owns(s, i, type) <=> Owns(preg[n], i, type) /\ i # id
    BY <1>5, DeleteIs
<1> HIDE DEF s, x
<1>7. /\ app' \in [Nodes -> AppsOf(MadeIds)] /\ app'[n] = x
      /\ preg' \in [Nodes -> Seq(Listed(MadeIds))] /\ preg'[n] = s
      /\ \A m \in Nodes \ {n} : app'[m] = app[m] /\ preg'[m] = preg[m]
    BY <1>1, <1>3, <1>4, <1>6 DEF DInv, DTypeOK
<1>8. MadeIds' = MadeIds /\ \A i \in Ids : IsOpen(i)' <=> IsOpen(i)
    BY <1>1 DEF MadeIds, IsOpen
<1>9. DTypeOK'
    BY <1>1, <1>7, <1>8 DEF DInv, DTypeOK
<1>10. RegisteredOnce'
    <2>1. \A m \in Nodes : Pending(m)' \subseteq Pending(m)
        BY <1>3, <1>7 DEF Pending
    <2>2. IdsOnce(central) /\ \A m \in Nodes : RegsOnce(up[m])
        BY DEF DInv, RegisteredOnce
    <2> QED BY <1>1, <2>1, <2>2, RegisteredAlone DEF DInv
<1>11. ASSUME NEW m \in Nodes PROVE OwnedAt(m)'
    <2>1. OwnedAt(m) /\ ep' = ep
        BY <1>1 DEF DInv, Owned
    <2>2. CASE m = n
        <3>1. \A i \in OwnIds(preg'[m]) : ep'[i] # Closed /\ ep'[i].node = m
            BY <1>6, <1>7, <2>1, <2>2 DEF OwnedAt, IsOpen
        <3>2. \A i, type : Owns(preg'[m], i, type) => ep'[i].type = type
            BY <1>6, <1>7, <2>1, <2>2 DEF OwnedAt
        <3>3. /\ app'[m].pc = "unregister" /\ app'[m].entry.id = id
              /\ id \notin OwnIds(preg'[m]) /\ ep'[id] # Closed /\ ep'[id].node = m
            BY <1>1, <1>3, <1>6, <1>7, <2>2 DEF IsOpen
        <3>4. OwnFirst(preg'[m])
            BY <1>6, <1>7, <2>2
        <3> QED BY <3>1, <3>2, <3>3, <3>4 DEF OwnedAt, IsOpen
    <2>3. CASE m # n
        BY <1>7, <2>1, <2>3 DEF OwnedAt, IsOpen
    <2> QED BY <2>2, <2>3
<1>12. OpenIsOwned'
    <2> SUFFICES ASSUME NEW i \in Ids, IsOpen(i)
                 PROVE \/ i \in OwnIds(preg'[ep[i].node])
                       \/ app'[ep[i].node].pc = "unregister" /\ app'[ep[i].node].entry.id = i
        BY <1>1 DEF OpenIsOwned, IsOpen
    <2>1. ep[i].node \in Nodes
        BY OpenIsEndpoint DEF DInv, DTypeOK, EpTypeOK, Endpoint
    <2>2. \/ i \in OwnIds(preg[ep[i].node])
          \/ app[ep[i].node].pc = "unregister" /\ app[ep[i].node].entry.id = i
        BY DEF DInv, OpenIsOwned
    <2>3. CASE ep[i].node # n
        BY <1>7, <2>1, <2>2, <2>3
    <2>4. CASE ep[i].node = n
        <3>1. i \in OwnIds(preg[n])
            BY <1>1, <2>2, <2>4
        <3> QED BY <1>3, <1>6, <1>7, <2>4, <3>1
    <2> QED BY <2>3, <2>4
<1>13. Withdrawn'
    BY <1>1, <1>8 DEF DInv, Withdrawn, WithdrawnAt
<1>14. ListedOnce'
    <2>1. Lists(up[n]) = {}
        BY <1>1 DEF DInv, ListedOnce, ListedOnceAt
    <2> QED BY <1>1, <1>7, <2>1, ReadyListed
<1> QED BY <1>9, <1>10, <1>11, <1>12, <1>13, <1>14 DEF DInv, Owned

LEMMA NewEntryFailedStep ==
    ASSUME DInv, NEW n \in Nodes, proxy_new_entry_failed(n), UNCHANGED <<rcVars, raced>>
    PROVE DInv'
<1> DEFINE id == app[n].entry.id
           e == app[n].entry
<1>1. /\ app[n].pc = "register"
      /\ preg' = [preg EXCEPT ![n] = registry_delete(preg[n], id)]
      /\ app' = [app EXCEPT ![n] = [pc |-> "unregister", entry |-> e]]
      /\ UNCHANGED <<conn, links, up, down, central, handler, raced, status, reader, ep, made>>
    BY DEF proxy_new_entry_failed, netVars, rcVars
<1>2. id \in Ids /\ IsOpen(id) /\ ep[id].node = n
    BY <1>1, KnownIds DEF DInv, Owned, OwnedAt
<1>3. status[n] = "ready" /\ e \in Listed(MadeIds) /\ e.id = id
    BY <1>1, BusyIsReady
<1> HIDE DEF id, e
<1> QED BY <1>1, <1>2, <1>3, TakenOut

LEMMA DeleteEntryIs ==
    ASSUME DInv, NEW n \in Nodes, NEW id \in Ids, proxy_delete_entry(n, id)
    PROVE \E e \in Listed(MadeIds) :
            e.id = id /\ app' = [app EXCEPT ![n] = [pc |-> "unregister", entry |-> e]]
<1> DEFINE S == {i \in 1..Len(preg[n]) : preg[n][i].id = id /\ preg[n][i].endpoint}
           i == CHOOSE i \in S : TRUE
<1>1. /\ S # {}
      /\ app' = [app EXCEPT ![n] = [pc |-> "unregister", entry |-> preg[n][i]]]
    BY DEF proxy_delete_entry, DeleteEntry
<1>2. i \in S
    BY <1>1
<1>3. preg[n] \in Seq(Listed(MadeIds))
    BY DEF DInv, DTypeOK
<1> HIDE DEF i
<1>4. preg[n][i] \in Listed(MadeIds) /\ preg[n][i].id = id
    BY <1>2, <1>3, ElementOfSeq
<1> QED BY <1>1, <1>4

LEMMA DeleteEntryStep ==
    ASSUME DInv, NEW n \in Nodes, NEW id \in Ids, proxy_delete_entry(n, id),
           UNCHANGED <<rcVars, raced>>
    PROVE DInv'
<1>1. /\ status[n] = "ready" /\ app[n].pc = "idle" /\ IsOpen(id) /\ ep[id].node = n
      /\ preg' = [preg EXCEPT ![n] = registry_delete(preg[n], id)]
      /\ UNCHANGED <<conn, links, up, down, central, handler, raced, status, reader, ep, made>>
    BY DEF proxy_delete_entry, DeleteEntry, netVars, rcVars, IdleApp
<1>2. PICK e \in Listed(MadeIds) :
        e.id = id /\ app' = [app EXCEPT ![n] = [pc |-> "unregister", entry |-> e]]
    BY DeleteEntryIs
<1> QED BY <1>1, <1>2, TakenOut

(* The request to unregister is sent, or the open has failed, and the      *)
(* end-point is deleted.                                                   *)
LEMMA UnregisterRequestStep ==
    ASSUME DInv, NEW n \in Nodes, UNCHANGED <<rcVars, raced>>,
           proxy_send_unregister_request(n) \/ proxy_open_failed(n)
    PROVE DInv'
<1> DEFINE id == app[n].entry.id
           msg == UnregisterReq(id)
           t == Append(up[n], msg)
<1>1. /\ app[n].pc = "unregister"
      /\ up' = [up EXCEPT ![n] = t] \/ up' = up
      /\ ep' = DeleteEndpoints({id}) /\ app' = [app EXCEPT ![n] = IdleApp]
      /\ UNCHANGED <<conn, links, down, central, handler, raced, status, preg, reader, made>>
    BY DEF proxy_send_unregister_request, proxy_open_failed, netVars, rcVars
<1>2. /\ id \in MadeIds /\ id \in Ids /\ IsOpen(id) /\ ep[id].node = n
      /\ id \notin OwnIds(preg[n])
    BY <1>1, KnownIds DEF DInv, Owned, OwnedAt
<1>3. msg \in RequestsOf(MadeIds) /\ msg.kind = "unregister" /\ msg.id = id
    BY <1>2 DEF UnregisterReq, RequestsOf
<1>4. status[n] = "ready" /\ Lists(up[n]) = {} /\ RegsOnce(up[n])
      /\ up[n] \in Seq(RequestsOf(MadeIds))
    BY <1>1, BusyIsReady DEF DInv, DTypeOK, RegisteredOnce
<1> HIDE DEF id, msg
<1>5. /\ t \in Seq(RequestsOf(MadeIds)) /\ RegIds(t) = RegIds(up[n]) /\ RegsOnce(t)
      /\ UnregIds(t) = UnregIds(up[n]) \cup {id} /\ Lists(t) = {}
    <2> DEFINE q == up[n]
    <2> HIDE DEF q
    <2>1. /\ Append(q, msg) \in Seq(RequestsOf(MadeIds))
          /\ RegIds(Append(q, msg)) = RegIds(q) \cup (IF msg.kind = "register" THEN {msg.entry.id} ELSE {})
          /\ RegsOnce(q) /\ (msg.kind = "register" => msg.entry.id \notin RegIds(q))
                => RegsOnce(Append(q, msg))
          /\ UnregIds(Append(q, msg)) = UnregIds(q) \cup (IF msg.kind = "unregister" THEN {msg.id} ELSE {})
          /\ msg.kind # "list" => Lists(Append(q, msg)) = Lists(q)
        <3>1. q \in Seq(RequestsOf(MadeIds)) /\ msg \in RequestsOf(MadeIds)
            BY <1>3, <1>4 DEF q
        <3> QED BY <3>1, AppendIs
    <2>2. t = Append(q, msg)
        BY DEF q
    <2> HIDE DEF t
    <2> QED BY <1>3, <1>4, <2>1, <2>2 DEF q
<1> HIDE DEF t
<1>6. /\ up' \in [Nodes -> Seq(RequestsOf(MadeIds))] /\ (up'[n] = t \/ up'[n] = up[n])
      /\ \A m \in Nodes \ {n} : up'[m] = up[m]
    BY <1>1, <1>5 DEF DInv, DTypeOK
<1>7. EpKeeps(ep', {id})
    BY <1>1, <1>2, DeleteEndpointsIs DEF DInv, DTypeOK, EpTypeOK
<1>8. /\ Owned' /\ OpenIsOwned'
      /\ \A i \in Ids : IsOpen(i)' => IsOpen(i)
      /\ ep' \in [Ids -> Endpoint \cup {Closed}]
      /\ preg' \in [Nodes -> Seq(Listed(MadeIds))]
      /\ app' \in [Nodes -> AppsOf(MadeIds)]
      /\ app'[n] = IdleApp /\ preg'[n] = preg[n]
      /\ \A m \in Nodes \ {n} : app'[m] = app[m] /\ preg'[m] = preg[m]
    <2>1. \A i \in {id} : IsOpen(i) /\ ep[i].node = n
        BY <1>2
    <2>2. /\ preg[n] \in Seq(Listed(MadeIds)) /\ preg' = [preg EXCEPT ![n] = preg[n]]
          /\ OwnFirst(preg[n]) /\ OwnIds(preg[n]) = OwnIds(preg[n]) \ {id}
        BY <1>1, <1>2 DEF DInv, DTypeOK, Owned, OwnedAt
    <2>3. app[n].entry.id \in {id}
        BY DEF id
    <2> QED BY <1>1, <1>2, <1>7, <2>1, <2>2, <2>3, OwnedGone, ZenonT(30)
<1>9. DTypeOK'
    <2>1. MadeIds' = MadeIds
        BY <1>1 DEF MadeIds
    <2> QED BY <1>1, <1>6, <1>8, <2>1 DEF DInv, DTypeOK
<1>10. RegisteredOnce'
    <2>1. \A m \in Nodes : Pending(m)' \subseteq Pending(m)
        BY <1>8 DEF Pending, IdleApp
    <2>2. IdsOnce(central) /\ \A m \in Nodes : RegsOnce(up[m])
        BY DEF DInv, RegisteredOnce
    <2>3. \A m \in Nodes : RegsOnce(up'[m]) /\ RegIds(up'[m]) \subseteq RegIds(up[m])
        BY <1>5, <1>6, <2>2
    <2> QED BY <1>1, <2>1, <2>2, <2>3, RegisteredAlone DEF DInv
<1>11. Withdrawn'
    <2>1. \A i \in Ids : i = id => ~IsOpen(i)'
        BY <1>7 DEF EpKeeps, IsOpen
    <2>2. ASSUME NEW m \in Nodes, NEW i \in Ids, i \in WithdrawnAt(m)'
          PROVE i \in WithdrawnAt(m) \/ i = id
        <3>1. UnregIds(up'[m]) \subseteq UnregIds(up[m]) \cup {id}
            BY <1>5, <1>6
        <3> QED BY <1>1, <2>2, <3>1 DEF WithdrawnAt
    <2> QED BY <1>8, <2>1, <2>2 DEF DInv, Withdrawn
<1>12. ListedOnce'
    BY <1>1, <1>4, <1>5, <1>6, <1>8, ReadyListed
<1> QED BY <1>8, <1>9, <1>10, <1>11, <1>12 DEF DInv

(* A connection ends: of the requests a part still arrives.                *)
LEMMA BreakIs ==
    ASSUME DInv, NEW n \in Nodes,
           \E k \in 0..Len(up[n]) : up' = [up EXCEPT ![n] = SubSeq(up[n], 1, k)],
           down' = [down EXCEPT ![n] = <<>>]
    PROVE /\ up' \in [Nodes -> Seq(RequestsOf(MadeIds))]
          /\ down' \in [Nodes -> Seq(MessagesOf(MadeIds))]
          /\ down'[n] = <<>> /\ Lists(down'[n]) = {} /\ RemovedIds(down'[n]) = {}
          /\ \A m \in Nodes : PartOf(up[m], up'[m])
          /\ \A m \in Nodes \ {n} : up'[m] = up[m] /\ down'[m] = down[m]
          /\ Lists(up'[n]) # {} => Len(up'[n]) = 1
<1>1. PICK k \in 0..Len(up[n]) : up' = [up EXCEPT ![n] = SubSeq(up[n], 1, k)]
    OBVIOUS
<1> DEFINE q == up[n]
           t == SubSeq(q, 1, k)
<1>2. /\ up \in [Nodes -> Seq(RequestsOf(MadeIds))] /\ q \in Seq(RequestsOf(MadeIds))
      /\ down \in [Nodes -> Seq(MessagesOf(MadeIds))]
    BY DEF DInv, DTypeOK
<1>3. t \in Seq(RequestsOf(MadeIds)) /\ PartOf(q, t) /\ Len(t) = k
    BY <1>2, PrefixIs
<1>4. up' = [up EXCEPT ![n] = t]
    BY <1>1
<1> HIDE DEF t
<1>5. /\ up' \in [Nodes -> Seq(RequestsOf(MadeIds))] /\ up'[n] = t
      /\ \A m \in Nodes \ {n} : up'[m] = up[m]
    BY <1>2, <1>3, <1>4
<1>6. \A m \in Nodes : PartOf(up[m], up'[m])
    <2>1. \A m \in Nodes : PartOf(up[m], up[m])
        BY DEF PartOf
    <2> QED BY <1>3, <1>5, <2>1
<1>7. ASSUME Lists(t) # {} PROVE Len(t) = 1
    <2>1. Len(q) = 1
        BY <1>3, <1>7 DEF PartOf, DInv, ListedOnce, ListedOnceAt
    <2>2. Len(t) = 0 => Lists(t) = {}
        BY DEF Lists
    <2>3. Len(t) \in 0..1
        BY <1>3, <2>1
    <2> QED BY <1>7, <2>2, <2>3
<1>8. /\ down' \in [Nodes -> Seq(MessagesOf(MadeIds))] /\ down'[n] = <<>>
      /\ \A m \in Nodes \ {n} : down'[m] = down[m]
    BY <1>2
<1>9. Lists(<<>>) = {} /\ RemovedIds(<<>>) = {}
    BY DEF Lists, RemovedIds
<1> QED BY <1>5, <1>6, <1>7, <1>8, <1>9

LEMMA LeaveStep ==
    ASSUME DInv, NEW n \in Nodes, Leave(n), UNCHANGED <<rcVars, raced>>
    PROVE DInv'
<1> DEFINE S == {id \in Ids : IsOpen(id) /\ ep[id].node = n}
<1>1. /\ \E k \in 0..Len(up[n]) : up' = [up EXCEPT ![n] = SubSeq(up[n], 1, k)]
      /\ conn' = [conn EXCEPT ![n] = "closed"] /\ down' = [down EXCEPT ![n] = <<>>]
      /\ status' = [status EXCEPT ![n] = "gone"] /\ preg' = [preg EXCEPT ![n] = <<>>]
      /\ app' = [app EXCEPT ![n] = IdleApp] /\ reader' = [reader EXCEPT ![n] = IdleReader]
      /\ ep' = DeleteEndpoints(S)
      /\ UNCHANGED <<links, made, central, handler, raced>>
    BY DEF Leave, rcVars
<1>2. /\ up' \in [Nodes -> Seq(RequestsOf(MadeIds))]
      /\ down' \in [Nodes -> Seq(MessagesOf(MadeIds))]
      /\ down'[n] = <<>> /\ Lists(down'[n]) = {} /\ RemovedIds(down'[n]) = {}
      /\ \A m \in Nodes : PartOf(up[m], up'[m])
      /\ \A m \in Nodes \ {n} : up'[m] = up[m] /\ down'[m] = down[m]
      /\ Lists(up'[n]) # {} => Len(up'[n]) = 1
    BY <1>1, BreakIs
<1>3. /\ OwnFirst(<<>>) /\ OwnIds(<<>>) = {} /\ \A id, type : ~Owns(<<>>, id, type)
    BY DEF OwnFirst, OwnIds, Owns
<1>4. /\ Owned' /\ OpenIsOwned'
      /\ \A i \in Ids : IsOpen(i)' => IsOpen(i)
      /\ ep' \in [Ids -> Endpoint \cup {Closed}]
      /\ preg' \in [Nodes -> Seq(Listed(MadeIds))]
      /\ app' \in [Nodes -> AppsOf(MadeIds)]
      /\ app'[n] = IdleApp /\ preg'[n] = <<>>
      /\ \A m \in Nodes \ {n} : app'[m] = app[m] /\ preg'[m] = preg[m]
    <2>1. OwnIds(preg[n]) \subseteq S
        BY KnownIds DEF DInv, Owned, OwnedAt
    <2>2. app[n].pc = "unregister" => app[n].entry.id \in S
        BY KnownIds DEF DInv, Owned, OwnedAt
    <2>3. S \in SUBSET Ids /\ \A id \in S : IsOpen(id) /\ ep[id].node = n
        OBVIOUS
    <2>4. <<>> \in Seq(Listed(MadeIds))
        OBVIOUS
    <2> HIDE DEF S
    <2>5. EpKeeps(ep', S)
        BY <1>1, <2>3, DeleteEndpointsIs DEF DInv, DTypeOK, EpTypeOK
    <2>6. OwnIds(<<>>) = OwnIds(preg[n]) \ S
        BY <1>3, <2>1
    <2> QED BY <1>1, <1>3, <2>2, <2>3, <2>4, <2>5, <2>6, OwnedGone
<1>5. /\ conn' \in [Nodes -> {"none", "open", "closed"}] /\ conn'[n] = "closed"
      /\ status' \in [Nodes -> {"none", "initializing", "ready", "gone"}]
      /\ status'[n] = "gone" /\ reader'[n] = IdleReader
      /\ reader' \in [Nodes -> ReadersOf(MadeIds)]
      /\ \A m \in Nodes \ {n} : UNCHANGED <<conn[m], status[m], reader[m]>>
    BY <1>1 DEF DInv, DTypeOK, ReadersOf
<1>6. DTypeOK'
    <2>1. MadeIds' = MadeIds
        BY <1>1 DEF MadeIds
    <2> QED BY <1>1, <1>2, <1>4, <1>5, <2>1 DEF DInv, DTypeOK
<1>7. RegisteredOnce'
    <2>1. \A m \in Nodes : Pending(m)' \subseteq Pending(m)
        BY <1>4 DEF Pending, IdleApp
    <2>2. IdsOnce(central) /\ \A m \in Nodes : RegsOnce(up[m])
        BY DEF DInv, RegisteredOnce
    <2>3. \A m \in Nodes : RegsOnce(up'[m]) /\ RegIds(up'[m]) \subseteq RegIds(up[m])
        BY <1>2, <2>2 DEF PartOf
    <2> QED BY <1>1, <2>1, <2>2, <2>3, RegisteredAlone DEF DInv
<1>8. Withdrawn'
    <2>1. ASSUME NEW m \in Nodes, NEW i \in Ids, i \in WithdrawnAt(m)'
          PROVE i \in WithdrawnAt(m)
        <3>1. UnregIds(up'[m]) \subseteq UnregIds(up[m])
              /\ RemovedIds(down'[m]) \subseteq RemovedIds(down[m]) /\ handler' = handler
            BY <1>1, <1>2 DEF PartOf
        <3> QED BY <2>1, <3>1 DEF WithdrawnAt
    <2> QED BY <1>4, <2>1, WithdrawnAlone DEF DInv
<1>9. ASSUME NEW m \in Nodes PROVE ListedOnceAt(m)'
    <2>1. ListedOnceAt(m) /\ handler' = handler
        BY <1>1 DEF DInv, ListedOnce
    <2>2. CASE m = n
        <3>1. Lists(up'[m]) # {} => handler[m].pc # "list"
            BY <1>2, <2>1 DEF ListedOnceAt, PartOf
        <3> QED BY <1>2, <1>3, <1>4, <1>5, <2>1, <2>2, <3>1 DEF ListedOnceAt
    <2>3. CASE m # n
        BY <1>2, <1>4, <1>5, <2>1, <2>3 DEF ListedOnceAt
    <2> QED BY <2>2, <2>3
<1> QED BY <1>4, <1>6, <1>7, <1>8, <1>9 DEF DInv, ListedOnce

LEMMA LinkBreaksStep ==
    ASSUME DInv, NEW n \in Nodes, LinkBreaks(n), UNCHANGED <<rcVars, raced>>
    PROVE DInv'
<1>1. /\ status[n] = "ready" /\ conn' = [conn EXCEPT ![n] = "closed"]
      /\ \E k \in 0..Len(up[n]) : up' = [up EXCEPT ![n] = SubSeq(up[n], 1, k)]
      /\ down' = [down EXCEPT ![n] = <<>>]
      /\ UNCHANGED <<links, central, handler, raced, status, preg, app, reader, ep, made>>
    BY DEF LinkBreaks, rcVars, proxyVars
<1>2. /\ up' \in [Nodes -> Seq(RequestsOf(MadeIds))]
      /\ down' \in [Nodes -> Seq(MessagesOf(MadeIds))]
      /\ down'[n] = <<>> /\ Lists(down'[n]) = {} /\ RemovedIds(down'[n]) = {}
      /\ \A m \in Nodes : PartOf(up[m], up'[m])
      /\ \A m \in Nodes \ {n} : up'[m] = up[m] /\ down'[m] = down[m]
    BY <1>1, BreakIs
<1>3. /\ conn' \in [Nodes -> {"none", "open", "closed"}] /\ conn'[n] = "closed"
      /\ \A m \in Nodes \ {n} : conn'[m] = conn[m]
    BY <1>1 DEF DInv, DTypeOK
<1>4. Owned' /\ OpenIsOwned' /\ MadeIds' = MadeIds
    BY <1>1, ProxiesAlone DEF DInv, proxyVars
<1>5. DTypeOK'
    BY <1>1, <1>2, <1>3, <1>4 DEF DInv, DTypeOK, IsOpen
<1>6. RegisteredOnce'
    <2>1. \A m \in Nodes : Pending(m)' = Pending(m)
        BY <1>1 DEF Pending
    <2>2. IdsOnce(central) /\ \A m \in Nodes : RegsOnce(up[m])
        BY DEF DInv, RegisteredOnce
    <2>3. \A m \in Nodes : RegsOnce(up'[m]) /\ RegIds(up'[m]) \subseteq RegIds(up[m])
        BY <1>2, <2>2 DEF PartOf
    <2> QED BY <1>1, <2>1, <2>2, <2>3, RegisteredAlone DEF DInv
<1>7. Withdrawn'
    <2>1. ASSUME NEW m \in Nodes, NEW i \in Ids, i \in WithdrawnAt(m)'
          PROVE i \in WithdrawnAt(m)
        <3>1. UnregIds(up'[m]) \subseteq UnregIds(up[m])
              /\ RemovedIds(down'[m]) \subseteq RemovedIds(down[m]) /\ handler' = handler
            BY <1>1, <1>2 DEF PartOf
        <3> QED BY <2>1, <3>1 DEF WithdrawnAt
    <2>2. \A i \in Ids : IsOpen(i)' => IsOpen(i)
        BY <1>1 DEF IsOpen
    <2> QED BY <2>1, <2>2, WithdrawnAlone DEF DInv
<1>8. ASSUME NEW m \in Nodes PROVE ListedOnceAt(m)'
    <2>1. ListedOnceAt(m) /\ UNCHANGED <<handler, status, reader, preg, app>>
        BY <1>1 DEF DInv, ListedOnce
    <2>2. CASE m = n
        <3>1. Lists(up'[m]) = {} /\ handler[m].pc # "list" /\ reader[m] = IdleReader
            BY <1>1, <1>2, <2>1, <2>2 DEF ListedOnceAt, PartOf
        <3> QED BY <1>1, <1>2, <1>3, <2>1, <2>2, <3>1 DEF ListedOnceAt
    <2>3. CASE m # n
        BY <1>2, <1>3, <2>1, <2>3 DEF ListedOnceAt
    <2> QED BY <2>2, <2>3
<1> QED BY <1>4, <1>5, <1>6, <1>7, <1>8 DEF DInv, ListedOnce

(* A proxy asks for the list.                                              *)
LEMMA StartStep ==
    ASSUME DInv, NEW n \in Nodes, new_proxy(n), UNCHANGED <<rcVars, raced>>
    PROVE DInv'
<1>1. /\ status[n] = "none" /\ status' = [status EXCEPT ![n] = "initializing"]
      /\ conn' = [conn EXCEPT ![n] = "open"] /\ up' = [up EXCEPT ![n] = <<ListReq>>]
      /\ UNCHANGED <<links, down, central, handler, raced, preg, app, reader, ep, made>>
    BY DEF new_proxy, rcVars
<1> DEFINE t == <<ListReq>>
<1>2. /\ t \in Seq(RequestsOf(MadeIds)) /\ Len(t) = 1
      /\ RegIds(t) = {} /\ RegsOnce(t) /\ UnregIds(t) = {}
    <2>1. ListReq \in RequestsOf(MadeIds) /\ ListReq.kind = "list"
        BY DEF RequestsOf, ListReq
    <2>2. /\ t \in Seq(RequestsOf(MadeIds)) /\ Len(t) = 1
          /\ \A i \in 1..Len(t) : t[i].kind = "list"
        BY <2>1
    <2> HIDE DEF t
    <2> QED BY <2>2 DEF RegIds, Registers, RegsOnce, UnregIds
<1> HIDE DEF t
<1>3. /\ up' \in [Nodes -> Seq(RequestsOf(MadeIds))] /\ up'[n] = t
      /\ conn' \in [Nodes -> {"none", "open", "closed"}] /\ conn'[n] = "open"
      /\ status' \in [Nodes -> {"none", "initializing", "ready", "gone"}]
      /\ status'[n] = "initializing"
      /\ \A m \in Nodes \ {n} : UNCHANGED <<up[m], conn[m], status[m]>>
    BY <1>1, <1>2 DEF DInv, DTypeOK, t
<1>4. MadeIds' = MadeIds /\ \A i \in Ids : IsOpen(i)' <=> IsOpen(i)
    BY <1>1 DEF MadeIds, IsOpen
<1>5. DTypeOK'
    BY <1>1, <1>3, <1>4 DEF DInv, DTypeOK
<1>6. RegisteredOnce'
    <2>1. \A m \in Nodes : Pending(m)' = Pending(m)
        BY <1>1 DEF Pending
    <2>2. IdsOnce(central) /\ \A m \in Nodes : RegsOnce(up[m])
        BY DEF DInv, RegisteredOnce
    <2>3. \A m \in Nodes : RegsOnce(up'[m]) /\ RegIds(up'[m]) \subseteq RegIds(up[m])
        BY <1>2, <1>3, <2>2
    <2> QED BY <1>1, <2>1, <2>2, <2>3, RegisteredAlone DEF DInv
<1>7. Owned' /\ OpenIsOwned'
    BY <1>1, ZenonT(30) DEF DInv, Owned, OwnedAt, OpenIsOwned, IsOpen
<1>8. Withdrawn'
    <2>1. ASSUME NEW m \in Nodes, NEW i \in Ids, i \in WithdrawnAt(m)'
          PROVE i \in WithdrawnAt(m)
        <3>1. UnregIds(up'[m]) \subseteq UnregIds(up[m])
            BY <1>2, <1>3
        <3> QED BY <1>1, <2>1, <3>1 DEF WithdrawnAt
    <2> QED BY <1>4, <2>1, WithdrawnAlone DEF DInv
<1>9. ASSUME NEW m \in Nodes PROVE ListedOnceAt(m)'
    <2>1. ListedOnceAt(m) /\ UNCHANGED <<handler, reader, preg, app, down>>
        BY <1>1 DEF DInv, ListedOnce
    <2>2. CASE m = n
        <3>1. /\ handler[m].pc = "none" /\ reader[m] = IdleReader /\ down[m] = <<>>
              /\ OwnIds(preg[m]) = {} /\ app[m] = IdleApp
            BY <1>1, <2>1, <2>2 DEF ListedOnceAt
        <3>2. Lists(down[m]) = {}
            BY <3>1 DEF Lists
        <3> QED BY <1>2, <1>3, <2>1, <2>2, <3>1, <3>2 DEF ListedOnceAt
    <2>3. CASE m # n
        BY <1>3, <2>1, <2>3 DEF ListedOnceAt
    <2> QED BY <2>2, <2>3
<1> QED BY <1>5, <1>6, <1>7, <1>8, <1>9 DEF DInv, ListedOnce

(* Whatever travels or is kept was made.                                   *)
LEMMA KnownQueues ==
    ASSUME DTypeOK, NEW n \in Nodes
    PROVE /\ RegIds(up[n]) \subseteq MadeIds /\ UnregIds(up[n]) \subseteq MadeIds
          /\ RemovedIds(down[n]) \subseteq MadeIds /\ ToRemove(handler[n]) \subseteq MadeIds
          /\ IdsOf(central) \subseteq MadeIds /\ Pending(n) \subseteq MadeIds
<1>1. \A e \in Foreign(MadeIds) : e.id \in MadeIds
    BY DEF Foreign
<1>2. ASSUME NEW i \in 1..Len(up[n])
      PROVE /\ up[n][i].kind = "register" => up[n][i].entry.id \in MadeIds
            /\ up[n][i].kind = "unregister" => up[n][i].id \in MadeIds
    <2>1. up[n] \in Seq(RequestsOf(MadeIds))
        BY DEF DTypeOK
    <2>2. up[n][i] \in RequestsOf(MadeIds)
        BY <2>1, ElementOfSeq
    <2> QED BY <1>1, <2>2, RequestKinds
<1>3. ASSUME NEW i \in 1..Len(down[n])
      PROVE down[n][i].kind = "proxy-remove" => down[n][i].id \in MadeIds
    <2>1. down[n] \in Seq(MessagesOf(MadeIds))
        BY DEF DTypeOK
    <2>2. down[n][i] \in MessagesOf(MadeIds)
        BY <2>1, ElementOfSeq
    <2> QED BY <2>2, MessageKinds
<1>4. ToRemove(handler[n]) \subseteq MadeIds
    <2>1. handler[n] \in HandlersOf(MadeIds)
        BY DEF DTypeOK
    <2>2. handler[n].pc = "announce" => handler[n].event \in EventsOf(MadeIds)
        BY <2>1, HandlerKinds
    <2> QED BY <2>2, EventKinds DEF ToRemove
<1>5. ASSUME NEW i \in 1..Len(central) PROVE central[i].id \in MadeIds
    <2>1. central[i] \in Foreign(MadeIds)
        BY ElementOfSeq DEF DTypeOK
    <2> QED BY <1>1, <2>1
<1>6. Pending(n) \subseteq MadeIds
    BY KnownIds DEF Pending
<1> QED BY <1>2, <1>3, <1>4, <1>5, <1>6 DEF RegIds, Registers, UnregIds, RemovedIds, IdsOf

(* An end-point is made, under a fresh id.                                 *)
LEMMA NewEntryStep ==
    ASSUME DInv, NEW n \in Nodes, NEW type \in Types, NEW topic \in Topics, NEW name \in Names,
           proxy_new_entry(n, type, topic, name), UNCHANGED <<rcVars, raced>>
    PROVE DInv'
<1>1. /\ status[n] = "ready" /\ app[n] = IdleApp
      /\ UNCHANGED <<conn, links, up, down, central, handler, raced, status, reader>>
    BY DEF proxy_new_entry, netVars, rcVars
<1>2. PICK id \in Ids, a \in Addrs :
        LET e == [id |-> id, name |-> name, topic |-> topic, type |-> type,
                  addr |-> a, endpoint |-> TRUE] IN
        /\ id \notin MadeIds
        /\ preg' = [preg EXCEPT ![n] = registry_insert(preg[n], e)]
        /\ app' = [app EXCEPT ![n] = [pc |-> "register", entry |-> e]]
        /\ ep' = [ep EXCEPT ![id] = [type |-> type, node |-> n, topic |-> topic, addr |-> a,
                                     remote |-> NoAddr, links |-> {}]]
        /\ made' = made \cup {e}
    <2>1. \A a \in IF type \in {"messagelink", "streamerlink"} THEN {Addr0} ELSE FreeAddrs :
                a \in Addrs
        BY AddrAssumption DEF FreeAddrs
    <2> QED BY <2>1 DEF proxy_new_entry, MadeIds
<1> DEFINE e == [id |-> id, name |-> name, topic |-> topic, type |-> type,
                 addr |-> a, endpoint |-> TRUE]
           p == [type |-> type, node |-> n, topic |-> topic, addr |-> a,
                 remote |-> NoAddr, links |-> {}]
           x == [pc |-> "register", entry |-> e]
           s == registry_insert(preg[n], e)
           M == MadeIds \cup {id}
<1>3. /\ preg' = [preg EXCEPT ![n] = s] /\ app' = [app EXCEPT ![n] = x]
      /\ ep' = [ep EXCEPT ![id] = p] /\ made' = made \cup {e}
    BY <1>2
<1>4. e \in Entry /\ e.id = id /\ e.type = type /\ e.endpoint
    BY DEF Entry
<1>5. p \in Endpoint /\ p # Closed /\ p.node = n /\ p.type = type
    <2>1. p \in Endpoint /\ p.node = n /\ p.type = type
        BY DEF Endpoint
    <2> HIDE DEF p
    <2> QED BY <2>1, EndpointNotClosed
<1>6. x \in AppsOf(M) /\ x.pc = "register" /\ x.entry.id = id /\ e \in Listed(M)
    <2>1. e \in Listed(M)
        BY <1>4 DEF Listed
    <2> HIDE DEF e
    <2> QED BY <1>4, <2>1 DEF AppsOf
<1> HIDE DEF e, p, x
<1>7. MadeIds' = M
    BY <1>3, <1>4 DEF MadeIds
<1>8. /\ Seq(Listed(MadeIds)) \subseteq Seq(Listed(M)) /\ Seq(Foreign(MadeIds)) \subseteq Seq(Foreign(M))
      /\ Seq(RequestsOf(MadeIds)) \subseteq Seq(RequestsOf(M))
      /\ Seq(MessagesOf(MadeIds)) \subseteq Seq(MessagesOf(M))
      /\ HandlersOf(MadeIds) \subseteq HandlersOf(M) /\ AppsOf(MadeIds) \subseteq AppsOf(M)
      /\ ReadersOf(MadeIds) \subseteq ReadersOf(M)
    <2>1. MadeIds \subseteq M
        OBVIOUS
    <2> HIDE DEF M
    <2> QED BY <2>1, KindsGrow
<1> HIDE DEF M
<1>9. /\ preg \in [Nodes -> Seq(Listed(M))] /\ preg[n] \in Seq(Listed(M))
      /\ id \notin IdsOf(preg[n]) /\ id \notin OwnIds(preg[n])
    BY <1>2, <1>8, KnownIds DEF DInv, DTypeOK
<1>10. /\ s \in Seq(Listed(M)) /\ (OwnFirst(preg[n]) => OwnFirst(s))
       /\ OwnIds(s) = OwnIds(preg[n]) \cup {id}
       /\ \A i, t : Owns(s, i, t) <=> Owns(preg[n], i, t) \/ (i = id /\ t = type)
    BY <1>4, <1>6, <1>9, InsertIs
<1> HIDE DEF s
<1>11. /\ preg' \in [Nodes -> Seq(Listed(M))] /\ preg'[n] = s
       /\ \A m \in Nodes \ {n} : preg'[m] = preg[m]
    BY <1>3, <1>9, <1>10
<1>12. /\ app' \in [Nodes -> AppsOf(M)] /\ app'[n] = x
       /\ \A m \in Nodes \ {n} : app'[m] = app[m]
    BY <1>3, <1>6, <1>8 DEF DInv, DTypeOK
<1>13. /\ ep' \in [Ids -> Endpoint \cup {Closed}] /\ ep'[id] = p
       /\ \A i \in Ids \ {id} : ep'[i] = ep[i]
    BY <1>3, <1>5 DEF DInv, DTypeOK
<1>14. DTypeOK'
    <2>1. \A i \in Ids : IsOpen(i)' => i \in M
        BY <1>13 DEF DInv, DTypeOK, IsOpen, M
    <2>2. made' \in SUBSET Entry
        BY <1>3, <1>4 DEF DInv, DTypeOK
    <2>3. /\ up \in [Nodes -> Seq(RequestsOf(M))] /\ down \in [Nodes -> Seq(MessagesOf(M))]
          /\ central \in Seq(Foreign(M)) /\ handler \in [Nodes -> HandlersOf(M)]
          /\ reader \in [Nodes -> ReadersOf(M)]
        BY <1>8 DEF DInv, DTypeOK
    <2>4. /\ conn \in [Nodes -> {"none", "open", "closed"}] /\ links \subseteq Nodes
          /\ status \in [Nodes -> {"none", "initializing", "ready", "gone"}]
          /\ raced \in [Nodes -> SUBSET Ids]
        BY DEF DInv, DTypeOK
    <2> QED BY <1>1, <1>7, <1>11, <1>12, <1>13, <2>1, <2>2, <2>3, <2>4 DEF DTypeOK
<1>15. RegisteredOnce'
    <2>1. Pending(n)' = {id} /\ \A m \in Nodes \ {n} : Pending(m)' = Pending(m)
        BY <1>6, <1>12 DEF Pending
    <2>2. \A m \in Nodes : id \notin RegIds(up[m]) /\ id \notin IdsOf(central) /\ id \notin Pending(m)
        BY <1>2, KnownQueues DEF DInv
    <2>3. ASSUME NEW m \in Nodes
          PROVE /\ RegsOnce(up[m]) /\ RegIds(up[m]) \cap IdsOf(central) = {}
                /\ Pending(m)' \cap IdsOf(central) = {}
        BY <2>1, <2>2 DEF DInv, RegisteredOnce
    <2>4. ASSUME NEW m \in Nodes, NEW k \in Nodes
          PROVE /\ Pending(m)' \cap RegIds(up[k]) = {}
                /\ k # m => /\ Pending(m)' \cap Pending(k)' = {}
                            /\ RegIds(up[m]) \cap RegIds(up[k]) = {}
        BY <2>1, <2>2 DEF DInv, RegisteredOnce
    <2>5. IdsOnce(central)
        BY DEF DInv, RegisteredOnce
    <2> QED BY <1>1, <2>3, <2>4, <2>5 DEF RegisteredOnce
<1>16. ASSUME NEW m \in Nodes PROVE OwnedAt(m)'
    <2>1. OwnedAt(m) /\ OwnIds(preg[m]) \subseteq Ids /\ id \notin OwnIds(preg[m])
          /\ (app[m].pc = "unregister" => app[m].entry.id \in Ids \ {id})
        BY <1>2, KnownIds DEF DInv, Owned
    <2>2. CASE m = n
        <3>1. \A i \in OwnIds(preg'[m]) : ep'[i] # Closed /\ ep'[i].node = m
            BY <1>5, <1>10, <1>11, <1>13, <2>1, <2>2 DEF OwnedAt, IsOpen
        <3>2. ASSUME NEW i, NEW t, Owns(preg'[m], i, t) PROVE ep'[i].type = t
            <4>1. CASE i = id /\ t = type
                BY <1>5, <1>13, <4>1
            <4>2. CASE Owns(preg[m], i, t)
                <5>1. i \in OwnIds(preg[m])
                    BY <4>2 DEF Owns, OwnIds
                <5> QED BY <1>13, <2>1, <4>2, <5>1 DEF OwnedAt
            <4> QED BY <1>10, <1>11, <2>2, <3>2, <4>1, <4>2
        <3>3. app'[m].pc = "register" /\ app'[m].entry.id \in OwnIds(preg'[m])
            BY <1>6, <1>10, <1>11, <1>12, <2>2
        <3>4. OwnFirst(preg'[m])
            BY <1>10, <1>11, <2>1, <2>2 DEF OwnedAt
        <3> QED BY <3>1, <3>2, <3>3, <3>4 DEF OwnedAt, IsOpen
    <2>3. CASE m # n
        <3>1. preg'[m] = preg[m] /\ app'[m] = app[m]
            BY <1>11, <1>12, <2>3
        <3>2. \A i \in OwnIds(preg[m]) : ep'[i] = ep[i]
            BY <1>13, <2>1
        <3>3. ASSUME NEW i, NEW t, Owns(preg[m], i, t) PROVE ep'[i].type = t
            <4>1. i \in OwnIds(preg[m])
                BY <3>3 DEF Owns, OwnIds
            <4> QED BY <2>1, <3>2, <3>3, <4>1 DEF OwnedAt
        <3>4. app[m].pc = "unregister" => ep'[app[m].entry.id] = ep[app[m].entry.id]
            BY <1>13, <2>1
        <3> QED BY <2>1, <3>1, <3>2, <3>3, <3>4 DEF OwnedAt, IsOpen
    <2> QED BY <2>2, <2>3
<1>17. OpenIsOwned'
    <2> SUFFICES ASSUME NEW i \in Ids, IsOpen(i)'
                 PROVE \/ i \in OwnIds(preg'[ep'[i].node])
                       \/ app'[ep'[i].node].pc = "unregister" /\ app'[ep'[i].node].entry.id = i
        BY DEF OpenIsOwned
    <2>1. CASE i = id
        BY <1>5, <1>10, <1>11, <1>13, <2>1
    <2>2. CASE i # id
        <3>1. ep'[i] = ep[i] /\ IsOpen(i)
            BY <1>13, <2>2 DEF IsOpen
        <3>2. ep[i].node \in Nodes
            BY <3>1, OpenIsEndpoint DEF DInv, DTypeOK, EpTypeOK, Endpoint
        <3>3. \/ i \in OwnIds(preg[ep[i].node])
              \/ app[ep[i].node].pc = "unregister" /\ app[ep[i].node].entry.id = i
            BY <3>1 DEF DInv, OpenIsOwned
        <3>4. CASE ep[i].node = n
            BY <1>1, <1>10, <1>11, <3>1, <3>3, <3>4 DEF IdleApp
        <3>5. CASE ep[i].node # n
            BY <1>11, <1>12, <3>1, <3>2, <3>3, <3>5
        <3> QED BY <3>4, <3>5
    <2> QED BY <2>1, <2>2
<1>18. Withdrawn'
    <2> SUFFICES ASSUME NEW m \in Nodes, NEW i \in Ids, i \in WithdrawnAt(m) PROVE ~IsOpen(i)'
        BY <1>1 DEF Withdrawn, WithdrawnAt
    <2>1. i # id
        BY <1>2, KnownQueues DEF DInv, WithdrawnAt
    <2> QED BY <1>13, <2>1 DEF DInv, Withdrawn, IsOpen
<1>19. ListedOnce'
    <2>1. Lists(up[n]) = {}
        BY <1>1 DEF DInv, ListedOnce, ListedOnceAt
    <2> QED BY <1>1, <1>11, <1>12, <2>1, ReadyListed
<1> QED BY <1>14, <1>15, <1>16, <1>17, <1>18, <1>19 DEF DInv, Owned

LEMMA AppIsInv ==
    ASSUME DInv, NEW n \in Nodes,
           AppStep(n) \/ Start(n) \/ Open(n) \/ Close(n) \/ Fault(n)
    PROVE DInv'
<1>1. CASE AppStep(n)
    <2>1. UNCHANGED <<rcVars, raced>>
        BY <1>1 DEF AppStep
    <2>2. CASE proxy_open_datalink(n) \/ proxy_open_streamerlink(n)
        BY <2>1, <2>2, OpenLinkStep DEF proxy_open_datalink, proxy_open_streamerlink
    <2>3. CASE proxy_open_datahub(n) \/ proxy_open_messagelink(n)
        BY <2>1, <2>3, OpenDatahubStep, OpenMessagelinkStep
    <2>4. CASE \/ proxy_send_register_request(n) \/ proxy_new_entry_failed(n)
               \/ proxy_send_unregister_request(n) \/ proxy_open_failed(n)
        BY <2>1, <2>4, RegisterRequestStep, NewEntryFailedStep, UnregisterRequestStep
    <2> QED BY <1>1, <2>2, <2>3, <2>4 DEF AppStep
<1>2. CASE Start(n)
    BY <1>2, StartStep DEF Start
<1>3. CASE Open(n)
    BY <1>3, NewEntryStep, FamiliesAssumption DEF Open
<1>4. CASE Close(n)
    BY <1>4, DeleteEntryStep DEF Close
<1>5. CASE Fault(n)
    BY <1>5, LeaveStep, LinkBreaksStep DEF Fault, new_proxy_timeout, Exit
<1> QED BY <1>1, <1>2, <1>3, <1>4, <1>5

-----------------------------------------------------------------------------
(* The invariant, and what it says                                         *)

(* A step of a process or of the central registry, but for the release of  *)
(* proxy->mutex                                                            *)
Acts(n) == \/ RcStep(n) \/ RcAnnounce(n) \/ ReaderStep(n) \/ AppStep(n)
           \/ Start(n) \/ Open(n) \/ Close(n) \/ Fault(n)

LEMMA StepIs == ASSUME [Next]_vars PROVE UNCHANGED stateVars \/ \E n \in Nodes : Acts(n)
<1>1. CASE Next
    <2>1. PICK n \in Nodes : Acts(n) \/ ReaderUnlock(n)
        BY <1>1 DEF Next, SystemStep, Acts
    <2> QED BY <2>1 DEF ReaderUnlock
<1>2. CASE UNCHANGED vars
    BY <1>2 DEF vars
<1> QED BY <1>1, <1>2

LEMMA NextInv == DInv /\ [Next]_vars => DInv'
<1> SUFFICES ASSUME DInv, [Next]_vars PROVE DInv'
    OBVIOUS
<1>1. CASE \E n \in Nodes : Acts(n)
    BY <1>1, RcIsInv, ReaderIsInv, AppIsInv DEF Acts
<1>2. CASE UNCHANGED stateVars
    <2>1. /\ UNCHANGED <<conn, links, up, down, central, handler, raced>>
          /\ UNCHANGED <<status, preg, app, reader, ep, made>>
        BY <1>2 DEF stateVars, netVars, rcVars, proxyVars
    <2>2. MadeIds' = MadeIds
        BY <2>1 DEF MadeIds
    <2>3. DTypeOK'
        BY <2>1, <2>2 DEF DInv, DTypeOK, IsOpen
    <2>4. RegisteredOnce' /\ Withdrawn'
        BY <2>1 DEF DInv, RegisteredOnce, Pending, Withdrawn, WithdrawnAt, IsOpen
    <2>5. ListedOnce'
        BY <2>1 DEF DInv, ListedOnce, ListedOnceAt
    <2>6. Owned' /\ OpenIsOwned'
        BY <2>1 DEF DInv, Owned, OwnedAt, OpenIsOwned, IsOpen
    <2> QED BY <2>3, <2>4, <2>5, <2>6 DEF DInv
<1> QED BY <1>1, <1>2, StepIs

-----------------------------------------------------------------------------
(* What the reader thread works on, and the registrations that failed      *)

(* The end-point of a registration that failed is about to be deleted, and *)
(* the connection that the request could not be sent on is down for good.  *)
FailedAt(n) ==
    \A id \in failed : IsOpen(id) /\ ep[id].node = n =>
        /\ app[n].pc = "unregister" /\ app[n].entry.id = id
        /\ ~CanSend(n)

(* What the reader thread works on is open, and nobody is closing it.      *)
UsedAt(n) ==
    \A id \in using[n] \ failed : /\ IsOpen(id) /\ ep[id].node = n
                                  /\ ~(app[n].pc = "unregister" /\ app[n].entry.id = id)

UseTypeOK == using \in [Nodes -> SUBSET Ids] /\ failed \subseteq MadeIds

UInv == UseTypeOK /\ \A n \in Nodes : FailedAt(n) /\ UsedAt(n)

LEMMA UseInit == ASSUME Init PROVE UInv
<1> USE DEF Init, ProxyInit
<1>1. UseTypeOK
    BY DEF UseTypeOK
<1>2. \A n \in Nodes : FailedAt(n) /\ UsedAt(n)
    BY DEF FailedAt, UsedAt
<1> QED BY <1>1, <1>2 DEF UInv

LEMMA FailedIsDown ==
    ASSUME DInv, UInv, NEW n \in Nodes, proxy_open_failed(n)
    PROVE ~CanSend(n)
<1>1. app[n].pc = "unregister" /\ app[n].entry.id \in failed
    BY DEF proxy_open_failed
<1>2. IsOpen(app[n].entry.id) /\ ep[app[n].entry.id].node = n
    BY <1>1 DEF DInv, Owned, OwnedAt
<1> QED BY <1>1, <1>2 DEF UInv, FailedAt

(* Only process n moves: it opens, uses and closes its own end-points.     *)
LEMMA UseStep ==
    ASSUME DInv, UInv, NEW n \in Nodes, UseTypeOK',
           \A m \in Nodes \ {n} : UNCHANGED <<conn[m], app[m], using[m]>>,
           \A id \in Ids : \/ IsOpen(id)' /\ ep'[id].node = n
                           \/ IsOpen(id) /\ ep[id].node = n /\ ~IsOpen(id)'
                           \/ /\ IsOpen(id)' <=> IsOpen(id)
                              /\ IsOpen(id) => ep'[id].node = ep[id].node,
           \A id \in Ids : IsOpen(id) /\ ep[id].node # n => ep'[id].node # n,
           failed \subseteq failed',
           \A id \in failed' \ failed : ep'[id].node = n,
           FailedAt(n)', UsedAt(n)'
    PROVE UInv'
<1>1. failed \subseteq Ids /\ \A m \in Nodes : using[m] \subseteq Ids
    BY KnownIds DEF UInv, UseTypeOK, DInv
<1>2. ASSUME NEW m \in Nodes \ {n} PROVE FailedAt(m)'
    <2> SUFFICES ASSUME NEW id \in failed', IsOpen(id)', ep'[id].node = m
                 PROVE /\ app'[m].pc = "unregister" /\ app'[m].entry.id = id /\ ~CanSend(m)'
        BY DEF FailedAt
    <2>1. id \in Ids /\ id \in failed /\ IsOpen(id) /\ ep[id].node = m
        BY <1>1
    <2> QED BY <2>1 DEF UInv, FailedAt, CanSend
<1>3. ASSUME NEW m \in Nodes \ {n} PROVE UsedAt(m)'
    <2> SUFFICES ASSUME NEW id \in using[m] \ failed
                 PROVE /\ IsOpen(id)' /\ ep'[id].node = m
                       /\ ~(app'[m].pc = "unregister" /\ app'[m].entry.id = id)
        BY DEF UsedAt
    <2>1. /\ id \in Ids /\ IsOpen(id) /\ ep[id].node = m
          /\ ~(app[m].pc = "unregister" /\ app[m].entry.id = id)
        BY <1>1 DEF UInv, UsedAt
    <2> QED BY <2>1
<1> QED BY <1>2, <1>3 DEF UInv

(* A step that leaves the end-points, the reader thread's and the failed   *)
(* ones as they are, and gives the application's thread nothing to close.  *)
LEMMA UseKept ==
    ASSUME DInv, UInv, NEW n \in Nodes, UNCHANGED <<conn, made, using, failed>>,
           EpKeeps(ep', {}), app[n].pc # "unregister" \/ app' = app,
           app' = app \/ app'[n].pc # "unregister",
           \A m \in Nodes \ {n} : app'[m] = app[m]
    PROVE UInv'
<1>1. UseTypeOK' /\ failed \subseteq Ids /\ \A m \in Nodes : using[m] \subseteq Ids
    BY KnownIds DEF UInv, UseTypeOK, MadeIds, DInv
<1>2. \A id \in Ids : /\ IsOpen(id)' <=> IsOpen(id)
                      /\ IsOpen(id) => ep'[id].node = ep[id].node
    BY DEF EpKeeps, IsOpen
<1>3. FailedAt(n)'
    BY <1>1, <1>2 DEF UInv, FailedAt, CanSend
<1>4. UsedAt(n)'
    BY <1>1, <1>2 DEF UInv, UsedAt
<1> QED BY <1>1, <1>2, <1>3, <1>4, UseStep

(* A handler takes its pointers from the registry of its process.          *)
LEMMA UsesOwn ==
    ASSUME DInv, UInv, NEW n \in Nodes, ReaderStep(n)
    PROVE /\ failed' = failed
          /\ using' = using \/ \E S \in SUBSET OwnIds(preg[n]) : using' = [using EXCEPT ![n] = S]
<1>1. ASSUME NEW types, HandleAdd(n, types)
      PROVE OwnIds(WithEntry(preg[n], Head(down[n]).entry)) = OwnIds(preg[n])
    BY <1>1, AddIs DEF SameEntries
<1> DEFINE e == Head(down[n]).entry
           s == WithEntry(preg[n], e)
<1>2. CASE proxy_connect_datalink(n)
    <2> DEFINE k == LastSelected(s, e.topic, "datahub")
               S == IF k # 0 /\ s[k].endpoint THEN {s[k].id} ELSE {}
    <2>1. HandleAdd(n, {"datalink"}) /\ Uses(n, S)
        BY <1>2 DEF proxy_connect_datalink
    <2>2. s \in Seq(Listed(MadeIds)) /\ OwnIds(s) = OwnIds(preg[n])
        BY <1>1, <2>1, AddIs
    <2> HIDE DEF s, e
    <2>3. k \in 0..Len(s)
        BY <2>2, LastSelectedIs
    <2> HIDE DEF k
    <2>4. S \in SUBSET OwnIds(s)
        BY <2>3 DEF OwnIds
    <2> QED BY <2>1, <2>2, <2>4 DEF Uses
<1>3. ASSUME NEW linkType, NEW hubType, ConnectLinks(n, linkType, hubType)
      PROVE /\ failed' = failed
            /\ \E S \in SUBSET OwnIds(preg[n]) : using' = [using EXCEPT ![n] = S]
    <2> DEFINE S == LocalIds(s, e.topic, linkType)
    <2>1. HandleAdd(n, {hubType}) /\ Uses(n, S)
        BY <1>3 DEF ConnectLinks
    <2>2. OwnIds(s) = OwnIds(preg[n])
        BY <1>1, <2>1
    <2> HIDE DEF s, e
    <2>3. S \in SUBSET OwnIds(s)
        BY LocalIdsIs
    <2> QED BY <2>1, <2>2, <2>3 DEF Uses
<1>4. CASE proxy_connect_messagehub(n)
    <2> DEFINE S == LocalIds(s, e.topic, "messagelink")
    <2>1. HandleAdd(n, {"messagehub"}) /\ Uses(n, S)
        BY <1>4 DEF proxy_connect_messagehub
    <2>2. OwnIds(s) = OwnIds(preg[n])
        BY <1>1, <2>1
    <2> HIDE DEF s, e
    <2>3. S \in SUBSET OwnIds(s)
        BY LocalIdsIs
    <2> QED BY <2>1, <2>2, <2>3 DEF Uses
<1>5. CASE proxy_handle_register_remove(n)
    <2> DEFINE t == registry_delete(preg[n], Head(down[n]).id)
               x == preg[n][FirstId(preg[n], Head(down[n]).id)]
               S == IF x.type = "datahub" THEN LocalIds(t, x.topic, "datalink") ELSE {}
    <2>1. \/ UNCHANGED <<using, failed>>
          \/ Uses(n, S) /\ preg' = [preg EXCEPT ![n] = t]
        BY <1>5 DEF proxy_handle_register_remove, useVars
    <2>2. CASE Uses(n, S) /\ preg' = [preg EXCEPT ![n] = t]
        <3>1. preg'[n] = t
            BY <2>2 DEF DInv, DTypeOK
        <3>2. SameEntries(preg[n], t)
            BY <3>1, ReaderIsInv DEF ReaderKeeps
        <3> HIDE DEF t, x
        <3>3. S \in SUBSET OwnIds(t)
            BY LocalIdsIs
        <3> QED BY <2>2, <3>2, <3>3 DEF SameEntries, Uses
    <2> QED BY <2>1, <2>2
<1>6. CASE \/ proxy_handle_register_add(n) \/ proxy_handle_update_address(n)
           \/ proxy_onresponse(n) \/ proxy_handle_update_list(n) \/ update_list_insert(n)
           \/ update_list_select(n) \/ update_list_prune(n) \/ update_list_ready(n)
    BY <1>6 DEF proxy_handle_register_add, proxy_handle_update_address, proxy_onresponse,
                proxy_handle_update_list, update_list_insert, update_list_select,
                update_list_prune, update_list_ready, useVars
<1> QED BY <1>2, <1>3, <1>4, <1>5, <1>6
        DEF ReaderStep, proxy_connect_datahub, proxy_connect_streamer

LEMMA UseReader ==
    ASSUME DInv, UInv, NEW n \in Nodes, ReaderStep(n)
    PROVE UInv'
<1>1. DInv' /\ ReaderKeeps(n)
    BY ReaderIsInv
<1>2. UNCHANGED <<conn, made, app>> /\ EpKeeps(ep', {}) /\ SameEntries(preg[n], preg'[n])
    BY <1>1 DEF ReaderKeeps
<1>3. CASE UNCHANGED <<using, failed>>
    BY <1>2, <1>3, UseKept
<1>4. ASSUME NEW S \in SUBSET OwnIds(preg[n]), using' = [using EXCEPT ![n] = S], failed' = failed
      PROVE UInv'
    <2>1. /\ OwnIds(preg'[n]) = OwnIds(preg[n]) /\ MadeIds' = MadeIds
          /\ OwnIds(preg[n]) \subseteq Ids
        BY <1>2, KnownIds DEF SameEntries, MadeIds, DInv
    <2>2. UseTypeOK' /\ using'[n] = S /\ \A m \in Nodes \ {n} : using'[m] = using[m]
        BY <1>4, <2>1 DEF UInv, UseTypeOK
    <2>3. UsedAt(n)'
        <3>1. /\ \A id \in OwnIds(preg'[n]) : IsOpen(id)' /\ ep'[id].node = n
              /\ app'[n].pc = "unregister" => app'[n].entry.id \notin OwnIds(preg'[n])
            BY <1>1 DEF DInv, Owned, OwnedAt
        <3> QED BY <2>1, <2>2, <3>1 DEF UsedAt
    <2>4. \A id \in Ids : /\ IsOpen(id)' <=> IsOpen(id)
                          /\ IsOpen(id) => ep'[id].node = ep[id].node
        BY <1>2 DEF EpKeeps, IsOpen
    <2>5. FailedAt(n)'
        <3>1. failed \subseteq Ids
            BY KnownIds DEF UInv, UseTypeOK, DInv
        <3> QED BY <1>2, <1>4, <2>4, <3>1 DEF UInv, FailedAt, CanSend
    <2> QED BY <1>2, <1>4, <2>2, <2>3, <2>4, <2>5, UseStep
<1> QED BY <1>3, <1>4, UsesOwn

(* The registration fails: what the reader thread may be using is now      *)
(* among the failed.                                                       *)
LEMMA UseFailed ==
    ASSUME DInv, UInv, NEW n \in Nodes, proxy_new_entry_failed(n)
    PROVE UInv'
<1> DEFINE id == app[n].entry.id
<1>1. /\ app[n].pc = "register" /\ ~CanSend(n) /\ failed' = failed \cup {id}
      /\ app' = [app EXCEPT ![n] = [pc |-> "unregister", entry |-> app[n].entry]]
      /\ UNCHANGED <<conn, made, ep, using>>
    BY DEF proxy_new_entry_failed, netVars
<1>2. id \in MadeIds /\ id \in Ids /\ IsOpen(id) /\ ep[id].node = n
    BY <1>1, KnownIds DEF DInv, Owned, OwnedAt
<1>3. /\ app'[n].pc = "unregister" /\ app'[n].entry.id = id
      /\ \A m \in Nodes \ {n} : app'[m] = app[m]
    BY <1>1 DEF DInv, DTypeOK
<1> HIDE DEF id
<1>4. UseTypeOK'
    BY <1>1, <1>2 DEF UInv, UseTypeOK, MadeIds
<1>5. FailedAt(n)'
    BY <1>1, <1>3 DEF UInv, FailedAt, CanSend, IsOpen
<1>6. UsedAt(n)'
    BY <1>1, <1>3 DEF UInv, UsedAt, IsOpen
<1>7. \A i \in Ids : IsOpen(i)' <=> IsOpen(i)
    BY <1>1 DEF IsOpen
<1> QED BY <1>1, <1>2, <1>3, <1>4, <1>5, <1>6, <1>7, UseStep

(* An end-point is deleted that is not in use, or whose open has failed.   *)
LEMMA UseDelete ==
    ASSUME DInv, UInv, NEW n \in Nodes,
           proxy_open_failed(n) \/ proxy_send_unregister_request(n)
    PROVE UInv'
<1> PICK id : id = app[n].entry.id
    OBVIOUS
<1>1. /\ app[n].pc = "unregister" /\ app' = [app EXCEPT ![n] = IdleApp]
      /\ ep' = DeleteEndpoints({id}) /\ UNCHANGED <<conn, made, using, failed>>
    BY DEF proxy_open_failed, proxy_send_unregister_request, netVars, useVars
<1>2. id \in Ids /\ IsOpen(id) /\ ep[id].node = n
    BY <1>1, KnownIds DEF DInv, Owned, OwnedAt
<1>3. app'[n].pc = "idle" /\ \A m \in Nodes \ {n} : app'[m] = app[m]
    BY <1>1 DEF DInv, DTypeOK, IdleApp
<1>4. id \notin using[n] \ failed /\ \A i \in failed : IsOpen(i) /\ ep[i].node = n => i = id
    BY <1>1 DEF UInv, UsedAt, FailedAt
<1>5. EpKeeps(ep', {id})
    BY <1>1, <1>2, DeleteEndpointsIs DEF DInv, DTypeOK, EpTypeOK
<1>6. /\ ~IsOpen(id)'
      /\ \A i \in Ids \ {id} : /\ IsOpen(i)' <=> IsOpen(i)
                               /\ IsOpen(i) => ep'[i].node = ep[i].node
    BY <1>2, <1>5 DEF EpKeeps, IsOpen
<1>7. UseTypeOK' /\ failed \subseteq Ids /\ using[n] \subseteq Ids
    BY <1>1, KnownIds DEF UInv, UseTypeOK, MadeIds, DInv
<1>8. FailedAt(n)'
    <2>1. \A i \in failed : ~(IsOpen(i)' /\ ep'[i].node = n)
        BY <1>4, <1>6, <1>7
    <2> QED BY <1>1, <2>1 DEF FailedAt
<1>9. UsedAt(n)'
    <2>1. \A i \in using[n] \ failed : IsOpen(i)' /\ ep'[i].node = n
        BY <1>4, <1>6, <1>7 DEF UInv, UsedAt
    <2> QED BY <1>1, <1>3, <2>1 DEF UsedAt
<1> QED BY <1>1, <1>2, <1>3, <1>6, <1>7, <1>8, <1>9, UseStep

LEMMA UseApp ==
    ASSUME DInv, UInv, NEW n \in Nodes, AppStep(n)
    PROVE UInv'
<1>1. UNCHANGED <<rcVars, raced>>
    BY DEF AppStep
<1>2. CASE proxy_send_register_request(n)
    <2> DEFINE a == IF app[n].entry.type \in ConnectTypes
                    THEN [pc |-> "connect", entry |-> app[n].entry] ELSE IdleApp
    <2>1. /\ app[n].pc = "register" /\ app' = [app EXCEPT ![n] = a]
          /\ UNCHANGED <<conn, made, using, failed, ep>>
        BY <1>2 DEF proxy_send_register_request, useVars
    <2>2. a.pc # "unregister"
        BY DEF IdleApp
    <2> HIDE DEF a
    <2>3. app'[n] = a /\ \A m \in Nodes \ {n} : app'[m] = app[m]
        BY <2>1 DEF DInv, DTypeOK
    <2>4. EpKeeps(ep', {})
        BY <2>1, EpSame DEF DInv, DTypeOK, EpTypeOK
    <2> QED BY <2>1, <2>2, <2>3, <2>4, UseKept
<1>3. CASE \/ proxy_open_datalink(n) \/ proxy_open_streamerlink(n)
           \/ proxy_open_datahub(n) \/ proxy_open_messagelink(n)
    <2>1. EpKeeps(ep', {})
        BY <1>1, <1>3, OpenLinkStep, OpenDatahubStep, OpenMessagelinkStep
           DEF proxy_open_datalink, proxy_open_streamerlink
    <2>2. app[n].pc = "connect" /\ Connected(n)
        BY <1>3 DEF proxy_open_datalink, proxy_open_streamerlink, OpenLink, proxy_open_datahub,
                    proxy_open_messagelink, Connecting
    <2>3. /\ UNCHANGED <<conn, made, using, failed>> /\ app' = [app EXCEPT ![n] = IdleApp]
        BY <2>2 DEF Connected, netVars, useVars
    <2>4. app'[n].pc = "idle" /\ \A m \in Nodes \ {n} : app'[m] = app[m]
        BY <2>3 DEF DInv, DTypeOK, IdleApp
    <2> QED BY <2>1, <2>2, <2>3, <2>4, UseKept
<1> QED BY <1>2, <1>3, UseFailed, UseDelete DEF AppStep

(* The entry of an end-point is taken out when no handler has its pointer. *)
LEMMA UseClose ==
    ASSUME DInv, UInv, NEW n \in Nodes, Close(n)
    PROVE UInv'
<1>1. PICK id \in Ids : proxy_delete_entry(n, id)
    BY DEF Close
<1>2. /\ using[n] = {} /\ app[n] = IdleApp
      /\ UNCHANGED <<conn, made, ep, using, failed>>
    BY <1>1 DEF proxy_delete_entry, DeleteEntry, MutexFree, netVars, useVars
<1>3. \A m \in Nodes \ {n} : app'[m] = app[m]
    BY <1>1 DEF proxy_delete_entry, DeleteEntry, DInv, DTypeOK
<1>4. UseTypeOK'
    BY <1>2 DEF UInv, UseTypeOK, MadeIds
<1>5. FailedAt(n)'
    BY <1>2 DEF UInv, FailedAt, IsOpen, IdleApp
<1>6. UsedAt(n)'
    BY <1>2 DEF UsedAt
<1>7. \A i \in Ids : IsOpen(i)' <=> IsOpen(i)
    BY <1>2 DEF IsOpen
<1> QED BY <1>2, <1>3, <1>4, <1>5, <1>6, <1>7, UseStep

LEMMA UseStart ==
    ASSUME DInv, UInv, NEW n \in Nodes, Start(n)
    PROVE UInv'
<1>1. /\ status[n] = "none" /\ conn' = [conn EXCEPT ![n] = "open"]
      /\ UNCHANGED <<app, made, ep, using, failed>>
    BY DEF Start, new_proxy, useVars
<1>2. app[n].pc # "unregister" /\ \A m \in Nodes \ {n} : conn'[m] = conn[m]
    BY <1>1, BusyIsReady DEF DInv, DTypeOK
<1>3. UseTypeOK' /\ \A i \in Ids : IsOpen(i)' <=> IsOpen(i)
    BY <1>1 DEF UInv, UseTypeOK, MadeIds, IsOpen
<1>4. FailedAt(n)'
    BY <1>1, <1>2 DEF UInv, FailedAt, IsOpen
<1>5. UsedAt(n)'
    BY <1>1 DEF UInv, UsedAt, IsOpen
<1> QED BY <1>1, <1>2, <1>3, <1>4, <1>5, UseStep

LEMMA UseFault ==
    ASSUME DInv, UInv, NEW n \in Nodes, Fault(n)
    PROVE UInv'
<1>1. CASE LinkBreaks(n)
    <2>1. conn' = [conn EXCEPT ![n] = "closed"] /\ UNCHANGED <<app, made, ep, using, failed>>
        BY <1>1 DEF LinkBreaks, proxyVars, useVars
    <2>2. conn'[n] = "closed" /\ \A m \in Nodes \ {n} : conn'[m] = conn[m]
        BY <2>1 DEF DInv, DTypeOK
    <2>3. UseTypeOK' /\ \A i \in Ids : IsOpen(i)' <=> IsOpen(i)
        BY <2>1 DEF UInv, UseTypeOK, MadeIds, IsOpen
    <2>4. FailedAt(n)'
        BY <2>1, <2>2 DEF UInv, FailedAt, IsOpen, CanSend
    <2>5. UsedAt(n)'
        BY <2>1 DEF UInv, UsedAt, IsOpen
    <2> QED BY <2>1, <2>2, <2>3, <2>4, <2>5, UseStep
<1>2. CASE Leave(n)
    <2> DEFINE S == {id \in Ids : IsOpen(id) /\ ep[id].node = n}
    <2>1. /\ conn' = [conn EXCEPT ![n] = "closed"] /\ app' = [app EXCEPT ![n] = IdleApp]
          /\ ep' = DeleteEndpoints(S) /\ using' = [using EXCEPT ![n] = {}]
          /\ UNCHANGED <<made, failed>>
        BY <1>2 DEF Leave
    <2>2. /\ \A m \in Nodes \ {n} : UNCHANGED <<conn[m], app[m], using[m]>>
          /\ UseTypeOK' /\ using'[n] = {} /\ failed \subseteq Ids
        BY <2>1, KnownIds DEF DInv, DTypeOK, UInv, UseTypeOK, MadeIds
    <2>3. S \in SUBSET Ids /\ \A i \in Ids : i \in S <=> IsOpen(i) /\ ep[i].node = n
        OBVIOUS
    <2> HIDE DEF S
    <2>4. EpKeeps(ep', S)
        BY <2>1, <2>3, DeleteEndpointsIs DEF DInv, DTypeOK, EpTypeOK
    <2>5. /\ \A i \in S : ~IsOpen(i)'
          /\ \A i \in Ids \ S : /\ IsOpen(i)' <=> IsOpen(i)
                                /\ IsOpen(i) => ep'[i].node = ep[i].node
        BY <2>3, <2>4 DEF EpKeeps, IsOpen
    <2>6. \A i \in Ids : ~(IsOpen(i)' /\ ep'[i].node = n)
        BY <2>3, <2>5
    <2>7. FailedAt(n)' /\ UsedAt(n)'
        BY <2>1, <2>2, <2>6 DEF FailedAt, UsedAt
    <2>8. \A i \in Ids : IsOpen(i) /\ ep[i].node # n => IsOpen(i)' /\ ep'[i].node = ep[i].node
        BY <2>3, <2>5
    <2>9. \A i \in Ids : \/ IsOpen(i) /\ ep[i].node = n /\ ~IsOpen(i)'
                         \/ /\ IsOpen(i)' <=> IsOpen(i)
                            /\ IsOpen(i) => ep'[i].node = ep[i].node
        BY <2>3, <2>5
    <2> QED BY <2>1, <2>2, <2>7, <2>8, <2>9, UseStep
<1> QED BY <1>1, <1>2 DEF Fault, new_proxy_timeout, Exit

(* A new end-point has an id that never failed and that nobody uses.       *)
LEMMA UseOpen ==
    ASSUME DInv, UInv, NEW n \in Nodes, Open(n)
    PROVE UInv'
<1>1. PICK type, name, topic : proxy_new_entry(n, type, topic, name)
    BY DEF Open
<1>2. PICK id \in Ids \ MadeIds : \E a :
        LET e == [id |-> id, name |-> name, topic |-> topic, type |-> type,
                  addr |-> a, endpoint |-> TRUE] IN
        /\ app' = [app EXCEPT ![n] = [pc |-> "register", entry |-> e]]
        /\ ep' = [ep EXCEPT ![id] = [type |-> type, node |-> n, topic |-> topic, addr |-> a,
                                     remote |-> NoAddr, links |-> {}]]
        /\ made' = made \cup {e}
    BY <1>1 DEF proxy_new_entry, MadeIds
<1>3. PICK e, p : /\ p.node = n /\ made' = made \cup {e}
                  /\ app' = [app EXCEPT ![n] = [pc |-> "register", entry |-> e]]
                  /\ ep' = [ep EXCEPT ![id] = p]
    BY <1>2
<1>4. /\ using[n] = {} /\ app[n] = IdleApp
      /\ UNCHANGED <<conn, using, failed>>
    BY <1>1 DEF proxy_new_entry, MutexFree, netVars, useVars
<1>5. app'[n].pc = "register" /\ \A m \in Nodes \ {n} : app'[m] = app[m]
    BY <1>3 DEF DInv, DTypeOK
<1>6. ~IsOpen(id) /\ id \notin failed
    BY DEF DInv, DTypeOK, UInv, UseTypeOK
<1>7. ep'[id] = p /\ \A i \in Ids \ {id} : ep'[i] = ep[i]
    BY <1>3 DEF DInv, DTypeOK
<1>8. UseTypeOK' /\ failed \subseteq Ids
    BY <1>3, <1>4, KnownIds DEF UInv, UseTypeOK, MadeIds, DInv
<1>9. FailedAt(n)'
    BY <1>4, <1>6, <1>7, <1>8 DEF UInv, FailedAt, IsOpen, IdleApp
<1>10. UsedAt(n)'
    BY <1>4 DEF UsedAt
<1>11. \A i \in Ids : \/ i # id /\ (IsOpen(i)' <=> IsOpen(i)) /\ ep'[i] = ep[i]
                      \/ i = id /\ ~IsOpen(i) /\ ep'[i].node = n
    BY <1>3, <1>6, <1>7 DEF IsOpen
<1>12. \A i \in Ids : \/ IsOpen(i)' /\ ep'[i].node = n
                      \/ /\ IsOpen(i)' <=> IsOpen(i)
                         /\ IsOpen(i) => ep'[i].node = ep[i].node
    BY <1>11
<1> QED BY <1>4, <1>5, <1>8, <1>9, <1>10, <1>11, <1>12, UseStep

LEMMA UseNext == DInv /\ UInv /\ [Next]_vars => UInv'
<1> SUFFICES ASSUME DInv, UInv, [Next]_vars PROVE UInv'
    OBVIOUS
<1>1. CASE UNCHANGED vars
    BY <1>1 DEF vars, stateVars, useVars, netVars, proxyVars, UInv, UseTypeOK, MadeIds,
                FailedAt, UsedAt, IsOpen, CanSend
<1>2. ASSUME NEW n \in Nodes, RcStep(n) \/ RcAnnounce(n) PROVE UInv'
    <2>1. UNCHANGED <<app, ep, made, using, failed>>
        BY <1>2 DEF RcStep, RcAnnounce, proxyVars, useVars
    <2>2. conn' = conn
        BY <1>2 DEF RcStep, RcAnnounce, messagehub_add_link, messagehub_remove_link,
                    rcregistry_register, rcregistry_unregister, rcregistry_update_address,
                    rcregistry_select_list, rcregistry_send_list, rcregistry_announce
    <2>3. EpKeeps(ep', {})
        BY <2>1, EpSame DEF DInv, DTypeOK, EpTypeOK
    <2> QED BY <2>1, <2>2, <2>3, UseKept
<1>3. ASSUME NEW n \in Nodes, ReaderUnlock(n) PROVE UInv'
    <2>1. /\ UNCHANGED <<conn, app, ep, made, failed>> /\ using' = [using EXCEPT ![n] = {}]
        BY <1>3 DEF ReaderUnlock, proxy_mutex_unlock, stateVars, netVars, proxyVars
    <2>2. UseTypeOK' /\ using'[n] = {} /\ \A m \in Nodes \ {n} : using'[m] = using[m]
        BY <2>1 DEF UInv, UseTypeOK, MadeIds
    <2>3. FailedAt(n)' /\ \A i \in Ids : IsOpen(i)' <=> IsOpen(i)
        BY <2>1 DEF UInv, FailedAt, IsOpen, CanSend
    <2>4. UsedAt(n)'
        BY <2>2 DEF UsedAt
    <2> QED BY <2>1, <2>2, <2>3, <2>4, UseStep
<1> QED BY <1>1, <1>2, <1>3, UseReader, UseApp, UseStart, UseOpen, UseClose, UseFault
        DEF Next, SystemStep

LEMMA Invariance == Spec => [](DInv /\ UInv)
<1>1. Init => DInv /\ UInv
    BY InitInv, UseInit
<1> QED BY <1>1, NextInv, UseNext, PTL DEF Spec

(* The central registry holds an id at most once: registry_insert does not *)
(* look for duplicates, so each id must reach it in one request only.      *)
THEOREM CentralIdsAreUnique == Spec => []CentralIdsUnique
<1>1. DInv => CentralIdsUnique
    BY DEF DInv, RegisteredOnce, IdsOnce, CentralIdsUnique
<1> QED BY <1>1, Invariance, PTL

(* The pointers that the handlers of proxy.c take from the list are those  *)
(* of end-points that exist, in this process and of the entry's type, and  *)
(* what a handler has taken stays until it releases the mutex, unless its  *)
(* registration failed.  proxy_delete_entry waits for the mutex, so what   *)
(* is being closed is not in use; only the steps without the mutex are     *)
(* left to consider, and Leave, which takes the handler with it.           *)
THEOREM NoEndpointDangles == Spec => []NoDanglingEndpoint
<1>1. DInv /\ UInv => NoDanglingEndpoint
    <2> SUFFICES ASSUME DInv, NEW n \in Nodes, NEW i \in 1..Len(preg[n]), preg[n][i].endpoint
                 PROVE /\ IsOpen(preg[n][i].id) /\ ep[preg[n][i].id].node = n
                       /\ ep[preg[n][i].id].type = preg[n][i].type
        BY DEF NoDanglingEndpoint, UInv, UsedAt
    <2>1. preg[n][i].id \in OwnIds(preg[n]) /\ Owns(preg[n], preg[n][i].id, preg[n][i].type)
        BY DEF OwnIds, Owns
    <2> DEFINE id == preg[n][i].id
               type == preg[n][i].type
    <2>2. /\ \A x \in OwnIds(preg[n]) : IsOpen(x) /\ ep[x].node = n
          /\ \A x, t : Owns(preg[n], x, t) => ep[x].type = t
        BY DEF DInv, Owned, OwnedAt
    <2> HIDE DEF id, type
    <2>3. IsOpen(id) /\ ep[id].node = n /\ ep[id].type = type
        BY <2>1, <2>2 DEF id, type
    <2> QED BY <2>3 DEF id, type
<1> QED BY <1>1, Invariance, PTL

(* No event of the central registry, and no list it sends, takes an open   *)
(* end-point out of the list of the process that opened it.                *)
THEOREM OwnEntriesAreKept == Spec => []OwnEntryKept
<1>1. DInv => OwnEntryKept
    BY DEF DInv, OpenIsOwned, OwnIds, OwnEntryKept
<1> QED BY <1>1, Invariance, PTL

(* The variables have their types: what travels is a request, an event or  *)
(* a response that rcregistry.c and proxy.c know, about known ids.         *)
THEOREM TypeCorrect == Spec => []TypeOK
<1>1. DInv /\ UInv => TypeOK
    <2> SUFFICES ASSUME DInv, UInv PROVE TypeOK
        OBVIOUS
    <2>1. MadeIds \subseteq Ids
        BY KnownIds DEF DInv, DTypeOK, MadeIds, Entry
    <2> DEFINE M == MadeIds
    <2> HIDE DEF M
    <2>2. Listed(M) \subseteq Entry /\ Foreign(M) \subseteq Entry
        BY DEF Listed, Foreign
    <2>3. Seq(Listed(M)) \subseteq Seq(Entry) /\ Seq(Foreign(M)) \subseteq Seq(Entry)
        BY <2>2, SeqMonotonic
    <2>4. EventsOf(M) \subseteq Events
        BY <2>1, <2>2 DEF EventsOf, Events, M
    <2>5. RequestsOf(M) \subseteq Requests
        BY <2>1, <2>2 DEF RequestsOf, Requests, M
    <2>6. MessagesOf(M) \subseteq Events \cup Responses
        BY <2>3, <2>4 DEF MessagesOf, Responses
    <2>7. /\ Seq(RequestsOf(M)) \subseteq Seq(Requests)
          /\ Seq(MessagesOf(M)) \subseteq Seq(Events \cup Responses)
        BY <2>5, <2>6, SeqMonotonic
    <2>8. HandlersOf(M) \subseteq HandlerStates
        BY <2>3, <2>4 DEF HandlersOf, HandlerStates
    <2>9. AppsOf(M) \subseteq {IdleApp} \cup [pc: {"register", "connect", "unregister"}, entry: Entry]
        BY <2>2 DEF AppsOf
    <2>10. ReadersOf(M) \subseteq {IdleReader}
                \cup [pc: {"insert", "prune"}, todo: Seq(Entry), list: Seq(Entry)]
        BY <2>3 DEF ReadersOf
    <2>11. NetTypeOK
        BY <2>7 DEF DInv, DTypeOK, NetTypeOK, M
    <2>12. RcTypeOK
        BY <2>3, <2>8 DEF DInv, DTypeOK, RcTypeOK, M
    <2>13. ProxyTypeOK
        <3>1. using \in [Nodes -> SUBSET Ids] /\ failed \subseteq Ids
            BY <2>1 DEF UInv, UseTypeOK
        <3> QED BY <2>3, <2>9, <2>10, <3>1 DEF DInv, DTypeOK, ProxyTypeOK, M
    <2> QED BY <2>11, <2>12, <2>13 DEF DInv, DTypeOK, TypeOK
<1> QED BY <1>1, Invariance, PTL

-----------------------------------------------------------------------------
(* What the entries are                                                    *)

(* The entry e is the one that was made as m, up to the address of a       *)
(* messagelink, which changes when the link is connected.                  *)
Renders(e, m) ==
    /\ e.id = m.id /\ e.type = m.type /\ e.name = m.name /\ e.topic = m.topic
    /\ e.type # "messagelink" => e.addr = m.addr

Genuine == {e \in Entry : \E m \in made : Renders(e, m)}

(* The ids whose address may be updated                                    *)
Movable == {m.id : m \in {k \in made : k.type = "messagelink"}}

MadeOnce ==
    /\ \A m, k \in made : m.id = k.id => m = k
    /\ \A m \in made : m.type = "messagelink" => m.addr = Addr0

Items(s) == {s[i] : i \in 1..Len(s)}

(* The message that a handler has yet to send                              *)
Held(h) == IF h.pc = "announce" THEN {h.event}
           ELSE IF h.pc = "list" THEN {ListResponse(h.list)} ELSE {}

Transit(n) == Items(up[n]) \cup Items(down[n]) \cup Held(handler[n])

Honest(m) ==
    /\ m.kind \in {"register", "proxy-add"} => m.entry \in Genuine
    /\ m.kind \in {"update-address", "proxy-update-address"} => m.id \in Movable
    /\ m.kind = "list" /\ m # ListReq => Items(m.list) \subseteq Genuine

ReaderEntries(r) == IF r = IdleReader THEN {} ELSE Items(r.todo) \cup Items(r.list)
AppEntries(a) == IF a = IdleApp THEN {} ELSE {a.entry}

Kept(n) == Items(preg[n]) \cup AppEntries(app[n]) \cup ReaderEntries(reader[n])

AllGenuine ==
    /\ MadeOnce
    /\ Items(central) \subseteq Genuine
    /\ \A n \in Nodes : Kept(n) \subseteq Genuine
    /\ \A n \in Nodes : \A m \in Transit(n) : Honest(m)

-----------------------------------------------------------------------------
(* The items of lists and queues                                           *)

LEMMA ItemsOfSeq ==
    ASSUME NEW S, NEW s \in Seq(S)
    PROVE Items(s) \subseteq S
BY ElementOfSeq DEF Items

LEMMA ItemsOfAppend ==
    ASSUME NEW S, NEW s \in Seq(S), NEW m \in S
    PROVE Items(Append(s, m)) = Items(s) \cup {m}
<1> DEFINE t == Append(s, m)
           n == Len(s)
<1>1. /\ Len(t) = n + 1 /\ n \in Nat /\ t[n + 1] = m /\ \A i \in 1..n : t[i] = s[i]
    OBVIOUS
<1>2. /\ \A i \in 1..Len(t) : i \in 1..n \/ i = n + 1
      /\ \A i \in 1..n : i \in 1..Len(t)
      /\ n + 1 \in 1..Len(t)
    BY <1>1
<1> HIDE DEF t, n
<1> QED BY <1>1, <1>2 DEF Items, t, n

LEMMA ItemsOfTail ==
    ASSUME NEW S, NEW q \in Seq(S), q # <<>>
    PROVE /\ Items(q) = {Head(q)} \cup Items(Tail(q))
          /\ Tail(q) \in Seq(S) /\ Head(q) \in S
<1> DEFINE t == Tail(q)
<1>1. /\ Head(q) \in S /\ t \in Seq(S) /\ Len(t) = Len(q) - 1 /\ Len(t) \in Nat
      /\ Len(q) \in Nat /\ Head(q) = q[1] /\ 1 \in 1..Len(q)
      /\ \A i \in 1..Len(t) : t[i] = q[i + 1]
    BY HeadTailProperties, LenProperties, EmptySeq
<1> HIDE DEF t
<1>2. /\ \A i \in 1..Len(t) : i + 1 \in 1..Len(q)
      /\ \A i \in 1..Len(q) : i # 1 => i - 1 \in 1..Len(t) /\ (i - 1) + 1 = i
    BY <1>1
<1>3. \A i \in 1..Len(q) : i # 1 => q[i] = t[i - 1]
    BY <1>1, <1>2
<1>4. q[1] \in Items(q) /\ \A i \in 1..Len(t) : t[i] \in Items(q)
    BY <1>1, <1>2 DEF Items
<1>5. \A i \in 1..Len(q) : q[i] \in {q[1]} \cup Items(t)
    BY <1>2, <1>3 DEF Items
<1>6. Items(q) = {q[1]} \cup Items(t)
    <2>1. Items(q) \subseteq {q[1]} \cup Items(t)
        BY <1>5 DEF Items
    <2>2. Items(t) \subseteq Items(q)
        BY <1>4 DEF Items
    <2> QED BY <1>4, <2>1, <2>2
<1> QED BY <1>1, <1>6 DEF t

LEMMA ItemsOfPrefix ==
    ASSUME NEW S, NEW q \in Seq(S), NEW k \in 0..Len(q)
    PROVE Items(SubSeq(q, 1, k)) \subseteq Items(q)
<1> DEFINE t == SubSeq(q, 1, k)
<1>1. /\ Len(t) = k /\ Len(q) \in Nat /\ \A i \in 1..k : t[i] = q[i] /\ i \in 1..Len(q)
    OBVIOUS
<1> HIDE DEF t
<1> QED BY <1>1 DEF Items, t

LEMMA ItemsOfConcat ==
    ASSUME NEW S, NEW q \in Seq(S), NEW u \in Seq(S)
    PROVE Items(q \o u) = Items(q) \cup Items(u)
<1> DEFINE t == q \o u
           n == Len(q)
<1>1. /\ n \in Nat /\ Len(u) \in Nat /\ Len(t) = n + Len(u)
      /\ \A i \in 1..(n + Len(u)) : t[i] = IF i <= n THEN q[i] ELSE u[i - n]
    BY ConcatProperties, LenProperties
<1> HIDE DEF t, n
<1>2. \A i \in 1..Len(t) : \/ i \in 1..n /\ t[i] = q[i]
                           \/ i - n \in 1..Len(u) /\ t[i] = u[i - n]
    BY <1>1
<1>3. \A i \in 1..n : i \in 1..Len(t) /\ t[i] = q[i]
    BY <1>1
<1>4. \A i \in 1..Len(u) : i + n \in 1..Len(t) /\ t[i + n] = u[i]
    <2> SUFFICES ASSUME NEW i \in 1..Len(u) PROVE i + n \in 1..Len(t) /\ t[i + n] = u[i]
        OBVIOUS
    <2>1. i + n \in 1..(n + Len(u)) /\ ~(i + n <= n) /\ (i + n) - n = i
        BY <1>1
    <2> QED BY <1>1, <2>1
<1> QED BY <1>2, <1>3, <1>4 DEF Items, t, n

LEMMA ItemsOfDelete ==
    ASSUME NEW E, NEW s \in Seq(E), NEW id
    PROVE Items(registry_delete(s, id)) \subseteq Items(s)
<1> DEFINE t == registry_delete(s, id)
           n == Len(s)
           k == FirstId(s, id)
<1>1. CASE id \notin IdsOf(s)
    BY <1>1 DEF registry_delete
<1>2. CASE id \in IdsOf(s)
    <2>1. k \in 1..n /\ n \in Nat
        BY <1>2, FirstIdIs
    <2>2. t = SubSeq(s, 1, k - 1) \o SubSeq(s, k + 1, n)
        BY <1>2 DEF registry_delete, RemoveAt
    <2> HIDE DEF t, k
    <2>3. /\ SubSeq(s, 1, k - 1) \in Seq(E)
          /\ Items(SubSeq(s, 1, k - 1)) \subseteq Items(s)
        <3>1. k - 1 \in 0..Len(s)
            BY <2>1
        <3> QED BY <3>1, PrefixIs, ItemsOfPrefix
    <2>4. /\ SubSeq(s, k + 1, n) \in Seq(E)
          /\ \A i \in 1..Len(SubSeq(s, k + 1, n)) :
                SubSeq(s, k + 1, n)[i] = s[k + i] /\ k + i \in 1..n
        BY <2>1
    <2>5. Items(SubSeq(s, k + 1, n)) \subseteq Items(s)
        BY <2>4 DEF Items
    <2> DEFINE a == SubSeq(s, 1, k - 1)
               b == SubSeq(s, k + 1, n)
    <2>6. a \in Seq(E) /\ b \in Seq(E) /\ t = a \o b
        BY <2>2, <2>3, <2>4
    <2>7. Items(a) \subseteq Items(s) /\ Items(b) \subseteq Items(s)
        BY <2>3, <2>5
    <2> HIDE DEF a, b
    <2>8. Items(a \o b) = Items(a) \cup Items(b)
        BY <2>6, ItemsOfConcat
    <2>9. Items(t) \subseteq Items(s)
        BY <2>6, <2>7, <2>8
    <2> QED BY <2>9 DEF t
<1> QED BY <1>1, <1>2

(* Of the items of a list, registry_update_addr changes at most one, the   *)
(* first with the id.                                                      *)
LEMMA UpdateAddrIs ==
    ASSUME NEW E, NEW s \in Seq(E), NEW id, NEW addr
    PROVE LET t == registry_update_addr(s, id, addr) IN
          /\ Len(t) = Len(s)
          /\ \A i \in 1..Len(s) :
                \/ t[i] = s[i]
                \/ /\ id \in IdsOf(s) /\ i = FirstId(s, id) /\ s[i].id = id
                   /\ t[i] = [s[i] EXCEPT !.addr = addr]
<1>1. CASE id \notin IdsOf(s)
    BY <1>1 DEF registry_update_addr
<1>2. CASE id \in IdsOf(s)
    <2> DEFINE k == FirstId(s, id)
               f == [s[k] EXCEPT !.addr = addr]
               t == registry_update_addr(s, id, addr)
    <2>1. k \in 1..Len(s) /\ s[k].id = id
        BY <1>2, FirstIdIs
    <2>2. t = [s EXCEPT ![k] = f]
        BY <1>2 DEF registry_update_addr
    <2> HIDE DEF f, k
    <2>3. Len(t) = Len(s) /\ \A i \in 1..Len(s) : t[i] = IF i = k THEN f ELSE s[i]
        BY <2>1, <2>2
    <2> QED BY <1>2, <2>1, <2>3 DEF f, k
<1> QED BY <1>1, <1>2

LEMMA ItemsOfWithEntry ==
    ASSUME NEW E, NEW s \in Seq(E), NEW e \in E
    PROVE Items(WithEntry(s, e)) \subseteq Items(s) \cup {e}
BY ItemsOfAppend DEF WithEntry, registry_insert

LEMMA ItemsOfEncoded ==
    ASSUME NEW E, NEW s \in Seq(E)
    PROVE \A f \in Items(registry_entry_encode_list(s)) :
              \E e \in Items(s) : f = registry_entry_encode(e)
<1> DEFINE t == registry_entry_encode_list(s)
<1>1. Len(t) = Len(s) /\ \A i \in 1..Len(s) : t[i] = registry_entry_encode(s[i])
    BY DEF registry_entry_encode_list
<1> HIDE DEF t
<1> QED BY <1>1 DEF Items, t

-----------------------------------------------------------------------------
(* Every entry, wherever it is, renders one that was made                  *)

LEMMA GenuineGrows ==
    ASSUME made \subseteq made'
    PROVE Genuine \subseteq Genuine' /\ Movable \subseteq Movable'
          /\ \A m : Honest(m) => Honest(m)'
<1>1. Genuine \subseteq Genuine' /\ Movable \subseteq Movable'
    BY DEF Genuine, Movable
<1> QED BY <1>1 DEF Honest

LEMMA GenuineEncoded ==
    ASSUME NEW e \in Genuine
    PROVE /\ registry_entry_encode(e) \in Genuine /\ registry_entry_encode(e).id = e.id
          /\ entry_equals(registry_entry_encode(e), e)
<1> DEFINE f == registry_entry_encode(e)
<1>1. e \in Entry /\ f \in Entry /\ f.id = e.id /\ f.type = e.type /\ f.name = e.name
      /\ f.topic = e.topic /\ f.addr = e.addr
    BY DEF Genuine, Entry, registry_entry_encode
<1> HIDE DEF f
<1> QED BY <1>1 DEF Genuine, Renders, f, entry_equals

LEMMA GenuineMoved ==
    ASSUME MadeOnce, NEW e \in Genuine, e.id \in Movable, NEW a \in Addrs
    PROVE [e EXCEPT !.addr = a] \in Genuine
<1> DEFINE f == [e EXCEPT !.addr = a]
<1>1. e \in Entry /\ f \in Entry /\ f.id = e.id /\ f.type = e.type /\ f.name = e.name
      /\ f.topic = e.topic
    BY DEF Genuine, Entry
<1>2. PICK m \in made : Renders(e, m)
    BY DEF Genuine
<1>3. PICK k \in made : k.type = "messagelink" /\ k.id = e.id
    BY DEF Movable
<1>4. k = m
    BY <1>2, <1>3 DEF MadeOnce, Renders
<1>5. e.type = "messagelink"
    BY <1>2, <1>3, <1>4 DEF Renders
<1> HIDE DEF f
<1> QED BY <1>1, <1>2, <1>5 DEF Genuine, Renders, f

(* A step of the process n that makes no end-point                         *)
LEMMA GenuineStep ==
    ASSUME AllGenuine, NEW n \in Nodes, made' = made, Items(central') \subseteq Genuine,
           Kept(n)' \subseteq Genuine,
           \A m \in Nodes \ {n} : UNCHANGED <<preg[m], app[m], reader[m]>>,
           \A m \in Nodes : \A x \in Transit(m)' : x \in Transit(m) \/ Honest(x)
    PROVE AllGenuine'
<1>1. /\ Genuine' = Genuine /\ MadeOnce' /\ Movable' = Movable
    BY DEF Genuine, AllGenuine, MadeOnce, Movable
<1>2. \A x : Honest(x)' <=> Honest(x)
    BY <1>1 DEF Honest
<1>3. \A m \in Nodes : Kept(m)' \subseteq Genuine'
    BY <1>1 DEF AllGenuine, Kept
<1>4. \A m \in Nodes : \A x \in Transit(m)' : Honest(x)'
    BY <1>2 DEF AllGenuine
<1> QED BY <1>1, <1>3, <1>4 DEF AllGenuine

(* A step of the central registry, whose messages are those that were      *)
(* under way and honest ones                                               *)
LEMMA GenuineRcStep ==
    ASSUME AllGenuine, NEW n \in Nodes, UNCHANGED proxyVars, Items(central') \subseteq Genuine,
           \A m \in Nodes : /\ Items(up'[m]) \subseteq Items(up[m])
                            /\ \A x \in Items(down'[m]) : x \in Transit(m) \/ Honest(x),
           DInv, NEW h, \A x \in Held(h) : Honest(x), handler' = [handler EXCEPT ![n] = h]
    PROVE AllGenuine'
<1>1. /\ \A m \in Nodes : UNCHANGED <<preg[m], app[m], reader[m]>>
      /\ made' = made /\ Kept(n)' = Kept(n)
    BY DEF proxyVars, Kept
<1>2. /\ handler'[n] = h /\ \A m \in Nodes \ {n} : handler'[m] = handler[m]
    BY DEF DInv, DTypeOK
<1>3. ASSUME NEW m \in Nodes, NEW x \in Transit(m)' PROVE x \in Transit(m) \/ Honest(x)
    <2>1. x \in Items(up'[m]) \/ x \in Items(down'[m]) \/ x \in Held(handler'[m])
        BY <1>3 DEF Transit
    <2>2. x \in Items(up'[m]) => x \in Transit(m)
        BY DEF Transit
    <2>3. x \in Held(handler'[m]) => x \in Transit(m) \/ Honest(x)
        BY <1>2 DEF Transit
    <2> QED BY <2>1, <2>2, <2>3
<1>4. Kept(n) \subseteq Genuine
    BY DEF AllGenuine
<1> QED BY <1>1, <1>3, <1>4, GenuineStep

LEMMA HonestRequest ==
    ASSUME DInv, AllGenuine, NEW n \in Nodes, TakesRequest(n)
    PROVE /\ Head(up[n]) \in RequestsOf(MadeIds) /\ Honest(Head(up[n]))
          /\ \A m \in Nodes : Items(up'[m]) \subseteq Items(up[m])
<1> DEFINE q == up[n]
<1>1. q \in Seq(RequestsOf(MadeIds)) /\ q # <<>> /\ up'[n] = Tail(q)
      /\ \A m \in Nodes \ {n} : up'[m] = up[m]
    BY DEF DInv, DTypeOK, TakesRequest
<1>2. Items(q) \subseteq Transit(n)
    BY DEF Transit
<1> HIDE DEF q
<1>3. Items(q) = {Head(q)} \cup Items(Tail(q)) /\ Head(q) \in RequestsOf(MadeIds)
    BY <1>1, ItemsOfTail
<1> QED BY <1>1, <1>2, <1>3 DEF AllGenuine, q

LEMMA ItemsUnderWay ==
    \A m \in Nodes : \A x \in Items(down[m]) : x \in Transit(m)
BY DEF Transit

LEMMA ItemsSent ==
    ASSUME DInv, NEW n \in Nodes, NEW msg \in MessagesOf(MadeIds), Honest(msg),
           down' = SendTo({n}, msg)
    PROVE \A m \in Nodes : \A x \in Items(down'[m]) : x \in Transit(m) \/ Honest(x)
<1> SUFFICES ASSUME NEW m \in Nodes, NEW x \in Items(down'[m])
             PROVE x \in Transit(m) \/ Honest(x)
    OBVIOUS
<1>1. down[m] \in Seq(MessagesOf(MadeIds)) /\ Items(down[m]) \subseteq Transit(m)
    BY DEF DInv, DTypeOK, Transit
<1>2. down'[m] = down[m] \/ down'[m] = Append(down[m], msg)
    BY SendToIs DEF DInv
<1>3. Items(Append(down[m], msg)) = Items(down[m]) \cup {msg}
    BY <1>1, ItemsOfAppend
<1> QED BY <1>1, <1>2, <1>3

LEMMA GenuineRegister ==
    ASSUME DInv, AllGenuine, NEW n \in Nodes, rcregistry_register(n),
           UNCHANGED <<proxyVars, raced>>
    PROVE AllGenuine'
<1> DEFINE e == Head(up[n]).entry
           h == [pc |-> "announce", response |-> "register", event |-> AddEvent(e), exclude |-> {}]
<1>1. /\ TakesRequest(n) /\ Head(up[n]).kind = "register"
      /\ central' = Append(central, e) /\ handler' = [handler EXCEPT ![n] = h] /\ down' = down
    BY DEF rcregistry_register, HasRequest, TakesRequest, Announce, registry_insert
<1>2. e \in Genuine /\ \A m \in Nodes : Items(up'[m]) \subseteq Items(up[m])
    BY <1>1, HonestRequest DEF Honest
<1>3. e \in Foreign(MadeIds)
    BY <1>1, HonestRequest, RequestKinds
<1> HIDE DEF e
<1>4. Items(central') \subseteq Genuine
    <2>1. central \in Seq(Foreign(MadeIds)) /\ Items(central) \subseteq Genuine
        BY DEF DInv, DTypeOK, AllGenuine
    <2>2. Items(Append(central, e)) = Items(central) \cup {e}
        BY <1>3, <2>1, ItemsOfAppend
    <2> QED BY <1>1, <1>2, <2>1, <2>2
<1>5. \A x \in Held(h) : Honest(x)
    <2>1. registry_entry_encode(e) \in Genuine
        BY <1>2, GenuineEncoded
    <2>2. Held(h) = {AddEvent(e)}
        BY DEF Held
    <2> QED BY <2>1, <2>2 DEF Honest, AddEvent
<1> HIDE DEF h
<1> QED BY <1>1, <1>2, <1>4, <1>5, ItemsUnderWay, GenuineRcStep

LEMMA GenuineUnregister ==
    ASSUME DInv, AllGenuine, NEW n \in Nodes, rcregistry_unregister(n),
           UNCHANGED <<proxyVars, raced>>
    PROVE AllGenuine'
<1> DEFINE id == Head(up[n]).id
           h == [pc |-> "announce", response |-> "unregister", event |-> RemoveEvent(id),
                 exclude |-> {}]
           msg == Response("unregister", FALSE)
<1>1. /\ TakesRequest(n) /\ central' = registry_delete(central, id)
      /\ \/ handler' = [handler EXCEPT ![n] = h] /\ down' = down
         \/ handler' = handler /\ down' = SendTo({n}, msg)
    BY DEF rcregistry_unregister, HasRequest, TakesRequest, Announce
<1>2. \A m \in Nodes : Items(up'[m]) \subseteq Items(up[m])
    BY <1>1, HonestRequest
<1> HIDE DEF id
<1>3. Items(central') \subseteq Genuine
    <2>1. central \in Seq(Foreign(MadeIds)) /\ Items(central) \subseteq Genuine
        BY DEF DInv, DTypeOK, AllGenuine
    <2>2. Items(registry_delete(central, id)) \subseteq Items(central)
        BY <2>1, ItemsOfDelete
    <2> QED BY <1>1, <2>1, <2>2
<1>4. CASE handler' = [handler EXCEPT ![n] = h] /\ down' = down
    <2>1. \A x \in Held(h) : Honest(x)
        BY DEF Held, Honest, RemoveEvent
    <2> HIDE DEF h
    <2> QED BY <1>1, <1>2, <1>3, <1>4, <2>1, ItemsUnderWay, GenuineRcStep
<1>5. CASE handler' = handler /\ down' = SendTo({n}, msg)
    <2>1. msg \in MessagesOf(MadeIds) /\ Honest(msg)
        BY DEF MessagesOf, Response, Honest
    <2> HIDE DEF msg
    <2>2. \A m \in Nodes : \A x \in Items(down'[m]) : x \in Transit(m) \/ Honest(x)
        BY <1>5, <2>1, ItemsSent
    <2>3. handler' = [handler EXCEPT ![n] = handler[n]]
        BY <1>5 DEF DInv, DTypeOK
    <2>4. \A x \in Held(handler[n]) : Honest(x)
        BY DEF AllGenuine, Transit
    <2> QED BY <1>2, <1>3, <2>2, <2>3, <2>4, GenuineRcStep
<1> QED BY <1>1, <1>4, <1>5

(* An update changes the address of a messagelink only.                    *)
LEMMA GenuineUpdated ==
    ASSUME MadeOnce, NEW E, NEW s \in Seq(E), Items(s) \subseteq Genuine,
           NEW id \in Movable, NEW addr \in Addrs
    PROVE Items(registry_update_addr(s, id, addr)) \subseteq Genuine
<1> DEFINE t == registry_update_addr(s, id, addr)
<1>1. /\ Len(t) = Len(s)
      /\ \A i \in 1..Len(s) : \/ t[i] = s[i]
                              \/ /\ s[i].id = id
                                 /\ t[i] = [s[i] EXCEPT !.addr = addr]
    BY UpdateAddrIs
<1> HIDE DEF t
<1>2. \A i \in 1..Len(s) : s[i] \in Genuine
    BY DEF Items
<1>3. ASSUME NEW i \in 1..Len(s) PROVE t[i] \in Genuine
    BY <1>1, <1>2, GenuineMoved
<1> QED BY <1>1, <1>3 DEF Items, t

LEMMA GenuineUpdateAddress ==
    ASSUME DInv, AllGenuine, NEW n \in Nodes, rcregistry_update_address(n),
           UNCHANGED <<proxyVars, raced>>
    PROVE AllGenuine'
<1> DEFINE id == Head(up[n]).id
           a == Head(up[n]).addr
           h == [pc |-> "announce", response |-> "update-address",
                 event |-> UpdateAddressEvent(id, a), exclude |-> {n}]
<1>1. /\ TakesRequest(n) /\ Head(up[n]).kind = "update-address"
      /\ central' = registry_update_addr(central, id, a)
      /\ handler' = [handler EXCEPT ![n] = h] /\ down' = down
    BY DEF rcregistry_update_address, HasRequest, TakesRequest, Announce
<1>2. id \in Movable /\ a \in Addrs /\ \A m \in Nodes : Items(up'[m]) \subseteq Items(up[m])
    BY <1>1, HonestRequest, RequestKinds DEF Honest
<1> HIDE DEF id, a
<1>3. Items(central') \subseteq Genuine
    <2>1. central \in Seq(Foreign(MadeIds)) /\ Items(central) \subseteq Genuine /\ MadeOnce
        BY DEF DInv, DTypeOK, AllGenuine
    <2> QED BY <1>1, <1>2, <2>1, GenuineUpdated
<1>4. \A x \in Held(h) : Honest(x)
    BY <1>2 DEF Held, Honest, UpdateAddressEvent
<1> HIDE DEF h
<1> QED BY <1>1, <1>2, <1>3, <1>4, ItemsUnderWay, GenuineRcStep

LEMMA GenuineSelectList ==
    ASSUME DInv, AllGenuine, NEW n \in Nodes, rcregistry_select_list(n),
           UNCHANGED <<proxyVars, raced>>
    PROVE AllGenuine'
<1> DEFINE s == registry_entry_encode_list(central)
           h == [pc |-> "list", list |-> s]
<1>1. /\ TakesRequest(n) /\ central' = central /\ down' = down
      /\ handler' = [handler EXCEPT ![n] = h]
    BY DEF rcregistry_select_list, HasRequest, TakesRequest
<1>2. \A m \in Nodes : Items(up'[m]) \subseteq Items(up[m])
    BY <1>1, HonestRequest
<1>3. central \in Seq(Foreign(MadeIds)) /\ Items(central) \subseteq Genuine
    BY DEF DInv, DTypeOK, AllGenuine
<1>4. Items(s) \subseteq Genuine
    BY <1>3, ItemsOfEncoded, GenuineEncoded
<1> HIDE DEF s
<1>5. \A x \in Held(h) : Honest(x)
    BY <1>4 DEF Held, Honest, ListResponse
<1> HIDE DEF h
<1> QED BY <1>1, <1>2, <1>3, <1>5, ItemsUnderWay, GenuineRcStep

LEMMA GenuineLinkStep ==
    ASSUME DInv, AllGenuine, NEW n \in Nodes, messagehub_add_link(n) \/ messagehub_remove_link(n),
           UNCHANGED <<proxyVars, raced>>
    PROVE AllGenuine'
<1>1. PICK pc \in {"idle", "done"} : handler' = [handler EXCEPT ![n] = [pc |-> pc]]
    BY DEF messagehub_add_link, messagehub_remove_link, Idle
<1>2. UNCHANGED <<up, down, central>>
    BY DEF messagehub_add_link, messagehub_remove_link
<1>3. Held([pc |-> pc]) = {}
    BY DEF Held
<1>4. Items(central') \subseteq Genuine
    BY <1>2 DEF AllGenuine
<1> DEFINE h == [pc |-> pc]
<1>5. \A x \in Held(h) : Honest(x)
    BY <1>3
<1>6. handler' = [handler EXCEPT ![n] = h]
    BY <1>1
<1> HIDE DEF h
<1> QED BY <1>2, <1>4, <1>5, <1>6, ItemsUnderWay, GenuineRcStep

LEMMA GenuineSendList ==
    ASSUME DInv, AllGenuine, NEW n \in Nodes, rcregistry_send_list(n),
           UNCHANGED <<proxyVars, raced>>
    PROVE AllGenuine'
<1> DEFINE msg == ListResponse(handler[n].list)
           h == [pc |-> "idle"]
<1>1. /\ handler[n].pc = "list" /\ down' = SendTo({n}, msg)
      /\ handler' = [handler EXCEPT ![n] = h]
      /\ UNCHANGED <<up, central>>
    BY DEF rcregistry_send_list, Idle
<1>2. msg \in MessagesOf(MadeIds)
    <2>1. handler[n] \in HandlersOf(MadeIds)
        BY DEF DInv, DTypeOK
    <2>2. handler[n].list \in Seq(Foreign(MadeIds))
        BY <1>1, <2>1, HandlerKinds
    <2> QED BY <2>2 DEF ListResponse, MessagesOf
<1>3. Honest(msg)
    BY <1>1 DEF AllGenuine, Transit, Held
<1> HIDE DEF msg
<1>4. \A m \in Nodes : \A x \in Items(down'[m]) : x \in Transit(m) \/ Honest(x)
    BY <1>1, <1>2, <1>3, ItemsSent
<1>5. \A x \in Held(h) : Honest(x)
    BY DEF Held
<1>6. Items(central') \subseteq Genuine
    BY <1>1 DEF AllGenuine
<1> HIDE DEF h
<1> QED BY <1>1, <1>4, <1>5, <1>6, GenuineRcStep

LEMMA GenuineAnnounce ==
    ASSUME DInv, AllGenuine, NEW n \in Nodes, RcAnnounce(n)
    PROVE AllGenuine'
<1> DEFINE ev == handler[n].event
           r == Response(handler[n].response, TRUE)
           h == [pc |-> "idle"]
           a(m) == IF m = n /\ CanSend(m) THEN Append(down[m], r) ELSE down[m]
           b(m) == IF m \in links \ handler[n].exclude /\ CanSend(m) THEN <<ev>> ELSE <<>>
<1>1. /\ handler[n].pc = "announce" /\ handler' = [handler EXCEPT ![n] = h]
      /\ down' = [m \in Nodes |-> a(m) \o b(m)]
      /\ UNCHANGED <<up, central, proxyVars>>
    BY DEF RcAnnounce, rcregistry_announce, Idle
<1>2. ev \in MessagesOf(MadeIds) /\ r \in MessagesOf(MadeIds)
    <2>1. handler[n] \in HandlersOf(MadeIds)
        BY DEF DInv, DTypeOK
    <2>2. /\ ev \in EventsOf(MadeIds)
          /\ handler[n].response \in {"register", "unregister", "update-address"}
        BY <1>1, <2>1, HandlerKinds
    <2> QED BY <2>2, EventKinds DEF Response, MessagesOf
<1>3. Honest(ev) /\ Honest(r)
    <2>1. Honest(ev)
        BY <1>1 DEF AllGenuine, Transit, Held
    <2> QED BY <2>1 DEF Honest, Response
<1>4. ASSUME NEW m \in Nodes, NEW x \in Items(down'[m]) PROVE x \in Transit(m) \/ Honest(x)
    <2> DEFINE M == MessagesOf(MadeIds)
    <2>1. down[m] \in Seq(M) /\ down'[m] = a(m) \o b(m)
        BY <1>1 DEF DInv, DTypeOK
    <2>2. a(m) = down[m] \/ a(m) = Append(down[m], r)
        OBVIOUS
    <2>3. b(m) = <<>> \/ b(m) = <<ev>>
        OBVIOUS
    <2>4. x \in Items(a(m) \o b(m))
        BY <1>4, <2>1
    <2> HIDE DEF a, b, ev, r, M
    <2>5. a(m) \in Seq(M) /\ Items(a(m)) \subseteq Items(down[m]) \cup {r}
        <3>1. Append(down[m], r) \in Seq(M) /\ Items(Append(down[m], r)) = Items(down[m]) \cup {r}
            BY <1>2, <2>1, ItemsOfAppend, AppendProperties DEF M
        <3> QED BY <2>1, <2>2, <3>1
    <2>6. b(m) \in Seq(M) /\ Items(b(m)) \subseteq {ev}
        <3>1. ev \in M /\ <<>> \in Seq(M) /\ Items(<<>>) = {}
            BY <1>2 DEF M, Items
        <3>2. <<ev>> \in Seq(M) /\ Items(<<ev>>) = {ev}
            BY <3>1 DEF Items
        <3> QED BY <2>3, <3>1, <3>2
    <2>7. Items(a(m) \o b(m)) = Items(a(m)) \cup Items(b(m))
        BY <2>5, <2>6, ItemsOfConcat
    <2> QED BY <1>3, <2>4, <2>5, <2>6, <2>7, ItemsUnderWay
<1>5. \A x \in Held(h) : Honest(x)
    BY DEF Held
<1>6. Items(central') \subseteq Genuine
    BY <1>1 DEF AllGenuine
<1> HIDE DEF h
<1> QED BY <1>1, <1>4, <1>5, <1>6, GenuineRcStep

-----------------------------------------------------------------------------
(* ... in the steps of the processes                                       *)

(* A step of a process, which leaves the central registry alone            *)
GenuineProcess(n) ==
    /\ made' = made /\ UNCHANGED <<central, handler>>
    /\ \A m \in Nodes \ {n} : UNCHANGED <<preg[m], app[m], reader[m]>>
    /\ Items(preg'[n]) \subseteq Genuine
    /\ AppEntries(app'[n]) \subseteq Genuine
    /\ ReaderEntries(reader'[n]) \subseteq Genuine
    /\ \A m \in Nodes : \A x \in Items(up'[m]) : x \in Items(up[m]) \/ Honest(x)
    /\ \A m \in Nodes : Items(down'[m]) \subseteq Items(down[m])

LEMMA GenuineProcessStep ==
    ASSUME AllGenuine, NEW n \in Nodes, GenuineProcess(n)
    PROVE AllGenuine'
<1>1. /\ made' = made /\ UNCHANGED <<central, handler>>
      /\ \A m \in Nodes \ {n} : UNCHANGED <<preg[m], app[m], reader[m]>>
    BY DEF GenuineProcess
<1>2. Kept(n)' \subseteq Genuine
    BY DEF GenuineProcess, Kept, AppEntries, ReaderEntries
<1>3. \A m \in Nodes : \A x \in Transit(m)' : x \in Transit(m) \/ Honest(x)
    BY <1>1 DEF GenuineProcess, Transit
<1>4. Items(central') \subseteq Genuine
    BY <1>1 DEF AllGenuine
<1> QED BY <1>1, <1>2, <1>3, <1>4, GenuineStep

LEMMA KeptGenuine ==
    ASSUME AllGenuine, NEW n \in Nodes
    PROVE /\ Items(preg[n]) \subseteq Genuine
          /\ AppEntries(app[n]) \subseteq Genuine
          /\ ReaderEntries(reader[n]) \subseteq Genuine
BY DEF AllGenuine, Kept

LEMMA HonestMessage ==
    ASSUME DInv, AllGenuine, NEW n \in Nodes, NEW kind, HasMessage(n, kind), Consume(n)
    PROVE /\ Honest(Head(down[n])) /\ Head(down[n]) \in MessagesOf(MadeIds)
          /\ Head(down[n]).kind = kind
          /\ \A m \in Nodes : Items(down'[m]) \subseteq Items(down[m])
<1> DEFINE q == down[n]
<1>1. q \in Seq(MessagesOf(MadeIds)) /\ q # <<>> /\ down'[n] = Tail(q) /\ Head(q).kind = kind
      /\ \A m \in Nodes \ {n} : down'[m] = down[m]
    BY DEF DInv, DTypeOK, HasMessage, Consume
<1>2. Items(q) \subseteq Transit(n)
    BY DEF Transit
<1> HIDE DEF q
<1>3. Items(q) = {Head(q)} \cup Items(Tail(q)) /\ Head(q) \in MessagesOf(MadeIds)
    BY <1>1, ItemsOfTail
<1> QED BY <1>1, <1>2, <1>3 DEF AllGenuine, q

(* The reader thread handles a message and changes its list to s.          *)
LEMMA GenuineMessage ==
    ASSUME DInv, AllGenuine, NEW n \in Nodes, NEW kind, HasMessage(n, kind), Consume(n),
           UNCHANGED <<app, reader, made, central, handler>>,
           NEW s, Items(s) \subseteq Genuine, preg' = [preg EXCEPT ![n] = s],
           \A m \in Nodes : \A x \in Items(up'[m]) : x \in Items(up[m]) \/ Honest(x)
    PROVE AllGenuine'
<1>1. preg'[n] = s /\ \A m \in Nodes \ {n} : preg'[m] = preg[m]
    BY DEF DInv, DTypeOK
<1>2. \A m \in Nodes : Items(down'[m]) \subseteq Items(down[m])
    BY HonestMessage
<1>3. GenuineProcess(n)
    BY <1>1, <1>2, KeptGenuine DEF GenuineProcess
<1> QED BY <1>3, GenuineProcessStep

LEMMA GenuineWithEntry ==
    ASSUME DInv, AllGenuine, NEW n \in Nodes, NEW types, HandleAdd(n, types)
    PROVE /\ Head(down[n]).entry \in Genuine
          /\ Items(WithEntry(preg[n], Head(down[n]).entry)) \subseteq Genuine
<1> DEFINE e == Head(down[n]).entry
<1>1. HasMessage(n, "proxy-add") /\ Consume(n)
    BY DEF HandleAdd
<1>2. e \in Genuine
    BY <1>1, HonestMessage DEF Honest
<1>3. e \in Foreign(MadeIds)
    BY AddIs
<1>4. e \in Listed(MadeIds)
    BY <1>3 DEF Foreign, Listed
<1>5. preg[n] \in Seq(Listed(MadeIds))
    BY DEF DInv, DTypeOK
<1> HIDE DEF e
<1>6. Items(WithEntry(preg[n], e)) \subseteq Items(preg[n]) \cup {e}
    BY <1>4, <1>5, ItemsOfWithEntry
<1> QED BY <1>2, <1>6, KeptGenuine DEF e

LEMMA GenuineAdd ==
    ASSUME DInv, AllGenuine, NEW n \in Nodes, UNCHANGED <<rcVars, raced>>,
           \/ proxy_handle_register_add(n) \/ proxy_connect_datalink(n)
           \/ proxy_connect_datahub(n) \/ proxy_connect_streamer(n)
    PROVE AllGenuine'
<1> DEFINE s == WithEntry(preg[n], Head(down[n]).entry)
<1>1. PICK types : HandleAdd(n, types)
    BY DEF proxy_handle_register_add, proxy_connect_datalink, proxy_connect_datahub,
           proxy_connect_streamer, ConnectLinks
<1>2. /\ HasMessage(n, "proxy-add") /\ Consume(n)
      /\ UNCHANGED <<app, reader, made, central, handler>>
    BY <1>1 DEF HandleAdd, rcVars
<1>3. preg' = [preg EXCEPT ![n] = s] /\ up' = up
    BY DEF proxy_handle_register_add, proxy_connect_datalink, proxy_connect_datahub,
           proxy_connect_streamer, ConnectLinks
<1>4. Items(s) \subseteq Genuine
    BY <1>1, GenuineWithEntry
<1> HIDE DEF s
<1> QED BY <1>2, <1>3, <1>4, GenuineMessage

LEMMA GenuineConnectMessagehub ==
    ASSUME DInv, AllGenuine, NEW n \in Nodes, UNCHANGED <<rcVars, raced>>,
           proxy_connect_messagehub(n)
    PROVE AllGenuine'
<1> DEFINE e == Head(down[n]).entry
           s == WithEntry(preg[n], e)
           L == {id \in LocalIds(s, e.topic, "messagelink") : ep[id].remote # e.addr}
           t(local) == [i \in 1..Len(s) |->
                          IF Listening(e.addr) /\ s[i].id \in L /\ i = FirstId(s, s[i].id)
                          THEN [s[i] EXCEPT !.addr = local[s[i].id]] ELSE s[i]]
           u(local, order) == [i \in 1..Len(order) |->
                                 UpdateAddressReq(order[i], local[order[i]])]
<1>1. /\ HandleAdd(n, {"messagehub"}) /\ HasMessage(n, "proxy-add") /\ Consume(n)
      /\ UNCHANGED <<app, reader, made, central, handler>>
      /\ \E local \in [L -> FreeAddrs], order \in SetToSeqs(L) :
            /\ preg' = [preg EXCEPT ![n] = t(local)]
            /\ up' = up \/ up' = [up EXCEPT ![n] = up[n] \o u(local, order)]
    BY DEF proxy_connect_messagehub, HandleAdd, rcVars
<1>2. PICK local \in [L -> FreeAddrs], order \in SetToSeqs(L) :
            /\ preg' = [preg EXCEPT ![n] = t(local)]
            /\ up' = up \/ up' = [up EXCEPT ![n] = up[n] \o u(local, order)]
    BY <1>1
<1>3. /\ Items(s) \subseteq Genuine /\ s \in Seq(Listed(MadeIds))
      /\ OwnIds(s) \subseteq Ids
    BY <1>1, GenuineWithEntry, AddIs
<1>4. L \subseteq OwnIds(s) /\ L \subseteq IdsOf(s) /\ L \in SUBSET Ids
    BY <1>3, LocalIdsIs
<1>5. L \subseteq Movable
    <2>1. ASSUME NEW id \in L PROVE id \in Movable
        <3>1. PICK i \in 1..Len(s) : s[i].type = "messagelink" /\ s[i].id = id
            BY DEF LocalIds
        <3> HIDE DEF s
        <3>2. s[i] \in Genuine
            BY <1>3 DEF Items
        <3> QED BY <3>1, <3>2 DEF Genuine, Renders, Movable
    <2> QED BY <2>1
<1>6. local \in [L -> Addrs]
    BY DEF FreeAddrs
<1>7. MadeOnce
    BY DEF AllGenuine
<1> DEFINE tt == t(local)
           uu == u(local, order)
<1>8. Items(tt) \subseteq Genuine
    <2> HIDE DEF s, L, e
    <2>1. Len(tt) = Len(s)
        BY <1>3
    <2>2. ASSUME NEW i \in 1..Len(s) PROVE tt[i] \in Genuine
        <3>1. s[i] \in Genuine
            BY <1>3 DEF Items
        <3>2. CASE tt[i] = s[i]
            BY <3>1, <3>2
        <3>3. CASE s[i].id \in L /\ tt[i] = [s[i] EXCEPT !.addr = local[s[i].id]]
            <4> DEFINE a == local[s[i].id]
            <4>1. a \in Addrs /\ s[i].id \in Movable
                BY <1>5, <1>6, <3>3
            <4>2. tt[i] = [s[i] EXCEPT !.addr = a]
                BY <3>3
            <4> HIDE DEF a, tt
            <4> QED BY <1>7, <3>1, <4>1, <4>2, GenuineMoved
        <3> QED BY <3>2, <3>3
    <2> HIDE DEF tt
    <2> QED BY <2>1, <2>2 DEF Items
<1>9. uu \in Seq(RequestsOf(MadeIds)) /\ \A x \in Items(uu) : Honest(x)
    <2> HIDE DEF s, L, e
    <2>1. Len(order) \in Nat /\ \A i \in 1..Len(order) : order[i] \in L
        BY <1>3, <1>4, OrderIs
    <2>2. uu \in Seq(RequestsOf(MadeIds)) /\ Len(uu) = Len(order)
        BY <1>4, <1>6, <2>1, UpdatesAre
    <2>3. ASSUME NEW i \in 1..Len(order) PROVE Honest(uu[i])
        <3>1. uu[i] = UpdateAddressReq(order[i], local[order[i]])
            OBVIOUS
        <3>2. order[i] \in Movable
            BY <1>5, <2>1
        <3> QED BY <3>1, <3>2 DEF Honest, UpdateAddressReq
    <2> HIDE DEF uu
    <2> QED BY <2>2, <2>3 DEF Items
<1>10. preg' = [preg EXCEPT ![n] = tt] /\ (up' = up \/ up' = [up EXCEPT ![n] = up[n] \o uu])
    BY <1>2
<1> HIDE DEF s, L, e, t, u, tt, uu
<1>11. \A m \in Nodes : \A x \in Items(up'[m]) : x \in Items(up[m]) \/ Honest(x)
    <2>1. up \in [Nodes -> Seq(RequestsOf(MadeIds))]
        BY DEF DInv, DTypeOK
    <2>2. Items(up[n] \o uu) = Items(up[n]) \cup Items(uu)
        BY <1>9, <2>1, ItemsOfConcat
    <2> QED BY <1>9, <1>10, <2>1, <2>2
<1> QED BY <1>1, <1>8, <1>10, <1>11, GenuineMessage

LEMMA GenuineMessages ==
    ASSUME DInv, AllGenuine, NEW n \in Nodes, UNCHANGED <<rcVars, raced>>,
           \/ proxy_handle_register_remove(n) \/ proxy_handle_update_address(n)
           \/ proxy_onresponse(n)
    PROVE AllGenuine'
<1> DEFINE id == Head(down[n]).id
           a == Head(down[n]).addr
<1>1. UNCHANGED <<app, reader, made, central, handler, up>> /\ Consume(n)
    BY DEF proxy_handle_register_remove, proxy_handle_update_address, proxy_onresponse, rcVars
<1>2. /\ preg[n] \in Seq(Listed(MadeIds)) /\ Items(preg[n]) \subseteq Genuine /\ MadeOnce
      /\ preg = [preg EXCEPT ![n] = preg[n]]
    BY KeptGenuine DEF DInv, DTypeOK, AllGenuine
<1>3. CASE proxy_handle_register_remove(n)
    <2>1. /\ HasMessage(n, "proxy-remove")
          /\ \/ preg' = preg
             \/ preg' = [preg EXCEPT ![n] = registry_delete(preg[n], id)]
        BY <1>3 DEF proxy_handle_register_remove
    <2> HIDE DEF id
    <2>2. Items(registry_delete(preg[n], id)) \subseteq Genuine
        BY <1>2, ItemsOfDelete
    <2> QED BY <1>1, <1>2, <2>1, <2>2, GenuineMessage
<1>4. CASE proxy_handle_update_address(n)
    <2>1. /\ HasMessage(n, "proxy-update-address")
          /\ preg' = [preg EXCEPT ![n] = registry_update_addr(preg[n], id, a)]
        BY <1>4 DEF proxy_handle_update_address
    <2>2. id \in Movable /\ a \in Addrs
        BY <1>1, <2>1, HonestMessage, MessageKinds DEF Honest
    <2> HIDE DEF id, a
    <2>3. Items(registry_update_addr(preg[n], id, a)) \subseteq Genuine
        BY <1>2, <2>2, GenuineUpdated
    <2> QED BY <1>1, <2>1, <2>3, GenuineMessage
<1>5. CASE proxy_onresponse(n)
    <2>1. HasMessage(n, "response") /\ preg' = preg
        BY <1>5 DEF proxy_onresponse
    <2> QED BY <1>1, <1>2, <2>1, GenuineMessage
<1> QED BY <1>3, <1>4, <1>5

LEMMA ItemsOfFront ==
    ASSUME NEW S, NEW q \in Seq(S), q # <<>>
    PROVE Items(Front(q)) \subseteq Items(q) /\ Last(q) \in Items(q)
<1>1. Len(q) \in Nat /\ Len(q) # 0 /\ Len(q) - 1 \in 0..Len(q) /\ Len(q) \in 1..Len(q)
    BY EmptySeq
<1>2. Items(SubSeq(q, 1, Len(q) - 1)) \subseteq Items(q)
    BY <1>1, ItemsOfPrefix
<1> QED BY <1>1, <1>2 DEF Front, Last, Items

(* A step of the reader thread on the list: the reader becomes r and the   *)
(* entries s.                                                              *)
LEMMA GenuineReading ==
    ASSUME DInv, AllGenuine, NEW n \in Nodes, UNCHANGED <<app, made, central, handler, up>>,
           \A m \in Nodes : Items(down'[m]) \subseteq Items(down[m]),
           NEW s, Items(s) \subseteq Genuine, preg' = [preg EXCEPT ![n] = s],
           NEW r, ReaderEntries(r) \subseteq Genuine, reader' = [reader EXCEPT ![n] = r]
    PROVE AllGenuine'
<1>1. /\ preg'[n] = s /\ reader'[n] = r
      /\ \A m \in Nodes \ {n} : preg'[m] = preg[m] /\ reader'[m] = reader[m]
    BY DEF DInv, DTypeOK
<1>2. GenuineProcess(n)
    BY <1>1, KeptGenuine DEF GenuineProcess
<1> QED BY <1>2, GenuineProcessStep

LEMMA GenuineList ==
    ASSUME DInv, AllGenuine, NEW n \in Nodes, UNCHANGED <<rcVars, raced>>,
           proxy_handle_update_list(n)
    PROVE AllGenuine'
<1> DEFINE s == Head(down[n]).list
           r == [pc |-> "insert", todo |-> s, list |-> s]
<1>1. /\ HasMessage(n, "list") /\ Consume(n) /\ reader' = [reader EXCEPT ![n] = r]
      /\ UNCHANGED <<app, made, central, handler, up, preg>>
    BY DEF proxy_handle_update_list, rcVars
<1>2. Items(s) \subseteq Genuine /\ \A m \in Nodes : Items(down'[m]) \subseteq Items(down[m])
    <2> DEFINE msg == Head(down[n])
    <2>1. /\ msg \in MessagesOf(MadeIds) /\ msg.kind = "list" /\ Honest(msg)
          /\ \A m \in Nodes : Items(down'[m]) \subseteq Items(down[m])
        BY <1>1, HonestMessage
    <2> HIDE DEF msg
    <2>2. msg \in [kind: {"list"}, list: Seq(Foreign(MadeIds))]
        BY <2>1 DEF MessagesOf, EventsOf
    <2>3. msg # ListReq
        BY <2>2 DEF ListReq
    <2>4. Items(msg.list) \subseteq Genuine
        BY <2>1, <2>3 DEF Honest
    <2> QED BY <2>1, <2>4 DEF msg
<1> HIDE DEF s
<1>3. ReaderEntries(r) \subseteq Genuine
    BY <1>2 DEF ReaderEntries, IdleReader
<1>4. preg' = [preg EXCEPT ![n] = preg[n]] /\ Items(preg[n]) \subseteq Genuine
    BY <1>1, KeptGenuine DEF DInv, DTypeOK
<1> HIDE DEF r
<1> QED BY <1>1, <1>2, <1>3, <1>4, GenuineReading

LEMMA GenuineListSteps ==
    ASSUME DInv, AllGenuine, NEW n \in Nodes, UNCHANGED <<rcVars, raced>>,
           \/ update_list_insert(n) \/ update_list_select(n)
           \/ update_list_prune(n) \/ update_list_ready(n)
    PROVE AllGenuine'
<1>1. /\ UNCHANGED <<app, made, central, handler, up, down>>
      /\ reader[n] \in ReadersOf(MadeIds) /\ reader[n].pc # "idle"
      /\ preg[n] \in Seq(Listed(MadeIds)) /\ preg = [preg EXCEPT ![n] = preg[n]]
    BY DEF update_list_insert, update_list_select, update_list_prune, update_list_ready,
           netVars, rcVars, DInv, DTypeOK
<1>2. /\ Items(preg[n]) \subseteq Genuine /\ Items(reader[n].todo) \subseteq Genuine
      /\ Items(reader[n].list) \subseteq Genuine
    <2>1. reader[n] # IdleReader
        BY <1>1 DEF IdleReader
    <2> QED BY <2>1, KeptGenuine DEF ReaderEntries
<1> DEFINE p == reader[n]
<1>3. p \in [pc: {"insert"}, todo: Seq(Foreign(MadeIds)), list: Seq(Foreign(MadeIds))]
           \cup [pc: {"prune"}, todo: Seq(Listed(MadeIds)), list: Seq(Foreign(MadeIds))]
    BY <1>1 DEF ReadersOf, IdleReader
<1>4. p.pc = "insert" => p.todo \in Seq(Foreign(MadeIds))
    BY <1>3
<1>5. p.pc = "prune" => p.todo \in Seq(Listed(MadeIds))
    BY <1>3
<1>6. ASSUME NEW todo, Items(todo) \subseteq Genuine
      PROVE ReaderEntries([p EXCEPT !.todo = todo]) \subseteq Genuine
    <2>1. /\ [p EXCEPT !.todo = todo].todo = todo
          /\ [p EXCEPT !.todo = todo].list = p.list
        BY <1>3
    <2> QED BY <1>2, <1>6, <2>1 DEF ReaderEntries
<1> HIDE DEF p
<1>7. CASE update_list_insert(n)
    <2> DEFINE e == Head(p.todo)
               r == [p EXCEPT !.todo = Tail(p.todo)]
               s == WithEntry(preg[n], e)
    <2>1. /\ p.pc = "insert" /\ p.todo # <<>>
          /\ preg' = [preg EXCEPT ![n] = s]
          /\ reader' = [reader EXCEPT ![n] = r]
        BY <1>7 DEF update_list_insert, p
    <2>2. /\ Items(p.todo) = {e} \cup Items(Tail(p.todo)) /\ e \in Foreign(MadeIds)
        BY <1>4, <2>1, ItemsOfTail
    <2>3. ReaderEntries(r) \subseteq Genuine
        <3>1. Items(Tail(p.todo)) \subseteq Genuine
            BY <1>2, <2>2 DEF p
        <3> QED BY <1>6, <3>1
    <2>4. Items(s) \subseteq Genuine
        <3>1. e \in Listed(MadeIds) /\ e \in Genuine
            BY <1>2, <2>2 DEF p, Foreign, Listed
        <3> HIDE DEF e
        <3>2. Items(s) \subseteq Items(preg[n]) \cup {e}
            BY <1>1, <3>1, ItemsOfWithEntry
        <3> QED BY <1>2, <3>1, <3>2
    <2> HIDE DEF s, r
    <2> QED BY <1>1, <2>1, <2>3, <2>4, GenuineReading
<1>8. CASE update_list_select(n)
    <2> DEFINE r == [pc |-> "prune", todo |-> preg[n], list |-> p.list]
    <2>1. preg' = preg /\ reader' = [reader EXCEPT ![n] = r]
        BY <1>8 DEF update_list_select, p
    <2>2. ReaderEntries(r) \subseteq Genuine
        BY <1>2 DEF ReaderEntries, p
    <2> HIDE DEF r
    <2> QED BY <1>1, <1>2, <2>1, <2>2, GenuineReading
<1>9. CASE update_list_prune(n)
    <2> DEFINE e == Last(p.todo)
               r == [p EXCEPT !.todo = Front(p.todo)]
    <2>1. /\ p.pc = "prune" /\ p.todo # <<>>
          /\ preg' = preg \/ preg' = [preg EXCEPT ![n] = registry_delete(preg[n], e.id)]
          /\ reader' = [reader EXCEPT ![n] = r]
        BY <1>9 DEF update_list_prune, p
    <2>2. ReaderEntries(r) \subseteq Genuine
        <3>1. Items(Front(p.todo)) \subseteq Items(p.todo)
            BY <1>5, <2>1, ItemsOfFront
        <3>2. Items(Front(p.todo)) \subseteq Genuine
            BY <1>2, <3>1 DEF p
        <3> QED BY <1>6, <3>2
    <2>3. Items(registry_delete(preg[n], e.id)) \subseteq Genuine
        <3> DEFINE id == e.id
        <3> HIDE DEF id
        <3>1. Items(registry_delete(preg[n], id)) \subseteq Genuine
            BY <1>1, <1>2, ItemsOfDelete
        <3> QED BY <3>1 DEF id
    <2> HIDE DEF r, e
    <2> QED BY <1>1, <1>2, <2>1, <2>2, <2>3, GenuineReading
<1>10. CASE update_list_ready(n)
    <2>1. preg' = preg /\ reader' = [reader EXCEPT ![n] = IdleReader]
        BY <1>10 DEF update_list_ready
    <2>2. ReaderEntries(IdleReader) \subseteq Genuine
        BY DEF ReaderEntries
    <2> QED BY <1>1, <1>2, <2>1, <2>2, GenuineReading
<1> QED BY <1>7, <1>8, <1>9, <1>10

LEMMA GenuineReader ==
    ASSUME DInv, AllGenuine, NEW n \in Nodes, ReaderStep(n)
    PROVE AllGenuine'
<1>1. UNCHANGED <<rcVars, raced>>
    BY DEF ReaderStep
<1>2. CASE \/ proxy_handle_register_add(n) \/ proxy_connect_datalink(n)
           \/ proxy_connect_datahub(n) \/ proxy_connect_streamer(n)
    BY <1>1, <1>2, GenuineAdd
<1>3. CASE \/ proxy_handle_register_remove(n) \/ proxy_handle_update_address(n)
           \/ proxy_onresponse(n)
    BY <1>1, <1>3, GenuineMessages
<1>4. CASE \/ update_list_insert(n) \/ update_list_select(n)
           \/ update_list_prune(n) \/ update_list_ready(n)
    BY <1>1, <1>4, GenuineListSteps
<1> QED BY <1>1, <1>2, <1>3, <1>4, GenuineConnectMessagehub, GenuineList DEF ReaderStep

(* The application's thread: its list becomes s, where it is becomes a.    *)
LEMMA GenuineApp ==
    ASSUME DInv, AllGenuine, NEW n \in Nodes,
           UNCHANGED <<made, central, handler, reader, down>>,
           NEW s, Items(s) \subseteq Genuine, preg' = [preg EXCEPT ![n] = s],
           NEW a, AppEntries(a) \subseteq Genuine, app' = [app EXCEPT ![n] = a],
           \A m \in Nodes : \A x \in Items(up'[m]) : x \in Items(up[m]) \/ Honest(x)
    PROVE AllGenuine'
<1>1. /\ preg'[n] = s /\ app'[n] = a
      /\ \A m \in Nodes \ {n} : preg'[m] = preg[m] /\ app'[m] = app[m]
    BY DEF DInv, DTypeOK
<1>2. GenuineProcess(n)
    BY <1>1, KeptGenuine DEF GenuineProcess
<1> QED BY <1>2, GenuineProcessStep

(* A request is sent, if it is.                                            *)
LEMMA GenuineRequest ==
    ASSUME DInv, NEW n \in Nodes, NEW r \in RequestsOf(MadeIds), Honest(r),
           up' = up \/ up' = [up EXCEPT ![n] = Append(up[n], r)]
    PROVE \A m \in Nodes : \A x \in Items(up'[m]) : x \in Items(up[m]) \/ Honest(x)
<1>1. up \in [Nodes -> Seq(RequestsOf(MadeIds))]
    BY DEF DInv, DTypeOK
<1>2. Items(Append(up[n], r)) = Items(up[n]) \cup {r}
    BY <1>1, ItemsOfAppend
<1> QED BY <1>1, <1>2

LEMMA AppIs ==
    ASSUME DInv, AllGenuine, NEW n \in Nodes
    PROVE /\ preg = [preg EXCEPT ![n] = preg[n]] /\ preg[n] \in Seq(Listed(MadeIds))
          /\ Items(preg[n]) \subseteq Genuine
          /\ app[n].pc \in {"register", "connect", "unregister"} =>
                app[n].entry \in Genuine /\ app[n].entry \in Listed(MadeIds)
<1>1. app[n] \in AppsOf(MadeIds)
    BY DEF DInv, DTypeOK
<1>2. app[n].pc \in {"register", "connect", "unregister"} =>
        app[n] # IdleApp /\ app[n].entry \in Listed(MadeIds)
    BY <1>1, AppKinds DEF IdleApp
<1> QED BY <1>2, KeptGenuine DEF DInv, DTypeOK, AppEntries

LEMMA GenuineAppSteps ==
    ASSUME DInv, AllGenuine, NEW n \in Nodes, AppStep(n)
    PROVE AllGenuine'
<1>1. UNCHANGED <<made, central, handler, reader, down>>
    BY DEF AppStep, rcVars, proxy_send_register_request, proxy_new_entry_failed,
           proxy_open_failed, proxy_open_datalink, proxy_open_streamerlink, OpenLink, proxy_open_datahub,
           proxy_open_messagelink, Connected, proxy_send_unregister_request, netVars
<1>2. AppEntries(IdleApp) \subseteq Genuine
    BY DEF AppEntries
<1>3. CASE proxy_send_register_request(n)
    <2> DEFINE e == app[n].entry
               a == IF e.type \in ConnectTypes THEN [pc |-> "connect", entry |-> e] ELSE IdleApp
               r == RegisterReq(e)
    <2>1. /\ app[n].pc = "register" /\ preg' = preg /\ app' = [app EXCEPT ![n] = a]
          /\ up' = [up EXCEPT ![n] = Append(up[n], r)]
        BY <1>3 DEF proxy_send_register_request
    <2>2. e \in Genuine /\ e \in Listed(MadeIds)
        BY <2>1, AppIs
    <2> HIDE DEF e
    <2>3. AppEntries(a) \subseteq Genuine
        BY <1>2, <2>2 DEF AppEntries
    <2>4. r \in RequestsOf(MadeIds) /\ Honest(r)
        <3>1. registry_entry_encode(e) \in Foreign(MadeIds)
            BY <2>2, EncodeIs DEF Listed, Foreign
        <3>2. registry_entry_encode(e) \in Genuine
            BY <2>2, GenuineEncoded
        <3> QED BY <3>1, <3>2 DEF RegisterReq, RequestsOf, Honest
    <2> HIDE DEF a, r
    <2>5. \A m \in Nodes : \A x \in Items(up'[m]) : x \in Items(up[m]) \/ Honest(x)
        BY <2>1, <2>4, GenuineRequest
    <2> QED BY <1>1, <2>1, <2>3, <2>5, AppIs, GenuineApp
<1>4. CASE proxy_new_entry_failed(n)
    <2> DEFINE id == app[n].entry.id
               a == [pc |-> "unregister", entry |-> app[n].entry]
    <2>1. /\ preg' = [preg EXCEPT ![n] = registry_delete(preg[n], id)]
          /\ app[n].pc = "register" /\ app' = [app EXCEPT ![n] = a] /\ up' = up
        BY <1>4 DEF proxy_new_entry_failed, netVars
    <2> HIDE DEF id
    <2>2. Items(registry_delete(preg[n], id)) \subseteq Genuine
        BY AppIs, ItemsOfDelete
    <2>3. AppEntries(a) \subseteq Genuine
        BY <2>1, AppIs DEF AppEntries
    <2> HIDE DEF a
    <2> QED BY <1>1, <2>1, <2>2, <2>3, GenuineApp
<1>5. CASE \/ proxy_open_datalink(n) \/ proxy_open_streamerlink(n)
           \/ proxy_open_datahub(n) \/ proxy_open_messagelink(n)
    <2>1. Connected(n)
        BY <1>5 DEF proxy_open_datalink, proxy_open_streamerlink, OpenLink,
                    proxy_open_datahub, proxy_open_messagelink
    <2>2. app' = [app EXCEPT ![n] = IdleApp] /\ preg' = preg /\ up' = up
        BY <2>1 DEF Connected, netVars
    <2> QED BY <1>1, <1>2, <2>2, AppIs, GenuineApp
<1>6. CASE proxy_send_unregister_request(n) \/ proxy_open_failed(n)
    <2> DEFINE id == app[n].entry.id
               r == UnregisterReq(id)
    <2>1. /\ app[n].pc = "unregister" /\ preg' = preg /\ app' = [app EXCEPT ![n] = IdleApp]
          /\ up' = up \/ up' = [up EXCEPT ![n] = Append(up[n], r)]
        BY <1>6 DEF proxy_send_unregister_request, proxy_open_failed, netVars
    <2>2. id \in MadeIds
        BY <2>1, AppIs DEF Listed
    <2>3. r \in RequestsOf(MadeIds) /\ Honest(r)
        BY <2>2 DEF RequestsOf, UnregisterReq, Honest
    <2> HIDE DEF r
    <2>4. \A m \in Nodes : \A x \in Items(up'[m]) : x \in Items(up[m]) \/ Honest(x)
        BY <2>1, <2>3, GenuineRequest
    <2> QED BY <1>1, <1>2, <2>1, <2>4, AppIs, GenuineApp
<1> QED BY <1>3, <1>4, <1>5, <1>6 DEF AppStep

LEMMA GenuineStart ==
    ASSUME DInv, AllGenuine, NEW n \in Nodes, Start(n)
    PROVE AllGenuine'
<1>1. /\ UNCHANGED <<made, central, handler, reader, down, app, preg>>
      /\ up' = [up EXCEPT ![n] = <<ListReq>>]
    BY DEF Start, new_proxy, rcVars
<1>2. Items(<<ListReq>>) = {ListReq} /\ Honest(ListReq)
    <2>1. Len(<<ListReq>>) = 1 /\ <<ListReq>>[1] = ListReq
        OBVIOUS
    <2>2. Items(<<ListReq>>) = {ListReq}
        BY <2>1 DEF Items
    <2>3. Honest(ListReq)
        BY DEF Honest, ListReq
    <2> QED BY <2>2, <2>3
<1>3. \A m \in Nodes : \A x \in Items(up'[m]) : x \in Items(up[m]) \/ Honest(x)
    BY <1>1, <1>2 DEF DInv, DTypeOK
<1>4. app = [app EXCEPT ![n] = app[n]]
    BY DEF DInv, DTypeOK
<1> QED BY <1>1, <1>3, <1>4, AppIs, KeptGenuine, GenuineApp

LEMMA GenuineClose ==
    ASSUME DInv, AllGenuine, NEW n \in Nodes, Close(n)
    PROVE AllGenuine'
<1>1. PICK id \in Ids : proxy_delete_entry(n, id) /\ UNCHANGED <<rcVars, raced>>
    BY DEF Close
<1> DEFINE S == {i \in 1..Len(preg[n]) : preg[n][i].id = id /\ preg[n][i].endpoint}
           e == preg[n][CHOOSE i \in S : TRUE]
           a == [pc |-> "unregister", entry |-> e]
<1>2. /\ UNCHANGED <<made, central, handler, reader, down, up>>
      /\ preg' = [preg EXCEPT ![n] = registry_delete(preg[n], id)]
      /\ app' = [app EXCEPT ![n] = a] /\ S # {}
    BY <1>1 DEF proxy_delete_entry, DeleteEntry, netVars, rcVars
<1>3. Items(registry_delete(preg[n], id)) \subseteq Genuine
    BY AppIs, ItemsOfDelete
<1>4. e \in Items(preg[n])
    BY <1>2 DEF Items
<1> HIDE DEF e
<1>5. AppEntries(a) \subseteq Genuine
    BY <1>4, AppIs DEF AppEntries
<1> HIDE DEF a
<1> QED BY <1>2, <1>3, <1>5, GenuineApp

LEMMA GenuineFault ==
    ASSUME DInv, AllGenuine, NEW n \in Nodes, Fault(n)
    PROVE AllGenuine'
<1>1. /\ UNCHANGED <<made, central, handler>> /\ down' = [down EXCEPT ![n] = <<>>]
      /\ \E k \in 0..Len(up[n]) : up' = [up EXCEPT ![n] = SubSeq(up[n], 1, k)]
      /\ \/ UNCHANGED <<preg, app, reader>>
         \/ /\ preg' = [preg EXCEPT ![n] = <<>>] /\ app' = [app EXCEPT ![n] = IdleApp]
            /\ reader' = [reader EXCEPT ![n] = IdleReader]
    BY DEF Fault, new_proxy_timeout, Exit, Leave, LinkBreaks, rcVars, proxyVars
<1>2. Items(<<>>) = {} /\ AppEntries(IdleApp) = {} /\ ReaderEntries(IdleReader) = {}
    BY DEF Items, AppEntries, ReaderEntries
<1>3. PICK k \in 0..Len(up[n]) : up' = [up EXCEPT ![n] = SubSeq(up[n], 1, k)]
    BY <1>1
<1>4. up \in [Nodes -> Seq(RequestsOf(MadeIds))]
    BY DEF DInv, DTypeOK
<1>5. Items(SubSeq(up[n], 1, k)) \subseteq Items(up[n])
    BY <1>4, ItemsOfPrefix
<1>6. \A m \in Nodes : Items(up'[m]) \subseteq Items(up[m])
    BY <1>3, <1>4, <1>5
<1>7. \A m \in Nodes : Items(down'[m]) \subseteq Items(down[m])
    BY <1>1, <1>2 DEF DInv, DTypeOK
<1>8. \A m \in Nodes \ {n} : UNCHANGED <<preg[m], app[m], reader[m]>>
    BY <1>1 DEF DInv, DTypeOK
<1>9. /\ Items(preg'[n]) \subseteq Genuine /\ AppEntries(app'[n]) \subseteq Genuine
      /\ ReaderEntries(reader'[n]) \subseteq Genuine
    <2>1. CASE UNCHANGED <<preg, app, reader>>
        BY <2>1, KeptGenuine
    <2>2. CASE /\ preg' = [preg EXCEPT ![n] = <<>>] /\ app' = [app EXCEPT ![n] = IdleApp]
               /\ reader' = [reader EXCEPT ![n] = IdleReader]
        <3>1. preg'[n] = <<>> /\ app'[n] = IdleApp /\ reader'[n] = IdleReader
            BY <2>2 DEF DInv, DTypeOK
        <3> QED BY <1>2, <3>1
    <2> QED BY <1>1, <2>1, <2>2
<1>10. GenuineProcess(n)
    BY <1>1, <1>6, <1>7, <1>8, <1>9 DEF GenuineProcess
<1> QED BY <1>10, GenuineProcessStep

(* A new end-point is made under a fresh id.                               *)
LEMMA GenuineOpen ==
    ASSUME DInv, AllGenuine, NEW n \in Nodes, Open(n)
    PROVE AllGenuine'
<1>1. PICK type \in Types, name \in Names, topic \in Topics :
        proxy_new_entry(n, type, topic, name)
    BY FamiliesAssumption DEF Open
<1>2. PICK id \in Ids, a \in Addrs :
        LET e == [id |-> id, name |-> name, topic |-> topic, type |-> type,
                  addr |-> a, endpoint |-> TRUE] IN
        /\ id \notin MadeIds /\ (type = "messagelink" => a = Addr0)
        /\ preg' = [preg EXCEPT ![n] = registry_insert(preg[n], e)]
        /\ app' = [app EXCEPT ![n] = [pc |-> "register", entry |-> e]]
        /\ made' = made \cup {e}
    <2>1. \A a \in IF type \in {"messagelink", "streamerlink"} THEN {Addr0} ELSE FreeAddrs :
                a \in Addrs /\ (type = "messagelink" => a = Addr0)
        BY AddrAssumption DEF FreeAddrs
    <2> QED BY <1>1, <2>1 DEF proxy_new_entry, MadeIds
<1> DEFINE e == [id |-> id, name |-> name, topic |-> topic, type |-> type,
                 addr |-> a, endpoint |-> TRUE]
           x == [pc |-> "register", entry |-> e]
           s == Append(preg[n], e)
<1>3. /\ preg' = [preg EXCEPT ![n] = s] /\ app' = [app EXCEPT ![n] = x]
      /\ made' = made \cup {e}
      /\ UNCHANGED <<central, handler, up, down, reader>>
    BY <1>1, <1>2 DEF proxy_new_entry, netVars, Open, rcVars, registry_insert
<1>4. e \in Entry /\ e.id \notin MadeIds /\ (e.type = "messagelink" => e.addr = Addr0)
    BY <1>2 DEF Entry
<1>5. x.entry = e
    OBVIOUS
<1> HIDE DEF e
<1>6. MadeOnce'
    BY <1>3, <1>4 DEF AllGenuine, MadeOnce, MadeIds
<1>7. /\ Genuine \subseteq Genuine' /\ Movable \subseteq Movable'
      /\ \A m : Honest(m) => Honest(m)'
    BY <1>3, GenuineGrows
<1>8. e \in Genuine'
    BY <1>3, <1>4 DEF Genuine, Renders
<1>9. /\ Items(preg'[n]) \subseteq Genuine' /\ AppEntries(app'[n]) \subseteq Genuine'
    <2>1. preg[n] \in Seq(Entry) /\ Items(preg[n]) \subseteq Genuine
        <3>1. Listed(MadeIds) \subseteq Entry
            BY DEF Listed
        <3>2. Seq(Listed(MadeIds)) \subseteq Seq(Entry)
            BY <3>1, SeqMonotonic
        <3> QED BY <3>2, AppIs
    <2>2. Items(s) = Items(preg[n]) \cup {e}
        BY <1>4, <2>1, ItemsOfAppend
    <2> HIDE DEF s, x
    <2>3. preg'[n] = s /\ app'[n] = x
        BY <1>3 DEF DInv, DTypeOK
    <2>4. AppEntries(x) \subseteq {e}
        BY <1>5 DEF AppEntries
    <2> QED BY <1>7, <1>8, <2>1, <2>2, <2>3, <2>4
<1>10. \A m \in Nodes : /\ reader'[m] = reader[m]
                        /\ m # n => preg'[m] = preg[m] /\ app'[m] = app[m]
    <2> HIDE DEF s, x
    <2> QED BY <1>3 DEF DInv, DTypeOK
<1>11. \A m \in Nodes : Kept(m)' \subseteq Genuine'
    BY <1>7, <1>9, <1>10, KeptGenuine DEF Kept
<1>12. \A m \in Nodes : Transit(m)' = Transit(m)
    BY <1>3 DEF Transit
<1>13. \A m \in Nodes : \A y \in Transit(m)' : Honest(y)'
    BY <1>7, <1>12 DEF AllGenuine
<1>14. Items(central') \subseteq Genuine'
    BY <1>3, <1>7 DEF AllGenuine
<1> QED BY <1>6, <1>11, <1>13, <1>14 DEF AllGenuine

LEMMA GenuineInit == ASSUME Init PROVE AllGenuine
<1> USE DEF Init, NetInit, RcInit, ProxyInit
<1>1. MadeOnce
    BY RegistryEntryAssumption DEF MadeOnce
<1>2. RegistryEntry \in Genuine
    BY RegistryEntryAssumption DEF Genuine, Renders
<1>3. Items(<<>>) = {}
    BY DEF Items
<1>4. Items(central) \subseteq Genuine
    <2>1. Len(<<RegistryEntry>>) = 1 /\ <<RegistryEntry>>[1] = RegistryEntry
        OBVIOUS
    <2> QED BY <1>2, <2>1 DEF Items
<1>5. \A n \in Nodes : Kept(n) = {}
    BY <1>3 DEF Kept, AppEntries, ReaderEntries
<1>6. \A n \in Nodes : Transit(n) = {}
    BY <1>3 DEF Transit, Held
<1> QED BY <1>1, <1>4, <1>5, <1>6 DEF AllGenuine

LEMMA GenuineNext == DInv /\ AllGenuine /\ [Next]_vars => AllGenuine'
<1> SUFFICES ASSUME DInv, AllGenuine, [Next]_vars PROVE AllGenuine'
    OBVIOUS
<1>1. ASSUME NEW n \in Nodes, RcStep(n) PROVE AllGenuine'
    <2>1. UNCHANGED <<proxyVars, raced>>
        BY <1>1 DEF RcStep
    <2> QED BY <1>1, <2>1, GenuineLinkStep, GenuineRegister, GenuineUnregister,
               GenuineUpdateAddress, GenuineSelectList, GenuineSendList DEF RcStep
<1>2. ASSUME NEW n \in Nodes,
             RcAnnounce(n) \/ ReaderStep(n) \/ AppStep(n) \/ Start(n) \/ Open(n)
             \/ Close(n) \/ Fault(n)
      PROVE AllGenuine'
    BY <1>2, GenuineAnnounce, GenuineReader, GenuineAppSteps, GenuineStart, GenuineOpen,
       GenuineClose, GenuineFault
<1>3. CASE UNCHANGED stateVars
    <2>1. /\ UNCHANGED <<up, down, central, handler>>
          /\ UNCHANGED <<preg, app, reader, made>>
        BY <1>3 DEF stateVars, netVars, rcVars, proxyVars
    <2>2. /\ Genuine' = Genuine /\ MadeOnce' /\ Movable' = Movable
        BY <2>1 DEF Genuine, AllGenuine, MadeOnce, Movable
    <2>3. \A x : Honest(x)' <=> Honest(x)
        BY <2>2 DEF Honest
    <2>4. \A n \in Nodes : Kept(n)' = Kept(n) /\ Transit(n)' = Transit(n)
        BY <2>1 DEF Kept, Transit
    <2> QED BY <2>1, <2>2, <2>3, <2>4 DEF AllGenuine
<1> QED BY <1>1, <1>2, <1>3, StepIs DEF Acts

LEMMA GenuineInvariance == Spec => [](DInv /\ AllGenuine)
<1>1. Init => AllGenuine
    BY GenuineInit
<1> QED BY <1>1, GenuineNext, Invariance, PTL DEF Spec

(* Two entries with the same id, wherever they are listed, are about the   *)
(* same end-point, and only the address of a messagelink, which is         *)
(* assigned when it is connected, can differ.                              *)
Alike(e, f) ==
    e.id = f.id => /\ e.type = f.type /\ e.name = f.name /\ e.topic = f.topic
                   /\ e.type # "messagelink" => e.addr = f.addr

ListedEntries == Items(central) \cup UNION {Items(preg[n]) : n \in Nodes}

EntriesAgree ==
    /\ \A e \in ListedEntries : \E m \in made : Alike(e, m) /\ e.id = m.id
    /\ \A e, f \in ListedEntries : Alike(e, f)

(* At any time, whatever is delayed, overtaken or lost, the central        *)
(* registry and the proxies list only end-points that a process made, and  *)
(* two of them that list the same id agree on what it is and where.        *)
THEOREM ListedEntriesAgree == Spec => []EntriesAgree
<1>1. AllGenuine => EntriesAgree
    <2> SUFFICES ASSUME AllGenuine PROVE EntriesAgree
        OBVIOUS
    <2>1. ListedEntries \subseteq Genuine
        BY DEF AllGenuine, ListedEntries, Kept
    <2>2. \A e \in Genuine : \E m \in made : Alike(e, m) /\ e.id = m.id
        BY DEF Genuine, Renders, Alike
    <2>3. ASSUME NEW e \in Genuine, NEW f \in Genuine PROVE Alike(e, f)
        <3>1. PICK m \in made : Renders(e, m)
            BY DEF Genuine
        <3>2. PICK k \in made : Renders(f, k)
            BY DEF Genuine
        <3>3. m.id = k.id => m = k
            BY DEF AllGenuine, MadeOnce
        <3> QED BY <3>1, <3>2, <3>3 DEF Renders, Alike
    <2> QED BY <2>1, <2>2, <2>3 DEF EntriesAgree
<1> QED BY <1>1, GenuineInvariance, PTL

-----------------------------------------------------------------------------
(* Whom the end-points are connected to                                    *)

PeerAddrs(type, topic) == {m.addr : m \in Made(type, topic)}

(* What holds of the end-point object p, and of the one with the id        *)
HasPeers(p) ==
    /\ p.type \in LinkTypes /\ p.remote # NoAddr => p.remote \in PeerAddrs(HubType[p.type], p.topic)
    /\ p.links \subseteq PeerAddrs("datalink", p.topic)

MadeAs(id, p) == \E m \in made : m.id = id /\ m.type = p.type /\ m.topic = p.topic

PeersInv == \A id \in Ids : IsOpen(id) => MadeAs(id, ep[id]) /\ HasPeers(ep[id])

LEMMA LastSelectedMatches ==
    ASSUME NEW E, NEW s \in Seq(E), NEW topic, NEW type, LastSelected(s, topic, type) # 0
    PROVE LET k == LastSelected(s, topic, type) IN
          k \in 1..Len(s) /\ s[k].topic = topic /\ s[k].type = type
<1> DEFINE I == {i \in 1..Len(s) : s[i].topic = topic /\ s[i].type = type}
<1>1. LastSelected(s, topic, type) = IF I # {} THEN Max(I) ELSE 0
    BY DEF LastSelected, SelectLastInSeq
<1>2. Len(s) \in Nat /\ I \in SUBSET (1..Len(s)) /\ I # {}
    BY <1>1
<1>3. Max(I) \in I
    BY <1>2, Greatest
<1> QED BY <1>1, <1>2, <1>3

(* The address of an entry, unless it is that of a messagelink             *)
LEMMA PeerOfEntry ==
    ASSUME NEW e \in Genuine, e.type # "messagelink"
    PROVE e.addr \in PeerAddrs(e.type, e.topic)
BY DEF Genuine, Renders, PeerAddrs, Made

(* An open end-point is what its entry says.                               *)
LEMMA EndpointOfEntry ==
    ASSUME AllGenuine, PeersInv, NEW e \in Genuine, e.id \in Ids, IsOpen(e.id)
    PROVE ep[e.id].type = e.type /\ ep[e.id].topic = e.topic
<1>1. PICK m \in made : Renders(e, m)
    BY DEF Genuine
<1>2. PICK k \in made : k.id = e.id /\ k.type = ep[e.id].type /\ k.topic = ep[e.id].topic
    BY DEF PeersInv, MadeAs
<1>3. k = m
    BY <1>1, <1>2 DEF AllGenuine, MadeOnce, Renders
<1> QED BY <1>1, <1>2, <1>3 DEF Renders

(* A step in which each end-point is deleted or stays what it is           *)
LEMMA PeersStep ==
    ASSUME PeersInv, made' = made, ep' \in [Ids -> Endpoint \cup {Closed}],
           \A id \in Ids : \/ ep'[id] = ep[id] \/ ep'[id] = Closed
                           \/ /\ IsOpen(id) /\ ep'[id].type = ep[id].type
                              /\ ep'[id].topic = ep[id].topic /\ HasPeers(ep'[id])
    PROVE PeersInv'
<1>1. \A p : HasPeers(p)' <=> HasPeers(p)
    BY DEF HasPeers, PeerAddrs, Made
<1> SUFFICES ASSUME NEW id \in Ids, IsOpen(id)' PROVE MadeAs(id, ep[id])' /\ HasPeers(ep[id])'
    BY DEF PeersInv
<1> DEFINE p == ep'[id]
<1>2. p # Closed
    BY DEF IsOpen
<1>3. CASE p = ep[id]
    <2>1. MadeAs(id, ep[id]) /\ HasPeers(ep[id])
        BY <1>2, <1>3 DEF PeersInv, IsOpen
    <2> HIDE DEF p
    <2> QED BY <1>3, <2>1 DEF p, MadeAs, HasPeers, PeerAddrs, Made
<1>4. CASE IsOpen(id) /\ p.type = ep[id].type /\ p.topic = ep[id].topic /\ HasPeers(p)
    <2>1. MadeAs(id, ep[id])
        BY <1>4 DEF PeersInv
    <2> QED BY <1>4, <2>1 DEF MadeAs, HasPeers, PeerAddrs, Made
<1> QED BY <1>2, <1>3, <1>4

LEMMA EndpointFields ==
    ASSUME NEW p \in Endpoint, NEW a, NEW S, NEW b
    PROVE LET q == [p EXCEPT !.remote = a]
              r == [p EXCEPT !.links = S]
              t == [p EXCEPT !.remote = a, !.addr = b] IN
          /\ q.remote = a /\ q.type = p.type /\ q.topic = p.topic /\ q.links = p.links
          /\ r.links = S /\ r.type = p.type /\ r.topic = p.topic /\ r.remote = p.remote
          /\ t.remote = a /\ t.type = p.type /\ t.topic = p.topic /\ t.links = p.links
BY DEF Endpoint

(* The links of S get the address a.                                       *)
LEMMA PeersSetRemote ==
    ASSUME PeersInv, made' = made, EpTypeOK, NEW S \in SUBSET Ids, \A id \in S : IsOpen(id),
           NEW type \in LinkTypes, NEW topic,
           \A id \in S : ep[id].type = type /\ ep[id].topic = topic,
           NEW a \in Addrs \cup {NoAddr}, a = NoAddr \/ a \in PeerAddrs(HubType[type], topic),
           ep' = SetRemote(S, a)
    PROVE PeersInv'
<1>1. ep' \in [Ids -> Endpoint \cup {Closed}]
    BY SetRemoteIs DEF EpKeeps
<1>2. ASSUME NEW id \in S
      PROVE /\ IsOpen(id) /\ ep'[id].type = ep[id].type
            /\ ep'[id].topic = ep[id].topic /\ HasPeers(ep'[id])
    <2> DEFINE p == ep[id]
               q == [p EXCEPT !.remote = a]
    <2>1. ep'[id] = q
        BY DEF SetRemote
    <2>2. p \in Endpoint
        BY OpenIsEndpoint
    <2>3. p.type = type /\ p.topic = topic /\ HasPeers(p)
        BY DEF PeersInv
    <2> HIDE DEF p
    <2>4. q.remote = a /\ q.type = p.type /\ q.topic = p.topic /\ q.links = p.links
        BY <2>2, EndpointFields
    <2> HIDE DEF q
    <2>5. HasPeers(q)
        BY <2>3, <2>4 DEF HasPeers
    <2> QED BY <2>1, <2>4, <2>5 DEF p
<1>3. \A id \in Ids \ S : ep'[id] = ep[id]
    BY DEF SetRemote
<1> QED BY <1>1, <1>2, <1>3, PeersStep

(* The messagelinks of S are connected to a, or left unconnected.          *)
LEMMA PeersConnect ==
    ASSUME PeersInv, made' = made, EpTypeOK, NEW S \in SUBSET Ids, \A id \in S : IsOpen(id),
           NEW topic, \A id \in S : ep[id].type = "messagelink" /\ ep[id].topic = topic,
           NEW a \in Addrs, a \in PeerAddrs("messagehub", topic),
           NEW local \in [S -> Addrs],
           ep' = client_messagelink_connect(S, a, local)
    PROVE PeersInv'
<1>1. ep' \in [Ids -> Endpoint \cup {Closed}]
    BY MessagelinkConnectIs DEF EpKeeps
<1>2. ASSUME NEW id \in S
      PROVE /\ IsOpen(id) /\ ep'[id].type = ep[id].type
            /\ ep'[id].topic = ep[id].topic /\ HasPeers(ep'[id])
    <2> DEFINE p == ep[id]
               r == IF Listening(a) THEN a ELSE NoAddr
               b == IF Listening(a) THEN local[id] ELSE Addr0
               q == [p EXCEPT !.remote = r, !.addr = b]
    <2>1. ep'[id] = q
        BY DEF client_messagelink_connect
    <2>2. p \in Endpoint
        BY OpenIsEndpoint
    <2>3. p.type = "messagelink" /\ p.topic = topic /\ HasPeers(p)
        BY DEF PeersInv
    <2>4. r = a \/ r = NoAddr
        OBVIOUS
    <2> HIDE DEF p, r, b
    <2>5. q.remote = r /\ q.type = p.type /\ q.topic = p.topic /\ q.links = p.links
        BY <2>2, EndpointFields
    <2> HIDE DEF q
    <2>6. HasPeers(q)
        BY <2>3, <2>4, <2>5 DEF HasPeers, HubType
    <2> QED BY <2>1, <2>5, <2>6 DEF p
<1>3. \A id \in Ids \ S : ep'[id] = ep[id]
    BY DEF client_messagelink_connect
<1> QED BY <1>1, <1>2, <1>3, PeersStep

(* A datahub gets the addresses of S.                                      *)
LEMMA PeersAddLinks ==
    ASSUME PeersInv, made' = made, EpTypeOK, NEW id \in Ids, IsOpen(id),
           NEW S \in SUBSET Addrs, S \subseteq PeerAddrs("datalink", ep[id].topic),
           ep' = datahub_add_link(id, S)
    PROVE PeersInv'
<1>1. ep' \in [Ids -> Endpoint \cup {Closed}]
    BY AddLinkIs DEF EpKeeps
<1> DEFINE p == ep[id]
           T == p.links \cup S
           q == [p EXCEPT !.links = T]
<1>2. ep'[id] = q /\ \A i \in Ids \ {id} : ep'[i] = ep[i]
    BY DEF datahub_add_link, EpTypeOK
<1>3. p \in Endpoint /\ HasPeers(p)
    BY OpenIsEndpoint DEF PeersInv
<1>4. S \subseteq PeerAddrs("datalink", p.topic)
    OBVIOUS
<1> HIDE DEF p
<1>5. T \subseteq PeerAddrs("datalink", p.topic)
    BY <1>3, <1>4 DEF HasPeers
<1> HIDE DEF T
<1>6. q.links = T /\ q.type = p.type /\ q.topic = p.topic /\ q.remote = p.remote
    BY <1>3, EndpointFields
<1> HIDE DEF q
<1>7. HasPeers(q)
    BY <1>3, <1>5, <1>6 DEF HasPeers
<1>8. /\ IsOpen(id) /\ ep'[id].type = ep[id].type
      /\ ep'[id].topic = ep[id].topic /\ HasPeers(ep'[id])
    BY <1>2, <1>6, <1>7 DEF p
<1> QED BY <1>1, <1>2, <1>8, PeersStep

LEMMA PeersDelete ==
    ASSUME PeersInv, made' = made, EpTypeOK, NEW S \in SUBSET Ids,
           ep' = DeleteEndpoints(S)
    PROVE PeersInv'
<1>1. ep' \in [Ids -> Endpoint \cup {Closed}]
    BY DeleteEndpointsIs DEF EpKeeps
<1>2. ASSUME NEW id \in Ids, ep'[id] # ep[id], ep'[id] # Closed
      PROVE /\ IsOpen(id) /\ ep'[id].type = ep[id].type
            /\ ep'[id].topic = ep[id].topic /\ HasPeers(ep'[id])
    <2> DEFINE p == ep[id]
               q == [p EXCEPT !.remote = NoAddr, !.addr = Addr0]
    <2>1. ep'[id] = q /\ p.type = "messagelink"
        BY <1>2 DEF DeleteEndpoints
    <2>2. p \in Endpoint /\ IsOpen(id)
        BY <2>1 DEF EpTypeOK, Closed, IsOpen
    <2>3. HasPeers(p)
        BY <2>2 DEF PeersInv
    <2> HIDE DEF p
    <2>4. q.remote = NoAddr /\ q.type = p.type /\ q.topic = p.topic /\ q.links = p.links
        BY <2>2, EndpointFields
    <2> HIDE DEF q
    <2>5. HasPeers(q)
        BY <2>3, <2>4 DEF HasPeers
    <2> QED BY <2>1, <2>2, <2>4, <2>5 DEF p
<1> QED BY <1>1, <1>2, PeersStep

LEMMA PeersSame == ASSUME PeersInv, made' = made, ep' = ep PROVE PeersInv'
BY DEF PeersInv, IsOpen, MadeAs, HasPeers, PeerAddrs, Made

(* The local end-points of a topic and type in a list with genuine entries *)
LEMMA PeersLocal ==
    ASSUME AllGenuine, PeersInv, NEW s, Items(s) \subseteq Genuine,
           OwnIds(s) \subseteq Ids, \A id \in OwnIds(s) : IsOpen(id), NEW topic, NEW type
    PROVE LET L == LocalIds(s, topic, type) IN
          /\ L \in SUBSET Ids
          /\ \A id \in L : IsOpen(id) /\ ep[id].type = type /\ ep[id].topic = topic
<1> SUFFICES ASSUME NEW id \in LocalIds(s, topic, type)
             PROVE id \in Ids /\ IsOpen(id) /\ ep[id].type = type /\ ep[id].topic = topic
    OBVIOUS
<1>1. PICK i \in 1..Len(s) : s[i].topic = topic /\ s[i].type = type /\ s[i].endpoint /\ s[i].id = id
    BY DEF LocalIds
<1>2. id \in OwnIds(s)
    BY <1>1 DEF OwnIds
<1>3. s[i] \in Genuine
    BY DEF Items
<1>4. id \in Ids /\ IsOpen(id)
    BY <1>2
<1> QED BY <1>1, <1>3, <1>4, EndpointOfEntry

LEMMA PeersConnectDatalink ==
    ASSUME DInv, AllGenuine, PeersInv, NEW n \in Nodes, proxy_connect_datalink(n)
    PROVE PeersInv'
<1> DEFINE e == Head(down[n]).entry
           s == WithEntry(preg[n], e)
           k == LastSelected(s, e.topic, "datahub")
<1>1. /\ HandleAdd(n, {"datalink"}) /\ made' = made /\ e.type = "datalink"
      /\ ep' = IF k # 0 /\ s[k].endpoint THEN datahub_add_link(s[k].id, {e.addr}) ELSE ep
    BY DEF proxy_connect_datalink, HandleAdd
<1>2. /\ e \in Genuine /\ Items(s) \subseteq Genuine /\ s \in Seq(Listed(MadeIds))
      /\ OwnIds(s) \subseteq Ids /\ \A id \in OwnIds(s) : IsOpen(id)
    BY <1>1, GenuineWithEntry, AddIs
<1>3. e.addr \in PeerAddrs("datalink", e.topic) /\ e.addr \in Addrs
    <2> HIDE DEF e
    <2>1. e.addr \in PeerAddrs(e.type, e.topic)
        BY <1>1, <1>2, PeerOfEntry
    <2> QED BY <1>1, <1>2, <2>1 DEF Genuine, Entry
<1>4. CASE k # 0 /\ s[k].endpoint
    <2> DEFINE f == s[k]
    <2> HIDE DEF s, e
    <2>1. k \in 1..Len(s) /\ f.topic = e.topic
        BY <1>2, <1>4, LastSelectedMatches
    <2> HIDE DEF k
    <2>2. f \in Genuine /\ f.id \in OwnIds(s)
        BY <1>2, <1>4, <2>1 DEF Items, OwnIds
    <2>3. f.id \in Ids /\ IsOpen(f.id)
        BY <1>2, <2>2
    <2>4. ep' = datahub_add_link(f.id, {e.addr})
        BY <1>1, <1>4
    <2> HIDE DEF f
    <2>5. ep[f.id].topic = e.topic
        BY <2>1, <2>2, <2>3, EndpointOfEntry
    <2>6. {e.addr} \in SUBSET Addrs /\ {e.addr} \subseteq PeerAddrs("datalink", ep[f.id].topic)
        BY <1>3, <2>5
    <2>7. EpTypeOK
        BY DEF DInv, DTypeOK, EpTypeOK
    <2> QED BY <1>1, <2>3, <2>4, <2>6, <2>7, PeersAddLinks
<1>5. CASE ~(k # 0 /\ s[k].endpoint)
    BY <1>1, <1>5, PeersSame
<1> QED BY <1>4, <1>5

LEMMA PeersConnectLinks ==
    ASSUME DInv, AllGenuine, PeersInv, NEW n \in Nodes, NEW linkType \in LinkTypes,
           linkType # "messagelink", ConnectLinks(n, linkType, HubType[linkType])
    PROVE PeersInv'
<1> DEFINE e == Head(down[n]).entry
           s == WithEntry(preg[n], e)
           L == LocalIds(s, e.topic, linkType)
<1>1. /\ HandleAdd(n, {HubType[linkType]}) /\ made' = made /\ e.type = HubType[linkType]
      /\ ep' = SetRemote(L, e.addr)
    BY DEF ConnectLinks, HandleAdd
<1>2. /\ e \in Genuine /\ Items(s) \subseteq Genuine
      /\ OwnIds(s) \subseteq Ids /\ \A id \in OwnIds(s) : IsOpen(id)
    BY <1>1, GenuineWithEntry, AddIs
<1> DEFINE topic == e.topic
           a == e.addr
<1>3. a \in PeerAddrs(HubType[linkType], topic) /\ a \in Addrs
    <2> HIDE DEF e
    <2>1. e.type # "messagelink"
        BY <1>1 DEF LinkTypes, HubType
    <2>2. e.addr \in PeerAddrs(e.type, e.topic)
        BY <1>2, <2>1, PeerOfEntry
    <2> QED BY <1>1, <1>2, <2>2 DEF Genuine, Entry
<1> HIDE DEF s, topic, a
<1>4. /\ LocalIds(s, topic, linkType) \in SUBSET Ids
      /\ \A id \in LocalIds(s, topic, linkType) :
            IsOpen(id) /\ ep[id].type = linkType /\ ep[id].topic = topic
    BY <1>2, PeersLocal
<1>5. EpTypeOK /\ L = LocalIds(s, topic, linkType) /\ ep' = SetRemote(L, a)
    BY <1>1 DEF DInv, DTypeOK, EpTypeOK, topic, a
<1> HIDE DEF L, e
<1> QED BY <1>1, <1>3, <1>4, <1>5, PeersSetRemote

LEMMA PeersConnectMessagehub ==
    ASSUME DInv, AllGenuine, PeersInv, NEW n \in Nodes, proxy_connect_messagehub(n)
    PROVE PeersInv'
<1> DEFINE e == Head(down[n]).entry
           s == WithEntry(preg[n], e)
           L == {id \in LocalIds(s, e.topic, "messagelink") : ep[id].remote # e.addr}
<1>1. HandleAdd(n, {"messagehub"}) /\ made' = made /\ e.type = "messagehub"
    BY DEF proxy_connect_messagehub, HandleAdd
<1>2. PICK local \in [L -> FreeAddrs] : ep' = client_messagelink_connect(L, e.addr, local)
    BY DEF proxy_connect_messagehub
<1>3. /\ e \in Genuine /\ Items(s) \subseteq Genuine
      /\ OwnIds(s) \subseteq Ids /\ \A id \in OwnIds(s) : IsOpen(id)
    BY <1>1, GenuineWithEntry, AddIs
<1> DEFINE topic == e.topic
           a == e.addr
<1>4. a \in PeerAddrs("messagehub", topic) /\ a \in Addrs
    <2> HIDE DEF e
    <2>1. e.addr \in PeerAddrs(e.type, e.topic)
        BY <1>1, <1>3, PeerOfEntry
    <2> QED BY <1>1, <1>3, <2>1 DEF Genuine, Entry
<1>5. local \in [L -> Addrs]
    BY DEF FreeAddrs
<1>6. L \subseteq LocalIds(s, topic, "messagelink") /\ ep' = client_messagelink_connect(L, a, local)
    BY <1>2
<1> HIDE DEF s, topic, a, L, e
<1>7. /\ LocalIds(s, topic, "messagelink") \in SUBSET Ids
      /\ \A id \in LocalIds(s, topic, "messagelink") :
            IsOpen(id) /\ ep[id].type = "messagelink" /\ ep[id].topic = topic
    BY <1>3, PeersLocal
<1>8. EpTypeOK
    BY DEF DInv, DTypeOK, EpTypeOK
<1> QED BY <1>1, <1>4, <1>5, <1>6, <1>7, <1>8, PeersConnect

LEMMA PeersRegisterRemove ==
    ASSUME DInv, AllGenuine, PeersInv, NEW n \in Nodes, proxy_handle_register_remove(n)
    PROVE PeersInv'
<1> DEFINE id == Head(down[n]).id
           e == preg[n][FirstId(preg[n], id)]
           t == registry_delete(preg[n], id)
           topic == e.topic
<1>1. /\ made' = made
      /\ ep' = ep \/ ep' = SetRemote(LocalIds(t, topic, "datalink"), NoAddr)
    BY DEF proxy_handle_register_remove
<1>2. preg[n] \in Seq(Listed(MadeIds)) /\ Items(preg[n]) \subseteq Genuine
    BY AppIs
<1> HIDE DEF id, topic
<1>3. Items(t) \subseteq Genuine
    BY <1>2, ItemsOfDelete
<1>4. OwnIds(t) \subseteq Ids /\ \A i \in OwnIds(t) : IsOpen(i)
    <2>1. OwnIds(preg[n]) \subseteq Ids /\ \A i \in OwnIds(preg[n]) : IsOpen(i)
        BY KnownIds DEF DInv, Owned, OwnedAt
    <2>2. Items(t) \subseteq Items(preg[n])
        BY <1>2, ItemsOfDelete
    <2> HIDE DEF t
    <2>3. OwnIds(t) \subseteq OwnIds(preg[n])
        BY <2>2, Zenon DEF OwnIds, Items
    <2> QED BY <2>1, <2>3
<1> HIDE DEF t
<1> DEFINE L == LocalIds(t, topic, "datalink")
<1>5. L \in SUBSET Ids /\ \A i \in L : IsOpen(i) /\ ep[i].type = "datalink" /\ ep[i].topic = topic
    BY <1>3, <1>4, PeersLocal
<1>6. EpTypeOK /\ "datalink" \in LinkTypes
    BY DEF DInv, DTypeOK, EpTypeOK, LinkTypes
<1>7. ep' = ep \/ ep' = SetRemote(L, NoAddr)
    BY <1>1
<1> HIDE DEF L
<1> QED BY <1>1, <1>5, <1>6, <1>7, PeersSame, PeersSetRemote

LEMMA PeersReader ==
    ASSUME DInv, AllGenuine, PeersInv, NEW n \in Nodes, ReaderStep(n)
    PROVE PeersInv'
<1>1. CASE \/ proxy_handle_register_add(n) \/ proxy_handle_update_address(n)
           \/ proxy_onresponse(n) \/ proxy_handle_update_list(n)
           \/ update_list_insert(n) \/ update_list_select(n)
           \/ update_list_prune(n) \/ update_list_ready(n)
    <2>1. made' = made /\ ep' = ep
        BY <1>1 DEF proxy_handle_register_add, HandleAdd, proxy_handle_update_address,
                    proxy_onresponse, proxy_handle_update_list, update_list_insert,
                    update_list_select, update_list_prune, update_list_ready
    <2> QED BY <2>1, PeersSame
<1>2. CASE proxy_connect_datahub(n)
    <2>1. "datalink" \in LinkTypes /\ HubType["datalink"] = "datahub"
        BY DEF LinkTypes, HubType
    <2> QED BY <1>2, <2>1, PeersConnectLinks DEF proxy_connect_datahub
<1>3. CASE proxy_connect_streamer(n)
    <2>1. "streamerlink" \in LinkTypes /\ HubType["streamerlink"] = "streamer"
        BY DEF LinkTypes, HubType
    <2> QED BY <1>3, <2>1, PeersConnectLinks DEF proxy_connect_streamer
<1> QED BY <1>1, <1>2, <1>3, PeersConnectDatalink, PeersConnectMessagehub, PeersRegisterRemove
        DEF ReaderStep

(* The end-point that is being connected is open, and what its entry says. *)
LEMMA PeersConnecting ==
    ASSUME DInv, AllGenuine, PeersInv, NEW n \in Nodes, app[n].pc = "connect"
    PROVE /\ app[n].entry.id \in Ids /\ IsOpen(app[n].entry.id)
          /\ ep[app[n].entry.id].type = app[n].entry.type
          /\ ep[app[n].entry.id].topic = app[n].entry.topic
          /\ EpTypeOK
<1>1. app[n].entry \in Genuine
    BY AppIs
<1>2. app[n].entry.id \in Ids /\ IsOpen(app[n].entry.id)
    BY ConnectingIs
<1> QED BY <1>1, <1>2, EndpointOfEntry DEF DInv, DTypeOK, EpTypeOK

(* An entry that the application's thread finds for a topic and type       *)
LEMMA PeersFound ==
    ASSUME DInv, AllGenuine, NEW n \in Nodes, NEW topic, NEW type, type # "messagelink",
           LastSelected(preg[n], topic, type) # 0
    PROVE LET a == preg[n][LastSelected(preg[n], topic, type)].addr IN
          a \in Addrs /\ a \in PeerAddrs(type, topic)
<1> DEFINE k == LastSelected(preg[n], topic, type)
           e == preg[n][k]
<1>1. preg[n] \in Seq(Listed(MadeIds)) /\ Items(preg[n]) \subseteq Genuine
    BY AppIs
<1>2. k \in 1..Len(preg[n]) /\ e.topic = topic /\ e.type = type
    BY <1>1, LastSelectedMatches
<1> HIDE DEF k
<1>3. e \in Genuine
    BY <1>1, <1>2 DEF Items
<1> HIDE DEF e
<1>4. e.addr \in PeerAddrs(e.type, e.topic) /\ e.addr \in Addrs
    BY <1>2, <1>3, PeerOfEntry DEF Genuine, Entry
<1>5. e.addr \in Addrs /\ e.addr \in PeerAddrs(type, topic)
    BY <1>2, <1>4
<1> QED BY <1>5 DEF e, k

LEMMA PeersOpenLink ==
    ASSUME DInv, AllGenuine, PeersInv, NEW n \in Nodes, NEW linkType \in LinkTypes,
           linkType # "messagelink", OpenLink(n, linkType, HubType[linkType])
    PROVE PeersInv'
<1> DEFINE e == app[n].entry
           topic == e.topic
           id == e.id
           k == LastSelected(preg[n], topic, HubType[linkType])
           a == preg[n][k].addr
<1>1. /\ app[n].pc = "connect" /\ e.type = linkType /\ made' = made
      /\ ep' = ep \/ (k # 0 /\ ep' = SetRemote({id}, a))
    BY DEF OpenLink, Connecting, Connected
<1>2. id \in Ids /\ IsOpen(id) /\ ep[id].type = linkType /\ ep[id].topic = topic /\ EpTypeOK
    BY <1>1, PeersConnecting
<1>3. HubType[linkType] # "messagelink"
    BY DEF LinkTypes, HubType
<1>4. k # 0 => a \in Addrs /\ a \in PeerAddrs(HubType[linkType], topic)
    <2> HIDE DEF topic
    <2> QED BY <1>3, PeersFound
<1> DEFINE S == {id}
<1> HIDE DEF a, k, id, topic, e
<1>5. S \in SUBSET Ids /\ \A i \in S : IsOpen(i) /\ ep[i].type = linkType /\ ep[i].topic = topic
    BY <1>2
<1>6. ep' = ep \/ (k # 0 /\ ep' = SetRemote(S, a))
    BY <1>1
<1> HIDE DEF S
<1> QED BY <1>1, <1>2, <1>4, <1>5, <1>6, PeersSame, PeersSetRemote

LEMMA PeersOpenDatahub ==
    ASSUME DInv, AllGenuine, PeersInv, NEW n \in Nodes, proxy_open_datahub(n)
    PROVE PeersInv'
<1> DEFINE id == app[n].entry.id
           topic == app[n].entry.topic
           S == {preg[n][i].addr : i \in {j \in 1..Len(preg[n]) :
                                            /\ preg[n][j].type = "datalink"
                                            /\ preg[n][j].topic = topic}}
<1>1. app[n].pc = "connect" /\ made' = made /\ ep' = datahub_add_link(id, S)
    BY DEF proxy_open_datahub, Connecting, Connected
<1>2. id \in Ids /\ IsOpen(id) /\ ep[id].topic = topic /\ EpTypeOK
    BY <1>1, PeersConnecting
<1>3. ASSUME NEW i \in 1..Len(preg[n]), preg[n][i].type = "datalink", preg[n][i].topic = topic
      PROVE preg[n][i].addr \in Addrs /\ preg[n][i].addr \in PeerAddrs("datalink", topic)
    <2> DEFINE e == preg[n][i]
    <2>1. e \in Genuine
        BY AppIs DEF Items
    <2>2. e.type = "datalink" /\ e.topic = topic
        BY <1>3
    <2> HIDE DEF e, topic
    <2>3. e.addr \in Addrs /\ e.addr \in PeerAddrs("datalink", topic)
        BY <2>1, <2>2, PeerOfEntry DEF Genuine, Entry
    <2> QED BY <2>3 DEF e
<1>4. S \in SUBSET Addrs /\ S \subseteq PeerAddrs("datalink", topic)
    BY <1>3
<1> HIDE DEF S, id, topic
<1> QED BY <1>1, <1>2, <1>4, PeersAddLinks

LEMMA PeersOpenMessagelink ==
    ASSUME DInv, AllGenuine, PeersInv, NEW n \in Nodes, proxy_open_messagelink(n)
    PROVE PeersInv'
<1> DEFINE e == app[n].entry
           topic == e.topic
           id == e.id
           k == LastSelected(preg[n], topic, "messagehub")
           a == preg[n][k].addr
           S == {id}
<1>1. /\ app[n].pc = "connect" /\ e.type = "messagelink" /\ made' = made
      /\ \/ ep' = ep
         \/ /\ k # 0
            /\ \E local \in [S -> FreeAddrs] : ep' = client_messagelink_connect(S, a, local)
    BY DEF proxy_open_messagelink, Connecting, Connected
<1>2. id \in Ids /\ IsOpen(id) /\ ep[id].type = "messagelink" /\ ep[id].topic = topic /\ EpTypeOK
    BY <1>1, PeersConnecting
<1>3. k # 0 => a \in Addrs /\ a \in PeerAddrs("messagehub", topic)
    <2> HIDE DEF topic
    <2> QED BY PeersFound
<1> HIDE DEF a, k, id, topic, e
<1>4. S \in SUBSET Ids /\ \A i \in S : /\ IsOpen(i) /\ ep[i].type = "messagelink"
                                       /\ ep[i].topic = topic
    BY <1>2
<1> HIDE DEF S
<1>5. CASE ep' = ep
    BY <1>1, <1>5, PeersSame
<1>6. ASSUME k # 0, NEW local \in [S -> FreeAddrs], ep' = client_messagelink_connect(S, a, local)
      PROVE PeersInv'
    <2>1. local \in [S -> Addrs]
        BY DEF FreeAddrs
    <2> QED BY <1>1, <1>2, <1>3, <1>4, <1>6, <2>1, PeersConnect
<1> QED BY <1>1, <1>5, <1>6

LEMMA PeersApp ==
    ASSUME DInv, AllGenuine, PeersInv, NEW n \in Nodes, AppStep(n)
    PROVE PeersInv'
<1>1. CASE proxy_send_register_request(n) \/ proxy_new_entry_failed(n)
    BY <1>1, PeersSame DEF proxy_send_register_request, proxy_new_entry_failed
<1>2. CASE proxy_open_failed(n) \/ proxy_send_unregister_request(n)
    <2> DEFINE S == {app[n].entry.id}
    <2>1. /\ app[n].pc = "unregister" /\ made' = made
          /\ ep' = DeleteEndpoints(S)
        BY <1>2 DEF proxy_open_failed, proxy_send_unregister_request
    <2>2. S \in SUBSET Ids
        BY <2>1, AppIs DEF Listed, Entry
    <2> HIDE DEF S
    <2> QED BY <2>1, <2>2, PeersDelete DEF DInv, DTypeOK, EpTypeOK
<1>3. CASE proxy_open_datalink(n)
    <2>1. "datalink" \in LinkTypes /\ HubType["datalink"] = "datahub"
        BY DEF LinkTypes, HubType
    <2> QED BY <1>3, <2>1, PeersOpenLink DEF proxy_open_datalink
<1>4. CASE proxy_open_streamerlink(n)
    <2>1. "streamerlink" \in LinkTypes /\ HubType["streamerlink"] = "streamer"
        BY DEF LinkTypes, HubType
    <2> QED BY <1>4, <2>1, PeersOpenLink DEF proxy_open_streamerlink
<1> QED BY <1>1, <1>2, <1>3, <1>4, PeersOpenDatahub, PeersOpenMessagelink DEF AppStep

LEMMA PeersFault ==
    ASSUME DInv, PeersInv, NEW n \in Nodes, Fault(n)
    PROVE PeersInv'
<1> DEFINE S == {id \in Ids : IsOpen(id) /\ ep[id].node = n}
<1>1. made' = made /\ (ep' = ep \/ ep' = DeleteEndpoints(S))
    BY DEF Fault, new_proxy_timeout, Exit, Leave, LinkBreaks, proxyVars
<1>2. S \in SUBSET Ids /\ EpTypeOK
    BY DEF DInv, DTypeOK, EpTypeOK
<1> HIDE DEF S
<1> QED BY <1>1, <1>2, PeersSame, PeersDelete

LEMMA PeersOpen ==
    ASSUME DInv, PeersInv, NEW n \in Nodes, Open(n)
    PROVE PeersInv'
<1>0. PICK type, name, topic : proxy_new_entry(n, type, topic, name)
    BY DEF Open
<1>a. PICK id \in Ids : \E a :
        LET e == [id |-> id, name |-> name, topic |-> topic, type |-> type,
                  addr |-> a, endpoint |-> TRUE] IN
        /\ ep' = [ep EXCEPT ![id] = [type |-> type, node |-> n, topic |-> topic, addr |-> a,
                                     remote |-> NoAddr, links |-> {}]]
        /\ made' = made \cup {e}
    BY <1>0 DEF proxy_new_entry
<1>1. PICK a :
        LET e == [id |-> id, name |-> name, topic |-> topic, type |-> type,
                  addr |-> a, endpoint |-> TRUE] IN
        /\ ep' = [ep EXCEPT ![id] = [type |-> type, node |-> n, topic |-> topic, addr |-> a,
                                     remote |-> NoAddr, links |-> {}]]
        /\ made' = made \cup {e}
    BY <1>a
<1> DEFINE e == [id |-> id, name |-> name, topic |-> topic, type |-> type,
                 addr |-> a, endpoint |-> TRUE]
           p == [type |-> type, node |-> n, topic |-> topic, addr |-> a,
                 remote |-> NoAddr, links |-> {}]
<1>2. /\ e.id = id /\ e.type = type /\ e.topic = topic
      /\ p.type = type /\ p.topic = topic /\ p.remote = NoAddr /\ p.links = {}
    OBVIOUS
<1>3. made' = made \cup {e} /\ ep' = [ep EXCEPT ![id] = p]
    BY <1>1
<1> HIDE DEF e, p
<1>4. ep'[id] = p /\ \A i \in Ids \ {id} : ep'[i] = ep[i]
    BY <1>1, <1>3 DEF DInv, DTypeOK
<1>5. \A t, u : PeerAddrs(t, u) \subseteq PeerAddrs(t, u)'
    BY <1>3 DEF PeerAddrs, Made
<1>6. ASSUME NEW i \in Ids, IsOpen(i)' PROVE MadeAs(i, ep[i])' /\ HasPeers(ep[i])'
    <2>1. CASE i = id
        <3>1. MadeAs(i, ep[i])'
            BY <1>2, <1>3, <1>4, <2>1 DEF MadeAs
        <3>2. HasPeers(ep[i])'
            BY <1>2, <1>4, <2>1 DEF HasPeers
        <3> QED BY <3>1, <3>2
    <2>2. CASE i # id
        <3>1. ep'[i] = ep[i] /\ MadeAs(i, ep[i]) /\ HasPeers(ep[i])
            BY <1>4, <1>6, <2>2 DEF PeersInv, IsOpen
        <3>2. MadeAs(i, ep[i])'
            BY <1>3, <3>1 DEF MadeAs
        <3>3. HasPeers(ep[i])'
            BY <1>5, <3>1 DEF HasPeers
        <3> QED BY <3>2, <3>3
    <2> QED BY <2>1, <2>2
<1> QED BY <1>6 DEF PeersInv

LEMMA PeersNext == DInv /\ AllGenuine /\ PeersInv /\ [Next]_vars => PeersInv'
<1> SUFFICES ASSUME DInv, AllGenuine, PeersInv, [Next]_vars PROVE PeersInv'
    OBVIOUS
<1>1. CASE \E n \in Nodes : RcStep(n) \/ RcAnnounce(n)
    <2>1. UNCHANGED proxyVars
        BY <1>1 DEF RcStep, RcAnnounce
    <2> QED BY <2>1, PeersSame DEF proxyVars
<1>2. CASE \E n \in Nodes : Start(n) \/ Close(n)
    <2>1. made' = made /\ ep' = ep
        BY <1>2 DEF Start, new_proxy, Close, proxy_delete_entry, DeleteEntry
    <2> QED BY <2>1, PeersSame
<1>3. CASE UNCHANGED stateVars
    BY <1>3, PeersSame DEF stateVars, proxyVars
<1> QED BY <1>1, <1>2, <1>3, PeersReader, PeersApp, PeersFault, PeersOpen, StepIs DEF Acts

(* For any topics, and whatever is delayed, lost or out of date: a link    *)
(* gets only the address of a hub or streamer of its own topic, and a      *)
(* datahub only those of datalinks of its topic.                           *)
THEOREM ConnectionsKeepTheirTopic == Spec => []ConnectedToPeers
<1>1. Init => PeersInv
    BY DEF Init, ProxyInit, PeersInv, IsOpen
<1>2. PeersInv => ConnectedToPeers
    BY DEF PeersInv, HasPeers, PeerAddrs, ConnectedToPeers
<1> QED BY <1>1, <1>2, PeersNext, GenuineInvariance, PTL DEF Spec

-----------------------------------------------------------------------------
(* What the central registry has of the end-points that are open           *)

Started == \A n \in Nodes : status[n] # "none" => conn[n] # "none"

(* An open end-point is registered, or the request is still to come.       *)
OpenRegistered ==
    \A id \in Ids : IsOpen(id) /\ conn[ep[id].node] = "open" =>
        id \in IdsOf(central) \cup Pending(ep[id].node) \cup RegIds(up[ep[id].node])

(* An id that is registered, or will be, is of an end-point that is open,  *)
(* or the request that withdraws it is on its way, behind the other.       *)
Withdrawing(id) == \E n \in Nodes : id \in UnregIds(up[n])

ClosedWithdrawn ==
    (\A n \in Nodes : conn[n] # "closed") =>
        /\ \A id \in IdsOf(central) \ {RegistryEntry.id} : IsOpen(id) \/ Withdrawing(id)
        /\ \A n \in Nodes : \A id \in RegIds(up[n]) : IsOpen(id) \/ Withdrawing(id)

SentByOwner == \A n \in Nodes : \A id \in RegIds(up[n]) : IsOpen(id) => ep[id].node = n

SentInTurn ==
    \A n \in Nodes : /\ InTurn(up[n])
                     /\ \A m \in Nodes \ {n} : UnregIds(up[n]) \cap RegIds(up[m]) = {}

FollowsInv == Started /\ OpenRegistered /\ ClosedWithdrawn /\ SentByOwner /\ SentInTurn

(* What the first request of a queue adds to the rest                      *)
LEMMA HeadIs ==
    ASSUME NEW S, NEW q \in Seq(S), q # <<>>
    PROVE /\ RegIds(q) = RegIds(Tail(q))
                \cup (IF Head(q).kind = "register" THEN {Head(q).entry.id} ELSE {})
          /\ UnregIds(q) = UnregIds(Tail(q))
                \cup (IF Head(q).kind = "unregister" THEN {Head(q).id} ELSE {})
          /\ InTurn(q) /\ Head(q).kind = "unregister" => Head(q).id \notin RegIds(q)
<1> DEFINE t == Tail(q)
           h == Head(q)
<1>1. /\ Len(t) = Len(q) - 1 /\ Len(t) \in Nat /\ Len(q) \in Nat /\ h = q[1]
      /\ 1 \in 1..Len(q) /\ \A i \in 1..Len(t) : t[i] = q[i + 1]
    BY HeadTailProperties, LenProperties, EmptySeq
<1> HIDE DEF t, h
<1>2. /\ \A i \in 1..Len(t) : i + 1 \in 1..Len(q)
      /\ \A i \in 1..Len(q) : i = 1 \/ (i - 1 \in 1..Len(t) /\ q[i] = t[i - 1])
    <2>1. \A i \in 1..Len(q) : i = 1 \/ (i - 1 \in 1..Len(t) /\ (i - 1) + 1 = i)
        BY <1>1
    <2> QED BY <1>1, <2>1
<1>3. RegIds(q) = RegIds(t) \cup (IF h.kind = "register" THEN {h.entry.id} ELSE {})
    <2>1. \A id \in RegIds(t) : id \in RegIds(q)
        BY <1>1, <1>2 DEF RegIds, Registers
    <2>2. h.kind = "register" => h.entry.id \in RegIds(q)
        BY <1>1 DEF RegIds, Registers
    <2>3. \A id \in RegIds(q) : id \in RegIds(t) \/ (h.kind = "register" /\ id = h.entry.id)
        BY <1>1, <1>2 DEF RegIds, Registers
    <2> QED BY <2>1, <2>2, <2>3
<1>4. UnregIds(q) = UnregIds(t) \cup (IF h.kind = "unregister" THEN {h.id} ELSE {})
    <2>1. \A id \in UnregIds(t) : id \in UnregIds(q)
        BY <1>1, <1>2 DEF UnregIds
    <2>2. h.kind = "unregister" => h.id \in UnregIds(q)
        BY <1>1 DEF UnregIds
    <2>3. \A id \in UnregIds(q) : id \in UnregIds(t) \/ (h.kind = "unregister" /\ id = h.id)
        BY <1>1, <1>2 DEF UnregIds
    <2> QED BY <2>1, <2>2, <2>3
<1>5. ASSUME InTurn(q), h.kind = "unregister" PROVE h.id \notin RegIds(q)
    <2> SUFFICES ASSUME NEW j \in 1..Len(q), q[j].kind = "register", q[j].entry.id = h.id
                 PROVE FALSE
        BY DEF RegIds, Registers
    <2>1. j < 1
        BY <1>1, <1>5 DEF InTurn
    <2> QED BY <2>1
<1> QED BY <1>3, <1>4, <1>5 DEF t, h

(* The steps that leave the requests to register and to unregister alone   *)
LEMMA FollowsKept ==
    ASSUME DInv, FollowsInv, conn' = conn,
           \A n \in Nodes : status'[n] # "none" => status[n] # "none",
           IdsOf(central') = IdsOf(central), EpKeeps(ep', {}),
           \A n \in Nodes : /\ RegIds(up'[n]) = RegIds(up[n]) /\ UnregIds(up'[n]) = UnregIds(up[n])
                            /\ InTurn(up[n]) => InTurn(up'[n])
                            /\ Pending(n)' = Pending(n)
    PROVE FollowsInv'
<1>1. \A id \in Ids : /\ IsOpen(id)' <=> IsOpen(id)
                      /\ IsOpen(id) => ep'[id].node = ep[id].node /\ ep[id].node \in Nodes
    <2>1. \A id \in Ids : IsOpen(id) => ep[id] \in Endpoint
        BY OpenIsEndpoint DEF DInv, DTypeOK, EpTypeOK
    <2> QED BY <2>1 DEF EpKeeps, IsOpen, Endpoint
<1>2. \A id : Withdrawing(id)' <=> Withdrawing(id)
    BY DEF Withdrawing
<1>3. \A n \in Nodes : RegIds(up[n]) \subseteq Ids
    BY KnownIds, KnownQueues DEF DInv
<1>4. IdsOf(central) \subseteq Ids
    <2>1. central \in Seq(Foreign(MadeIds)) /\ \A e \in Foreign(MadeIds) : e.id \in Ids
        BY DEF DInv, DTypeOK, Foreign, Entry
    <2> QED BY <2>1, ElementOfSeq DEF IdsOf
<1>5. Started'
    BY DEF FollowsInv, Started
<1>6. OpenRegistered'
    BY <1>1 DEF FollowsInv, OpenRegistered
<1>7. ClosedWithdrawn'
    BY <1>1, <1>2, <1>3, <1>4 DEF FollowsInv, ClosedWithdrawn
<1>8. SentByOwner'
    BY <1>1, <1>3 DEF FollowsInv, SentByOwner
<1>9. SentInTurn'
    BY DEF FollowsInv, SentInTurn
<1> QED BY <1>5, <1>6, <1>7, <1>8, <1>9 DEF FollowsInv

LEMMA FollowsRequest ==
    ASSUME DInv, FollowsInv, NEW n \in Nodes, TakesRequest(n)
    PROVE /\ \A m \in Nodes \ {n} : up'[m] = up[m]
          /\ RegIds(up[n]) = RegIds(up'[n])
                \cup (IF Head(up[n]).kind = "register" THEN {Head(up[n]).entry.id} ELSE {})
          /\ UnregIds(up[n]) = UnregIds(up'[n])
                \cup (IF Head(up[n]).kind = "unregister" THEN {Head(up[n]).id} ELSE {})
          /\ Head(up[n]).kind = "unregister" =>
                \A m \in Nodes : Head(up[n]).id \notin RegIds(up[m])
          /\ InTurn(up'[n])
          /\ \A m \in Nodes : Pending(m)' = Pending(m)
          /\ Head(up[n]).kind = "register" => Head(up[n]).entry \in Foreign(MadeIds)
          /\ UNCHANGED <<conn, status, ep>> /\ EpKeeps(ep', {})
<1> DEFINE q == up[n]
<1>1. /\ up \in [Nodes -> Seq(RequestsOf(MadeIds))] /\ q \in Seq(RequestsOf(MadeIds)) /\ q # <<>>
      /\ up' = [up EXCEPT ![n] = Tail(q)]
    BY DEF DInv, DTypeOK, TakesRequest
<1>2. up'[n] = Tail(q) /\ \A m \in Nodes \ {n} : up'[m] = up[m]
    BY <1>1
<1> HIDE DEF q
<1>3. /\ RegIds(q) = RegIds(Tail(q))
            \cup (IF Head(q).kind = "register" THEN {Head(q).entry.id} ELSE {})
      /\ UnregIds(q) = UnregIds(Tail(q))
            \cup (IF Head(q).kind = "unregister" THEN {Head(q).id} ELSE {})
      /\ InTurn(q) /\ Head(q).kind = "unregister" => Head(q).id \notin RegIds(q)
    BY <1>1, HeadIs
<1>4. PartOf(q, Tail(q)) /\ Head(q) \in RequestsOf(MadeIds)
    BY <1>1, TailIs
<1>5. InTurn(q)
    BY DEF FollowsInv, SentInTurn, q
<1>6. InTurn(Tail(q))
    BY <1>4, <1>5 DEF PartOf
<1>7. \A m \in Nodes \ {n} : UnregIds(q) \cap RegIds(up[m]) = {}
    BY DEF FollowsInv, SentInTurn, q
<1>8. Head(q).kind = "unregister" => \A m \in Nodes : Head(q).id \notin RegIds(up[m])
    <2>1. ASSUME Head(q).kind = "unregister", NEW m \in Nodes PROVE Head(q).id \notin RegIds(up[m])
        <3>1. CASE m = n
            BY <1>3, <1>5, <2>1, <3>1 DEF q
        <3>2. CASE m # n
            BY <1>3, <1>7, <2>1, <3>2
        <3> QED BY <3>1, <3>2
    <2> QED BY <2>1
<1>9. UNCHANGED <<conn, status, ep, app>>
    BY DEF TakesRequest, proxyVars
<1>10. EpKeeps(ep', {})
    BY <1>9, EpSame DEF DInv, DTypeOK, EpTypeOK
<1>11. \A m \in Nodes : Pending(m)' = Pending(m)
    BY <1>9 DEF Pending
<1>12. Head(q).kind = "register" => Head(q).entry \in Foreign(MadeIds)
    BY <1>4, RequestKinds
<1> QED BY <1>2, <1>3, <1>6, <1>8, <1>9, <1>10, <1>11, <1>12 DEF q

LEMMA FollowsRegister ==
    ASSUME DInv, FollowsInv, NEW n \in Nodes, rcregistry_register(n), UNCHANGED <<proxyVars, raced>>
    PROVE FollowsInv'
<1> DEFINE e == Head(up[n]).entry
           id == e.id
<1>1. /\ TakesRequest(n) /\ Head(up[n]).kind = "register"
      /\ central' = registry_insert(central, e)
    BY DEF rcregistry_register, HasRequest, TakesRequest
<1>2. /\ \A m \in Nodes \ {n} : up'[m] = up[m]
      /\ RegIds(up[n]) = RegIds(up'[n]) \cup {id} /\ UnregIds(up[n]) = UnregIds(up'[n])
      /\ InTurn(up'[n]) /\ \A m \in Nodes : Pending(m)' = Pending(m)
      /\ e \in Foreign(MadeIds) /\ UNCHANGED <<conn, status, ep>>
    BY <1>1, FollowsRequest
<1>3. IdsOf(central') = IdsOf(central) \cup {id}
    <2>1. central \in Seq(Foreign(MadeIds))
        BY DEF DInv, DTypeOK
    <2> HIDE DEF e
    <2> QED BY <1>1, <1>2, <2>1, InsertIs
<1> HIDE DEF id
<1>4. \A m \in Nodes : RegIds(up'[m]) \subseteq RegIds(up[m]) /\ UnregIds(up'[m]) = UnregIds(up[m])
    BY <1>2
<1>5. \A i : (IsOpen(i)' <=> IsOpen(i)) /\ (Withdrawing(i)' <=> Withdrawing(i))
    BY <1>2, <1>4 DEF IsOpen, Withdrawing
<1>6. Started'
    BY <1>2 DEF FollowsInv, Started
<1>7. OpenRegistered'
    <2>1. \A i \in Ids : IsOpen(i) => ep[i].node \in Nodes
        BY OpenIsEndpoint DEF DInv, DTypeOK, EpTypeOK, Endpoint
    <2>2. \A m \in Nodes : RegIds(up[m]) \subseteq RegIds(up'[m]) \cup {id}
        BY <1>2
    <2> QED BY <1>2, <1>3, <1>5, <2>1, <2>2 DEF FollowsInv, OpenRegistered
<1>8. ClosedWithdrawn'
    <2>1. id \in RegIds(up[n])
        BY <1>2
    <2> QED BY <1>2, <1>3, <1>4, <1>5, <2>1 DEF FollowsInv, ClosedWithdrawn
<1>9. SentByOwner'
    BY <1>2, <1>4, <1>5 DEF FollowsInv, SentByOwner
<1>10. SentInTurn'
    BY <1>2, <1>4 DEF FollowsInv, SentInTurn
<1> QED BY <1>6, <1>7, <1>8, <1>9, <1>10 DEF FollowsInv

LEMMA FollowsUnregister ==
    ASSUME DInv, FollowsInv, NEW n \in Nodes, rcregistry_unregister(n),
           UNCHANGED <<proxyVars, raced>>
    PROVE FollowsInv'
<1> DEFINE id == Head(up[n]).id
<1>1. /\ TakesRequest(n) /\ Head(up[n]).kind = "unregister"
      /\ central' = registry_delete(central, id)
    BY DEF rcregistry_unregister, HasRequest, TakesRequest
<1>2. /\ \A m \in Nodes \ {n} : up'[m] = up[m]
      /\ RegIds(up[n]) = RegIds(up'[n]) /\ UnregIds(up[n]) = UnregIds(up'[n]) \cup {id}
      /\ InTurn(up'[n]) /\ \A m \in Nodes : Pending(m)' = Pending(m)
      /\ UNCHANGED <<conn, status, ep>> /\ \A m \in Nodes : id \notin RegIds(up[m])
    BY <1>1, FollowsRequest
<1>3. central \in Seq(Foreign(MadeIds)) /\ IdsOnce(central)
    BY DEF DInv, DTypeOK, RegisteredOnce
<1> HIDE DEF id
<1>4. IdsOf(central') \subseteq IdsOf(central) /\ id \notin IdsOf(central')
    BY <1>1, <1>3, DeleteIs
<1>5. IdsOf(central) \subseteq IdsOf(central') \cup {id}
    BY <1>1, <1>3, DeleteIs
<1>6. \A i \in Ids : IsOpen(i) => i # id /\ ep[i].node \in Nodes
    <2>1. id \in UnregIds(up[n])
        BY <1>2
    <2>2. \A i \in Ids : IsOpen(i) => ep[i].node \in Nodes
        BY OpenIsEndpoint DEF DInv, DTypeOK, EpTypeOK, Endpoint
    <2> QED BY <2>1, <2>2 DEF DInv, Withdrawn, WithdrawnAt
<1>7. \A m \in Nodes : RegIds(up'[m]) = RegIds(up[m]) /\ UnregIds(up'[m]) \subseteq UnregIds(up[m])
    BY <1>2
<1>8. \A i : (IsOpen(i)' <=> IsOpen(i)) /\ (i # id /\ Withdrawing(i) => Withdrawing(i)')
    BY <1>2 DEF IsOpen, Withdrawing
<1>9. Started'
    BY <1>2 DEF FollowsInv, Started
<1>10. OpenRegistered'
    BY <1>2, <1>5, <1>6, <1>7, <1>8 DEF FollowsInv, OpenRegistered
<1>11. ClosedWithdrawn'
    BY <1>2, <1>4, <1>7, <1>8 DEF FollowsInv, ClosedWithdrawn
<1>12. SentByOwner'
    BY <1>2, <1>7, <1>8 DEF FollowsInv, SentByOwner
<1>13. SentInTurn'
    BY <1>2, <1>7 DEF FollowsInv, SentInTurn
<1> QED BY <1>9, <1>10, <1>11, <1>12, <1>13 DEF FollowsInv

LEMMA FollowsRc ==
    ASSUME DInv, FollowsInv, NEW n \in Nodes, RcStep(n) \/ RcAnnounce(n)
    PROVE FollowsInv'
<1>1. UNCHANGED proxyVars /\ (RcStep(n) => UNCHANGED raced)
    BY DEF RcStep, RcAnnounce
<1>2. EpKeeps(ep, {}) /\ \A m \in Nodes : Pending(m)' = Pending(m)
    BY <1>1, EpSame DEF DInv, DTypeOK, EpTypeOK, proxyVars, Pending
<1>3. CASE rcregistry_register(n) /\ RcStep(n)
    BY <1>1, <1>3, FollowsRegister
<1>4. CASE rcregistry_unregister(n) /\ RcStep(n)
    BY <1>1, <1>4, FollowsUnregister
<1>5. CASE (rcregistry_update_address(n) \/ rcregistry_select_list(n)) /\ RcStep(n)
    <2>1. TakesRequest(n) /\ Head(up[n]).kind \in {"update-address", "list"}
        BY <1>1, <1>5 DEF rcregistry_update_address, rcregistry_select_list, HasRequest,
                          TakesRequest
    <2>2. \A m \in Nodes : /\ RegIds(up'[m]) = RegIds(up[m]) /\ UnregIds(up'[m]) = UnregIds(up[m])
                           /\ InTurn(up[m]) => InTurn(up'[m])
                           /\ Pending(m)' = Pending(m)
        BY <2>1, FollowsRequest
    <2>3. UNCHANGED <<conn, status, ep>> /\ EpKeeps(ep', {})
        BY <2>1, FollowsRequest
    <2>4. IdsOf(central') = IdsOf(central)
        <3>1. CASE rcregistry_select_list(n)
            BY <3>1 DEF rcregistry_select_list
        <3>2. CASE rcregistry_update_address(n)
            <4> DEFINE id == Head(up[n]).id
                       a == Head(up[n]).addr
            <4>1. central' = registry_update_addr(central, id, a)
                BY <3>2 DEF rcregistry_update_address
            <4>2. a \in Addrs
                BY <2>1, <3>2, RequestIs, RequestKinds DEF rcregistry_update_address, HasRequest
            <4>3. central \in Seq(Foreign(MadeIds))
                BY DEF DInv, DTypeOK
            <4> HIDE DEF id, a
            <4>4. SameNames(central, central')
                BY <4>1, <4>2, <4>3, UpdateIs
            <4> QED BY <4>4, SameNamesIs
        <3> QED BY <1>5, <3>1, <3>2
    <2> QED BY <2>2, <2>3, <2>4, FollowsKept
<1>6. CASE \/ messagehub_add_link(n) \/ messagehub_remove_link(n) \/ rcregistry_send_list(n)
           \/ RcAnnounce(n)
    <2>1. UNCHANGED <<conn, up, central, status, ep>>
        BY <1>1, <1>6 DEF messagehub_add_link, messagehub_remove_link, rcregistry_send_list,
                          RcAnnounce, rcregistry_announce, proxyVars
    <2> QED BY <1>2, <2>1, FollowsKept
<1> QED BY <1>3, <1>4, <1>5, <1>6 DEF RcStep

LEMMA FollowsReader ==
    ASSUME DInv, FollowsInv, NEW n \in Nodes, ReaderStep(n)
    PROVE FollowsInv'
<1>1. ReaderKeeps(n)
    BY ReaderIsInv
<1>2. UNCHANGED <<conn, central, app>> /\ EpKeeps(ep', {})
    BY <1>1 DEF ReaderKeeps, rcVars
<1>3. \A m \in Nodes : /\ RegIds(up'[m]) = RegIds(up[m]) /\ UnregIds(up'[m]) = UnregIds(up[m])
                       /\ InTurn(up[m]) => InTurn(up'[m])
                       /\ Pending(m)' = Pending(m)
    BY <1>1, <1>2 DEF ReaderKeeps, Pending
<1>4. \A m \in Nodes : status'[m] # "none" => status[m] # "none"
    <2>1. CASE status' = status
        BY <2>1
    <2>2. CASE update_list_ready(n)
        <3>1. reader[n] # IdleReader
            BY <2>2 DEF update_list_ready, IdleReader
        <3>2. status[n] # "none"
            BY <3>1 DEF DInv, ListedOnce, ListedOnceAt
        <3>3. status' = [status EXCEPT ![n] = "ready"] /\ DOMAIN status = Nodes
            BY <2>2 DEF update_list_ready, DInv, DTypeOK
        <3> QED BY <3>2, <3>3
    <2> QED BY <2>1, <2>2
            DEF ReaderStep, HandleAdd, proxy_handle_register_add, proxy_connect_datalink,
                proxy_connect_datahub, proxy_connect_streamer, ConnectLinks,
                proxy_connect_messagehub, proxy_handle_register_remove,
                proxy_handle_update_address, proxy_onresponse, proxy_handle_update_list,
                update_list_insert, update_list_select, update_list_prune
<1> QED BY <1>2, <1>3, <1>4, FollowsKept

(* An end-point has looked for its peers.                                  *)
LEMMA FollowsConnected ==
    ASSUME DInv, FollowsInv, NEW n \in Nodes, UNCHANGED <<rcVars, raced>>,
           \/ proxy_open_datalink(n) \/ proxy_open_streamerlink(n)
           \/ proxy_open_datahub(n) \/ proxy_open_messagelink(n)
    PROVE FollowsInv'
<1>1. EpKeeps(ep', {})
    BY OpenLinkStep, OpenDatahubStep, OpenMessagelinkStep
       DEF proxy_open_datalink, proxy_open_streamerlink
<1>2. app[n].pc = "connect" /\ Connected(n)
    BY DEF proxy_open_datalink, proxy_open_streamerlink, OpenLink, proxy_open_datahub,
           proxy_open_messagelink, Connecting
<1>3. UNCHANGED <<conn, up, status, central>> /\ app' = [app EXCEPT ![n] = IdleApp]
    BY <1>2 DEF Connected, netVars, rcVars
<1>4. app'[n].pc = "idle" /\ \A m \in Nodes \ {n} : app'[m] = app[m]
    BY <1>3 DEF DInv, DTypeOK, IdleApp
<1>5. \A m \in Nodes : Pending(m)' = Pending(m)
    BY <1>2, <1>4 DEF Pending
<1> QED BY <1>1, <1>3, <1>5, FollowsKept

LEMMA FollowsClose ==
    ASSUME DInv, FollowsInv, NEW n \in Nodes, Close(n)
    PROVE FollowsInv'
<1>1. /\ UNCHANGED <<conn, up, status, central, ep>> /\ app[n] = IdleApp
      /\ \E e : app' = [app EXCEPT ![n] = [pc |-> "unregister", entry |-> e]]
    BY DEF Close, proxy_delete_entry, DeleteEntry, netVars, rcVars
<1>2. app'[n].pc = "unregister" /\ \A m \in Nodes \ {n} : app'[m] = app[m]
    BY <1>1 DEF DInv, DTypeOK
<1>3. \A m \in Nodes : Pending(m)' = Pending(m)
    BY <1>1, <1>2 DEF Pending, IdleApp
<1>4. EpKeeps(ep, {})
    BY EpSame DEF DInv, DTypeOK, EpTypeOK
<1> QED BY <1>1, <1>3, <1>4, FollowsKept

(* What one more request changes of a queue                                *)
LEMMA SentBehind ==
    ASSUME NEW S, NEW q \in Seq(S), NEW r \in S
    PROVE /\ RegIds(Append(q, r)) = RegIds(q)
                \cup (IF r.kind = "register" THEN {r.entry.id} ELSE {})
          /\ UnregIds(Append(q, r)) = UnregIds(q)
                \cup (IF r.kind = "unregister" THEN {r.id} ELSE {})
          /\ InTurn(q) /\ (r.kind = "register" => r.entry.id \notin UnregIds(q))
                => InTurn(Append(q, r))
BY AppendIs

(* The request to register is sent by the process of the end-point.        *)
LEMMA FollowsSend ==
    ASSUME DInv, FollowsInv, NEW n \in Nodes, proxy_send_register_request(n),
           UNCHANGED <<rcVars, raced>>
    PROVE FollowsInv'
<1> DEFINE e == app[n].entry
           id == e.id
           r == RegisterReq(e)
           q == up[n]
           x == IF e.type \in ConnectTypes THEN [pc |-> "connect", entry |-> e] ELSE IdleApp
<1>1. /\ app[n].pc = "register" /\ up' = [up EXCEPT ![n] = Append(q, r)]
      /\ app' = [app EXCEPT ![n] = x] /\ UNCHANGED <<conn, status, central, ep>>
    BY DEF proxy_send_register_request, rcVars
<1>2. /\ id \in Ids /\ IsOpen(id) /\ ep[id].node = n /\ e \in Listed(MadeIds)
    BY <1>1, KnownIds, BusyIsReady DEF DInv, Owned, OwnedAt
<1>3. r \in RequestsOf(MadeIds) /\ r.kind = "register" /\ r.entry.id = id
    <2> HIDE DEF e
    <2>1. registry_entry_encode(e) \in Foreign(MadeIds) /\ registry_entry_encode(e).id = e.id
        BY <1>2, EncodeIs DEF Listed, Foreign
    <2> QED BY <2>1 DEF RegisterReq, RequestsOf
<1>4. x.pc \in {"connect", "idle"}
    BY DEF IdleApp
<1>5. Pending(n) = {id}
    BY <1>1 DEF Pending
<1>6. \A m \in Nodes : id \notin UnregIds(up[m])
    BY <1>2 DEF DInv, Withdrawn, WithdrawnAt
<1>7. q \in Seq(RequestsOf(MadeIds)) /\ InTurn(q)
    BY DEF DInv, DTypeOK, FollowsInv, SentInTurn
<1> HIDE DEF r, x, id, e, q
<1>8. /\ RegIds(Append(q, r)) = RegIds(q) \cup {id} /\ UnregIds(Append(q, r)) = UnregIds(q)
      /\ InTurn(Append(q, r))
    <2>1. /\ RegIds(Append(q, r)) = RegIds(q) \cup (IF r.kind = "register" THEN {r.entry.id} ELSE {})
          /\ UnregIds(Append(q, r)) = UnregIds(q) \cup (IF r.kind = "unregister" THEN {r.id} ELSE {})
          /\ InTurn(q) /\ (r.kind = "register" => r.entry.id \notin UnregIds(q))
                => InTurn(Append(q, r))
        BY <1>3, <1>7, SentBehind
    <2>2. id \notin UnregIds(q)
        BY <1>6 DEF q
    <2> HIDE DEF q
    <2> QED BY <1>3, <1>7, <2>1, <2>2
<1>9. up'[n] = Append(q, r) /\ \A m \in Nodes \ {n} : up'[m] = up[m]
    BY <1>1 DEF DInv, DTypeOK
<1>10. app'[n] = x /\ \A m \in Nodes \ {n} : app'[m] = app[m]
    BY <1>1 DEF DInv, DTypeOK
<1>11. \A m \in Nodes : /\ UnregIds(up'[m]) = UnregIds(up[m]) /\ InTurn(up'[m])
                        /\ RegIds(up'[m]) = RegIds(up[m]) \cup (IF m = n THEN {id} ELSE {})
    BY <1>8, <1>9 DEF q, FollowsInv, SentInTurn
<1>12. \A m \in Nodes : Pending(m) = Pending(m)' \cup (IF m = n THEN {id} ELSE {})
    BY <1>4, <1>5, <1>10 DEF Pending
<1>13. \A i : (IsOpen(i)' <=> IsOpen(i)) /\ (Withdrawing(i)' <=> Withdrawing(i))
    BY <1>1, <1>11 DEF IsOpen, Withdrawing
<1>14. Started'
    BY <1>1 DEF FollowsInv, Started
<1>15. OpenRegistered'
    <2>1. \A i \in Ids : IsOpen(i) => ep[i].node \in Nodes
        BY OpenIsEndpoint DEF DInv, DTypeOK, EpTypeOK, Endpoint
    <2>2. \A m \in Nodes : Pending(m) \cup RegIds(up[m]) = Pending(m)' \cup RegIds(up'[m])
        BY <1>11, <1>12
    <2> QED BY <1>1, <1>13, <2>1, <2>2 DEF FollowsInv, OpenRegistered
<1>16. ClosedWithdrawn'
    BY <1>1, <1>2, <1>11, <1>13 DEF FollowsInv, ClosedWithdrawn
<1>17. SentByOwner'
    BY <1>1, <1>2, <1>11, <1>13 DEF FollowsInv, SentByOwner
<1>18. SentInTurn'
    BY <1>6, <1>11 DEF FollowsInv, SentInTurn
<1> QED BY <1>14, <1>15, <1>16, <1>17, <1>18 DEF FollowsInv

(* The end-point id is deleted, after the request to unregister was sent   *)
(* or because no request can be.                                           *)
LEMMA FollowsDelete ==
    ASSUME DInv, FollowsInv, NEW n \in Nodes, NEW id \in MadeIds, IsOpen(id), ep[id].node = n,
           app' = [app EXCEPT ![n] = IdleApp], Pending(n) \subseteq {id},
           ep' = DeleteEndpoints({id}), UNCHANGED <<conn, status, central>>,
           \/ CanSend(n) /\ up' = [up EXCEPT ![n] = Append(up[n], UnregisterReq(id))]
           \/ ~CanSend(n) /\ up' = up, app[n].pc # "idle"
    PROVE FollowsInv'
<1> DEFINE r == UnregisterReq(id)
           q == up[n]
<1>1. id \in Ids /\ conn[n] \in {"open", "closed"}
    <2>1. status[n] = "ready"
        BY BusyIsReady
    <2> QED BY <2>1, KnownIds DEF DInv, DTypeOK, FollowsInv, Started
<1>2. EpKeeps(ep', {id})
    BY <1>1, DeleteEndpointsIs DEF DInv, DTypeOK, EpTypeOK
<1>3. \A i \in Ids : /\ IsOpen(i)' <=> IsOpen(i) /\ i # id
                     /\ IsOpen(i) => ep[i].node \in Nodes
                     /\ IsOpen(i) /\ i # id => ep'[i].node = ep[i].node
    <2>1. \A i \in Ids : IsOpen(i) => ep[i] \in Endpoint
        BY OpenIsEndpoint DEF DInv, DTypeOK, EpTypeOK
    <2> QED BY <1>1, <1>2, <2>1 DEF EpKeeps, IsOpen, Endpoint
<1>4. q \in Seq(RequestsOf(MadeIds)) /\ r \in RequestsOf(MadeIds) /\ r.kind = "unregister" /\ r.id = id
    BY DEF DInv, DTypeOK, RequestsOf, UnregisterReq
<1> HIDE DEF r, q
<1>5. /\ RegIds(Append(q, r)) = RegIds(q) /\ UnregIds(Append(q, r)) = UnregIds(q) \cup {id}
      /\ InTurn(q) => InTurn(Append(q, r))
    <2>1. /\ RegIds(Append(q, r)) = RegIds(q) \cup (IF r.kind = "register" THEN {r.entry.id} ELSE {})
          /\ UnregIds(Append(q, r)) = UnregIds(q) \cup (IF r.kind = "unregister" THEN {r.id} ELSE {})
          /\ InTurn(q) /\ (r.kind = "register" => r.entry.id \notin UnregIds(q))
                => InTurn(Append(q, r))
        BY <1>4, SentBehind
    <2> QED BY <1>4, <2>1
<1>6. \/ CanSend(n) /\ up'[n] = Append(q, r) /\ \A m \in Nodes \ {n} : up'[m] = up[m]
      \/ ~CanSend(n) /\ up' = up
    BY DEF DInv, DTypeOK, q, r
<1>7. \A m \in Nodes : /\ RegIds(up'[m]) = RegIds(up[m])
                       /\ UnregIds(up[m]) \subseteq UnregIds(up'[m])
                       /\ UnregIds(up'[m]) \subseteq UnregIds(up[m]) \cup (IF m = n THEN {id} ELSE {})
                       /\ InTurn(up[m]) => InTurn(up'[m])
    BY <1>5, <1>6 DEF q
<1>8. conn[n] # "closed" => id \in UnregIds(up'[n])
    BY <1>1, <1>5, <1>6 DEF CanSend
<1>9. app'[n] = IdleApp /\ \A m \in Nodes \ {n} : app'[m] = app[m]
    BY DEF DInv, DTypeOK
<1>10. \A m \in Nodes : Pending(m) \subseteq Pending(m)' \cup {id}
    BY <1>9 DEF Pending, IdleApp
<1>11. \A i : Withdrawing(i) => Withdrawing(i)'
    BY <1>7 DEF Withdrawing
<1>12. conn[n] # "closed" => Withdrawing(id)'
    BY <1>8 DEF Withdrawing
<1>13. \A m \in Nodes : RegIds(up[m]) \subseteq Ids
    BY KnownIds, KnownQueues DEF DInv
<1>14. IdsOf(central) \subseteq Ids
    BY KnownIds, KnownQueues DEF DInv
<1>15. Started'
    BY DEF FollowsInv, Started
<1>16. OpenRegistered'
    BY <1>3, <1>7, <1>10 DEF FollowsInv, OpenRegistered
<1>17. ClosedWithdrawn'
    BY <1>3, <1>7, <1>11, <1>12, <1>13, <1>14 DEF FollowsInv, ClosedWithdrawn
<1>18. SentByOwner'
    BY <1>3, <1>7, <1>13 DEF FollowsInv, SentByOwner
<1>19. SentInTurn'
    <2>1. \A m \in Nodes \ {n} : id \notin RegIds(up[m])
        BY DEF FollowsInv, SentByOwner
    <2>2. \A m \in Nodes : InTurn(up'[m])
        BY <1>7 DEF FollowsInv, SentInTurn
    <2>3. ASSUME NEW a \in Nodes, NEW b \in Nodes \ {a}
          PROVE UnregIds(up'[a]) \cap RegIds(up'[b]) = {}
        <3>1. UnregIds(up[a]) \cap RegIds(up[b]) = {}
            BY DEF FollowsInv, SentInTurn
        <3>2. RegIds(up'[b]) = RegIds(up[b]) /\ (a = n => id \notin RegIds(up[b]))
            BY <1>7, <2>1
        <3>3. UnregIds(up'[a]) \subseteq UnregIds(up[a]) \cup (IF a = n THEN {id} ELSE {})
            BY <1>7
        <3> QED BY <3>1, <3>2, <3>3
    <2> QED BY <2>2, <2>3 DEF SentInTurn
<1> QED BY <1>15, <1>16, <1>17, <1>18, <1>19 DEF FollowsInv

(* A registration fails only when the connection is down.                  *)
LEMMA FollowsFailed ==
    ASSUME DInv, FollowsInv, NEW n \in Nodes, proxy_new_entry_failed(n), UNCHANGED <<rcVars, raced>>
    PROVE FollowsInv'
<1>1. /\ app[n].pc = "register" /\ ~CanSend(n)
      /\ UNCHANGED <<conn, up, status, central, ep>>
      /\ \A m \in Nodes \ {n} : app'[m] = app[m]
    BY DEF proxy_new_entry_failed, netVars, rcVars, DInv, DTypeOK
<1>2. conn[n] = "closed"
    BY <1>1, BusyIsReady DEF DInv, DTypeOK, FollowsInv, Started, CanSend
<1>3. \A i \in Ids : IsOpen(i) => ep[i].node \in Nodes
    BY OpenIsEndpoint DEF DInv, DTypeOK, EpTypeOK, Endpoint
<1>4. /\ \A i : IsOpen(i)' <=> IsOpen(i)
      /\ \A m \in Nodes \ {n} : Pending(m)' = Pending(m)
    BY <1>1 DEF IsOpen, Pending
<1>5. OpenRegistered'
    BY <1>1, <1>2, <1>3, <1>4 DEF FollowsInv, OpenRegistered
<1>6. ClosedWithdrawn'
    BY <1>1, <1>2 DEF ClosedWithdrawn
<1>7. Started' /\ SentByOwner' /\ SentInTurn'
    BY <1>1, <1>4 DEF FollowsInv, Started, SentByOwner, SentInTurn
<1> QED BY <1>5, <1>6, <1>7 DEF FollowsInv

LEMMA FollowsApp ==
    ASSUME DInv, UInv, FollowsInv, NEW n \in Nodes, AppStep(n)
    PROVE FollowsInv'
<1>1. UNCHANGED <<rcVars, raced>>
    BY DEF AppStep
<1>2. CASE proxy_open_failed(n) \/ proxy_send_unregister_request(n)
    <2> DEFINE id == app[n].entry.id
    <2>1. app[n].pc = "unregister"
        BY <1>2 DEF proxy_open_failed, proxy_send_unregister_request
    <2>2. id \in MadeIds /\ IsOpen(id) /\ ep[id].node = n
        BY <2>1, KnownIds DEF DInv, Owned, OwnedAt
    <2>4. /\ app' = [app EXCEPT ![n] = IdleApp]
          /\ ep' = DeleteEndpoints({id}) /\ UNCHANGED <<conn, status, central>>
          /\ \/ CanSend(n) /\ up' = [up EXCEPT ![n] = Append(up[n], UnregisterReq(id))]
             \/ ~CanSend(n) /\ up' = up
        <3>1. CASE proxy_open_failed(n)
            BY <1>1, <3>1, FailedIsDown DEF proxy_open_failed, netVars, rcVars
        <3>2. CASE proxy_send_unregister_request(n)
            BY <1>1, <3>2 DEF proxy_send_unregister_request, rcVars
        <3> QED BY <1>2, <3>1, <3>2
    <2>3. Pending(n) \subseteq {id} /\ app[n].pc # "idle"
        BY <2>1 DEF Pending
    <2> HIDE DEF id
    <2> QED BY <2>2, <2>3, <2>4, FollowsDelete
<1> QED BY <1>1, <1>2, FollowsSend, FollowsFailed, FollowsConnected DEF AppStep

LEMMA FollowsStart ==
    ASSUME DInv, FollowsInv, NEW n \in Nodes, Start(n)
    PROVE FollowsInv'
<1> DEFINE q == <<ListReq>>
<1>1. /\ status[n] = "none" /\ status' = [status EXCEPT ![n] = "initializing"]
      /\ conn' = [conn EXCEPT ![n] = "open"] /\ up' = [up EXCEPT ![n] = q]
      /\ UNCHANGED <<central, app, ep>>
    BY DEF Start, new_proxy, rcVars
<1>2. /\ up[n] = <<>> /\ conn[n] = "none"
      /\ app[n] = IdleApp /\ OwnIds(preg[n]) = {}
    BY <1>1 DEF DInv, ListedOnce, ListedOnceAt
<1>3. q \in Seq({ListReq}) /\ Len(q) = 1 /\ q[1] = ListReq /\ ListReq.kind = "list"
    BY DEF ListReq
<1> HIDE DEF q
<1>4. RegIds(q) = {} /\ UnregIds(q) = {} /\ InTurn(q)
    BY <1>3 DEF RegIds, Registers, UnregIds, InTurn
<1>5. RegIds(<<>>) = {} /\ UnregIds(<<>>) = {}
    BY DEF RegIds, Registers, UnregIds
<1>6. \A m \in Nodes : RegIds(up'[m]) = RegIds(up[m]) /\ UnregIds(up'[m]) = UnregIds(up[m])
    BY <1>1, <1>2, <1>4, <1>5 DEF DInv, DTypeOK
<1>7. \A m \in Nodes : InTurn(up'[m])
    BY <1>1, <1>4 DEF DInv, DTypeOK, FollowsInv, SentInTurn
<1>8. \A m \in Nodes : /\ Pending(m)' = Pending(m)
                       /\ conn'[m] = IF m = n THEN "open" ELSE conn[m]
                       /\ status'[m] = IF m = n THEN "initializing" ELSE status[m]
    BY <1>1 DEF Pending, DInv, DTypeOK
<1>9. \A i : (IsOpen(i)' <=> IsOpen(i)) /\ (Withdrawing(i)' <=> Withdrawing(i))
    BY <1>1, <1>6 DEF IsOpen, Withdrawing
<1>10. Started'
    BY <1>8 DEF FollowsInv, Started
<1>11. OpenRegistered'
    <2>1. \A i \in Ids : IsOpen(i) => ep[i].node \in Nodes
        BY OpenIsEndpoint DEF DInv, DTypeOK, EpTypeOK, Endpoint
    <2>2. \A i \in Ids : IsOpen(i) => ep[i].node # n
        BY <1>2 DEF DInv, OpenIsOwned, IdleApp
    <2> QED BY <1>1, <1>6, <1>8, <1>9, <2>1, <2>2 DEF FollowsInv, OpenRegistered
<1>12. ClosedWithdrawn'
    <2>1. (\A m \in Nodes : conn'[m] # "closed") => \A m \in Nodes : conn[m] # "closed"
        BY <1>2, <1>8
    <2> QED BY <1>1, <1>6, <1>9, <2>1 DEF FollowsInv, ClosedWithdrawn
<1>13. SentByOwner'
    BY <1>1, <1>6, <1>9 DEF FollowsInv, SentByOwner
<1>14. SentInTurn'
    BY <1>6, <1>7 DEF FollowsInv, SentInTurn
<1> QED BY <1>10, <1>11, <1>12, <1>13, <1>14 DEF FollowsInv

(* A connection ends: what is still to be withdrawn may never be.          *)
LEMMA FollowsFault ==
    ASSUME DInv, FollowsInv, NEW n \in Nodes, Fault(n)
    PROVE FollowsInv'
<1> DEFINE S == {id \in Ids : IsOpen(id) /\ ep[id].node = n}
<1>1. /\ conn' = [conn EXCEPT ![n] = "closed"] /\ down' = [down EXCEPT ![n] = <<>>]
      /\ \E k \in 0..Len(up[n]) : up' = [up EXCEPT ![n] = SubSeq(up[n], 1, k)]
      /\ central' = central
      /\ status' = status \/ status' = [status EXCEPT ![n] = "gone"]
      /\ app' = app \/ app' = [app EXCEPT ![n] = IdleApp]
      /\ ep' = ep \/ ep' = DeleteEndpoints(S)
    BY DEF Fault, new_proxy_timeout, Exit, Leave, LinkBreaks, proxyVars, rcVars
<1>2. /\ \A m \in Nodes : PartOf(up[m], up'[m])
      /\ \A m \in Nodes \ {n} : up'[m] = up[m]
    BY <1>1, BreakIs
<1>3. /\ conn'[n] = "closed"
      /\ \A m \in Nodes \ {n} : /\ conn'[m] = conn[m] /\ status'[m] = status[m]
                                /\ Pending(m)' = Pending(m)
    BY <1>1 DEF DInv, DTypeOK, Pending
<1>4. S \in SUBSET Ids /\ \A i \in S : ep[i].node = n
    OBVIOUS
<1>5. /\ EpTypeOK
      /\ \A i \in Ids : IsOpen(i) => ep[i].node \in Nodes
    BY OpenIsEndpoint DEF DInv, DTypeOK, EpTypeOK, Endpoint
<1> HIDE DEF S
<1>6. \A i \in Ids : IsOpen(i)' => IsOpen(i) /\ ep'[i].node = ep[i].node
    <2>1. CASE ep' = ep
        BY <2>1 DEF IsOpen
    <2>2. CASE ep' = DeleteEndpoints(S)
        BY <1>4, <1>5, <2>2, DeleteEndpointsIs DEF EpKeeps, IsOpen
    <2> QED BY <1>1, <2>1, <2>2
<1>7. Started'
    BY <1>3 DEF FollowsInv, Started
<1>8. OpenRegistered'
    BY <1>1, <1>2, <1>3, <1>5, <1>6 DEF FollowsInv, OpenRegistered
<1>9. ClosedWithdrawn'
    BY <1>3 DEF ClosedWithdrawn
<1>10. SentByOwner'
    <2>1. \A m \in Nodes : RegIds(up'[m]) \subseteq RegIds(up[m]) /\ RegIds(up[m]) \subseteq Ids
        BY <1>2, KnownIds, KnownQueues DEF DInv, PartOf
    <2> QED BY <1>6, <2>1 DEF FollowsInv, SentByOwner
<1>11. SentInTurn'
    BY <1>2 DEF FollowsInv, SentInTurn, PartOf
<1> QED BY <1>7, <1>8, <1>9, <1>10, <1>11 DEF FollowsInv

(* A new end-point: no request names its id yet.                           *)
LEMMA FollowsOpen ==
    ASSUME DInv, FollowsInv, NEW n \in Nodes, Open(n)
    PROVE FollowsInv'
<1>1. PICK type, name, topic : proxy_new_entry(n, type, topic, name)
    BY DEF Open
<1>2. PICK id \in Ids \ MadeIds : \E a :
        LET e == [id |-> id, name |-> name, topic |-> topic, type |-> type,
                  addr |-> a, endpoint |-> TRUE] IN
        /\ app' = [app EXCEPT ![n] = [pc |-> "register", entry |-> e]]
        /\ ep' = [ep EXCEPT ![id] = [type |-> type, node |-> n, topic |-> topic, addr |-> a,
                                     remote |-> NoAddr, links |-> {}]]
    BY <1>1 DEF proxy_new_entry, MadeIds
<1>a. PICK a :
        LET e == [id |-> id, name |-> name, topic |-> topic, type |-> type,
                  addr |-> a, endpoint |-> TRUE] IN
        /\ app' = [app EXCEPT ![n] = [pc |-> "register", entry |-> e]]
        /\ ep' = [ep EXCEPT ![id] = [type |-> type, node |-> n, topic |-> topic, addr |-> a,
                                     remote |-> NoAddr, links |-> {}]]
    BY <1>2
<1> DEFINE e == [id |-> id, name |-> name, topic |-> topic, type |-> type,
                 addr |-> a, endpoint |-> TRUE]
           p == [type |-> type, node |-> n, topic |-> topic, addr |-> a,
                 remote |-> NoAddr, links |-> {}]
<1>3. /\ e.id = id /\ p.node = n
      /\ app' = [app EXCEPT ![n] = [pc |-> "register", entry |-> e]]
      /\ ep' = [ep EXCEPT ![id] = p]
    BY <1>a
<1> HIDE DEF e, p
<1>4. app[n] = IdleApp /\ UNCHANGED <<conn, status, up, central>>
    BY <1>1 DEF proxy_new_entry, Open, netVars, rcVars
<1>5. ep'[id] = p /\ \A i \in Ids \ {id} : ep'[i] = ep[i]
    BY <1>3 DEF DInv, DTypeOK
<1>6. /\ Pending(n)' = {id}
      /\ \A m \in Nodes : Pending(m) \subseteq Pending(m)'
    BY <1>3, <1>4 DEF DInv, DTypeOK, Pending, IdleApp
<1>7. \A m \in Nodes : RegIds(up[m]) \subseteq MadeIds
    BY KnownQueues DEF DInv
<1>8. \A m \in Nodes : id \notin RegIds(up[m])
    BY <1>7
<1>9. IdsOf(central) \subseteq Ids /\ \A m \in Nodes : RegIds(up[m]) \subseteq Ids
    BY KnownIds, KnownQueues DEF DInv
<1>10. ~IsOpen(id)
    BY DEF DInv, DTypeOK
<1>11. \A i \in Ids : /\ IsOpen(i) => IsOpen(i)' /\ ep'[i].node = ep[i].node
                      /\ i # id => (IsOpen(i)' <=> IsOpen(i)) /\ ep'[i] = ep[i]
    BY <1>5, <1>10 DEF IsOpen
<1>12. \A i : Withdrawing(i)' <=> Withdrawing(i)
    BY <1>4 DEF Withdrawing
<1>13. \A i \in Ids : IsOpen(i) => ep[i].node \in Nodes
    BY OpenIsEndpoint DEF DInv, DTypeOK, EpTypeOK, Endpoint
<1>14. Started'
    BY <1>4 DEF FollowsInv, Started
<1>15. OpenRegistered'
    BY <1>3, <1>4, <1>5, <1>6, <1>11, <1>13 DEF FollowsInv, OpenRegistered
<1>16. ClosedWithdrawn'
    BY <1>4, <1>9, <1>11, <1>12 DEF FollowsInv, ClosedWithdrawn
<1>17. SentByOwner'
    BY <1>4, <1>8, <1>9, <1>11 DEF FollowsInv, SentByOwner
<1>18. SentInTurn'
    BY <1>4 DEF FollowsInv, SentInTurn
<1> QED BY <1>14, <1>15, <1>16, <1>17, <1>18 DEF FollowsInv

LEMMA FollowsInit == ASSUME Init PROVE FollowsInv
<1> USE DEF Init, NetInit, RcInit, ProxyInit
<1>1. \A n \in Nodes : RegIds(up[n]) = {} /\ UnregIds(up[n]) = {} /\ InTurn(up[n])
    BY DEF RegIds, Registers, UnregIds, InTurn
<1>2. IdsOf(central) = {RegistryEntry.id}
    BY DEF IdsOf
<1>3. \A id \in Ids : ~IsOpen(id)
    BY DEF IsOpen
<1>4. Started /\ OpenRegistered /\ ClosedWithdrawn
    BY <1>1, <1>2, <1>3 DEF Started, OpenRegistered, ClosedWithdrawn
<1>5. SentByOwner /\ SentInTurn
    BY <1>1 DEF SentByOwner, SentInTurn
<1> QED BY <1>4, <1>5 DEF FollowsInv

LEMMA FollowsNext == DInv /\ UInv /\ FollowsInv /\ [Next]_vars => FollowsInv'
<1> SUFFICES ASSUME DInv, UInv, FollowsInv, [Next]_vars PROVE FollowsInv'
    OBVIOUS
<1>1. CASE UNCHANGED stateVars
    <2>1. UNCHANGED <<conn, status, up, central, ep, app>>
        BY <1>1 DEF stateVars, netVars, rcVars, proxyVars
    <2>2. /\ \A i : (IsOpen(i)' <=> IsOpen(i)) /\ (Withdrawing(i)' <=> Withdrawing(i))
          /\ \A m : Pending(m)' = Pending(m)
        BY <2>1 DEF IsOpen, Withdrawing, Pending
    <2>3. Started' /\ OpenRegistered'
        BY <2>1, <2>2 DEF FollowsInv, Started, OpenRegistered
    <2>4. ClosedWithdrawn' /\ SentByOwner' /\ SentInTurn'
        BY <2>1, <2>2 DEF FollowsInv, ClosedWithdrawn, SentByOwner, SentInTurn
    <2> QED BY <2>3, <2>4 DEF FollowsInv
<1> QED BY <1>1, FollowsRc, FollowsReader, FollowsApp, FollowsStart, FollowsOpen, FollowsClose,
           FollowsFault, StepIs DEF Acts

(* The requests of a process arrive in the order it sent them, and the     *)
(* handlers of the central registry finish them.  So when nothing is in    *)
(* flight it lists every end-point of a process connected to it and, if no *)
(* process ended and no connection broke, nothing else: an end-point that  *)
(* was closed is not registered after all by a request handled late.       *)
THEOREM RegistryIsFollowed == Spec => []RegistryFollows
<1>1. DInv /\ FollowsInv => RegistryFollows
    <2> SUFFICES ASSUME DInv, FollowsInv, Quiet PROVE RegistryFollows
        BY DEF RegistryFollows
    <2>1. \A m \in Nodes : up[m] = <<>> /\ app[m] = IdleApp
        BY DEF Quiet
    <2>2. \A m \in Nodes : RegIds(up[m]) = {} /\ UnregIds(up[m]) = {} /\ Pending(m) = {}
        BY <2>1 DEF RegIds, Registers, UnregIds, Pending, IdleApp
    <2>3. \A i : ~Withdrawing(i)
        BY <2>2 DEF Withdrawing
    <2>4. \A i \in Ids : IsOpen(i) => ep[i].node \in Nodes
        BY OpenIsEndpoint DEF DInv, DTypeOK, EpTypeOK, Endpoint
    <2> QED BY <2>2, <2>3, <2>4 DEF FollowsInv, OpenRegistered, ClosedWithdrawn, RegistryFollows
<1>2. Init => FollowsInv
    BY FollowsInit
<1> QED BY <1>1, <1>2, FollowsNext, Invariance, PTL DEF Spec

=============================================================================
