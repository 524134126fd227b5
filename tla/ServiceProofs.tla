---------------------------- MODULE ServiceProofs ----------------------------
(***************************************************************************)
(* For every number of connections, and for all exports and requests:      *)
(* lookups in a running service find the latest export, and the service is *)
(* freed last.                                                             *)
(*                                                                         *)
(* First, for every set of names and handlers and for every sequence of    *)
(* exports, a lookup finds the handler that was exported last (Exports).   *)
(* A resource may be in the list twice, under the name without a slash and *)
(* under the one with a slash, and service_export changes only one of the  *)
(* two.  What keeps the lookup right is the order: the name without a      *)
(* slash always comes first (OrderKept), because it was not found when it  *)
(* was put at the front, and both spellings find it from then on.  What    *)
(* the threads of the service do to the exports are steps of Exports.      *)
(*                                                                         *)
(* For the second, a thread that still uses the service is that of a       *)
(* client in the list, or of one that delete_service has taken from the    *)
(* list and joins (UsersKnown); after that the list does not grow, because *)
(* service_run has ended.                                                  *)
(***************************************************************************)
EXTENDS Service, TLAPS

Listed == Exported \cup {Root}

IsFirst(S, i) == i \in S /\ \A j \in S : i <= j

(* The places of the exports that are reached under a uri                  *)
At(uri) == {i \in DOMAIN exports : Path(exports[i].name) = uri}

ExportsTypeOK ==
    /\ exports \in Seq([name : Listed, handler : Handlers])
    /\ exporter \in {Idle} \cup [pc : {"prepend"}, name : Exported, handler : Handlers]
    /\ DOMAIN made \subseteq Slashed

OrderKept ==
    \A i, j \in DOMAIN exports :
        i < j /\ Path(exports[i].name) = Path(exports[j].name)
            => exports[i].name \in Plain /\ exports[j].name \in Slashed

(* made is what the first export of each uri says.                         *)
FirstIsLatest ==
    \A u \in Slashed :
        /\ u \in DOMAIN made => \E i \in At(u) : IsFirst(At(u), i) /\ made[u] = exports[i].handler
        /\ At(u) # {} => u \in DOMAIN made

(* Nothing else is exported between the two critical sections.             *)
StillMissing == exporter.pc = "prepend" => Found(exporter.name) = {}

ExportsInv == ExportsTypeOK /\ OrderKept /\ FirstIsLatest /\ StillMissing

-----------------------------------------------------------------------------
(* The smallest of a set of numbers is the one that First chooses.         *)
LEMMA FirstUnique ==
    ASSUME NEW S \in SUBSET Nat, NEW i \in S, IsFirst(S, i)
    PROVE First(S) = i
<1>1. \A k \in S : (\A j \in S : k <= j) => k = i
    BY DEF IsFirst
<1>2. \A j \in S : i <= j
    BY DEF IsFirst
<1> QED BY <1>1, <1>2 DEF First

(* Every name has a uri.                                                   *)
LEMMA PathSlashed ==
    ASSUME NEW n \in Names
    PROVE Path(n) \in Slashed /\ (n \in Slashed => Path(n) = n)
                              /\ (n \in Plain => Path(n) = Slash[n])
BY ExportsAssumption DEF Path, Names

LEMMA ListedNames == Listed \subseteq Names /\ Exported \subseteq Listed
BY ExportsAssumption DEF Listed, Names

(* The names and the handlers of the list are those that were exported.    *)
LEMMA Entry ==
    ASSUME ExportsTypeOK, NEW i \in DOMAIN exports
    PROVE /\ i \in Nat /\ i \in 1..Len(exports)
          /\ exports[i].name \in Listed /\ exports[i].name \in Names
          /\ exports[i].handler \in Handlers
<1> DEFINE E == [name : Listed, handler : Handlers]
<1>1. exports \in Seq(E)
    BY DEF ExportsTypeOK
<1> HIDE DEF E
<1>2. i \in 1..Len(exports) /\ exports[i] \in E
    BY <1>1
<1> QED BY <1>2, ListedNames DEF E

(* A uri finds the exports that are reached under it.                      *)
LEMMA FoundSlashed ==
    ASSUME ExportsTypeOK, NEW u \in Slashed
    PROVE Found(u) = At(u)
<1> SUFFICES ASSUME NEW i \in DOMAIN exports
             PROVE export_matches(exports[i], u) <=> Path(exports[i].name) = u
    BY DEF Found, At
<1>1. exports[i].name \in Names
    BY Entry
<1>2. u \notin Plain
    BY ExportsAssumption
<1> QED BY <1>1, <1>2, ExportsAssumption DEF export_matches, Path, Names

(* A name without a slash finds the exports of that name only.             *)
LEMMA FoundPlain ==
    ASSUME ExportsTypeOK, NEW n \in Plain
    PROVE Found(n) = {i \in DOMAIN exports : exports[i].name = n}
<1> SUFFICES ASSUME NEW i \in DOMAIN exports
             PROVE export_matches(exports[i], n) <=> exports[i].name = n
    BY DEF Found
<1> QED BY ExportsAssumption DEF export_matches

(* Only the wildcard itself is reached under its uri.                      *)
LEMMA FoundWildcard ==
    ASSUME ExportsTypeOK
    PROVE At(Slash[Wildcard]) = {i \in DOMAIN exports : exports[i].name = Wildcard}
<1> SUFFICES ASSUME NEW i \in DOMAIN exports
             PROVE Path(exports[i].name) = Slash[Wildcard] <=> exports[i].name = Wildcard
    BY DEF At
<1>1. exports[i].name \in Exported \cup {Root}
    BY Entry DEF Listed
<1> QED BY <1>1, ExportsAssumption DEF Path

(* The invariant gives the promise of the lookup.                          *)
LEMMA LookupRight == ExportsInv => LatestExportFound
<1> SUFFICES ASSUME ExportsInv, NEW u \in Slashed
             PROVE service_get_export(u) = Promised(u)
    BY DEF LatestExportFound
<1> DEFINE wild == Slash[Wildcard]
<1>0. wild \in Slashed
    BY ExportsAssumption
<1>1. Found(u) = At(u) /\ At(wild) = {i \in DOMAIN exports : exports[i].name = Wildcard}
    BY FoundSlashed, FoundWildcard DEF ExportsInv
<1>2. ASSUME NEW v \in Slashed, v \in DOMAIN made
      PROVE At(v) # {} /\ exports[First(At(v))].handler = made[v]
    <2>1. PICK i \in At(v) : IsFirst(At(v), i) /\ made[v] = exports[i].handler
        BY <1>2 DEF ExportsInv, FirstIsLatest
    <2>2. At(v) \in SUBSET Nat
        BY Entry DEF ExportsInv, At
    <2> QED BY <2>1, <2>2, FirstUnique
<1>3. ASSUME NEW v \in Slashed, v \notin DOMAIN made
      PROVE At(v) = {}
    BY <1>3 DEF ExportsInv, FirstIsLatest
<1>4. CASE u \in DOMAIN made
    BY <1>1, <1>2, <1>4 DEF service_get_export, Promised
<1>5. CASE u \notin DOMAIN made /\ wild \in DOMAIN made
    BY <1>0, <1>1, <1>2, <1>3, <1>5 DEF service_get_export, Promised
<1>6. CASE u \notin DOMAIN made /\ wild \notin DOMAIN made
    BY <1>0, <1>1, <1>3, <1>6 DEF service_get_export, Promised
<1> QED BY <1>4, <1>5, <1>6

-----------------------------------------------------------------------------
LEMMA InvInit == ExportsInit => ExportsInv
<1> SUFFICES ASSUME ExportsInit PROVE ExportsInv
    OBVIOUS
<1> DEFINE e == [name |-> Root, handler |-> Index]
<1>1. /\ exports = <<e>> /\ exporter = Idle /\ made = [u \in {Root} |-> Index]
      /\ e \in [name : Listed, handler : Handlers]
    BY ExportsAssumption DEF ExportsInit, Listed
<1>2. ExportsTypeOK
    <2> HIDE DEF e
    <2>1. <<e>> \in Seq([name : Listed, handler : Handlers])
        BY <1>1
    <2>2. DOMAIN made = {Root}
        BY <1>1
    <2> QED BY <1>1, <2>1, <2>2, ExportsAssumption DEF ExportsTypeOK
<1>3. DOMAIN exports = {1} /\ exports[1] = e
    BY <1>1
<1>4. Path(exports[1].name) = Root
    BY <1>3, ExportsAssumption DEF Path
<1>5. OrderKept
    BY <1>3 DEF OrderKept
<1>6. FirstIsLatest
    BY <1>1, <1>3, <1>4 DEF FirstIsLatest, At, IsFirst
<1>7. StillMissing
    BY <1>1 DEF StillMissing, Idle
<1> QED BY <1>2, <1>5, <1>6, <1>7 DEF ExportsInv

(* The name is there: the export that is changed is the first of its uri,  *)
(* because no other spelling of a name without a slash stands before it.   *)
LEMMA InvFound ==
    ASSUME ExportsInv, NEW n \in Exported, NEW h \in Handlers, service_export_found(n, h)
    PROVE ExportsInv'
<1> DEFINE k == First(Found(n))
<1>0. ExportsTypeOK /\ n \in Names /\ Path(n) \in Slashed
    BY PathSlashed, ListedNames DEF ExportsInv
<1>1. k \in Found(n) /\ IsFirst(At(Path(n)), k)
    <2>1. CASE n \in Slashed
        <3>1. Found(n) = At(n) /\ Path(n) = n /\ At(n) # {}
            BY <1>0, <2>1, FoundSlashed, PathSlashed DEF service_export_found
        <3>2. PICK i \in At(n) : IsFirst(At(n), i)
            BY <3>1, <2>1 DEF ExportsInv, FirstIsLatest
        <3>3. At(n) \in SUBSET Nat
            BY <1>0, Entry DEF At
        <3> QED BY <3>1, <3>2, <3>3, FirstUnique
    <2>2. CASE n \in Plain
        <3>1. Found(n) = {i \in DOMAIN exports : exports[i].name = n}
            BY <1>0, <2>2, FoundPlain
        <3>2. PICK j \in Found(n) : TRUE
            BY DEF service_export_found
        <3>3. Found(n) \subseteq At(Path(n)) /\ j \in At(Path(n))
            BY <3>1, <3>2 DEF At
        <3>4. PICK i \in At(Path(n)) : IsFirst(At(Path(n)), i)
            BY <1>0, <3>3 DEF ExportsInv, FirstIsLatest
        <3>5. i \in Nat /\ j \in Nat /\ i <= j /\ i \in DOMAIN exports /\ j \in DOMAIN exports
            BY <1>0, <3>3, <3>4, Entry DEF At, IsFirst
        <3>6. exports[i].name \in Plain
            <4>1. CASE i = j
                BY <4>1, <3>1, <2>2
            <4>2. CASE i < j
                BY <4>2, <3>3, <3>4, <3>5 DEF ExportsInv, OrderKept, At
            <4> QED BY <4>1, <4>2, <3>5
        <3>7. exports[i].name = n
            BY <1>0, <2>2, <3>4, <3>6, PathSlashed, ExportsAssumption DEF At, Path
        <3>8. i \in Found(n) /\ \A m \in Found(n) : i <= m
            BY <3>1, <3>3, <3>4, <3>5, <3>7 DEF IsFirst
        <3>9. Found(n) \in SUBSET Nat
            BY <1>0, <3>1, Entry
        <3> QED BY <3>4, <3>8, <3>9, FirstUnique DEF IsFirst
    <2> QED BY <1>0, <2>1, <2>2 DEF Names
<1>2. k \in DOMAIN exports /\ Path(exports[k].name) = Path(n)
    BY <1>1 DEF IsFirst, At
<1> HIDE DEF k
<1>3. exports' = [exports EXCEPT ![k].handler = h] /\ exporter' = exporter /\ exporter = Idle
    BY DEF service_export_found, k
<1>4. /\ exports' \in Seq([name : Listed, handler : Handlers])
      /\ DOMAIN exports' = DOMAIN exports
      /\ \A i \in DOMAIN exports : exports'[i].name = exports[i].name
      /\ \A i \in DOMAIN exports \ {k} : exports'[i] = exports[i]
      /\ exports'[k].handler = h
    <2> DEFINE E == [name : Listed, handler : Handlers]
    <2>1. exports \in Seq(E)
        BY <1>0 DEF ExportsTypeOK
    <2> HIDE DEF E
    <2>2. exports[k] \in E
        BY <2>1, <1>2
    <2>3. exports' = [exports EXCEPT ![k] = [exports[k] EXCEPT !.handler = h]]
        BY <1>3
    <2>4. [exports[k] EXCEPT !.handler = h] \in E
        BY <2>2 DEF E
    <2>5. /\ [exports[k] EXCEPT !.handler = h].handler = h
          /\ [exports[k] EXCEPT !.handler = h].name = exports[k].name
        BY <2>2 DEF E
    <2>6. exports' \in Seq(E) /\ DOMAIN exports' = DOMAIN exports
        BY <2>1, <2>3, <2>4, <1>2
    <2>7. \A i \in DOMAIN exports : exports'[i] =
              IF i = k THEN [exports[k] EXCEPT !.handler = h] ELSE exports[i]
        BY <2>1, <2>3, <1>2
    <2> QED BY <2>5, <2>6, <2>7, <1>2 DEF E
<1>5. /\ DOMAIN made' = DOMAIN made \cup {Path(n)}
      /\ made'[Path(n)] = h
      /\ \A u \in DOMAIN made \ {Path(n)} : made'[u] = made[u]
    BY DEF service_export_found, Make
<1>6. ExportsTypeOK'
    BY <1>0, <1>3, <1>4, <1>5 DEF ExportsTypeOK
<1>7. OrderKept'
    BY <1>4 DEF ExportsInv, OrderKept
<1>8. \A u \in Slashed : At(u)' = At(u)
    BY <1>4 DEF At
<1>9. FirstIsLatest'
    <2> SUFFICES ASSUME NEW u \in Slashed
                 PROVE /\ u \in DOMAIN made' =>
                            \E i \in At(u) : IsFirst(At(u), i) /\ made'[u] = exports'[i].handler
                       /\ At(u) # {} => u \in DOMAIN made'
        BY <1>8 DEF FirstIsLatest, IsFirst
    <2>1. CASE u = Path(n)
        BY <2>1, <1>1, <1>4, <1>5 DEF IsFirst
    <2>2. CASE u # Path(n)
        <3>1. k \notin At(u)
            BY <1>2, <2>2 DEF At
        <3>2. \A i \in At(u) : exports'[i] = exports[i]
            BY <3>1, <1>4 DEF At
        <3> QED BY <2>2, <3>2, <1>5 DEF ExportsInv, FirstIsLatest
    <2> QED BY <2>1, <2>2
<1>10. StillMissing'
    BY <1>3 DEF StillMissing, Idle
<1> QED BY <1>6, <1>7, <1>9, <1>10 DEF ExportsInv

(* The name was not there: under its uri there is nothing yet, or only the *)
(* spelling with a slash of a name that is now put before it without one.  *)
LEMMA InvPrepend ==
    ASSUME ExportsInv, service_export_prepend
    PROVE ExportsInv'
<1> DEFINE n == exporter.name
           h == exporter.handler
           E == [name : Listed, handler : Handlers]
           e == [name |-> n, handler |-> h]
<1>0. ExportsTypeOK /\ n \in Exported /\ n \in Names /\ h \in Handlers /\ Path(n) \in Slashed
    <2>1. exporter \in [pc : {"prepend"}, name : Exported, handler : Handlers]
        BY DEF ExportsInv, ExportsTypeOK, service_export_prepend, Idle
    <2> QED BY <2>1, PathSlashed, ListedNames DEF ExportsInv
<1>1. Found(n) = {}
    BY DEF ExportsInv, StillMissing, service_export_prepend
<1>2. exports \in Seq(E) /\ e \in E /\ e.name = n /\ e.handler = h
    BY <1>0, ListedNames DEF ExportsTypeOK
<1>3. exports' = <<e>> \o exports /\ exporter' = Idle
    BY DEF service_export_prepend
<1> HIDE DEF E, e
<1>4. /\ exports' \in Seq(E) /\ exports'[1] = e /\ DOMAIN exports' = 1..(Len(exports) + 1)
      /\ Len(exports) \in Nat /\ DOMAIN exports = 1..Len(exports)
      /\ \A i \in 1..Len(exports) : exports'[i + 1] = exports[i]
      /\ \A i \in 2..(Len(exports) + 1) : i - 1 \in 1..Len(exports) /\ exports'[i] = exports[i - 1]
    BY <1>2, <1>3
<1>5. /\ DOMAIN made' = DOMAIN made \cup {Path(n)}
      /\ made'[Path(n)] = h
      /\ \A u \in DOMAIN made \ {Path(n)} : made'[u] = made[u]
    BY DEF service_export_prepend, Make
<1>6. ExportsTypeOK'
    BY <1>0, <1>3, <1>4, <1>5 DEF ExportsTypeOK, E
(* Whatever is under the uri of the new name has the other spelling.       *)
<1>7. \A i \in DOMAIN exports :
          Path(exports[i].name) = Path(n) => n \in Plain /\ exports[i].name \in Slashed
    <2> SUFFICES ASSUME NEW i \in DOMAIN exports, Path(exports[i].name) = Path(n)
                 PROVE n \in Plain /\ exports[i].name \in Slashed
        OBVIOUS
    <2>1. exports[i].name \in Names
        BY <1>0, Entry
    <2>2. n \notin Slashed
        BY <1>0, <1>1, FoundSlashed, PathSlashed DEF At
    <2>3. n \in Plain
        BY <1>0, <2>2 DEF Names
    <2>4. exports[i].name # n
        BY <1>0, <1>1, <2>3, FoundPlain
    <2> QED BY <2>1, <2>3, <2>4, ExportsAssumption DEF Path, Names
<1>8. OrderKept'
    <2> SUFFICES ASSUME NEW i \in DOMAIN exports', NEW j \in DOMAIN exports',
                        i < j, Path(exports'[i].name) = Path(exports'[j].name)
                 PROVE exports'[i].name \in Plain /\ exports'[j].name \in Slashed
        BY DEF OrderKept
    <2>1. i \in Int /\ j \in 2..(Len(exports) + 1)
        BY <1>4
    <2>2. j - 1 \in DOMAIN exports /\ exports'[j] = exports[j - 1]
        BY <2>1, <1>4
    <2>3. CASE i = 1
        BY <2>2, <2>3, <1>2, <1>4, <1>7
    <2>4. CASE i # 1
        <3>1. i \in 2..(Len(exports) + 1)
            BY <1>4, <2>4
        <3>2. i - 1 \in DOMAIN exports /\ exports'[i] = exports[i - 1] /\ i - 1 < j - 1
            BY <3>1, <2>1, <1>4
        <3> QED BY <2>2, <3>2 DEF ExportsInv, OrderKept
    <2> QED BY <2>3, <2>4
<1>9. FirstIsLatest'
    <2> SUFFICES ASSUME NEW u \in Slashed
                 PROVE /\ u \in DOMAIN made' =>
                            \E i \in At(u)' : IsFirst(At(u)', i) /\ made'[u] = exports'[i].handler
                       /\ At(u)' # {} => u \in DOMAIN made'
        BY DEF FirstIsLatest, IsFirst
    <2>1. CASE u = Path(n)
        <3>1. 1 \in At(u)'
            BY <2>1, <1>2, <1>4 DEF At
        <3>2. \A i \in At(u)' : 1 <= i
            BY <1>4 DEF At
        <3> QED BY <2>1, <3>1, <3>2, <1>2, <1>4, <1>5 DEF IsFirst
    <2>2. CASE u # Path(n)
        <3>1. \A i \in At(u) : i \in Int /\ i + 1 \in At(u)' /\ exports'[i + 1] = exports[i]
            BY <1>4 DEF At
        <3>2. \A i \in At(u)' : i \in Int /\ i - 1 \in At(u)
            <4> SUFFICES ASSUME NEW i \in At(u)' PROVE i \in Int /\ i - 1 \in At(u)
                OBVIOUS
            <4>1. i \in 1..(Len(exports) + 1) /\ Path(exports'[i].name) = u
                BY <1>4 DEF At
            <4>2. i # 1
                BY <4>1, <2>2, <1>2, <1>4
            <4> QED BY <4>1, <4>2, <1>4 DEF At
        <3>3. At(u)' # {} => u \in DOMAIN made'
            BY <3>2, <1>5 DEF ExportsInv, FirstIsLatest
        <3>4. ASSUME u \in DOMAIN made'
              PROVE \E i \in At(u)' : IsFirst(At(u)', i) /\ made'[u] = exports'[i].handler
            <4>1. u \in DOMAIN made /\ made'[u] = made[u]
                BY <3>4, <2>2, <1>5
            <4>2. PICK i \in At(u) : IsFirst(At(u), i) /\ made[u] = exports[i].handler
                BY <4>1 DEF ExportsInv, FirstIsLatest
            <4>3. \A j \in At(u)' : i + 1 <= j
                BY <4>2, <3>1, <3>2 DEF IsFirst
            <4> QED BY <4>1, <4>2, <4>3, <3>1 DEF IsFirst
        <3> QED BY <3>3, <3>4
    <2> QED BY <2>1, <2>2
<1>10. StillMissing'
    BY <1>3 DEF StillMissing, Idle
<1> QED BY <1>6, <1>8, <1>9, <1>10 DEF ExportsInv

LEMMA InvDelete == ASSUME ExportsInv, delete_exports PROVE ExportsInv'
<1>1. exports' = <<>> /\ DOMAIN exports' = {} /\ exporter' = Idle /\ DOMAIN made' = {}
    BY DEF delete_exports
<1>2. <<>> \in Seq([name : Listed, handler : Handlers])
    OBVIOUS
<1>3. ExportsTypeOK'
    BY <1>1, <1>2 DEF ExportsTypeOK
<1>4. OrderKept' /\ FirstIsLatest'
    BY <1>1 DEF OrderKept, FirstIsLatest, At
<1>5. StillMissing'
    BY <1>1 DEF StillMissing, Idle
<1> QED BY <1>3, <1>4, <1>5 DEF ExportsInv

LEMMA InvNext == ExportsInv /\ [ExportsNext]_exportVars => ExportsInv'
<1> SUFFICES ASSUME ExportsInv, [ExportsNext]_exportVars PROVE ExportsInv'
    OBVIOUS
<1>1. ASSUME NEW n \in Exported, NEW h \in Handlers, service_export_found(n, h)
      PROVE ExportsInv'
    BY <1>1, InvFound
<1>2. ASSUME NEW n \in Exported, NEW h \in Handlers, service_export_missing(n, h)
      PROVE ExportsInv'
    <2>1. /\ UNCHANGED <<exports, made>> /\ Found(n) = {}
          /\ exporter' = [pc |-> "prepend", name |-> n, handler |-> h]
        BY <1>2 DEF service_export_missing
    <2>2. ExportsTypeOK'
        BY <2>1 DEF ExportsInv, ExportsTypeOK
    <2>3. OrderKept' /\ FirstIsLatest'
        BY <2>1 DEF ExportsInv, OrderKept, FirstIsLatest, At
    <2>4. StillMissing'
        BY <2>1 DEF StillMissing, Found
    <2> QED BY <2>2, <2>3, <2>4 DEF ExportsInv
<1>3. CASE service_export_prepend
    BY <1>3, InvPrepend
<1>4. CASE delete_exports
    BY <1>4, InvDelete
<1>5. CASE UNCHANGED exportVars
    BY <1>5 DEF exportVars, ExportsInv, ExportsTypeOK, OrderKept, FirstIsLatest, StillMissing,
                At, Found
<1> QED BY <1>1, <1>2, <1>3, <1>4, <1>5 DEF ExportsNext

(* The list is always well formed: no uri has more than one export in a    *)
(* spelling, and the one that lookups find is the latest.                  *)
THEOREM ExportsInvariant == ExportsSpec => []ExportsInv
BY InvInit, InvNext, PTL DEF ExportsSpec

(* A request is served by the handler that service_export was given last   *)
(* for the uri, under either spelling of its name, or by the wildcard.     *)
THEOREM ExportsCorrect == ExportsSpec => []LatestExportFound
BY ExportsInvariant, LookupRight, PTL

-----------------------------------------------------------------------------
(* The service                                                             *)

NotUsing == {"none", "close", "done"}
Early == {"none", "backlog"}

ServiceTypeOK ==
    /\ DOMAIN worker = Conns /\ DOMAIN conn = Conns
    /\ accept \in [pc : {"accept", "end"}] \cup [pc : {"clean", "start"}, client : Conns]
    /\ main.pc \in {"run", "join", "exports", "take", "clients", "freed"}
    /\ "pc" \in DOMAIN main /\ "freed" \in DOMAIN service

(* The clients whose threads use the service, or will                      *)
UsersKnown ==
    /\ \A k \in Conns : worker[k].pc \notin NotUsing =>
            k \in clients \/ (main.pc = "clients" /\ k \in main.join)
    /\ accept.pc \in {"clean", "start"} => accept.client \in clients

(* The thread of a connection starts once, after it is accepted.           *)
StartedOnce ==
    /\ \A k \in Conns : conn[k] \in Early => worker[k].pc = "none"
    /\ accept.pc \in {"clean", "start"} =>
            worker[accept.client].pc = "none" /\ conn[accept.client] \notin Early

(* The order of delete_service                                             *)
DeletionOrder ==
    /\ main.pc \in {"exports", "take", "clients", "freed"} => accept.pc = "end"
    /\ main.pc \in {"clients", "freed"} => clients = {}
    /\ service.freed => main.pc = "freed"

ServiceInv == ServiceTypeOK /\ UsersKnown /\ StartedOnce /\ DeletionOrder /\ ServiceFreedLast

-----------------------------------------------------------------------------
LEMMA ServiceInvInit == Init => ServiceInv
BY DEF Init, None, ServiceInv, ServiceTypeOK, UsersKnown, StartedOnce, DeletionOrder,
       ServiceFreedLast, NotUsing

(* No step makes a connection early again.                                 *)
ConnForward == DOMAIN conn' = Conns /\ \A k \in Conns : conn'[k] \in Early => conn[k] \in Early

(* A step that leaves alone who uses the service                           *)
LEMMA ServiceAlone ==
    ASSUME ServiceInv, UNCHANGED <<main, accept, service, clients, worker>>, ConnForward
    PROVE ServiceInv'
BY DEF ServiceInv, ServiceTypeOK, UsersKnown, StartedOnce, DeletionOrder, ServiceFreedLast,
       ConnForward

LEMMA PeerSteps ==
    ASSUME ServiceInv, NEW k \in Conns, Asks(k)
    PROVE ServiceInv'
<1>1. UNCHANGED <<main, accept, service, clients, worker>>
    BY DEF Asks, open_tcp_socket, http_send_request, response_parse_html, PeerStep, listVars
<1>2. ConnForward
    BY DEF Asks, open_tcp_socket, http_send_request, response_parse_html, ConnForward, Early,
           ServiceInv, ServiceTypeOK
<1> QED BY <1>1, <1>2, ServiceAlone

(* A step of the thread of a client                                        *)
WorkerMoves(k) ==
    /\ UNCHANGED <<main, accept, service>>
    /\ DOMAIN worker' = Conns /\ \A j \in Conns \ {k} : worker'[j] = worker[j]
    /\ worker[k].pc # "none"

LEMMA WorkerGoes ==
    ASSUME ServiceInv, NEW k \in Conns, NEW r, WorkerGo(k, r)
    PROVE /\ DOMAIN worker' = Conns /\ \A j \in Conns \ {k} : worker'[j] = worker[j]
          /\ worker'[k] = r
BY DEF WorkerGo, ServiceInv, ServiceTypeOK

(* The thread goes on; it leaves the list of clients only to close.        *)
LEMMA WorkerOnly ==
    ASSUME ServiceInv, NEW k \in Conns, WorkerMoves(k), ConnForward,
           \/ clients' = clients /\ worker[k].pc \notin NotUsing
           \/ clients' \in {clients, clients \ {k}} /\ worker'[k].pc \in {"close", "done"}
    PROVE ServiceInv'
<1>1. accept.pc \in {"clean", "start"} => accept.client # k
    BY DEF ServiceInv, StartedOnce, WorkerMoves
<1>2. conn'[k] \notin Early
    BY DEF ServiceInv, StartedOnce, WorkerMoves, ConnForward
<1>3. ServiceTypeOK' /\ DeletionOrder'
    BY DEF ServiceInv, ServiceTypeOK, DeletionOrder, WorkerMoves, ConnForward
<1>4. StartedOnce'
    BY <1>1, <1>2 DEF ServiceInv, ServiceTypeOK, StartedOnce, WorkerMoves, ConnForward
<1>5. UsersKnown' /\ ServiceFreedLast'
    BY <1>1 DEF ServiceInv, UsersKnown, ServiceFreedLast, WorkerMoves, NotUsing
<1> QED BY <1>3, <1>4, <1>5 DEF ServiceInv

LEMMA HandleSteps ==
    ASSUME ServiceInv, NEW k \in Conns, Handles(k)
    PROVE ServiceInv'
<1>1. UNCHANGED <<main, accept, service>>
    BY DEF Handles, Parses, service_parse_request, service_parse_closed, service_parse_quit,
           service_lookup, service_call_export, service_remove_client, service_close_client,
           WorkerStep
<1>2. CASE Parses(k) \/ service_lookup(k) \/ service_call_export(k)
    <2>1. clients' = clients /\ conn' = conn /\ worker[k].pc \in {"request", "lookup", "call"}
        BY <1>2 DEF Parses, service_parse_request, service_parse_closed, service_parse_quit,
                    service_lookup, service_call_export, listVars
    <2>2. worker' = worker \/ \E r : WorkerGo(k, r)
        <3>1. CASE Parses(k)
            BY <3>1 DEF Parses, service_parse_request, service_parse_closed, service_parse_quit
        <3>2. CASE service_lookup(k)
            BY <3>2 DEF service_lookup, Lock
        <3>3. CASE service_call_export(k)
            BY <3>3 DEF service_call_export, Lock
        <3> QED BY <1>2, <3>1, <3>2, <3>3
    <2>3. DOMAIN worker' = Conns /\ \A j \in Conns \ {k} : worker'[j] = worker[j]
        BY <2>2, WorkerGoes DEF ServiceInv, ServiceTypeOK
    <2>4. WorkerMoves(k) /\ ConnForward
        BY <1>1, <2>1, <2>3 DEF WorkerMoves, ConnForward, ServiceInv, ServiceTypeOK
    <2> QED BY <2>1, <2>4, WorkerOnly DEF NotUsing
<1>3. CASE service_remove_client(k)
    <2>1. clients' = clients \ {k} /\ conn' = conn /\ worker[k].pc = "remove"
        BY <1>3 DEF service_remove_client
    <2>2. WorkerMoves(k) /\ ConnForward /\ worker'[k].pc = "close"
        BY <1>1, <1>3, <2>1, WorkerGoes
        DEF service_remove_client, WorkerMoves, ConnForward, ServiceInv, ServiceTypeOK
    <2> QED BY <2>1, <2>2, WorkerOnly
<1>4. CASE service_close_client(k)
    <2>1. clients' = clients /\ worker[k].pc = "close"
        BY <1>4 DEF service_close_client
    <2>2. ConnForward
        BY <1>4 DEF service_close_client, CloseConn, ConnForward, Early, ServiceInv, ServiceTypeOK
    <2>3. WorkerMoves(k) /\ worker'[k].pc = "done"
        BY <1>1, <1>4, <2>1, WorkerGoes DEF service_close_client, WorkerMoves
    <2> QED BY <2>1, <2>2, <2>3, WorkerOnly
<1> QED BY <1>2, <1>3, <1>4 DEF Handles

(* service_run adds a client only before it ends.                          *)
LEMMA AcceptSteps ==
    ASSUME ServiceInv, Accepting
    PROVE ServiceInv'
<1>1. UNCHANGED <<main, service>> /\ accept.pc # "end"
    BY DEF Accepting, server_socket_accept, service_clean, service_start_client,
           service_run_end, AcceptStep
<1>2. main.pc \in {"run", "join"} /\ ~service.freed
    BY <1>1 DEF ServiceInv, ServiceTypeOK, DeletionOrder
<1>3. DeletionOrder' /\ ServiceFreedLast'
    BY <1>1, <1>2 DEF DeletionOrder, ServiceFreedLast
<1>4. CASE server_socket_accept
    <2>1. PICK k \in Conns :
            /\ conn[k] = "backlog" /\ conn' = [conn EXCEPT ![k] = "open"]
            /\ clients' = clients \cup {k} /\ accept' = [pc |-> "clean", client |-> k]
            /\ worker' = worker
        BY <1>4 DEF server_socket_accept
    <2>2. worker[k].pc = "none"
        BY <2>1 DEF ServiceInv, StartedOnce, Early
    <2>3. ConnForward /\ conn'[k] \notin Early
        BY <2>1 DEF ConnForward, Early, ServiceInv, ServiceTypeOK
    <2> QED BY <1>1, <1>3, <2>1, <2>2, <2>3
            DEF ServiceInv, ServiceTypeOK, UsersKnown, StartedOnce, ConnForward
<1>5. CASE service_clean
    <2>1. /\ accept.pc = "clean" /\ accept' = [accept EXCEPT !.pc = "start"]
          /\ UNCHANGED <<clients, worker>>
        BY <1>5 DEF service_clean, AcceptGo
    <2>2. ConnForward
        BY <1>5 DEF service_clean, service_delete_clients, CloseConn, ConnForward, Early
    <2>3. accept'.pc = "start" /\ accept'.client = accept.client
          /\ accept' \in [pc : {"clean", "start"}, client : Conns]
        BY <2>1 DEF ServiceInv, ServiceTypeOK
    <2> QED BY <1>1, <1>3, <2>1, <2>2, <2>3
            DEF ServiceInv, ServiceTypeOK, UsersKnown, StartedOnce, ConnForward
<1>6. CASE service_start_client
    <2>1. /\ accept.pc = "start" /\ accept'.pc \in {"accept", "end"}
          /\ accept' \in [pc : {"accept", "end"}] /\ accept.client \in Conns
          /\ WorkerGo(accept.client, [pc |-> "request"])
          /\ UNCHANGED <<clients, conn>>
        BY <1>6 DEF service_start_client, listVars, ServiceInv, ServiceTypeOK
    <2>2. /\ DOMAIN worker' = Conns
          /\ \A j \in Conns \ {accept.client} : worker'[j] = worker[j]
        BY <2>1, WorkerGoes
    <2> QED BY <1>1, <1>3, <2>1, <2>2
            DEF ServiceInv, ServiceTypeOK, UsersKnown, StartedOnce
<1>7. CASE service_run_end
    <2>1. accept' = [pc |-> "end"] /\ UNCHANGED <<clients, conn, worker>>
        BY <1>7 DEF service_run_end, listVars
    <2> QED BY <1>1, <1>3, <2>1 DEF ServiceInv, ServiceTypeOK, UsersKnown, StartedOnce
<1> QED BY <1>4, <1>5, <1>6, <1>7 DEF Accepting

(* The steps of the application thread while the service runs, and until   *)
(* the exports are deleted                                                 *)
LEMMA ApplicationSteps ==
    ASSUME ServiceInv,
           \/ service_export \/ service_export_add \/ delete_service_begin
           \/ delete_service_unlisten \/ delete_service_exports
    PROVE ServiceInv'
<1>1. UNCHANGED <<accept, worker, clients>> /\ ConnForward
    BY DEF service_export, service_export_add, delete_service_begin, delete_service_unlisten,
           delete_service_exports, AppStep, ServiceVars, listVars, ConnForward, Early,
           ServiceInv, ServiceTypeOK
<1>2. service'.freed = service.freed /\ main.pc \in {"run", "join", "exports"}
    BY DEF service_export, service_export_add, delete_service_begin, delete_service_unlisten,
           delete_service_exports, ServiceVars, ServiceInv, DeletionOrder, ServiceTypeOK
<1>3. /\ main'.pc \in {"run", "join", "exports", "take"}
      /\ "pc" \in DOMAIN main' /\ "freed" \in DOMAIN service'
    BY DEF service_export, service_export_add, delete_service_begin, delete_service_unlisten,
           delete_service_exports, ServiceVars, ServiceInv, ServiceTypeOK
<1>4. main'.pc \in {"exports", "take"} => accept.pc = "end"
    BY DEF service_export, service_export_add, delete_service_begin, delete_service_unlisten,
           delete_service_exports, ServiceInv, DeletionOrder, ServiceTypeOK
<1> QED BY <1>1, <1>2, <1>3, <1>4
        DEF ServiceInv, ServiceTypeOK, UsersKnown, StartedOnce, DeletionOrder,
            ServiceFreedLast, ConnForward

(* The clients whose threads may still use the service are joined.         *)
LEMMA TakeStep ==
    ASSUME ServiceInv, delete_service_take
    PROVE ServiceInv'
<1>1. /\ UNCHANGED <<accept, worker, conn, service>> /\ clients' = {}
      /\ main.pc = "take" /\ main'.pc = "clients" /\ main'.join = clients
      /\ "pc" \in DOMAIN main'
    BY DEF delete_service_take, AppStep
<1> QED BY <1>1 DEF ServiceInv, ServiceTypeOK, UsersKnown, StartedOnce, DeletionOrder,
                    ServiceFreedLast

(* All of them have ended when the service is freed.                       *)
LEMMA FreeStep ==
    ASSUME ServiceInv, delete_service_free
    PROVE ServiceInv'
<1>1. /\ UNCHANGED <<accept, worker, clients>>
      /\ main.pc = "clients" /\ main'.pc = "freed"
      /\ \A k \in main.join : worker[k].pc = "done"
      /\ "pc" \in DOMAIN main' /\ "freed" \in DOMAIN service'
    BY DEF delete_service_free, AppStep, ServiceInv, ServiceTypeOK
<1>2. ConnForward
    BY DEF delete_service_free, service_delete_clients, CloseConn, ConnForward, Early
<1>3. \A k \in Conns : worker[k].pc \in NotUsing
    BY <1>1 DEF ServiceInv, UsersKnown, DeletionOrder, NotUsing
<1> QED BY <1>1, <1>2, <1>3
        DEF ServiceInv, ServiceTypeOK, UsersKnown, StartedOnce, DeletionOrder,
            ServiceFreedLast, ConnForward, NotUsing

LEMMA ServiceInvNext == ServiceInv /\ [Next]_vars => ServiceInv'
<1> SUFFICES ASSUME ServiceInv, [Next]_vars PROVE ServiceInv'
    OBVIOUS
<1>1. CASE service_export \/ service_export_add \/ delete_service_begin
    BY <1>1, ApplicationSteps
<1>2. CASE Deletion
    BY <1>2, ApplicationSteps, TakeStep, FreeStep DEF Deletion
<1>3. CASE Accepting
    BY <1>3, AcceptSteps
<1>4. CASE \E k \in Conns : Asks(k)
    BY <1>4, PeerSteps
<1>5. CASE \E k \in Conns : Handles(k)
    BY <1>5, HandleSteps
<1>6. CASE AppQuit \/ Finished \/ UNCHANGED vars
    <2>1. UNCHANGED <<main, accept, service, clients, worker, conn>>
        BY <1>6 DEF AppQuit, Finished, vars, listVars
    <2> QED BY <2>1, ServiceAlone DEF ConnForward, ServiceInv, ServiceTypeOK
<1> QED BY <1>1, <1>2, <1>3, <1>4, <1>5, <1>6 DEF Next

(* delete_service frees the record of the service and the mutex of its     *)
(* clients when service_run and the threads of all the clients that may    *)
(* still use them have ended, whatever the number of connections.  The     *)
(* exports and their mutex are deleted earlier; this does not speak of     *)
(* them.                                                                   *)
THEOREM ServiceCorrect == Spec => []ServiceFreedLast
<1>1. ServiceInv => ServiceFreedLast
    BY DEF ServiceInv
<1> QED BY <1>1, ServiceInvInit, ServiceInvNext, PTL DEF Spec

-----------------------------------------------------------------------------
(* What the threads of a service do to the exports are steps of Exports:   *)
(* the threads of the clients only look.                                   *)
LEMMA ServiceExports == [Next]_vars => [ExportsNext]_exportVars
<1> SUFFICES ASSUME [Next]_vars PROVE ExportsNext \/ UNCHANGED exportVars
    OBVIOUS
<1>1. CASE service_export \/ service_export_add
    BY <1>1 DEF service_export, service_export_add, ExportsNext
<1>2. CASE delete_service_begin
    BY <1>2 DEF delete_service_begin
<1>3. CASE Deletion
    BY <1>3 DEF Deletion, delete_service_unlisten, delete_service_exports, delete_service_take,
                delete_service_free, ExportsNext
<1>4. CASE Accepting
    BY <1>4 DEF Accepting, server_socket_accept, service_clean, service_start_client,
                service_run_end, AcceptStep
<1>5. CASE \E k \in Conns : Asks(k)
    BY <1>5 DEF Asks, open_tcp_socket, http_send_request, response_parse_html, PeerStep
<1>6. CASE \E k \in Conns : Handles(k)
    BY <1>6 DEF Handles, Parses, service_parse_request, service_parse_closed,
                service_parse_quit, service_lookup, service_call_export,
                service_remove_client, service_close_client, WorkerStep
<1>7. CASE AppQuit \/ Finished \/ UNCHANGED vars
    BY <1>7 DEF AppQuit, Finished, vars
<1> QED BY <1>1, <1>2, <1>3, <1>4, <1>5, <1>6, <1>7 DEF Next

(* In a running service, a lookup finds the handler that was exported last *)
(* under either spelling of a uri, and what a client is promised while     *)
(* service_export is between its two critical sections.                    *)
THEOREM ServiceLookup == Spec => []LatestExportFound
<1>1. Init => ExportsInv
    BY InvInit DEF Init
<1>2. ExportsInv /\ [Next]_vars => ExportsInv'
    BY ServiceExports, InvNext
<1> QED BY <1>1, <1>2, LookupRight, PTL DEF Spec

-----------------------------------------------------------------------------
(* The answers                                                             *)

(* What the export h writes                                                *)
Written(h) == IF h = Index THEN Page ELSE Answer("200", Body[h])

(* The right answer to a request is among those that are remembered, from  *)
(* its sending on.  What a thread has found is: an index page too, because *)
(* the page that is right now is remembered with every other one.  A       *)
(* request that the process did not read, or only a part of, is apart.     *)
AnswersKnown ==
    \A k \in Conns :
        /\ peer[k].pc \in {"none", "connected"} =>
                /\ answer[k] = NoAnswer \/ Unread(k)
                /\ worker[k].pc \notin {"lookup", "call"}
        /\ peer[k].pc = "sent" =>
                /\ peer[k].uri \in Uris
                /\ Right(peer[k].uri) \in may[k]
                /\ worker[k].pc = "lookup" => worker[k].uri = peer[k].uri \/ k \in partly
                /\ worker[k].pc = "call" => Written(worker[k].handler) \in may[k] \/ k \in partly
                /\ answer[k] # NoAnswer => answer[k] \in may[k] \/ Unread(k)

AnswerInv ==
    /\ DOMAIN worker = Conns /\ DOMAIN peer = Conns
    /\ DOMAIN may = Conns /\ DOMAIN answer = Conns
    /\ AnswersKnown

LEMMA AnswerInvInit == Init => AnswerInv
BY DEF Init, None, AnswerInv, AnswersKnown

(* An index page lists what is exported, but for the wildcard.             *)
LEMMA IndexRight ==
    ASSUME ExportsInv
    PROVE IndexPage({Path(n) : n \in service_index}) = Page
<1> DEFINE wild == Slash[Wildcard]
<1>1. wild \in Slashed /\ \A i \in DOMAIN exports : Path(exports[i].name) \in Slashed
    BY Entry, PathSlashed, ExportsAssumption DEF ExportsInv
<1>2. \A u \in Slashed : u \in DOMAIN made <=> \E i \in DOMAIN exports : Path(exports[i].name) = u
    <2>1. \A u \in Slashed : u \in DOMAIN made <=> At(u) # {}
        BY DEF ExportsInv, FirstIsLatest, IsFirst
    <2> QED BY <2>1 DEF At
<1>3. \A i \in DOMAIN exports : Path(exports[i].name) = wild <=> exports[i].name = Wildcard
    BY FoundWildcard DEF ExportsInv, At
<1>4. DOMAIN made \subseteq Slashed
    BY DEF ExportsInv, ExportsTypeOK
<1> DEFINE paths == {Path(n) : n \in service_index}
<1>5. paths = DOMAIN made \ {wild}
    <2>1. ASSUME NEW u \in paths PROVE u \in DOMAIN made \ {wild}
        <3>1. PICK i \in DOMAIN exports : u = Path(exports[i].name) /\ exports[i].name # Wildcard
            BY <2>1 DEF service_index
        <3> QED BY <3>1, <1>1, <1>2, <1>3
    <2>2. ASSUME NEW u \in DOMAIN made \ {wild} PROVE u \in paths
        <3>1. PICK i \in DOMAIN exports : Path(exports[i].name) = u
            BY <1>2, <1>4
        <3>2. exports[i].name \in service_index
            BY <3>1, <1>3 DEF service_index
        <3> QED BY <3>1, <3>2
    <2> QED BY <2>1, <2>2
<1> HIDE DEF paths
<1>6. IndexPage(paths) = Page
    BY <1>5 DEF IndexPage, Page
<1> QED BY <1>6 DEF paths

(* A step that changes neither the requests nor the answers, and after     *)
(* which no thread has found anything more                                 *)
LEMMA AnswersAlone ==
    ASSUME AnswerInv, UNCHANGED <<made, peer, may, answer, partly>>, app_quit => app_quit',
           DOMAIN worker' = Conns,
           \A k \in Conns : worker'[k].pc \in {"lookup", "call"} => worker'[k] = worker[k]
    PROVE AnswerInv'
<1>1. Page' = Page /\ \A u : Right(u)' = Right(u)
    BY DEF Page, Right, Promised
<1>2. \A h : Written(h)' = Written(h)
    BY <1>1 DEF Written
<1>3. \A k : Unread(k) => Unread(k)'
    BY DEF Unread
<1> QED BY <1>1, <1>2, <1>3 DEF AnswerInv, AnswersKnown

(* A step that changes what is exported                                    *)
LEMMA AnswersExports ==
    ASSUME AnswerInv, UNCHANGED <<app_quit, peer, answer, worker, partly>>, ExportsChange
    PROVE AnswerInv'
<1>1. Page.body = <<"page">>
    BY DEF Page, IndexPage
<1>2. ASSUME NEW k \in Conns, peer[k].pc = "sent"
      PROVE /\ may[k] \subseteq may'[k] /\ Right(peer[k].uri)' \in may'[k]
            /\ Page \in may[k] => Page' \in may'[k]
    <2> DEFINE r == Right(peer[k].uri)'
               p == Page'
    <2>1. may'[k] = may[k] \cup {r} \cup {p : a \in {b \in may[k] : b.body = <<"page">>}}
        BY <1>2 DEF ExportsChange
    <2> HIDE DEF r, p
    <2>2. r \in may'[k] /\ (Page \in may[k] => p \in may'[k])
        BY <2>1, <1>1
    <2> QED BY <2>1, <2>2 DEF r, p
<1>3. ASSUME NEW k \in Conns, NEW h, peer[k].pc = "sent", Written(h) \in may[k]
      PROVE Written(h)' \in may'[k]
    <2>1. CASE h = Index
        BY <1>2, <1>3, <2>1 DEF Written
    <2>2. CASE h # Index
        BY <1>2, <1>3, <2>2 DEF Written
    <2> QED BY <2>1, <2>2
<1>4. DOMAIN may' = Conns
    BY DEF ExportsChange
<1>5. \A k : Unread(k)' <=> Unread(k)
    BY DEF Unread
<1> QED BY <1>2, <1>3, <1>4, <1>5 DEF AnswerInv, AnswersKnown

(* A request may be answered with what is right when it is sent.           *)
LEMMA AnswersPeers ==
    ASSUME AnswerInv, NEW k \in Conns, Asks(k)
    PROVE AnswerInv'
<1>1. UNCHANGED <<app_quit, made, worker, answer>>
    BY DEF Asks, open_tcp_socket, http_send_request, response_parse_html, PeerStep, exportVars
<1>2. Page' = Page /\ \A u : Right(u)' = Right(u)
    BY <1>1 DEF Page, Right, Promised
<1>3. \A h : Written(h)' = Written(h)
    BY <1>2 DEF Written
<1>4. /\ DOMAIN peer' = Conns /\ DOMAIN may' = Conns
      /\ \A j \in Conns \ {k} : peer'[j] = peer[j] /\ may'[j] = may[j]
    BY DEF Asks, open_tcp_socket, http_send_request, response_parse_html, AnswerInv
<1>5. \A j \in Conns \ {k} : Unread(j)' = Unread(j) /\ (j \in partly' <=> j \in partly)
    BY <1>1 DEF Asks, open_tcp_socket, http_send_request, response_parse_html, Unread
<1>6. CASE open_tcp_socket(k) \/ http_send_request(k)
    <2>1. peer[k].pc \in {"none", "connected"} /\ partly' = partly
        BY <1>6 DEF open_tcp_socket, http_send_request, None, AnswerInv
    <2>2. /\ answer'[k] = NoAnswer \/ Unread(k)'
          /\ worker'[k].pc \notin {"lookup", "call"}
        BY <1>1, <2>1 DEF AnswerInv, AnswersKnown, Unread
    <2>3. \/ peer'[k].pc \in {"connected", "left"}
          \/ \E u \in Uris : /\ peer'[k] = [pc |-> "sent", uri |-> u]
                             /\ Right(u) \in may'[k]
        BY <1>6 DEF open_tcp_socket, http_send_request, AnswerInv
    <2> QED BY <1>1, <1>2, <1>3, <1>4, <1>5, <2>2, <2>3 DEF AnswerInv, AnswersKnown
<1>7. CASE response_parse_html(k)
    <2>1. peer'[k].pc = "done"
        BY <1>7 DEF response_parse_html, AnswerInv
    <2> QED BY <1>1, <1>2, <1>3, <1>4, <1>5, <2>1 DEF AnswerInv, AnswersKnown
<1> QED BY <1>6, <1>7 DEF Asks

(* A step of the thread of client k: what it has found, and what it sends  *)
LEMMA AnswersWorker ==
    ASSUME AnswerInv, NEW k \in Conns, UNCHANGED <<made, peer, may, app_quit>>,
           partly' \in {partly, partly \cup {k}},
           NEW r, WorkerGo(k, r), NEW a, answer' = answer \/ Send(k, a),
           \/ answer' = answer
           \/ app_quit /\ a = Answer("400", <<>>)
           \/ /\ peer[k].pc \notin {"none", "connected"}
              /\ peer[k].pc = "sent" => a \in may[k] \/ k \in partly',
           r.pc \in {"lookup", "call"} => peer[k].pc \notin {"none", "connected"},
           peer[k].pc = "sent" /\ r.pc = "lookup" => r.uri = peer[k].uri \/ k \in partly',
           peer[k].pc = "sent" /\ r.pc = "call" => Written(r.handler) \in may[k] \/ k \in partly'
    PROVE AnswerInv'
<1>1. Page' = Page /\ \A u : Right(u)' = Right(u)
    BY DEF Page, Right, Promised
<1>2. \A h : Written(h)' = Written(h)
    BY <1>1 DEF Written
<1>3. /\ DOMAIN worker' = Conns /\ worker'[k] = r
      /\ \A j \in Conns \ {k} : worker'[j] = worker[j]
    BY DEF WorkerGo, AnswerInv
<1>4. /\ DOMAIN answer' = Conns /\ \A j \in Conns \ {k} : answer'[j] = answer[j]
      /\ answer' = answer \/ answer'[k] = a
    BY DEF Send, AnswerInv
<1>5. \A j \in Conns : j \in partly => j \in partly'
    OBVIOUS
<1>6. \A j \in Conns \ {k} : Unread(j) => Unread(j)'
    BY <1>4, <1>5 DEF Unread
<1>7. answer'[k] = NoAnswer \/ Unread(k)' \/ peer[k].pc \notin {"none", "connected"}
    BY <1>4, <1>5 DEF AnswerInv, AnswersKnown, Unread
<1>8. peer[k].pc = "sent" => \/ answer'[k] = NoAnswer
                            \/ answer'[k] \in may[k]
                            \/ Unread(k)'
    BY <1>4, <1>5 DEF AnswerInv, AnswersKnown, Unread
<1>9. \A j \in Conns : peer[j].pc \in {"none", "connected"} =>
            /\ answer'[j] = NoAnswer \/ Unread(j)'
            /\ worker'[j].pc \notin {"lookup", "call"}
    BY <1>3, <1>4, <1>6, <1>7 DEF AnswerInv, AnswersKnown
<1>10. \A j \in Conns : peer[j].pc = "sent" =>
            /\ peer[j].uri \in Uris
            /\ Right(peer[j].uri) \in may[j]
            /\ worker'[j].pc = "lookup" => worker'[j].uri = peer[j].uri \/ j \in partly'
            /\ worker'[j].pc = "call" => Written(worker'[j].handler) \in may[j] \/ j \in partly'
            /\ answer'[j] # NoAnswer => answer'[j] \in may[j] \/ Unread(j)'
    BY <1>3, <1>4, <1>5, <1>6, <1>8 DEF AnswerInv, AnswersKnown
<1> QED BY <1>1, <1>2, <1>3, <1>4, <1>9, <1>10 DEF AnswerInv, AnswersKnown

(* The request of a client is read as it was sent.                         *)
LEMMA AnswersParse ==
    ASSUME RequestsRead, AnswerInv, NEW k \in Conns, service_parse_request(k)
    PROVE AnswerInv'
<1>1. UNCHANGED <<made, peer, may, app_quit, partly>>
    BY DEF service_parse_request, WorkerStep, exportVars, peerVars
<1>2. PICK r \in Parsed :
          /\ peer[k].pc \in {"sent", "left"}
          /\ r.uri = IF peer[k].pc = "sent" THEN peer[k].uri ELSE "none"
          /\ IF r.result.ret = "ok"
             THEN /\ WorkerGo(k, [pc |-> "lookup", uri |-> r.result.request.uri[1]])
                  /\ UNCHANGED answer
             ELSE /\ WorkerGo(k, [pc |-> "remove"])
                  /\ Send(k, Answer("500", <<>>))
    BY DEF service_parse_request
<1>3. peer[k].pc = "sent" => /\ r.result.ret = "ok"
                             /\ r.result.request.uri[1] = peer[k].uri
    BY <1>2 DEF RequestsRead, AnswerInv, AnswersKnown
<1> DEFINE uri == r.result.request.uri[1]
<1> HIDE DEF uri
<1>4. CASE r.result.ret = "ok"
    <2>1. WorkerGo(k, [pc |-> "lookup", uri |-> uri]) /\ answer' = answer
        BY <1>2, <1>4 DEF uri
    <2>2. peer[k].pc = "sent" => uri = peer[k].uri
        BY <1>3 DEF uri
    <2> QED BY <1>1, <1>2, <2>1, <2>2, AnswersWorker
<1>5. CASE r.result.ret # "ok"
    BY <1>1, <1>2, <1>3, <1>5, AnswersWorker
<1> QED BY <1>4, <1>5

(* If the loop ends, that is known.                                        *)
LEMMA AnswersParseEnds ==
    ASSUME AnswerInv, NEW k \in Conns, service_parse_closed(k) \/ service_parse_quit(k)
    PROVE AnswerInv'
<1>1. UNCHANGED <<made, peer, may, app_quit>>
    BY DEF service_parse_closed, service_parse_quit, WorkerStep, exportVars, peerVars
<1>2. CASE service_parse_closed(k)
    <2>1. WorkerGo(k, [pc |-> "remove"]) /\ answer' = answer /\ partly' = partly
        BY <1>2 DEF service_parse_closed
    <2> QED BY <1>1, <2>1, AnswersWorker
<1>3. CASE service_parse_quit(k)
    <2>1. CASE WorkerGo(k, [pc |-> "remove"]) /\ Send(k, Answer("400", <<>>)) /\ UNCHANGED partly
        <3>1. app_quit
            BY <1>3 DEF service_parse_quit
        <3> QED BY <1>1, <2>1, <3>1, AnswersWorker
    <2>2. CASE /\ peer[k].pc = "sent"
               /\ \E u \in Uris \ {peer[k].uri} : WorkerGo(k, [pc |-> "lookup", uri |-> u])
               /\ partly' = partly \cup {k}
               /\ UNCHANGED answer
        <3>1. PICK u \in Uris : WorkerGo(k, [pc |-> "lookup", uri |-> u])
            BY <2>2
        <3>2. k \in partly' /\ partly' \in {partly, partly \cup {k}}
            BY <2>2
        <3> QED BY <1>1, <2>2, <3>1, <3>2, AnswersWorker
    <2> QED BY <1>3, <2>1, <2>2 DEF service_parse_quit
<1> QED BY <1>2, <1>3

(* What the lookup finds is right, and so is what is written.              *)
LEMMA AnswersLookup ==
    ASSUME ExportsInv, AnswerInv, NEW k \in Conns, service_lookup(k)
    PROVE AnswerInv'
<1>1. UNCHANGED <<made, peer, may, app_quit, partly>> /\ worker[k].pc = "lookup"
    BY DEF service_lookup, WorkerStep, exportVars, peerVars
<1>2. CASE UNCHANGED <<worker, answer>>
    BY <1>1, <1>2, AnswersAlone DEF AnswerInv
<1>3. peer[k].pc \notin {"none", "connected"}
    BY <1>1 DEF AnswerInv, AnswersKnown
<1> DEFINE h == service_get_export(worker[k].uri)
<1>4. CASE IF h = NotFound
           THEN WorkerGo(k, [pc |-> "remove"]) /\ Send(k, Answer("400", <<>>))
           ELSE WorkerGo(k, [pc |-> "call", handler |-> h]) /\ UNCHANGED answer
    <2>1. ASSUME peer[k].pc = "sent", k \notin partly
          PROVE /\ Right(worker[k].uri) \in may[k]
                /\ h = Promised(worker[k].uri)
        <3>1. worker[k].uri = peer[k].uri /\ peer[k].uri \in Uris /\ Right(peer[k].uri) \in may[k]
            BY <1>1, <2>1 DEF AnswerInv, AnswersKnown
        <3>2. peer[k].uri \in Slashed
            BY <3>1, ServiceAssumption
        <3> QED BY <3>1, <3>2, LookupRight DEF LatestExportFound
    <2>2. peer[k].pc = "sent" /\ k \notin partly =>
                IF h = NotFound THEN Answer("400", <<>>) \in may[k] ELSE Written(h) \in may[k]
        BY <2>1 DEF Right, Written
    <2> HIDE DEF h
    <2>3. CASE h = NotFound
        BY <1>1, <1>3, <1>4, <2>2, <2>3, AnswersWorker
    <2>4. CASE h # NotFound
        <3>1. WorkerGo(k, [pc |-> "call", handler |-> h]) /\ answer' = answer
            BY <1>4, <2>4
        <3> QED BY <1>1, <1>3, <2>2, <2>4, <3>1, AnswersWorker
    <2> QED BY <2>3, <2>4
<1> QED BY <1>2, <1>4 DEF service_lookup, Lock

LEMMA AnswersCall ==
    ASSUME ExportsInv, AnswerInv, NEW k \in Conns, service_call_export(k)
    PROVE AnswerInv'
<1>1. UNCHANGED <<made, peer, may, app_quit, partly>> /\ worker[k].pc = "call"
    BY DEF service_call_export, WorkerStep, exportVars, peerVars
<1>2. CASE UNCHANGED <<worker, answer>>
    BY <1>1, <1>2, AnswersAlone DEF AnswerInv
<1> DEFINE a == Written(worker[k].handler)
<1>3. /\ peer[k].pc \notin {"none", "connected"}
      /\ peer[k].pc = "sent" => a \in may[k] \/ k \in partly
    BY <1>1 DEF AnswerInv, AnswersKnown
<1>4. CASE Send(k, a) /\ WorkerGo(k, [pc |-> "remove"])
    <2> HIDE DEF a
    <2> QED BY <1>1, <1>3, <1>4, AnswersWorker
<1> QED BY <1>2, <1>4, IndexRight DEF service_call_export, Lock, Written

LEMMA AnswerInvNext ==
    ASSUME RequestsRead, ExportsInv, AnswerInv, [Next]_vars
    PROVE AnswerInv'
<1>1. CASE service_export \/ service_export_add \/ delete_service_exports
    BY <1>1, AnswersExports DEF service_export, service_export_add, delete_service_exports, AppStep
<1>2. CASE \/ delete_service_begin \/ delete_service_unlisten
           \/ delete_service_take \/ delete_service_free
    <2>1. UNCHANGED <<made, peer, may, answer, worker, app_quit, partly>>
        BY <1>2 DEF delete_service_begin, delete_service_unlisten, delete_service_take,
                    delete_service_free, AppStep, exportVars
    <2> QED BY <2>1, AnswersAlone DEF AnswerInv
<1>3. CASE server_socket_accept \/ service_clean \/ service_run_end
    <2>1. UNCHANGED <<made, peer, may, answer, worker, app_quit, partly>>
        BY <1>3 DEF server_socket_accept, service_clean, service_run_end, AcceptStep,
                    exportVars, peerVars
    <2> QED BY <2>1, AnswersAlone DEF AnswerInv
<1>4. CASE service_start_client
    <2>1. /\ UNCHANGED <<made, peer, may, answer, app_quit, partly>>
          /\ worker' = [worker EXCEPT ![accept.client] = [pc |-> "request"]]
        BY <1>4 DEF service_start_client, WorkerGo, AcceptStep, exportVars, peerVars
    <2>2. /\ DOMAIN worker' = Conns
          /\ \A k \in Conns : worker'[k].pc = "request" \/ worker'[k] = worker[k]
        BY <2>1 DEF AnswerInv
    <2> QED BY <2>1, <2>2, AnswersAlone
<1>5. ASSUME NEW k \in Conns, Asks(k) PROVE AnswerInv'
    BY <1>5, AnswersPeers
<1>6. ASSUME NEW k \in Conns, Handles(k) PROVE AnswerInv'
    <2>1. CASE service_remove_client(k) \/ service_close_client(k)
        <3>1. /\ UNCHANGED <<made, peer, may, answer, app_quit, partly>>
              /\ \E pc \in {"close", "done"} : WorkerGo(k, [pc |-> pc])
            BY <2>1 DEF service_remove_client, service_close_client, WorkerStep, exportVars,
                        peerVars
        <3> QED BY <3>1, AnswersWorker
    <2> QED BY <1>6, <2>1, AnswersParse, AnswersParseEnds, AnswersLookup, AnswersCall
            DEF Handles, Parses
<1>7. CASE AppQuit \/ Finished \/ UNCHANGED vars
    <2>1. UNCHANGED <<made, peer, may, answer, worker, partly>> /\ (app_quit => app_quit')
        BY <1>7 DEF AppQuit, Finished, vars, exportVars, peerVars
    <2> QED BY <2>1, AnswersAlone DEF AnswerInv
<1> QED BY <1>1, <1>2, <1>3, <1>4, <1>5, <1>6, <1>7 DEF Next, Deletion, Accepting

(* If requests are read as they were sent, every answer of the service is  *)
(* what was exported at some moment between the request and the answer,    *)
(* whatever is exported or deleted meanwhile and however many ask.         *)
THEOREM AnswersWereRight ==
    ASSUME RequestsRead
    PROVE Spec => []AnswerWasRight
<1>1. Init => ExportsInv /\ AnswerInv
    BY InvInit, AnswerInvInit DEF Init
<1>2. ExportsInv /\ AnswerInv /\ [Next]_vars => (ExportsInv /\ AnswerInv)'
    BY ServiceExports, InvNext, AnswerInvNext
<1>3. AnswerInv => AnswerWasRight
    BY DEF AnswerInv, AnswersKnown, AnswerWasRight
<1> QED BY <1>1, <1>2, <1>3, PTL DEF Spec
=============================================================================
