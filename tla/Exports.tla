------------------------------- MODULE Exports -------------------------------
(***************************************************************************)
(* The resources that a service exports (librcom/src/service.c, export.c): *)
(* a list, searched from the front, in which a name is found with or       *)
(* without the slash that begins a uri.  One thread exports, as in all the *)
(* programs of the repository; the threads of the clients only look.       *)
(***************************************************************************)
EXTENDS Integers, Sequences

CONSTANTS
    Plain,          \* the names without a slash in front
    Slashed,        \* the names, and the uris, with a slash in front
    Slash,          \* Slash[n]: n with a slash in front
    Exported,       \* the names that are exported
    Wildcard,       \* "*"
    Root,           \* "/"
    Handlers,       \* onrequest and its data
    Index,          \* the handler of the index page
    NotFound        \* no export

ASSUME ExportsAssumption ==
    /\ Plain \cap Slashed = {}
    /\ Slash \in [Plain -> Slashed]
    /\ \A m, n \in Plain : Slash[m] = Slash[n] => m = n
    /\ Exported \subseteq Plain \cup Slashed
    /\ Wildcard \in Plain /\ Slash[Wildcard] \notin Exported
    /\ Root \in Slashed /\ Root # Slash[Wildcard]
    /\ Index \in Handlers
    /\ NotFound \notin Handlers

VARIABLES
    exports,    \* service->exports, the first first
    exporter,   \* where the thread in service_export is
    made        \* history: the handler that was exported last for a uri

exportVars == <<exports, exporter, made>>

Names == Plain \cup Slashed

Idle == [pc |-> "idle"]

(* The uri under which a name is reached                                   *)
Path(n) == IF n \in Plain THEN Slash[n] ELSE n

export_matches(e, name) == name = e.name \/ (e.name \in Plain /\ name = Slash[e.name])

Found(name) == {i \in DOMAIN exports : export_matches(exports[i], name)}

First(S) == CHOOSE i \in S : \A j \in S : i <= j

(* Mutant: the wildcard is taken where it stands.                          *)
service_get_export_first(uri) ==
    LET S == Found(uri) \cup Found(Wildcard) IN
    IF S = {} THEN NotFound ELSE exports[First(S)].handler

(* service_get_export: the wildcard is looked for if nothing matches.      *)
service_get_export(uri) ==
    LET wild == {i \in DOMAIN exports : exports[i].name = Wildcard} IN
    IF Found(uri) # {} THEN exports[First(Found(uri))].handler
    ELSE IF wild # {} THEN exports[First(wild)].handler
    ELSE NotFound

(* service_index_html, service_index_json: the names but the wildcard      *)
service_index == {exports[i].name : i \in DOMAIN exports} \ {Wildcard}

-----------------------------------------------------------------------------
Make(name, h) == made' = [u \in DOMAIN made \cup {Path(name)} |->
                            IF u = Path(name) THEN h ELSE made[u]]

(* The first critical section of service_export: the name is there ...     *)
service_export_found(name, h) ==
    /\ exporter = Idle
    /\ Found(name) # {}
    /\ exports' = [exports EXCEPT ![First(Found(name))].handler = h]
    /\ Make(name, h)
    /\ UNCHANGED exporter

(* ... or it is not, and the mutex is released.                            *)
service_export_missing(name, h) ==
    /\ exporter = Idle
    /\ Found(name) = {}
    /\ exporter' = [pc |-> "prepend", name |-> name, handler |-> h]
    /\ UNCHANGED <<exports, made>>

(* The second critical section of service_export                           *)
service_export_prepend ==
    /\ exporter.pc = "prepend"
    /\ exports' = <<[name |-> exporter.name, handler |-> exporter.handler]>> \o exports
    /\ Make(exporter.name, exporter.handler)
    /\ exporter' = Idle

(* delete_service deletes the exports.                                     *)
delete_exports ==
    /\ exporter = Idle
    /\ exports' = <<>>
    /\ made' = [u \in {} |-> Index]
    /\ UNCHANGED exporter

(* new_service has exported the index.                                     *)
ExportsInit ==
    /\ exports = <<[name |-> Root, handler |-> Index]>>
    /\ exporter = Idle
    /\ made = [u \in {Root} |-> Index]

ExportsNext ==
    \/ \E n \in Exported, h \in Handlers :
            service_export_found(n, h) \/ service_export_missing(n, h)
    \/ service_export_prepend
    \/ delete_exports

ExportsSpec == ExportsInit /\ [][ExportsNext]_exportVars

-----------------------------------------------------------------------------
(* What service_export promises: the handler that was exported last for a  *)
(* uri, under either spelling, else the one of the wildcard.               *)
Promised(uri) ==
    IF uri \in DOMAIN made THEN made[uri]
    ELSE IF Slash[Wildcard] \in DOMAIN made THEN made[Slash[Wildcard]]
    ELSE NotFound

(* A lookup in the list finds the handler that was exported last, although *)
(* a resource may be in the list under two names and an export changes one *)
(* of the two entries.                                                     *)
LatestExportFound == \A uri \in Slashed : service_get_export(uri) = Promised(uri)
=============================================================================
