------------------------------ MODULE Registry ------------------------------
(***************************************************************************)
(* The list of registry entries and its operations (librcom/src/registry.c *)
(* and registry_priv.h).  Both the central rcregistry process and every    *)
(* proxy keep such a list.                                                 *)
(*                                                                         *)
(* An entry is a record.  Ids stand for the UUIDs of r_uuid(), names,      *)
(* topics and addresses are members of small sets.  endpoint is TRUE when  *)
(* the C field is a non-NULL pointer: the end-point lives in the process   *)
(* that keeps this list, and its pointer is identified with the entry's    *)
(* id, because an end-point is registered exactly once.                    *)
(***************************************************************************)
EXTENDS Naturals, Sequences, SequencesExt

CONSTANTS Ids,      \* the ids that can be given to end-points
          Names,    \* names that pass registry_valid_name
          Topics,   \* topics that pass registry_valid_topic
          Addrs,    \* IP address and port pairs
          Addr0,    \* the address 0.0.0.0:0 of an unconnected link
          NoAddr    \* the NULL address

ASSUME AddrAssumption == Addr0 \in Addrs /\ NoAddr \notin Addrs

Types == {"datalink", "datahub", "messagelink", "messagehub", "service",
          "streamer", "streamerlink"}

Entry == [id: Ids, name: Names, topic: Topics, type: Types, addr: Addrs,
          endpoint: BOOLEAN]

(* An entry as it travels in a JSON message: the pointer stays behind.     *)
registry_entry_encode(e) == [e EXCEPT !.endpoint = FALSE]

registry_entry_encode_list(s) ==
    [i \in 1..Len(s) |-> registry_entry_encode(s[i])]

(* What the proxy compares to decide that it already has an entry: all the *)
(* fields but the id and the end-point.                                    *)
entry_equals(e, f) == /\ e.type = f.type
                      /\ e.name = f.name
                      /\ e.topic = f.topic
                      /\ e.addr = f.addr

(* registry_count(registry, 0, name, topic, type, addr, NULL) # 0          *)
Known(s, e) == \E i \in 1..Len(s) : entry_equals(s[i], e)

IdsOf(s) == {s[i].id : i \in 1..Len(s)}

(* The position of the first entry with this id, 0 when there is none.     *)
FirstId(s, id) == SelectInSeq(s, LAMBDA e : e.id = id)

registry_insert(s, e) == Append(s, e)

(* Mutant: the entry at the end of the list goes, not the one with the id. *)
registry_delete_wrong(s, id) == IF id \in IdsOf(s) THEN Front(s) ELSE s

(* Only the first entry with the id is removed.                            *)
registry_delete(s, id) ==
    IF id \in IdsOf(s) THEN RemoveAt(s, FirstId(s, id)) ELSE s

(* Only the first entry with the id is changed; an unknown id is no error. *)
registry_update_addr(s, id, addr) ==
    IF id \in IdsOf(s)
    THEN [s EXCEPT ![FirstId(s, id)] = [@ EXCEPT !.addr = addr]]
    ELSE s

(* registry_select prepends its matches, so the first element of its       *)
(* result, the one that list_get() returns, is the last match of the list. *)
(* 0 when nothing matches.                                                 *)
LastSelected(s, topic, type) ==
    SelectLastInSeq(s, LAMBDA e : e.topic = topic /\ e.type = type)

(* The ids of the entries of a topic and type that have a local end-point. *)
LocalIds(s, topic, type) ==
    {s[i].id : i \in {j \in 1..Len(s) : /\ s[j].topic = topic
                                        /\ s[j].type = type
                                        /\ s[j].endpoint}}
=============================================================================
