---------------------------- MODULE MCDiscovery ----------------------------
(* Small instances of Discovery for TLC.                                   *)
EXTENDS Discovery

CONSTANTS regId, regName, regTopic, regAddr

MCRegistryEntry == [id |-> regId, name |-> regName, topic |-> regTopic,
                    type |-> "messagehub", addr |-> regAddr, endpoint |-> FALSE]

(* Processes, the ids and the addresses of end-points are interchangeable. *)
MCSymmetry == Permutations(Nodes) \cup Permutations(Ids \ {regId})
              \cup Permutations(Addrs \ {Addr0, regAddr})
=============================================================================
