------------------------------ MODULE MCLaunch ------------------------------
(* The registry, a node and one that is disabled                           *)
EXTENDS Launch

MCNodes == <<"node", "disabled">>
=============================================================================
