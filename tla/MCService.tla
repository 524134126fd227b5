----------------------------- MODULE MCService -----------------------------
(* The index and the wildcard are exported; one uri is served only by the  *)
(* wildcard.                                                               *)
EXTENDS Service

MCPlain == {"a", "*"}
MCSlashed == {"/", "/a", "/*"}
MCSlash == "a" :> "/a" @@ "*" :> "/*"
MCCuts == 0..40
MCBody == "long" :> <<"x", "CR">>

(* The theorem about the answers relies on this.                           *)
ASSUME RequestsAreRead == RequestsRead
=============================================================================
