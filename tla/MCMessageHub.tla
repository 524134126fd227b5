---------------------------- MODULE MCMessageHub ----------------------------
(* Small instances of MessageHub for TLC.                                  *)
EXTENDS MessageHub
=============================================================================
