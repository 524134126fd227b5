----------------------------- MODULE MCDataPath -----------------------------
(* Small instances of DataPath for TLC.                                    *)
EXTENDS DataPath
=============================================================================
