----------------------------- MODULE MCStreamer -----------------------------
(* Small instances of Streamer for TLC.                                    *)
EXTENDS Streamer, TLC

MCByte == (1..MaxParts) \X (1..(HeaderLen + CHOOSE m \in Lengths : \A n \in Lengths : n <= m))

(* The clients are interchangeable.                                        *)
MCSymmetry == Permutations(Clients)
=============================================================================
