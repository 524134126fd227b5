----------------------------- MODULE ByteStream -----------------------------
(***************************************************************************)
(* What a streamer promises each of its clients: a stream of bytes that    *)
(* come out in the order they went in, without gaps, copies or bytes that  *)
(* nobody wrote, and at most Capacity of them on their way.                *)
(***************************************************************************)
EXTENDS Naturals, Sequences, SequencesExt

CONSTANTS Clients, Capacity

VARIABLES in,   \* in[c]: the bytes written for c so far
          out   \* out[c]: the bytes that were taken out for c so far

Init == /\ in = [c \in Clients |-> <<>>]
        /\ out = [c \in Clients |-> <<>>]

Put(c) == /\ IsPrefix(in[c], in'[c])
          /\ Len(in'[c]) - Len(out[c]) <= Capacity
          /\ in' = [in EXCEPT ![c] = in'[c]]
          /\ UNCHANGED out

Get(c) == /\ \E n \in Len(out[c])..Len(in[c]) :
                out' = [out EXCEPT ![c] = SubSeq(in[c], 1, n)]
          /\ UNCHANGED in

Next == \E c \in Clients : Put(c) \/ Get(c)

Spec == Init /\ [][Next]_<<in, out>>
=============================================================================
