--------------------------- MODULE CircularBuffer ---------------------------
(***************************************************************************)
(* The circular buffer of librcom/src/circular.c.  Every operation holds   *)
(* the mutex of the buffer from its first look at the positions to the     *)
(* end, so each one is a function from buffers to buffers.                 *)
(*                                                                         *)
(* Both positions run from 0 up to and including the length: a position    *)
(* that has reached the end stays there until the next operation wraps it. *)
(***************************************************************************)
EXTENDS Integers, Sequences

CONSTANTS Byte,     \* the values of a byte
          Unset     \* what r_alloc leaves in a new buffer

Buffer(size) == [buffer: [0..(size - 1) -> Byte \cup {Unset}], length: {size},
                 readpos: 0..size, writepos: 0..size]

new_circular_buffer(size) ==
    [buffer |-> [i \in 0..(size - 1) |-> Unset], length |-> size,
     readpos |-> 0, writepos |-> 0]

circular_buffer_data_available(r) ==
    IF r.writepos >= r.readpos THEN r.writepos - r.readpos
                               ELSE r.length + r.writepos - r.readpos

circular_buffer_space_available(r) ==
    IF r.writepos >= r.readpos THEN r.length + r.readpos - r.writepos
                               ELSE r.readpos - r.writepos

(* Where a position is after len bytes.  It only wraps past the end.       *)
Advance(r, pos, len) == IF pos + len > r.length THEN pos + len - r.length
                                                ELSE pos + len

(* The place of the k-th byte from a position                              *)
Place(r, pos, k) == IF pos + k - 1 < r.length THEN pos + k - 1
                                              ELSE pos + k - 1 - r.length

(* Up to len1 bytes go to the end of the buffer and the others, len2, to   *)
(* its beginning.  A write that is longer than the buffer is dropped;      *)
(* nothing else is compared with the read position.                        *)
circular_buffer_write(r, data) ==
    LET len  == Len(data)
        len1 == IF r.writepos + len > r.length THEN r.length - r.writepos ELSE len
        len2 == len - len1 IN
    IF len > r.length THEN r
    ELSE [buffer |-> [i \in 0..(r.length - 1) |->
                        IF i < len2 THEN data[len1 + i + 1]
                        ELSE IF r.writepos <= i /\ i < r.writepos + len1
                        THEN data[i - r.writepos + 1]
                        ELSE r.buffer[i]],
          length |-> r.length, readpos |-> r.readpos,
          writepos |-> Advance(r, r.writepos, len)]

(* The bytes that a read of len bytes copies, and the buffer afterwards.   *)
(* Nothing is compared with the write position.                            *)
Requested(r, len) == IF len > r.length THEN r.length ELSE len

BytesRead(r, len) ==
    [k \in 1..Requested(r, len) |-> r.buffer[Place(r, r.readpos, k)]]

(* Mutant: the read position stays where it is.                            *)
circular_buffer_read_again(r, len) == r

circular_buffer_read(r, len) ==
    [r EXCEPT !.readpos = Advance(r, r.readpos, Requested(r, len))]

(* The bytes that were written and not yet read, oldest first              *)
Contents(r) == BytesRead(r, circular_buffer_data_available(r))
=============================================================================
