--------------------------- MODULE StreamerProofs ---------------------------
(***************************************************************************)
(* The streamer, for any number of clients and any sizes: the stream to    *)
(* every client is intact and consists of whole parts, and clients and     *)
(* streamer are freed after their last use.                                *)
(*                                                                         *)
(* For the stream, TypeOK, RoomKept and StreamIntact are inductive         *)
(* together, with PartNumber: the mutex of a buffer is released between    *)
(* the look at its space and the writes, so the invariant has to say that  *)
(* the space that was seen is still there (RoomKept), and that a write     *)
(* then appends (WriteAppends) is what keeps the stream intact.  Whole     *)
(* parts and lifetimes have invariants of their own (PartsInv, LifeInv).   *)
(***************************************************************************)
EXTENDS Streamer, SequenceTheorems, TLAPS

-----------------------------------------------------------------------------
(* The circular buffer, for every size: its operations append to and take  *)
(* from a queue, as long as a write leaves at least one byte of space and  *)
(* a read asks for no more than there is.                                  *)

(* The data and the space add up to the size of the buffer.                *)
LEMMA SpaceAndData ==
    ASSUME NEW size \in Nat \ {0}, NEW r \in Buffer(size)
    PROVE  /\ circular_buffer_data_available(r) \in 0..size
           /\ circular_buffer_space_available(r) \in 0..size
           /\ circular_buffer_data_available(r) + circular_buffer_space_available(r) = size
BY SMTT(30) DEF Buffer, circular_buffer_data_available, circular_buffer_space_available

(* A read of n bytes that fit in the buffer copies a sequence of n bytes.  *)
LEMMA BytesReadType ==
    ASSUME NEW size \in Nat \ {0}, NEW r \in Buffer(size), NEW n \in 0..size
    PROVE  /\ BytesRead(r, n) \in Seq(Byte \cup {Unset})
           /\ Len(BytesRead(r, n)) = n
           /\ \A k \in 1..n : BytesRead(r, n)[k] = r.buffer[Place(r, r.readpos, k)]
<1>1. Requested(r, n) = n
  BY DEF Requested, Buffer
<1>2. ASSUME NEW k \in 1..n PROVE Place(r, r.readpos, k) \in 0..(size - 1)
  BY DEF Place, Buffer
<1>3. \A k \in 1..n : r.buffer[Place(r, r.readpos, k)] \in Byte \cup {Unset}
  BY <1>2 DEF Buffer
<1>4. BytesRead(r, n) = [k \in 1..n |-> r.buffer[Place(r, r.readpos, k)]]
  BY <1>1 DEF BytesRead
<1>5. BytesRead(r, n) \in [1..n -> Byte \cup {Unset}]
  BY <1>3, <1>4
<1> QED
  BY <1>4, <1>5, IsASeq, LenProperties

(* What a buffer holds is a sequence of bytes, as long as the data          *)
(* available.                                                              *)
LEMMA ContentsType ==
    ASSUME NEW size \in Nat \ {0}, NEW r \in Buffer(size),
           NEW n, n = circular_buffer_data_available(r)
    PROVE  /\ n \in 0..size
           /\ Contents(r) \in Seq(Byte \cup {Unset})
           /\ Len(Contents(r)) = n
           /\ \A k \in 1..n : Contents(r)[k] = r.buffer[Place(r, r.readpos, k)]
<1>1. n \in 0..size
  BY SpaceAndData
<1>2. Contents(r) = BytesRead(r, n)
  BY DEF Contents
<1> QED
  BY <1>1, <1>2, BytesReadType

(* A new buffer is empty and has all its space.                            *)
LEMMA NewBuffer ==
    ASSUME NEW size \in Nat \ {0}
    PROVE  /\ new_circular_buffer(size) \in Buffer(size)
           /\ circular_buffer_space_available(new_circular_buffer(size)) = size
           /\ Contents(new_circular_buffer(size)) = <<>>
<1>1. /\ new_circular_buffer(size) \in Buffer(size)
      /\ circular_buffer_space_available(new_circular_buffer(size)) = size
      /\ circular_buffer_data_available(new_circular_buffer(size)) = 0
  BY DEF new_circular_buffer, Buffer, circular_buffer_space_available,
         circular_buffer_data_available
<1>2. /\ Contents(new_circular_buffer(size)) \in Seq(Byte \cup {Unset})
      /\ Len(Contents(new_circular_buffer(size))) = 0
  BY <1>1, BytesReadType DEF Contents
<1>3. Contents(new_circular_buffer(size)) = <<>>
  BY <1>2, EmptySeq
<1> QED
  BY <1>1, <1>3

(* A write of less than the space available appends its bytes to the       *)
(* contents and takes its length from the space.                           *)
LEMMA WriteAppends ==
    ASSUME NEW size \in Nat \ {0}, NEW r \in Buffer(size), NEW d \in Seq(Byte),
           Len(d) < circular_buffer_space_available(r)
    PROVE  /\ circular_buffer_write(r, d) \in Buffer(size)
           /\ circular_buffer_space_available(circular_buffer_write(r, d))
                = circular_buffer_space_available(r) - Len(d)
           /\ Contents(circular_buffer_write(r, d)) = Contents(r) \o d
<1> DEFINE len  == Len(d)
           rp   == r.readpos
           wp   == r.writepos
           len1 == IF wp + len > size THEN size - wp ELSE len
           len2 == len - len1
           w    == circular_buffer_write(r, d)
           wp2  == Advance(r, r.writepos, len)
           n    == circular_buffer_data_available(r)
           m    == circular_buffer_space_available(r)
           p(k) == IF rp + k - 1 < size THEN rp + k - 1 ELSE rp + k - 1 - size
<1>1. /\ r.length = size /\ rp \in 0..size /\ wp \in 0..size
      /\ r.buffer \in [0..(size - 1) -> Byte \cup {Unset}]
  BY DEF Buffer
<1>2. /\ n = IF wp >= rp THEN wp - rp ELSE size + wp - rp
      /\ m = IF wp >= rp THEN size + rp - wp ELSE rp - wp
  BY <1>1 DEF circular_buffer_data_available, circular_buffer_space_available
<1>3. len \in Nat /\ len < m
  BY LenProperties
<1>4. wp2 = IF wp + len > size THEN wp + len - size ELSE wp + len
  BY <1>1 DEF Advance
<1>5. /\ w.length = size /\ w.readpos = rp /\ w.writepos = wp2
      /\ w = [buffer |-> w.buffer, length |-> size, readpos |-> rp, writepos |-> wp2]
      /\ w.buffer = [i \in 0..(size - 1) |->
                        IF i < len2 THEN d[len1 + i + 1]
                        ELSE IF wp <= i /\ i < wp + len1 THEN d[i - wp + 1]
                        ELSE r.buffer[i]]
  <2>1. ~(len > r.length)
    BY <1>1, <1>2, <1>3
  <2> QED
    BY <1>1, <2>1 DEF circular_buffer_write
<1>6. \A k \in Nat : Place(r, r.readpos, k) = p(k) /\ Place(w, w.readpos, k) = p(k)
  BY <1>1, <1>5 DEF Place
<1>7. \A i \in 1..len : d[i] \in Byte
  BY ElementOfSeq
<1>8. /\ circular_buffer_data_available(w) = IF wp2 >= rp THEN wp2 - rp ELSE size + wp2 - rp
      /\ circular_buffer_space_available(w) = IF wp2 >= rp THEN size + rp - wp2 ELSE rp - wp2
  BY <1>5 DEF circular_buffer_data_available, circular_buffer_space_available
<1>9. /\ len1 = IF wp + len > size THEN size - wp ELSE len
      /\ len2 = len - len1
  OBVIOUS
<1> HIDE DEF len, rp, wp, len1, len2, w, wp2, n, m, p
<1>10. /\ len1 \in 0..len /\ len2 \in 0..len /\ len1 + len2 = len
       /\ wp2 \in 0..size /\ n \in 0..size /\ n + len \in 0..size
  BY <1>1, <1>2, <1>3, <1>4, <1>9
<1>11. ASSUME NEW i \in 0..(size - 1) PROVE w.buffer[i] \in Byte \cup {Unset}
  <2>1. CASE i < len2
    <3>1. len1 + i + 1 \in 1..len
      BY <2>1, <1>3, <1>10
    <3> QED
      BY <3>1, <2>1, <1>5, <1>7
  <2>2. CASE ~(i < len2) /\ wp <= i /\ i < wp + len1
    <3>1. i - wp + 1 \in 1..len
      BY <2>2, <1>1, <1>3, <1>10
    <3> QED
      BY <3>1, <2>2, <1>5, <1>7
  <2>3. CASE ~(i < len2) /\ ~(wp <= i /\ i < wp + len1)
    BY <2>3, <1>1, <1>5
  <2> QED
    BY <2>1, <2>2, <2>3
<1>12. w \in Buffer(size)
  BY <1>1, <1>5, <1>10, <1>11 DEF Buffer
<1>13. /\ circular_buffer_data_available(w) = n + len
       /\ circular_buffer_space_available(w) = m - len
  <2>1. /\ rp \in 0..size /\ wp \in 0..size
    BY <1>1
  <2>2. CASE wp >= rp
    <3>1. n = wp - rp /\ m = size + rp - wp
      BY <1>2, <2>2
    <3> QED
      BY <2>1, <2>2, <3>1, <1>3, <1>4, <1>8
  <2>3. CASE ~(wp >= rp)
    <3>1. n = size + wp - rp /\ m = rp - wp /\ wp2 = wp + len /\ wp2 < rp
      BY <1>2, <1>3, <1>4, <2>1, <2>3
    <3> QED
      BY <1>3, <1>8, <2>1, <3>1
  <2> QED
    BY <2>2, <2>3
<1>14. /\ Contents(r) \in Seq(Byte \cup {Unset}) /\ Len(Contents(r)) = n
       /\ \A k \in 1..n : Contents(r)[k] = r.buffer[Place(r, r.readpos, k)]
  BY ContentsType DEF n
<1>15. /\ Contents(w) \in Seq(Byte \cup {Unset}) /\ Len(Contents(w)) = n + len
       /\ \A k \in 1..(n + len) : Contents(w)[k] = w.buffer[Place(w, w.readpos, k)]
  <2>1. n + len = circular_buffer_data_available(w)
    BY <1>13
  <2> QED
    BY <2>1, <1>12, ContentsType
<1>16. d \in Seq(Byte \cup {Unset})
  BY SeqMonotonic
<1>17. /\ Contents(r) \o d \in Seq(Byte \cup {Unset})
       /\ Len(Contents(r) \o d) = n + len
       /\ \A k \in 1..(n + len) :
            (Contents(r) \o d)[k] = IF k <= n THEN Contents(r)[k] ELSE d[k - n]
  BY <1>14, <1>16, ConcatProperties DEF len
<1>18. ASSUME NEW k \in 1..(n + len) PROVE Contents(w)[k] = (Contents(r) \o d)[k]
  <2>1. k \in Nat /\ 1 <= k /\ k <= n + len /\ n \in Nat
    BY <1>3, <1>10
  <2> DEFINE pk == p(k)
  <2>2. pk = IF rp + k - 1 < size THEN rp + k - 1 ELSE rp + k - 1 - size
    BY DEF p
  <2>3. Contents(w)[k] = w.buffer[pk]
    BY <2>1, <1>6, <1>15
  <2> HIDE DEF pk
  <2>4. pk \in 0..(size - 1)
    BY <2>1, <2>2, <1>1, <1>3, <1>10
  <2>5. CASE k <= n
    <3>1. ~(pk < len2) /\ ~(wp <= pk /\ pk < wp + len1)
      BY <2>1, <2>2, <2>5, <1>1, <1>2, <1>3, <1>9
    <3>2. w.buffer[pk] = r.buffer[pk]
      BY <3>1, <2>4, <1>5
    <3>3. k \in 1..n
      BY <2>1, <2>5
    <3>4. Contents(r)[k] = r.buffer[pk]
      BY <3>3, <2>1, <1>6, <1>14 DEF pk
    <3> QED
      BY <3>2, <3>4, <2>3, <2>5, <1>17
  <2>6. CASE k > n
    <3>1. CASE wp + (k - n) <= size
      <4>1. /\ ~(pk < len2) /\ wp <= pk /\ pk < wp + len1
            /\ pk - wp + 1 = k - n
        BY <3>1, <2>1, <2>2, <2>6, <1>1, <1>2, <1>3, <1>9
      <4> QED
        BY <4>1, <2>3, <2>4, <2>6, <2>1, <1>5, <1>17
    <3>2. CASE wp + (k - n) > size
      <4>1. pk < len2 /\ len1 + pk + 1 = k - n
        BY <3>2, <2>1, <2>2, <2>6, <1>1, <1>2, <1>3, <1>9
      <4> QED
        BY <4>1, <2>3, <2>4, <2>6, <2>1, <1>5, <1>17
    <3>3. wp + (k - n) <= size \/ wp + (k - n) > size
      BY <2>1, <1>1
    <3> QED
      BY <3>1, <3>2, <3>3, Zenon
  <2>7. k <= n \/ k > n
    BY <2>1
  <2> QED
    BY <2>5, <2>6, <2>7, Zenon
<1>19. Contents(w) = Contents(r) \o d
  BY <1>15, <1>17, <1>18, SeqEqual
<1> QED
  BY <1>12, <1>13, <1>19 DEF w, m, len

(* A read of at most the data available takes its bytes from the front of  *)
(* the contents and adds its length to the space.                          *)
LEMMA ReadTakes ==
    ASSUME NEW size \in Nat \ {0}, NEW r \in Buffer(size), NEW len \in Nat,
           len <= circular_buffer_data_available(r)
    PROVE  /\ circular_buffer_read(r, len) \in Buffer(size)
           /\ circular_buffer_space_available(circular_buffer_read(r, len))
                = circular_buffer_space_available(r) + len
           /\ BytesRead(r, len) \in Seq(Byte \cup {Unset})
           /\ BytesRead(r, len) \o Contents(circular_buffer_read(r, len)) = Contents(r)
<1> DEFINE q   == circular_buffer_read(r, len)
           rp  == r.readpos
           wp  == r.writepos
           rp2 == Advance(r, r.readpos, len)
           n   == circular_buffer_data_available(r)
           m   == circular_buffer_space_available(r)
<1>1. /\ r.length = size /\ rp \in 0..size /\ wp \in 0..size
      /\ r.buffer \in [0..(size - 1) -> Byte \cup {Unset}]
  BY DEF Buffer
<1>2. /\ n = IF wp >= rp THEN wp - rp ELSE size + wp - rp
      /\ m = IF wp >= rp THEN size + rp - wp ELSE rp - wp
  BY <1>1 DEF circular_buffer_data_available, circular_buffer_space_available
<1>3. rp2 = IF rp + len > size THEN rp + len - size ELSE rp + len
  BY <1>1 DEF Advance
<1>4. len <= n /\ n \in 0..size
  BY SpaceAndData
<1>5. Requested(r, len) = len
  BY <1>1, <1>4 DEF Requested
<1>6. /\ q.buffer = r.buffer /\ q.length = size /\ q.writepos = wp /\ q.readpos = rp2
      /\ q = [r EXCEPT !.readpos = rp2]
  BY <1>1, <1>5 DEF circular_buffer_read, Buffer
<1>7. /\ circular_buffer_data_available(q) = IF wp >= rp2 THEN wp - rp2 ELSE size + wp - rp2
      /\ circular_buffer_space_available(q) = IF wp >= rp2 THEN size + rp2 - wp ELSE rp2 - wp
  BY <1>6 DEF circular_buffer_data_available, circular_buffer_space_available
<1>8. \A k \in Nat :
        /\ Place(r, r.readpos, k) = IF rp + k - 1 < size THEN rp + k - 1 ELSE rp + k - 1 - size
        /\ Place(q, q.readpos, k) = IF rp2 + k - 1 < size THEN rp2 + k - 1 ELSE rp2 + k - 1 - size
  BY <1>1, <1>6 DEF Place
<1> HIDE DEF q, rp, wp, rp2, n, m
<1>9. rp2 \in 0..size
  BY <1>1, <1>3, <1>4
<1>10. q \in Buffer(size)
  BY <1>6, <1>9 DEF Buffer
<1>11. /\ circular_buffer_data_available(q) = n - len
       /\ circular_buffer_space_available(q) = m + len
       /\ n - len \in 0..size /\ len \in 0..size
  BY <1>1, <1>2, <1>3, <1>4, <1>7
<1>12. /\ BytesRead(r, len) \in Seq(Byte \cup {Unset}) /\ Len(BytesRead(r, len)) = len
       /\ \A k \in 1..len : BytesRead(r, len)[k] = r.buffer[Place(r, r.readpos, k)]
  BY <1>11, BytesReadType
<1>13. /\ Contents(r) \in Seq(Byte \cup {Unset}) /\ Len(Contents(r)) = n
       /\ \A k \in 1..n : Contents(r)[k] = r.buffer[Place(r, r.readpos, k)]
  BY ContentsType DEF n
<1>14. /\ Contents(q) \in Seq(Byte \cup {Unset}) /\ Len(Contents(q)) = n - len
       /\ \A k \in 1..(n - len) : Contents(q)[k] = r.buffer[Place(q, q.readpos, k)]
  <2>1. n - len = circular_buffer_data_available(q)
    BY <1>11
  <2>2. /\ Contents(q) \in Seq(Byte \cup {Unset}) /\ Len(Contents(q)) = n - len
        /\ \A k \in 1..(n - len) : Contents(q)[k] = q.buffer[Place(q, q.readpos, k)]
    BY <2>1, <1>10, ContentsType
  <2> QED
    BY <2>2, <1>6
<1>15. /\ BytesRead(r, len) \o Contents(q) \in Seq(Byte \cup {Unset})
       /\ Len(BytesRead(r, len) \o Contents(q)) = n
       /\ \A k \in 1..n : (BytesRead(r, len) \o Contents(q))[k] =
             IF k <= len THEN BytesRead(r, len)[k] ELSE Contents(q)[k - len]
  <2>1. len + (n - len) = n
    BY <1>4
  <2> DEFINE s == BytesRead(r, len)
             t == Contents(q)
  <2>2. /\ s \in Seq(Byte \cup {Unset}) /\ t \in Seq(Byte \cup {Unset})
        /\ Len(s) = len /\ Len(t) = n - len
    BY <1>12, <1>14
  <2> HIDE DEF s, t
  <2>3. /\ s \o t \in Seq(Byte \cup {Unset})
        /\ Len(s \o t) = Len(s) + Len(t)
        /\ \A k \in 1..(Len(s) + Len(t)) :
              (s \o t)[k] = IF k <= Len(s) THEN s[k] ELSE t[k - Len(s)]
    BY <2>2, ConcatProperties
  <2>4. Len(s) + Len(t) = n
    BY <2>1, <2>2
  <2>5. /\ s \o t \in Seq(Byte \cup {Unset})
        /\ Len(s \o t) = n
        /\ \A k \in 1..n : (s \o t)[k] = IF k <= len THEN s[k] ELSE t[k - len]
    BY <2>2, <2>3, <2>4, Zenon
  <2> QED
    BY <2>5, Zenon DEF s, t
<1>16. ASSUME NEW k \in 1..n
       PROVE  (BytesRead(r, len) \o Contents(q))[k] = Contents(r)[k]
  <2>1. CASE k <= len
    <3>1. k \in 1..len
      BY <2>1, <1>4
    <3> QED
      BY <3>1, <2>1, <1>12, <1>13, <1>15
  <2>2. CASE k > len
    <3>1. k - len \in 1..(n - len) /\ k \in Nat /\ k - len \in Nat
      BY <2>2, <1>4
    <3>2. Place(q, q.readpos, k - len) = Place(r, r.readpos, k)
      BY <3>1, <2>2, <1>1, <1>2, <1>3, <1>4, <1>8
    <3>3. (BytesRead(r, len) \o Contents(q))[k] = Contents(q)[k - len]
      BY <3>1, <2>2, <1>15
    <3> QED
      BY <3>1, <3>2, <3>3, <1>13, <1>14
  <2>3. k <= len \/ k > len
    BY <1>4
  <2> QED
    BY <2>1, <2>2, <2>3, Zenon
<1>17. BytesRead(r, len) \o Contents(q) = Contents(r)
  BY <1>13, <1>15, <1>16, SeqEqual
<1> QED
  BY <1>10, <1>11, <1>12, <1>17 DEF q, m

-----------------------------------------------------------------------------
(* The streamer                                                            *)

(* The part that the data thread is writing has a number.                  *)
PartNumber == data.pc \in {"check", "header", "data"} => Len(parts) \in 1..MaxParts

(* The inductive invariant of the streamer                                 *)
IInv == TypeOK /\ PartNumber /\ RoomKept /\ StreamIntact

(* What the data thread writes is a sequence of bytes.                     *)
LEMMA PartType ==
    ASSUME TypeOK, PartNumber, data.pc \in {"header", "data"}
    PROVE  /\ data.client \in Clients /\ data.todo \in SUBSET Clients
           /\ data.len \in Lengths /\ data.len \in Nat
           /\ Header \in Seq(Byte) /\ Len(Header) = HeaderLen
           /\ Data \in Seq(Byte) /\ Len(Data) = data.len
<1>1. /\ data.client \in Clients /\ data.todo \in SUBSET Clients /\ data.len \in Lengths
  BY DEF TypeOK
<1>2. data.len \in Nat /\ HeaderLen \in Nat /\ Len(parts) \in 1..MaxParts
  BY <1>1, SizeAssumption DEF PartNumber
<1> DEFINE n == Len(parts)
           len == data.len
<1>3. \A k \in 1..(HeaderLen + len) : <<n, k>> \in Byte
  BY <1>1, <1>2, ByteAssumption
<1>4. /\ Header = [k \in 1..HeaderLen |-> <<n, 1 + k - 1>>]
      /\ Data = [k \in 1..len |-> <<n, HeaderLen + 1 + k - 1>>]
  <2>1. HeaderLen - 1 + 1 = HeaderLen /\ ((HeaderLen + data.len) - (HeaderLen + 1)) + 1 = data.len
    BY <1>2
  <2>2. Header = [k \in 1..(HeaderLen - 1 + 1) |-> <<n, 1 + k - 1>>]
    BY DEF Header, Part
  <2>3. Data = [k \in 1..(((HeaderLen + data.len) - (HeaderLen + 1)) + 1) |->
                  <<n, HeaderLen + 1 + k - 1>>]
    BY DEF Data, Part
  <2> QED
    BY <2>1, <2>2, <2>3, Zenon
<1> HIDE DEF n, len
<1>5. \A k \in 1..HeaderLen : 1 + k - 1 \in 1..(HeaderLen + len)
  BY <1>2 DEF len
<1>6. \A k \in 1..len : HeaderLen + 1 + k - 1 \in 1..(HeaderLen + len)
  BY <1>2 DEF len
<1>7. Header \in [1..HeaderLen -> Byte]
  BY <1>3, <1>4, <1>5
<1>8. Data \in [1..len -> Byte]
  BY <1>3, <1>4, <1>6
<1>9. Header \in Seq(Byte) /\ Len(Header) = HeaderLen
  BY <1>2, <1>7, SeqDef, LenProperties
<1>10. Data \in Seq(Byte) /\ Len(Data) = len
  BY <1>2, <1>8, SeqDef, LenProperties DEF len
<1> QED
  BY <1>1, <1>2, <1>9, <1>10 DEF len

(* A new streamer satisfies the invariant: no client has a buffer yet.      *)
LEMMA InitInvariant == Init => IInv
<1> SUFFICES ASSUME Init PROVE IInv
  OBVIOUS
<1>1. Size \in Nat \ {0}
  BY SizeAssumption
<1>2. \A c \in Clients : /\ buf[c] \in Buffer(Size)
                         /\ circular_buffer_space_available(buf[c]) = Size
                         /\ Contents(buf[c]) = <<>>
  BY <1>1, NewBuffer DEF Init
<1>3. buf \in [Clients -> Buffer(Size)]
  BY <1>2 DEF Init
<1>4. TypeOK
  <2>1. parts \in Seq(Lengths)
    BY EmptySeq DEF Init
  <2>2. written \in [Clients -> Seq(Byte)] /\ sent \in [Clients -> Seq(Byte \cup {Unset})]
    BY EmptySeq DEF Init
  <2>3. /\ server \in [pc: {"accept", "cleanup", "request", "done"}]
        /\ data \in [pc: {"idle", "done"}]
        /\ deleter \in [pc: {"none", "join_server", "join_data", "take_clients",
                              "delete_clients", "freed"}]
        /\ [pc |-> "none"] \in [pc: {"none", "headers", "loop", "read", "chunk",
                                     "remove", "done"}]
    BY DEF Init
  <2>4. /\ thread \in [Clients -> [pc: {"none", "headers", "loop", "read", "chunk",
                                        "remove", "done"}]]
        /\ object \in [Clients -> {"none", "alive", "leaked", "freed"}]
    BY DEF Init
  <2> QED
    BY <1>3, <2>1, <2>2, <2>3, <2>4 DEF Init, TypeOK
<1>5. RoomKept
  BY <1>1, <1>2 DEF Init, RoomKept
<1>6. <<>> \o <<>> = <<>>
  BY ConcatEmptySeq, EmptySeq
<1>7. StreamIntact
  BY <1>2, <1>6 DEF Init, StreamIntact
<1> QED
  BY <1>4, <1>5, <1>7 DEF Init, IInv, PartNumber

(* The stream is not touched by an action that leaves the buffers and the  *)
(* histories alone, and RoomKept survives if it also leaves what the data  *)
(* thread and the client threads have seen.                                *)
LEMMA UntouchedIntact ==
    ASSUME StreamIntact, UNCHANGED flowVars
    PROVE  StreamIntact'
BY DEF StreamIntact, flowVars

(* What the threads have seen stays as it is.                              *)
LEMMA UntouchedRoom ==
    ASSUME RoomKept, UNCHANGED <<buf, data, thread>>
    PROVE  RoomKept'
BY DEF RoomKept

(* The data thread and the client threads forget what they have seen.      *)
LEMMA ForgottenRoom ==
    ASSUME RoomKept, UNCHANGED buf,
           data' = data \/ data'.pc \notin {"header", "data"},
           \A c \in Clients : thread'[c] = thread[c] \/ thread'[c].pc # "take"
    PROVE  RoomKept'
BY DEF RoomKept

(* A write of the data thread appends to one buffer.                       *)
LEMMA WriteStep ==
    ASSUME IInv, NEW c \in Clients, NEW bytes \in Seq(Byte),
           Len(bytes) < circular_buffer_space_available(buf[c]),
           buf' = [buf EXCEPT ![c] = circular_buffer_write(@, bytes)],
           written' = [written EXCEPT ![c] = @ \o bytes],
           sent' = sent
    PROVE  /\ buf' \in [Clients -> Buffer(Size)]
           /\ written' \in [Clients -> Seq(Byte)]
           /\ \A d \in Clients \ {c} : buf'[d] = buf[d]
           /\ circular_buffer_space_available(buf'[c])
                = circular_buffer_space_available(buf[c]) - Len(bytes)
           /\ circular_buffer_data_available(buf'[c])
                = circular_buffer_data_available(buf[c]) + Len(bytes)
           /\ StreamIntact'
<1>1. /\ Size \in Nat \ {0} /\ buf \in [Clients -> Buffer(Size)] /\ buf[c] \in Buffer(Size)
      /\ written \in [Clients -> Seq(Byte)] /\ written[c] \in Seq(Byte)
      /\ sent[c] \in Seq(Byte \cup {Unset})
      /\ written[c] = sent[c] \o Contents(buf[c])
  BY SizeAssumption DEF IInv, TypeOK, StreamIntact
<1> DEFINE w == circular_buffer_write(buf[c], bytes)
<1>2. /\ w \in Buffer(Size)
      /\ circular_buffer_space_available(w)
           = circular_buffer_space_available(buf[c]) - Len(bytes)
      /\ Contents(w) = Contents(buf[c]) \o bytes
  BY <1>1, WriteAppends
<1> HIDE DEF w
<1>3. /\ buf'[c] = w /\ buf' \in [Clients -> Buffer(Size)]
      /\ \A d \in Clients \ {c} : buf'[d] = buf[d]
  BY <1>1, <1>2 DEF w
<1>4. /\ written' \in [Clients -> Seq(Byte)]
      /\ written'[c] = written[c] \o bytes
      /\ \A d \in Clients \ {c} : written'[d] = written[d]
  BY <1>1, ConcatProperties
<1>5. Contents(buf[c]) \in Seq(Byte \cup {Unset}) /\ bytes \in Seq(Byte \cup {Unset})
  BY <1>1, ContentsType, SeqMonotonic
<1>6. (sent[c] \o Contents(buf[c])) \o bytes = sent[c] \o (Contents(buf[c]) \o bytes)
  <2> DEFINE s == sent[c]
             t == Contents(buf[c])
             u == bytes
  <2>1. /\ s \in Seq(Byte \cup {Unset}) /\ t \in Seq(Byte \cup {Unset})
        /\ u \in Seq(Byte \cup {Unset})
    BY <1>1, <1>5
  <2> HIDE DEF s, t, u
  <2>2. (s \o t) \o u = s \o (t \o u)
    BY <2>1, ConcatAssociative
  <2> QED
    BY <2>2, Zenon DEF s, t, u
<1>7. written'[c] = sent'[c] \o Contents(buf'[c])
  BY <1>1, <1>2, <1>3, <1>4, <1>6, Zenon
<1>8. \A d \in Clients \ {c} : written'[d] = sent'[d] \o Contents(buf'[d])
  BY <1>3, <1>4 DEF IInv, StreamIntact
<1>9. StreamIntact'
  BY <1>7, <1>8 DEF StreamIntact
<1>10. circular_buffer_data_available(w) = circular_buffer_data_available(buf[c]) + Len(bytes)
  <2>1. /\ circular_buffer_data_available(w) + circular_buffer_space_available(w) = Size
        /\ circular_buffer_data_available(w) \in 0..Size
    BY <1>1, <1>2, SpaceAndData
  <2>2. /\ circular_buffer_data_available(buf[c])
             + circular_buffer_space_available(buf[c]) = Size
        /\ circular_buffer_data_available(buf[c]) \in 0..Size
        /\ circular_buffer_space_available(buf[c]) \in 0..Size
    BY <1>1, SpaceAndData
  <2>3. Len(bytes) \in Nat
    BY LenProperties
  <2> QED
    BY <2>1, <2>2, <2>3, <1>1, <1>2
<1> QED
  BY <1>2, <1>3, <1>4, <1>9, <1>10

(* It leaves the bytes that a client thread has seen.                      *)
LEMMA WriteKeepsRoom ==
    ASSUME TypeOK, RoomKept, NEW c \in Clients, NEW len \in Nat,
           thread' = thread,
           \A d \in Clients \ {c} : buf'[d] = buf[d],
           circular_buffer_data_available(buf'[c])
             = circular_buffer_data_available(buf[c]) + len,
           circular_buffer_space_available(buf'[c]) > 0,
           \/ data'.pc \notin {"header", "data"}
           \/ /\ data'.pc = "data" /\ data'.client = c
              /\ circular_buffer_space_available(buf'[c]) > data'.len
    PROVE  RoomKept'
<1>1. ASSUME thread[c].pc = "take"
      PROVE  thread[c].len <= circular_buffer_data_available(buf'[c])
  <2>1. /\ thread[c].len <= circular_buffer_data_available(buf[c])
        /\ thread[c].len \in 1..ChunkSize
    BY <1>1 DEF RoomKept, TypeOK
  <2>2. circular_buffer_data_available(buf[c]) \in 0..Size /\ Size \in Nat
    BY SizeAssumption, SpaceAndData DEF TypeOK
  <2> QED
    BY <2>1, <2>2, SizeAssumption
<1>2. ASSUME NEW d \in Clients \ {c}
      PROVE  /\ circular_buffer_space_available(buf'[d]) > 0
             /\ thread'[d].pc = "take" =>
                   thread'[d].len <= circular_buffer_data_available(buf'[d])
  BY DEF RoomKept
<1> QED
  BY <1>1, <1>2 DEF RoomKept

(* A read of a client thread takes from the front of its buffer.           *)
LEMMA ReadStep ==
    ASSUME IInv, NEW c \in Clients, NEW len \in Nat,
           len <= circular_buffer_data_available(buf[c]),
           buf' = [buf EXCEPT ![c] = circular_buffer_read(@, len)],
           sent' = [sent EXCEPT ![c] = @ \o BytesRead(buf[c], len)],
           written' = written
    PROVE  /\ buf' \in [Clients -> Buffer(Size)]
           /\ sent' \in [Clients -> Seq(Byte \cup {Unset})]
           /\ \A d \in Clients \ {c} : buf'[d] = buf[d]
           /\ circular_buffer_space_available(buf'[c])
                = circular_buffer_space_available(buf[c]) + len
           /\ StreamIntact'
<1>1. /\ Size \in Nat \ {0} /\ buf \in [Clients -> Buffer(Size)] /\ buf[c] \in Buffer(Size)
      /\ sent \in [Clients -> Seq(Byte \cup {Unset})] /\ sent[c] \in Seq(Byte \cup {Unset})
      /\ written[c] = sent[c] \o Contents(buf[c])
  BY SizeAssumption DEF IInv, TypeOK, StreamIntact
<1> DEFINE q == circular_buffer_read(buf[c], len)
           b == BytesRead(buf[c], len)
<1>2. /\ q \in Buffer(Size)
      /\ circular_buffer_space_available(q)
           = circular_buffer_space_available(buf[c]) + len
      /\ b \in Seq(Byte \cup {Unset})
      /\ b \o Contents(q) = Contents(buf[c])
  BY <1>1, ReadTakes
<1>3. /\ sent' = [sent EXCEPT ![c] = sent[c] \o b]
      /\ buf' = [buf EXCEPT ![c] = q]
  OBVIOUS
<1> HIDE DEF q, b
<1>4. /\ buf'[c] = q /\ buf' \in [Clients -> Buffer(Size)]
      /\ \A d \in Clients \ {c} : buf'[d] = buf[d]
  BY <1>1, <1>2, <1>3
<1>5. sent[c] \o b \in Seq(Byte \cup {Unset})
  BY <1>1, <1>2, ConcatProperties
<1>6. /\ sent' \in [Clients -> Seq(Byte \cup {Unset})]
      /\ sent'[c] = sent[c] \o b
      /\ \A d \in Clients \ {c} : sent'[d] = sent[d]
  BY <1>1, <1>3, <1>5
<1>7. Contents(q) \in Seq(Byte \cup {Unset})
  BY <1>1, <1>2, ContentsType
<1>8. (sent[c] \o b) \o Contents(q) = sent[c] \o (b \o Contents(q))
  <2> DEFINE s == sent[c]
             t == Contents(q)
  <2>1. s \in Seq(Byte \cup {Unset}) /\ t \in Seq(Byte \cup {Unset})
    BY <1>1, <1>7
  <2> HIDE DEF s, t
  <2>2. (s \o b) \o t = s \o (b \o t)
    BY <1>2, <2>1, ConcatAssociative
  <2> QED
    BY <2>2, Zenon DEF s, t
<1>9. written'[c] = sent'[c] \o Contents(buf'[c])
  BY <1>1, <1>2, <1>4, <1>6, <1>8, Zenon
<1>10. \A d \in Clients \ {c} : written'[d] = sent'[d] \o Contents(buf'[d])
  BY <1>4, <1>6 DEF IInv, StreamIntact
<1>11. StreamIntact'
  BY <1>9, <1>10 DEF StreamIntact
<1> QED
  BY <1>2, <1>4, <1>6, <1>11

(* Every action preserves the invariant.                                   *)
LEMMA StepInvariant == IInv /\ [Next]_vars => IInv'
<1> SUFFICES ASSUME IInv, [Next]_vars PROVE IInv'
  OBVIOUS
<1> USE DEF listVars, flowVars
<1>0. TypeOK /\ PartNumber /\ RoomKept /\ StreamIntact
  BY DEF IInv
<1>1. CASE server_socket_accept
  <2>1. TypeOK' /\ PartNumber'
    BY <1>1, <1>0 DEF server_socket_accept, TypeOK, PartNumber
  <2>2. RoomKept'
    BY <1>1, <1>0, ForgottenRoom DEF server_socket_accept
  <2>3. StreamIntact'
    BY <1>1, <1>0, UntouchedIntact DEF server_socket_accept
  <2> QED
    BY <2>1, <2>2, <2>3 DEF IInv
<1>2. CASE server_delete_clients
  <2>1. TypeOK' /\ PartNumber'
    BY <1>2, <1>0 DEF server_delete_clients, streamer_delete_clients, Free, TypeOK, PartNumber
  <2>2. RoomKept'
    BY <1>2, <1>0, ForgottenRoom DEF server_delete_clients, streamer_delete_clients, Free
  <2>3. StreamIntact'
    BY <1>2, <1>0, UntouchedIntact DEF server_delete_clients, streamer_delete_clients, Free
  <2> QED
    BY <2>1, <2>2, <2>3 DEF IInv
<1>3. CASE server_other_request
  <2>1. TypeOK' /\ PartNumber'
    BY <1>3, <1>0 DEF server_other_request, TypeOK, PartNumber
  <2>2. RoomKept'
    BY <1>3, <1>0, ForgottenRoom DEF server_other_request
  <2>3. StreamIntact'
    BY <1>3, <1>0, UntouchedIntact DEF server_other_request
  <2> QED
    BY <2>1, <2>2, <2>3 DEF IInv
<1>4. CASE server_stream_request
  <2>1. TypeOK' /\ PartNumber'
    BY <1>4, <1>0 DEF server_stream_request, TypeOK, PartNumber
  <2>2. RoomKept'
    BY <1>4, <1>0, ForgottenRoom DEF server_stream_request
  <2>3. StreamIntact'
    BY <1>4, <1>0, UntouchedIntact DEF server_stream_request
  <2> QED
    BY <2>1, <2>2, <2>3 DEF IInv
<1>5. CASE streamer_add_client
  <2>1. TypeOK' /\ PartNumber'
    BY <1>5, <1>0 DEF streamer_add_client, TypeOK, PartNumber
  <2>2. RoomKept'
    BY <1>5, <1>0, ForgottenRoom DEF streamer_add_client
  <2>3. StreamIntact'
    BY <1>5, <1>0, UntouchedIntact DEF streamer_add_client
  <2> QED
    BY <2>1, <2>2, <2>3 DEF IInv
<1>6. CASE streamer_start_stream
  <2>1. TypeOK' /\ PartNumber'
    BY <1>6, <1>0 DEF streamer_start_stream, TypeOK, PartNumber
  <2>2. RoomKept'
    BY <1>6, <1>0, ForgottenRoom DEF streamer_start_stream
  <2>3. StreamIntact'
    BY <1>6, <1>0, UntouchedIntact DEF streamer_start_stream
  <2> QED
    BY <2>1, <2>2, <2>3 DEF IInv
<1>7. CASE server_done
  <2>1. TypeOK' /\ PartNumber'
    BY <1>7, <1>0 DEF server_done, TypeOK, PartNumber
  <2>2. RoomKept'
    BY <1>7, <1>0, ForgottenRoom DEF server_done
  <2>3. StreamIntact'
    BY <1>7, <1>0, UntouchedIntact DEF server_done
  <2> QED
    BY <2>1, <2>2, <2>3 DEF IInv
<1>8. CASE streamer_send_multipart
  <2>1. TypeOK' /\ PartNumber'
    BY <1>8, <1>0, SizeAssumption, AppendProperties DEF streamer_send_multipart, TypeOK, PartNumber
  <2>2. RoomKept'
    BY <1>8, <1>0, ForgottenRoom DEF streamer_send_multipart
  <2>3. StreamIntact'
    BY <1>8, <1>0, UntouchedIntact DEF streamer_send_multipart
  <2> QED
    BY <2>1, <2>2, <2>3 DEF IInv
<1>9. CASE multipart_unlock
  <2>1. TypeOK' /\ PartNumber'
    BY <1>9, <1>0 DEF multipart_unlock, TypeOK, PartNumber
  <2>2. RoomKept'
    BY <1>9, <1>0, ForgottenRoom DEF multipart_unlock
  <2>3. StreamIntact'
    BY <1>9, <1>0, UntouchedIntact DEF multipart_unlock
  <2> QED
    BY <2>1, <2>2, <2>3 DEF IInv
<1>10. CASE data_done
  <2>1. TypeOK' /\ PartNumber'
    BY <1>10, <1>0 DEF data_done, TypeOK, PartNumber
  <2>2. RoomKept'
    BY <1>10, <1>0, ForgottenRoom DEF data_done
  <2>3. StreamIntact'
    BY <1>10, <1>0, UntouchedIntact DEF data_done
  <2> QED
    BY <2>1, <2>2, <2>3 DEF IInv
<1>11. CASE delete_streamer
  <2>1. TypeOK' /\ PartNumber'
    BY <1>11, <1>0 DEF delete_streamer, DeleterGoto, TypeOK, PartNumber
  <2>2. RoomKept'
    BY <1>11, <1>0, ForgottenRoom DEF delete_streamer, DeleterGoto
  <2>3. StreamIntact'
    BY <1>11, <1>0, UntouchedIntact DEF delete_streamer, DeleterGoto
  <2> QED
    BY <2>1, <2>2, <2>3 DEF IInv
<1>12. CASE join_server
  <2>1. TypeOK' /\ PartNumber'
    BY <1>12, <1>0 DEF join_server, DeleterGoto, TypeOK, PartNumber
  <2>2. RoomKept'
    BY <1>12, <1>0, ForgottenRoom DEF join_server, DeleterGoto
  <2>3. StreamIntact'
    BY <1>12, <1>0, UntouchedIntact DEF join_server, DeleterGoto
  <2> QED
    BY <2>1, <2>2, <2>3 DEF IInv
<1>13. CASE join_data
  <2>1. TypeOK' /\ PartNumber'
    BY <1>13, <1>0 DEF join_data, DeleterGoto, TypeOK, PartNumber
  <2>2. RoomKept'
    BY <1>13, <1>0, ForgottenRoom DEF join_data, DeleterGoto
  <2>3. StreamIntact'
    BY <1>13, <1>0, UntouchedIntact DEF join_data, DeleterGoto
  <2> QED
    BY <2>1, <2>2, <2>3 DEF IInv
<1>14. CASE take_clients
  <2>1. TypeOK' /\ PartNumber'
    BY <1>14, <1>0 DEF take_clients, TypeOK, PartNumber
  <2>2. RoomKept'
    BY <1>14, <1>0, ForgottenRoom DEF take_clients
  <2>3. StreamIntact'
    BY <1>14, <1>0, UntouchedIntact DEF take_clients
  <2> QED
    BY <2>1, <2>2, <2>3 DEF IInv
<1>15. CASE join_clients
  <2>1. TypeOK' /\ PartNumber'
    BY <1>15, <1>0 DEF join_clients, DeleterGoto, TypeOK, PartNumber
  <2>2. RoomKept'
    BY <1>15, <1>0, ForgottenRoom DEF join_clients, DeleterGoto
  <2>3. StreamIntact'
    BY <1>15, <1>0, UntouchedIntact DEF join_clients, DeleterGoto
  <2> QED
    BY <2>1, <2>2, <2>3 DEF IInv
<1>16. CASE delete_clients
  <2>1. TypeOK' /\ PartNumber'
    BY <1>16, <1>0 DEF delete_clients, streamer_delete_clients, Free, TypeOK, PartNumber
  <2>2. RoomKept'
    BY <1>16, <1>0, ForgottenRoom DEF delete_clients, streamer_delete_clients, Free
  <2>3. StreamIntact'
    BY <1>16, <1>0, UntouchedIntact DEF delete_clients, streamer_delete_clients, Free
  <2> QED
    BY <2>1, <2>2, <2>3 DEF IInv
<1>17. CASE AppQuit
  <2>1. TypeOK' /\ PartNumber'
    BY <1>17, <1>0 DEF AppQuit, TypeOK, PartNumber
  <2>2. RoomKept'
    BY <1>17, <1>0, ForgottenRoom DEF AppQuit
  <2>3. StreamIntact'
    BY <1>17, <1>0, UntouchedIntact DEF AppQuit
  <2> QED
    BY <2>1, <2>2, <2>3 DEF IInv
<1>18. ASSUME NEW c \in Clients, client_headers(c) PROVE IInv'
  <2>1. TypeOK' /\ PartNumber'
    <3>1. ASSUME NEW pc \in {"loop", "remove"}, ClientGoto(c, pc)
          PROVE  TypeOK' /\ PartNumber'
      BY <3>1, <1>18, <1>0 DEF client_headers, ClientGoto, TypeOK, PartNumber
    <3> QED
      BY <3>1, <1>18 DEF client_headers
  <2>2. RoomKept'
    BY <1>18, <1>0, ForgottenRoom DEF client_headers, ClientGoto, TypeOK
  <2>3. StreamIntact'
    BY <1>18, <1>0, UntouchedIntact DEF client_headers, ClientGoto
  <2> QED
    BY <2>1, <2>2, <2>3 DEF IInv
<1>19. ASSUME NEW c \in Clients, client_loop(c) PROVE IInv'
  <2>1. TypeOK' /\ PartNumber'
    BY <1>19, <1>0 DEF client_loop, ClientGoto, TypeOK, PartNumber
  <2>2. RoomKept'
    BY <1>19, <1>0, ForgottenRoom DEF client_loop, ClientGoto, TypeOK
  <2>3. StreamIntact'
    BY <1>19, <1>0, UntouchedIntact DEF client_loop, ClientGoto
  <2> QED
    BY <2>1, <2>2, <2>3 DEF IInv
<1>20. ASSUME NEW c \in Clients, client_read_quit(c) PROVE IInv'
  <2>1. TypeOK' /\ PartNumber'
    BY <1>20, <1>0 DEF client_read_quit, ClientGoto, TypeOK, PartNumber
  <2>2. RoomKept'
    BY <1>20, <1>0, ForgottenRoom DEF client_read_quit, ClientGoto, TypeOK
  <2>3. StreamIntact'
    BY <1>20, <1>0, UntouchedIntact DEF client_read_quit, ClientGoto
  <2> QED
    BY <2>1, <2>2, <2>3 DEF IInv
<1>21. ASSUME NEW c \in Clients, client_chunk(c) PROVE IInv'
  <2>1. TypeOK' /\ PartNumber'
    <3>1. ASSUME NEW pc \in {"loop", "remove"}, ClientGoto(c, pc)
          PROVE  TypeOK' /\ PartNumber'
      BY <3>1, <1>21, <1>0 DEF client_chunk, ClientGoto, TypeOK, PartNumber
    <3> QED
      BY <3>1, <1>21 DEF client_chunk
  <2>2. RoomKept'
    BY <1>21, <1>0, ForgottenRoom DEF client_chunk, ClientGoto, TypeOK
  <2>3. StreamIntact'
    BY <1>21, <1>0, UntouchedIntact DEF client_chunk, ClientGoto
  <2> QED
    BY <2>1, <2>2, <2>3 DEF IInv
<1>22. ASSUME NEW c \in Clients, streamer_remove_client(c) PROVE IInv'
  <2>1. TypeOK' /\ PartNumber'
    BY <1>22, <1>0 DEF streamer_remove_client, ClientGoto, TypeOK, PartNumber
  <2>2. RoomKept'
    BY <1>22, <1>0, ForgottenRoom DEF streamer_remove_client, ClientGoto, TypeOK
  <2>3. StreamIntact'
    BY <1>22, <1>0, UntouchedIntact DEF streamer_remove_client, ClientGoto
  <2> QED
    BY <2>1, <2>2, <2>3 DEF IInv
<1>23. CASE multipart_check
  <2> PICK c \in data.todo :
        data' = IF HasRoom(buf[c], HeaderLen + data.len)
                THEN [pc |-> "header", client |-> c, todo |-> data.todo \ {c},
                      len |-> data.len]
                ELSE [pc |-> "check", todo |-> data.todo \ {c}, len |-> data.len]
    BY <1>23 DEF multipart_check
  <2>1. /\ c \in Clients /\ data.todo \in SUBSET Clients /\ data.len \in Lengths
        /\ data.pc = "check"
    BY <1>23, <1>0 DEF multipart_check, TypeOK
  <2>2. TypeOK' /\ PartNumber'
    BY <2>1, <1>23, <1>0 DEF multipart_check, TypeOK, PartNumber
  <2>3. RoomKept'
    <3>1. CASE HasRoom(buf[c], HeaderLen + data.len)
      BY <3>1, <2>1, <1>23, <1>0 DEF multipart_check, RoomKept, HasRoom
    <3>2. CASE ~HasRoom(buf[c], HeaderLen + data.len)
      BY <3>2, <1>23, <1>0, ForgottenRoom DEF multipart_check
    <3> QED
      BY <3>1, <3>2
  <2>4. StreamIntact'
    BY <1>23, <1>0, UntouchedIntact DEF multipart_check
  <2> QED
    BY <2>2, <2>3, <2>4 DEF IInv
<1>24. CASE multipart_header
  <2> DEFINE c == data.client
             space == circular_buffer_space_available(buf[c])
  <2>1. /\ data.pc = "header" /\ c \in Clients
        /\ data.todo \in SUBSET Clients /\ data.len \in Lengths /\ data.len \in Nat
        /\ Header \in Seq(Byte) /\ Len(Header) = HeaderLen
    BY <1>24, <1>0, PartType DEF multipart_header
  <2>2. /\ space > HeaderLen + data.len /\ HeaderLen \in Nat /\ space \in 0..Size
        /\ Size \in Nat \ {0}
    BY <2>1, <1>0, SizeAssumption, SpaceAndData DEF RoomKept, TypeOK
  <2>3. Len(Header) < space
    BY <2>1, <2>2
  <2>4. /\ buf' \in [Clients -> Buffer(Size)]
        /\ written' \in [Clients -> Seq(Byte)]
        /\ \A d \in Clients \ {c} : buf'[d] = buf[d]
        /\ circular_buffer_space_available(buf'[c]) = space - HeaderLen
        /\ circular_buffer_data_available(buf'[c])
             = circular_buffer_data_available(buf[c]) + HeaderLen
        /\ StreamIntact'
    <3>1. /\ buf' = [buf EXCEPT ![c] = circular_buffer_write(@, Header)]
          /\ written' = [written EXCEPT ![c] = @ \o Header]
          /\ sent' = sent
      BY <1>24 DEF multipart_header, Write
    <3> QED
      BY <3>1, <2>1, <2>3, WriteStep
  <2>5. data' = [data EXCEPT !.pc = "data"]
    BY <1>24 DEF multipart_header
  <2>6. /\ data' \in [pc: {"header", "data"}, client: Clients, todo: SUBSET Clients,
                      len: Lengths]
        /\ data'.pc = "data" /\ data'.client = c /\ data'.len = data.len
    BY <2>1, <2>5, <1>0 DEF TypeOK
  <2>7. TypeOK' /\ PartNumber'
    BY <2>1, <2>4, <2>6, <1>24, <1>0 DEF multipart_header, Write, TypeOK, PartNumber
  <2>8. /\ circular_buffer_space_available(buf'[c]) > 0
        /\ circular_buffer_space_available(buf'[c]) > data'.len
    BY <2>1, <2>2, <2>4, <2>6
  <2>9. RoomKept'
    BY <2>1, <2>2, <2>4, <2>6, <2>8, <1>24, <1>0, WriteKeepsRoom
       DEF multipart_header, Write
  <2> QED
    BY <2>4, <2>7, <2>9 DEF IInv
<1>25. CASE multipart_data
  <2> DEFINE c == data.client
             space == circular_buffer_space_available(buf[c])
  <2>1. /\ data.pc = "data" /\ c \in Clients
        /\ data.todo \in SUBSET Clients /\ data.len \in Lengths /\ data.len \in Nat
        /\ Data \in Seq(Byte) /\ Len(Data) = data.len
    BY <1>25, <1>0, PartType DEF multipart_data
  <2>2. /\ space > data.len /\ space \in 0..Size /\ Size \in Nat \ {0}
    BY <2>1, <1>0, SizeAssumption, SpaceAndData DEF RoomKept, TypeOK
  <2>3. Len(Data) < space
    BY <2>1, <2>2
  <2>4. /\ buf' \in [Clients -> Buffer(Size)]
        /\ written' \in [Clients -> Seq(Byte)]
        /\ \A d \in Clients \ {c} : buf'[d] = buf[d]
        /\ circular_buffer_space_available(buf'[c]) = space - data.len
        /\ circular_buffer_data_available(buf'[c])
             = circular_buffer_data_available(buf[c]) + data.len
        /\ StreamIntact'
    <3>1. /\ buf' = [buf EXCEPT ![c] = circular_buffer_write(@, Data)]
          /\ written' = [written EXCEPT ![c] = @ \o Data]
          /\ sent' = sent
      BY <1>25 DEF multipart_data, Write
    <3>2. /\ buf' \in [Clients -> Buffer(Size)]
          /\ written' \in [Clients -> Seq(Byte)]
          /\ \A d \in Clients \ {c} : buf'[d] = buf[d]
          /\ circular_buffer_space_available(buf'[c]) = space - Len(Data)
          /\ circular_buffer_data_available(buf'[c])
               = circular_buffer_data_available(buf[c]) + Len(Data)
          /\ StreamIntact'
      BY <3>1, <2>1, <2>3, WriteStep
    <3> QED
      BY <3>2, <2>1, Zenon
  <2>5. data' = [pc |-> "check", todo |-> data.todo, len |-> data.len]
    BY <1>25 DEF multipart_data
  <2>6. TypeOK' /\ PartNumber'
    BY <2>1, <2>4, <2>5, <1>25, <1>0 DEF multipart_data, Write, TypeOK, PartNumber
  <2>7. circular_buffer_space_available(buf'[c]) > 0
    BY <2>1, <2>2, <2>4
  <2>8. RoomKept'
    BY <2>1, <2>2, <2>4, <2>5, <2>7, <1>25, <1>0, WriteKeepsRoom
       DEF multipart_data, Write
  <2> QED
    BY <2>4, <2>6, <2>8 DEF IInv
<1>26. ASSUME NEW c \in Clients, client_data_available(c) PROVE IInv'
  <2> DEFINE available == circular_buffer_data_available(buf[c])
             len == IF available > ChunkSize THEN ChunkSize ELSE available
  <2>1. available \in 0..Size /\ available # 0 /\ ChunkSize \in Nat \ {0}
    BY <1>26, <1>0, SizeAssumption, SpaceAndData DEF client_data_available, TypeOK
  <2>2. len \in 1..ChunkSize /\ len <= available
    BY <2>1, SizeAssumption
  <2>3. thread' = [thread EXCEPT ![c] = [pc |-> "take", len |-> len]]
    BY <1>26 DEF client_data_available
  <2> HIDE DEF len
  <2>4. TypeOK' /\ PartNumber'
    BY <2>2, <2>3, <1>26, <1>0 DEF client_data_available, TypeOK, PartNumber
  <2>5. RoomKept'
    BY <2>2, <2>3, <1>26, <1>0 DEF client_data_available, RoomKept, TypeOK
  <2>6. StreamIntact'
    BY <1>26, <1>0, UntouchedIntact DEF client_data_available
  <2> QED
    BY <2>4, <2>5, <2>6 DEF IInv
<1>27. ASSUME NEW c \in Clients, client_read(c) PROVE IInv'
  <2> DEFINE len == thread[c].len
             space == circular_buffer_space_available(buf[c])
  <2>1. /\ thread[c].pc = "take" /\ len \in 1..ChunkSize
        /\ len <= circular_buffer_data_available(buf[c])
    BY <1>27, <1>0 DEF client_read, TypeOK, RoomKept
  <2>2. /\ len \in Nat /\ space \in 0..Size /\ Size \in Nat
    BY <2>1, <1>0, SizeAssumption, SpaceAndData DEF TypeOK
  <2>3. /\ buf' \in [Clients -> Buffer(Size)]
        /\ sent' \in [Clients -> Seq(Byte \cup {Unset})]
        /\ \A d \in Clients \ {c} : buf'[d] = buf[d]
        /\ circular_buffer_space_available(buf'[c]) = space + len
        /\ StreamIntact'
    BY <2>1, <2>2, <1>27, ReadStep DEF client_read, ClientGoto
  <2>4. /\ thread' = [thread EXCEPT ![c] = [pc |-> "chunk"]]
        /\ data' = data
    BY <1>27 DEF client_read, ClientGoto
  <2>5. TypeOK' /\ PartNumber'
    BY <2>3, <2>4, <1>27, <1>0 DEF client_read, ClientGoto, TypeOK, PartNumber
  <2>6. ASSUME NEW x \in Int, space > x
        PROVE  circular_buffer_space_available(buf'[c]) > x
    BY <2>2, <2>3, <2>6
  <2>7. RoomKept'
    <3>1. /\ circular_buffer_space_available(buf'[c]) > 0
          /\ thread'[c].pc # "take"
      BY <2>4, <2>6, <1>0 DEF RoomKept, TypeOK
    <3>2. ASSUME data.pc \in {"header", "data"}, data.client = c
          PROVE  /\ data.pc = "header" =>
                      circular_buffer_space_available(buf'[c]) > HeaderLen + data.len
                 /\ data.pc = "data" =>
                      circular_buffer_space_available(buf'[c]) > data.len
      <4>1. data.len \in Nat /\ HeaderLen \in Nat
        BY <3>2, <1>0, PartType, SizeAssumption
      <4> QED
        BY <4>1, <3>2, <2>6, <1>0 DEF RoomKept
    <3>3. ASSUME NEW d \in Clients \ {c}
          PROVE  /\ circular_buffer_space_available(buf'[d]) > 0
                 /\ data.pc = "header" /\ data.client = d =>
                      circular_buffer_space_available(buf'[d]) > HeaderLen + data.len
                 /\ data.pc = "data" /\ data.client = d =>
                      circular_buffer_space_available(buf'[d]) > data.len
                 /\ thread'[d].pc = "take" =>
                      thread'[d].len <= circular_buffer_data_available(buf'[d])
      <4>1. buf'[d] = buf[d] /\ thread'[d] = thread[d]
        BY <2>3, <2>4, <1>0 DEF TypeOK
      <4> QED
        BY <4>1, <1>0 DEF RoomKept
    <3> QED
      BY <3>1, <3>2, <3>3, <2>4 DEF RoomKept
  <2> QED
    BY <2>3, <2>5, <2>7 DEF IInv
<1>28. CASE UNCHANGED vars
  BY <1>28, <1>0 DEF vars, IInv, TypeOK, PartNumber, RoomKept, StreamIntact
<1> QED
  BY <1>1, <1>2, <1>3, <1>4, <1>5, <1>6, <1>7, <1>8, <1>9, <1>10, <1>11, <1>12,
     <1>13, <1>14, <1>15, <1>16, <1>17, <1>18, <1>19, <1>20, <1>21, <1>22, <1>23,
     <1>24, <1>25, <1>26, <1>27, <1>28
     DEF Next, ServerIO, ServerStep, DataStep, ClientIO, ClientStep, DeleterStep

(* The variables keep their types.                                         *)
THEOREM TypeCorrect == Spec => []TypeOK
<1>1. IInv => TypeOK
  BY DEF IInv
<1> QED
  BY <1>1, InitInvariant, StepInvariant, PTL DEF Spec

(* What a thread saw in a buffer before it released the mutex still holds  *)
(* when it acts on it.                                                     *)
THEOREM RoomIsKept == Spec => []RoomKept
<1>1. IInv => RoomKept
  BY DEF IInv
<1> QED
  BY <1>1, InitInvariant, StepInvariant, PTL DEF Spec

(* Every client is sent exactly what was written for it, in order.         *)
THEOREM StreamStaysIntact == Spec => []StreamIntact
<1>1. IInv => StreamIntact
  BY DEF IInv
<1> QED
  BY <1>1, InitInvariant, StepInvariant, PTL DEF Spec

-----------------------------------------------------------------------------
(* The refinement: writes put bytes in, reads take bytes out.              *)

(* A sequence is a prefix of what is appended to it.                       *)
LEMMA PrefixOfConcat ==
    ASSUME NEW S, NEW s \in Seq(S), NEW t \in Seq(S)
    PROVE  /\ Len(s) <= Len(s \o t)
           /\ SubSeq(s \o t, 1, Len(s)) = s
           /\ SubSeq(s, 1, Len(s)) = s
<1>1. /\ s \o t \in Seq(S) /\ Len(s \o t) = Len(s) + Len(t)
      /\ Len(s) \in Nat /\ Len(t) \in Nat
      /\ \A i \in 1..(Len(s) + Len(t)) :
            (s \o t)[i] = IF i <= Len(s) THEN s[i] ELSE t[i - Len(s)]
  BY ConcatProperties, LenProperties
<1>2. \A i \in 1..Len(s) : (s \o t)[i] = s[i] /\ s[i] \in S
  BY <1>1, ElementOfSeq
<1> DEFINE u == SubSeq(s \o t, 1, Len(s))
<1>3. /\ u \in Seq(S) /\ Len(u) = Len(s) /\ \A i \in 1..Len(s) : u[i] = s[i]
  BY <1>1, <1>2, SubSeqProperties
<1>4. u = s
  <2> HIDE DEF u
  <2> QED
    BY <1>3, SeqEqual
<1> QED
  BY <1>1, <1>4, SubSeqFull

(* A write of the data thread is a Put of the byte stream.                 *)
LEMMA PutStep ==
    ASSUME IInv, IInv', NEW c \in Clients, NEW bytes \in Seq(Byte),
           written' = [written EXCEPT ![c] = @ \o bytes],
           sent' = sent
    PROVE  Abstract!Put(c)
<1>1. /\ Size \in Nat \ {0} /\ buf'[c] \in Buffer(Size)
      /\ written[c] \in Seq(Byte) /\ sent'[c] \in Seq(Byte \cup {Unset})
      /\ written'[c] = sent'[c] \o Contents(buf'[c])
      /\ written \in [Clients -> Seq(Byte)]
  BY SizeAssumption DEF IInv, TypeOK, StreamIntact
<1>2. written'[c] = written[c] \o bytes /\ written' = [written EXCEPT ![c] = written'[c]]
  BY <1>1
<1>3. Abstract!IsPrefix(written[c], written'[c])
  BY <1>1, <1>2, PrefixOfConcat DEF Abstract!IsPrefix
<1>4. /\ Contents(buf'[c]) \in Seq(Byte \cup {Unset})
      /\ Len(Contents(buf'[c])) \in 0..Size
  BY <1>1, ContentsType
<1>5. Len(written'[c]) = Len(sent'[c]) + Len(Contents(buf'[c])) /\ Len(sent'[c]) \in Nat
  BY <1>1, <1>4, ConcatProperties, LenProperties, ZenonT(30)
<1>6. Len(written'[c]) - Len(sent[c]) <= Size
  <2> DEFINE x == Len(written'[c])
             y == Len(sent'[c])
             z == Len(Contents(buf'[c]))
  <2>1. x = y + z /\ y \in Nat /\ z \in 0..Size /\ Size \in Nat
    BY <1>1, <1>4, <1>5
  <2>2. x - y <= Size
    <3> HIDE DEF x, y, z
    <3> QED
      BY <2>1
  <2> QED
    BY <2>2, Zenon
<1> QED
  BY <1>2, <1>3, <1>6 DEF Abstract!Put

(* A read of a client thread is a Get of the byte stream.                  *)
LEMMA GetStep ==
    ASSUME IInv, IInv', NEW c \in Clients, NEW bytes \in Seq(Byte \cup {Unset}),
           sent' = [sent EXCEPT ![c] = @ \o bytes],
           written' = written
    PROVE  Abstract!Get(c)
<1>1. /\ Size \in Nat \ {0} /\ buf'[c] \in Buffer(Size)
      /\ sent[c] \in Seq(Byte \cup {Unset}) /\ sent'[c] \in Seq(Byte \cup {Unset})
      /\ written[c] = sent'[c] \o Contents(buf'[c])
      /\ sent \in [Clients -> Seq(Byte \cup {Unset})]
  BY SizeAssumption DEF IInv, TypeOK, StreamIntact
<1>2. sent'[c] = sent[c] \o bytes /\ sent' = [sent EXCEPT ![c] = sent'[c]]
  BY <1>1
<1>3. Contents(buf'[c]) \in Seq(Byte \cup {Unset})
  BY <1>1, ContentsType
<1> DEFINE n == Len(sent'[c])
<1>4. n <= Len(written[c]) /\ SubSeq(written[c], 1, n) = sent'[c]
  BY <1>1, <1>3, PrefixOfConcat
<1>5. Len(sent[c]) <= n
  BY <1>1, <1>2, PrefixOfConcat
<1>6. n \in Nat /\ Len(sent[c]) \in Nat /\ Len(written[c]) \in Nat
  BY <1>1, LenProperties DEF IInv, TypeOK
<1>7. n \in Len(sent[c])..Len(written[c])
  BY <1>4, <1>5, <1>6
<1>8. sent' = [sent EXCEPT ![c] = SubSeq(written[c], 1, n)]
  BY <1>2, <1>4
<1> QED
  BY <1>7, <1>8 DEF Abstract!Get

(* Every step of the streamer is a step of the byte stream or changes      *)
(* nothing there.                                                          *)
LEMMA StepRefines ==
    IInv /\ IInv' /\ [Next]_vars => [Abstract!Next]_<<written, sent>>
<1> SUFFICES ASSUME IInv, IInv', [Next]_vars PROVE [Abstract!Next]_<<written, sent>>
  OBVIOUS
<1>0. TypeOK /\ PartNumber /\ RoomKept
  BY DEF IInv
<1>1. CASE multipart_header
  <2>1. data.client \in Clients /\ Header \in Seq(Byte)
    BY <1>0, <1>1, PartType DEF multipart_header
  <2>2. Abstract!Put(data.client)
    BY <2>1, <1>1, PutStep DEF multipart_header, Write
  <2> QED
    BY <2>1, <2>2 DEF Abstract!Next
<1>2. CASE multipart_data
  <2>1. data.client \in Clients /\ Data \in Seq(Byte)
    BY <1>0, <1>2, PartType DEF multipart_data
  <2>2. Abstract!Put(data.client)
    BY <2>1, <1>2, PutStep DEF multipart_data, Write
  <2> QED
    BY <2>1, <2>2 DEF Abstract!Next
<1>3. ASSUME NEW c \in Clients, client_read(c) PROVE [Abstract!Next]_<<written, sent>>
  <2>1. /\ thread[c].len \in 1..ChunkSize
        /\ thread[c].len <= circular_buffer_data_available(buf[c])
        /\ buf[c] \in Buffer(Size)
    BY <1>0, <1>3 DEF client_read, TypeOK, RoomKept
  <2>2. BytesRead(buf[c], thread[c].len) \in Seq(Byte \cup {Unset})
    BY <2>1, SizeAssumption, ReadTakes
  <2>3. Abstract!Get(c)
    BY <2>2, <1>3, GetStep DEF client_read, ClientGoto
  <2> QED
    BY <2>3 DEF Abstract!Next
<1>4. ASSUME NEW c \in Clients,
             \/ client_headers(c) \/ client_loop(c) \/ client_data_available(c)
             \/ client_read_quit(c) \/ client_chunk(c) \/ streamer_remove_client(c)
      PROVE  UNCHANGED <<written, sent>>
  BY <1>4 DEF client_headers, client_loop, client_data_available, client_read_quit,
              client_chunk, streamer_remove_client, ClientGoto, flowVars
<1>5. CASE \/ server_socket_accept \/ ServerIO \/ ServerStep
  BY <1>5 DEF server_socket_accept, ServerIO, ServerStep, server_other_request,
              server_stream_request, server_delete_clients, streamer_delete_clients,
              streamer_add_client, streamer_start_stream, server_done, flowVars
<1>6. CASE \/ streamer_send_multipart \/ multipart_check \/ multipart_unlock \/ data_done
  BY <1>6 DEF streamer_send_multipart, multipart_check, multipart_unlock, data_done,
              flowVars
<1>7. CASE delete_streamer \/ DeleterStep \/ AppQuit
  BY <1>7 DEF delete_streamer, DeleterStep, AppQuit, join_server, join_data,
              take_clients, join_clients, delete_clients, streamer_delete_clients,
              DeleterGoto, flowVars
<1>8. CASE UNCHANGED vars
  BY <1>8 DEF vars
<1> QED
  BY <1>1, <1>2, <1>3, <1>4, <1>5, <1>6, <1>7, <1>8
     DEF Next, DataStep, ClientIO, ClientStep

(* The streamer gives every client a bounded first-in first-out stream of  *)
(* bytes.                                                                  *)
THEOREM StreamerImplementsByteStream == Spec => ImplementsByteStream
<1>1. Init => Abstract!Init
  BY DEF Init, Abstract!Init
<1> QED
  BY <1>1, InitInvariant, StepInvariant, StepRefines, PTL
     DEF Spec, ImplementsByteStream, Abstract!Spec

-----------------------------------------------------------------------------
(* Whole parts.  What was written for a client is a chain of parts: the    *)
(* bytes of a part follow each other (Chained), and the last one is        *)
(* complete, unless the data thread is between the two writes of a part,   *)
(* which then ends with its header (EndsWell).                             *)
PartLen(n) == HeaderLen + parts[n]

Chained(w) ==
    \A i \in 1..Len(w) :
        /\ w[i][1] \in 1..Len(parts) /\ w[i][2] \in 1..PartLen(w[i][1])
        /\ w[i][2] > 1 => i > 1 /\ w[i - 1] = <<w[i][1], w[i][2] - 1>>
        /\ i < Len(w) /\ w[i][2] < PartLen(w[i][1]) => w[i + 1] = <<w[i][1], w[i][2] + 1>>

Complete(w) == Len(w) > 0 => w[Len(w)][2] = PartLen(w[Len(w)][1])

EndsWith(w, n, k) == IF k = 0 THEN Complete(w) ELSE Len(w) > 0 /\ w[Len(w)] = <<n, k>>

EndsWell(c) == IF data.pc = "data" /\ data.client = c
               THEN EndsWith(written[c], Len(parts), HeaderLen)
               ELSE Complete(written[c])

LastPart == data.pc \in {"check", "header", "data"} => data.len = parts[Len(parts)]

PartsInv == LastPart /\ \A c \in Clients : Chained(written[c]) /\ EndsWell(c)

(* A piece of a part continues a chain that ends where the piece begins.   *)
LEMMA ChainGrows ==
    ASSUME NEW w \in Seq(Byte), NEW b \in Seq(Byte), NEW n \in 1..Len(parts), NEW from \in Nat,
           parts \in Seq(Nat), HeaderLen \in Nat, from + Len(b) <= PartLen(n),
           \A k \in 1..Len(b) : b[k] = <<n, from + k>>,
           Chained(w), EndsWith(w, n, from)
    PROVE  Chained(w \o b) /\ EndsWith(w \o b, n, from + Len(b))
<1> DEFINE s == w \o b
           m == Len(w)
           l == Len(b)
<1>1. /\ m \in Nat /\ l \in Nat /\ Len(s) = m + l /\ m = Len(w) /\ l = Len(b)
      /\ \A i \in 1..m : s[i] = w[i]
      /\ \A i \in (m + 1)..(m + l) : s[i] = b[i - m]
  BY ConcatProperties, LenProperties
<1>2. \A i \in (m + 1)..(m + l) : s[i] = <<n, from + (i - m)>>
  BY <1>1, SMTT(30)
<1>3. \A j \in 1..Len(parts) : PartLen(j) \in Nat
  BY SMTT(30) DEF PartLen
<1>0. s = w \o b
  OBVIOUS
<1> HIDE DEF s, m, l
<1>4. ASSUME NEW i \in 1..m
      PROVE  /\ s[i][1] \in 1..Len(parts) /\ s[i][2] \in 1..PartLen(s[i][1])
             /\ s[i][2] > 1 => i > 1 /\ s[i - 1] = <<s[i][1], s[i][2] - 1>>
             /\ i < m + l /\ s[i][2] < PartLen(s[i][1]) => s[i + 1] = <<s[i][1], s[i][2] + 1>>
  <2>1. /\ w[i][1] \in 1..Len(parts) /\ w[i][2] \in 1..PartLen(w[i][1])
        /\ w[i][2] > 1 => i > 1 /\ w[i - 1] = <<w[i][1], w[i][2] - 1>>
        /\ i < m /\ w[i][2] < PartLen(w[i][1]) => w[i + 1] = <<w[i][1], w[i][2] + 1>>
    BY <1>1 DEF Chained
  <2>2. s[i] = w[i] /\ (i > 1 => s[i - 1] = w[i - 1]) /\ (i < m => s[i + 1] = w[i + 1])
    <3>1. m \in Nat
      BY <1>1
    <3>2. (i > 1 => i - 1 \in 1..m) /\ (i < m => i + 1 \in 1..m)
      BY <3>1
    <3> QED
      BY <1>1, <3>2
  <2>3. ASSUME i = m, i < m + l, w[i][2] < PartLen(w[i][1])
        PROVE  s[i + 1] = <<w[i][1], w[i][2] + 1>>
    <3>1. s[i + 1] = <<n, from + 1>>
      <4>1. i + 1 \in (m + 1)..(m + l) /\ (i + 1) - m = 1
        BY <1>1, <2>3
      <4> QED BY <4>1, <1>2
    <3>2. w[i] = <<n, from>>
      <4>1. PartLen(w[i][1]) \in Nat
        BY <1>3, <2>1
      <4> QED
        BY <1>1, <2>1, <2>3, <4>1 DEF EndsWith, Complete
    <3>3. w[i][1] = n /\ w[i][2] = from
      BY <3>2
    <3> QED
      BY <3>1, <3>3
  <2>4. i < m \/ i = m
    BY <1>1
  <2> QED
    BY <2>1, <2>2, <2>3, <2>4
<1>5. ASSUME NEW i \in (m + 1)..(m + l)
      PROVE  /\ s[i][1] \in 1..Len(parts) /\ s[i][2] \in 1..PartLen(s[i][1])
             /\ s[i][2] > 1 => i > 1 /\ s[i - 1] = <<s[i][1], s[i][2] - 1>>
             /\ i < m + l /\ s[i][2] < PartLen(s[i][1]) => s[i + 1] = <<s[i][1], s[i][2] + 1>>
  <2>1. s[i][1] = n /\ s[i][2] = from + (i - m)
    BY <1>2
  <2>2. from + (i - m) \in 1..PartLen(n)
    BY <1>1, <1>3
  <2>3. ASSUME s[i][2] > 1 PROVE i > 1 /\ s[i - 1] = <<n, (from + (i - m)) - 1>>
    <3>1. CASE i = m + 1
      <4>1. from > 0
        BY <2>1, <2>3, <3>1, <1>1
      <4>2. m > 0 /\ w[m] = <<n, from>>
        BY <1>1, <4>1 DEF EndsWith
      <4>3. i - 1 = m /\ m \in 1..m /\ (from + (i - m)) - 1 = from
        BY <3>1, <4>2, <1>1
      <4> QED
        BY <1>1, <4>2, <4>3
    <3>2. CASE i # m + 1
      <4>1. i - 1 \in (m + 1)..(m + l) /\ from + ((i - 1) - m) = (from + (i - m)) - 1
        BY <3>2, <1>1
      <4>2. s[i - 1] = <<n, from + ((i - 1) - m)>>
        BY <1>2, <4>1
      <4>3. i > 1
        BY <3>2, <1>1
      <4> QED
        BY <4>1, <4>2, <4>3
    <3> QED
      BY <3>1, <3>2
  <2>4. ASSUME i < m + l PROVE s[i + 1] = <<n, (from + (i - m)) + 1>>
    <3>1. i + 1 \in (m + 1)..(m + l) /\ from + ((i + 1) - m) = (from + (i - m)) + 1
      BY <2>4, <1>1
    <3> QED
      BY <1>2, <3>1
  <2> QED
    BY <2>1, <2>2, <2>3, <2>4
<1>6. Chained(s)
  <2>1. \A i \in 1..Len(s) : i \in 1..m \/ i \in (m + 1)..(m + l)
    BY <1>1
  <2> QED
    BY <1>1, <1>4, <1>5, <2>1 DEF Chained
<1>7. EndsWith(s, n, from + l)
  <2>1. CASE l = 0
    <3>1. Len(s) = m /\ from + l = from /\ (m > 0 => s[m] = w[m])
      BY <2>1, <1>1
    <3> QED
      BY <1>1, <3>1 DEF EndsWith, Complete
  <2>2. CASE l > 0
    <3>1. m + l \in (m + 1)..(m + l) /\ from + ((m + l) - m) = from + l /\ from + l # 0 /\ m + l > 0
      BY <2>2, <1>1
    <3>2. s[m + l] = <<n, from + l>>
      BY <3>1, <1>2
    <3> QED
      BY <1>1, <3>1, <3>2 DEF EndsWith
  <2> QED
    BY <1>1, <2>1, <2>2
<1> QED
  BY <1>1, <1>6, <1>7, <1>0

(* The parts that were written stay as they are when another one begins,   *)
(* and the data thread is not between the writes of one.                   *)
LEMMA PartsKept ==
    ASSUME TypeOK, PartsInv, UNCHANGED written, LastPart',
           UNCHANGED <<parts, data>> \/ (data.pc # "data" /\ data'.pc # "data"),
           \/ UNCHANGED parts
           \/ \E len \in Lengths : parts' = Append(parts, len)
    PROVE  PartsInv'
<1>1. parts \in Seq(Nat)
  BY SizeAssumption, SeqMonotonic DEF TypeOK
<1>2. /\ Len(parts) \in Nat /\ Len(parts') \in Nat /\ Len(parts) <= Len(parts')
      /\ \A n \in 1..Len(parts) : parts'[n] = parts[n]
  BY <1>1, SizeAssumption DEF TypeOK
<1>3. \A n \in 1..Len(parts) : n \in 1..Len(parts') /\ PartLen(n)' = PartLen(n)
  BY <1>2 DEF PartLen
<1>4. ASSUME NEW c \in Clients PROVE Chained(written[c])' /\ EndsWell(c)'
  <2> DEFINE w == written[c]
  <2>1. Chained(w) /\ written'[c] = w /\ w \in Seq(Byte) /\ Len(w) \in Nat
    BY LenProperties DEF PartsInv, TypeOK
  <2>2. \A i \in 1..Len(w) : w[i][1] \in 1..Len(parts)
    BY <2>1 DEF Chained
  <2>3. \A i \in 1..Len(w) : w[i][1] \in 1..Len(parts') /\ PartLen(w[i][1])' = PartLen(w[i][1])
    BY <2>1, <2>2, <1>3
  <2>4. Chained(written[c])'
    BY <2>1, <2>3 DEF Chained
  <2>5. Complete(w) => Complete(written[c])'
    BY <2>1, <2>3 DEF Complete
  <2>6. EndsWell(c)'
    BY <2>1, <2>5 DEF PartsInv, EndsWell, EndsWith
  <2> QED
    BY <2>4, <2>6
<1> QED
  BY <1>4 DEF PartsInv

LEMMA PartsInit == Init => PartsInv
<1> SUFFICES ASSUME Init PROVE PartsInv
  OBVIOUS
<1>1. data.pc = "idle" /\ \A c \in Clients : written[c] = <<>>
  BY DEF Init
<1>2. Len(<<>>) = 0
  OBVIOUS
<1>3. \A c \in Clients : Chained(written[c]) /\ EndsWell(c)
  BY <1>1, <1>2 DEF Chained, EndsWell, Complete
<1> QED
  BY <1>1, <1>3 DEF PartsInv, LastPart

(* The header of a part is written after a complete part.                  *)
LEMMA HeaderWritten ==
    ASSUME IInv, PartsInv, multipart_header
    PROVE  PartsInv'
<1> DEFINE d == data.client
           n == Len(parts)
<1>1. /\ d \in Clients /\ Header \in Seq(Byte) /\ Len(Header) = HeaderLen
      /\ data.len \in Nat /\ HeaderLen \in Nat /\ n \in 1..MaxParts /\ data.pc = "header"
      /\ written[d] \in Seq(Byte)
  BY PartType, SizeAssumption DEF IInv, TypeOK, PartNumber, multipart_header
<1>2. /\ written' = [written EXCEPT ![d] = written[d] \o Header] /\ parts' = parts
      /\ data'.pc = "data" /\ data'.client = d /\ data'.len = data.len
  BY DEF multipart_header, Write, IInv, TypeOK
<1>3. parts \in Seq(Nat) /\ n \in 1..Len(parts) /\ PartLen(n) = HeaderLen + data.len
  <2>1. parts \in Seq(Nat)
    BY SizeAssumption, SeqMonotonic DEF IInv, TypeOK
  <2>2. n \in 1..n /\ data.len = parts[n]
    BY <1>1 DEF PartsInv, LastPart
  <2> QED
    BY <2>1, <2>2 DEF PartLen
<1>4. \A k \in 1..Len(Header) : Header[k] = <<n, 0 + k>>
  <2>1. HeaderLen - 1 + 1 = HeaderLen /\ \A k \in 1..HeaderLen : 1 + k - 1 = 0 + k
    BY <1>1
  <2>2. Header = [k \in 1..(HeaderLen - 1 + 1) |-> <<n, 1 + k - 1>>]
    BY DEF Header, Part
  <2> HIDE DEF n
  <2> QED
    BY <1>1, <2>1, <2>2
<1>5. Chained(written[d]) /\ EndsWith(written[d], n, 0)
  BY <1>1 DEF PartsInv, EndsWell, EndsWith
<1> DEFINE w == written[d] \o Header
<1>6. Chained(w) /\ EndsWith(w, n, HeaderLen)
  <2>1. 0 + Len(Header) = HeaderLen /\ HeaderLen <= PartLen(n) /\ 0 \in Nat
    BY <1>1, <1>3
  <2> HIDE DEF n, d
  <2> QED
    BY <1>1, <1>3, <1>4, <1>5, <2>1, ChainGrows
<1>7. /\ written'[d] = w
      /\ \A c \in Clients \ {d} : written'[c] = written[c]
  BY <1>1, <1>2 DEF IInv, TypeOK
<1> HIDE DEF w
<1>8. ASSUME NEW c \in Clients PROVE Chained(written[c])' /\ EndsWell(c)'
  <2>1. CASE c = d
    BY <2>1, <1>2, <1>6, <1>7, ZenonT(30) DEF Chained, PartLen, EndsWell, EndsWith, Complete
  <2>2. CASE c # d
    BY <2>2, <1>1, <1>2, <1>7 DEF PartsInv, Chained, PartLen, EndsWell, Complete
  <2> QED
    BY <2>1, <2>2
<1>9. LastPart'
  BY <1>1, <1>2 DEF PartsInv, LastPart
<1> QED
  BY <1>8, <1>9 DEF PartsInv

(* The data is written after the header and completes the part.            *)
LEMMA DataWritten ==
    ASSUME IInv, PartsInv, multipart_data
    PROVE  PartsInv'
<1> DEFINE d == data.client
           n == Len(parts)
<1>1. /\ d \in Clients /\ Data \in Seq(Byte) /\ Len(Data) = data.len
      /\ data.len \in Nat /\ HeaderLen \in Nat /\ n \in 1..MaxParts /\ data.pc = "data"
      /\ written[d] \in Seq(Byte)
  BY PartType, SizeAssumption DEF IInv, TypeOK, PartNumber, multipart_data
<1>2. /\ written' = [written EXCEPT ![d] = written[d] \o Data] /\ parts' = parts
      /\ data'.pc = "check" /\ data'.len = data.len
  BY DEF multipart_data, Write
<1>3. parts \in Seq(Nat) /\ n \in 1..Len(parts) /\ PartLen(n) = HeaderLen + data.len
  <2>1. parts \in Seq(Nat)
    BY SizeAssumption, SeqMonotonic DEF IInv, TypeOK
  <2>2. n \in 1..n /\ data.len = parts[n]
    BY <1>1 DEF PartsInv, LastPart
  <2> QED
    BY <2>1, <2>2 DEF PartLen
<1>4. \A k \in 1..Len(Data) : Data[k] = <<n, HeaderLen + k>>
  <2>1. /\ ((HeaderLen + data.len) - (HeaderLen + 1)) + 1 = data.len
        /\ \A k \in 1..data.len : HeaderLen + 1 + k - 1 = HeaderLen + k
    BY <1>1
  <2>2. Data = [k \in 1..(((HeaderLen + data.len) - (HeaderLen + 1)) + 1) |->
                  <<n, HeaderLen + 1 + k - 1>>]
    BY DEF Data, Part
  <2> HIDE DEF n
  <2> QED
    BY <1>1, <2>1, <2>2
<1>5. Chained(written[d]) /\ EndsWith(written[d], n, HeaderLen)
  BY <1>1 DEF PartsInv, EndsWell
<1> DEFINE w == written[d] \o Data
<1>6. Chained(w) /\ EndsWith(w, n, PartLen(n))
  <2>1. HeaderLen + Len(Data) = PartLen(n) /\ PartLen(n) <= PartLen(n)
    BY <1>1, <1>3
  <2> HIDE DEF n, d
  <2> QED
    BY <1>1, <1>3, <1>4, <1>5, <2>1, ChainGrows
<1>7. /\ written'[d] = w
      /\ \A c \in Clients \ {d} : written'[c] = written[c]
  BY <1>1, <1>2 DEF IInv, TypeOK
<1>8. Complete(w)
  BY <1>6 DEF EndsWith, Complete
<1> HIDE DEF w
<1>9. ASSUME NEW c \in Clients PROVE Chained(written[c])' /\ EndsWell(c)'
  <2>1. CASE c = d
    BY <2>1, <1>2, <1>6, <1>7, <1>8, ZenonT(30) DEF Chained, PartLen, EndsWell, Complete
  <2>2. CASE c # d
    BY <2>2, <1>1, <1>2, <1>7, SMTT(30) DEF PartsInv, Chained, PartLen, EndsWell, Complete
  <2> QED
    BY <2>1, <2>2
<1>10. LastPart'
  BY <1>1, <1>2 DEF PartsInv, LastPart
<1> QED
  BY <1>9, <1>10 DEF PartsInv

LEMMA PartsStep == IInv /\ PartsInv /\ [Next]_vars => PartsInv'
<1> SUFFICES ASSUME IInv, PartsInv, [Next]_vars PROVE PartsInv'
  OBVIOUS
<1>1. CASE multipart_header
  BY <1>1, HeaderWritten
<1>2. CASE multipart_data
  BY <1>2, DataWritten
<1>3. CASE streamer_send_multipart
  <2>1. PICK len \in Lengths :
          /\ parts' = Append(parts, len) /\ data'.pc = "check" /\ data'.len = len
          /\ data.pc = "idle"
    BY <1>3 DEF streamer_send_multipart
  <2>2. parts'[Len(parts')] = len
    BY <2>1 DEF IInv, TypeOK
  <2> QED
    BY <1>3, <2>1, <2>2, PartsKept
       DEF streamer_send_multipart, LastPart, flowVars, IInv
<1>4. CASE multipart_check \/ multipart_unlock \/ data_done
  <2>1. /\ data.pc \in {"check", "idle"} /\ data'.pc # "data"
        /\ data'.pc \in {"check", "header"} => data.pc = "check" /\ data'.len = data.len
        /\ data'.pc \in {"check", "header", "idle", "done"}
    BY <1>4 DEF multipart_check, multipart_unlock, data_done
  <2>2. UNCHANGED <<parts, written>>
    BY <1>4 DEF multipart_check, multipart_unlock, data_done, flowVars
  <2>3. LastPart'
    BY <2>1, <2>2 DEF LastPart, PartsInv
  <2> QED
    BY <2>1, <2>2, <2>3, PartsKept DEF IInv
<1>5. CASE UNCHANGED <<parts, data, written>>
  <2>1. LastPart'
    BY <1>5 DEF LastPart, PartsInv
  <2> QED
    BY <1>5, <2>1, PartsKept DEF IInv
<1>6. ASSUME NEW c \in Clients, ClientIO(c) \/ ClientStep(c)
      PROVE  UNCHANGED <<parts, data, written>>
  BY <1>6 DEF ClientIO, ClientStep, client_headers, client_loop, client_data_available,
              client_read, client_read_quit, client_chunk, streamer_remove_client, ClientGoto,
              flowVars
<1>7. CASE \/ server_socket_accept \/ ServerIO \/ ServerStep
           \/ delete_streamer \/ DeleterStep \/ AppQuit \/ UNCHANGED vars
  BY <1>5, <1>7
     DEF server_socket_accept, ServerIO, ServerStep, server_other_request,
         server_stream_request, server_delete_clients, streamer_delete_clients,
         streamer_add_client, streamer_start_stream, server_done,
         delete_streamer, DeleterStep, AppQuit, join_server, join_data,
         take_clients, join_clients, delete_clients, DeleterGoto, flowVars, vars
<1> QED
  BY <1>1, <1>2, <1>3, <1>4, <1>5, <1>6, <1>7 DEF Next, DataStep

(* With StreamIntact, what is sent and what is in the buffer is the chain  *)
(* that was written.                                                       *)
LEMMA PartsImply == IInv /\ PartsInv => WholeParts
<1> SUFFICES ASSUME IInv, PartsInv, NEW c \in Clients
    PROVE  LET s == sent[c] \o Contents(buf[c]) IN
           \A i \in 1..Len(s) :
               LET n == s[i][1]
                   k == s[i][2] IN
               /\ k > 1 => i > 1 /\ s[i - 1] = <<n, k - 1>>
               /\ k < HeaderLen + parts[n] =>
                    IF i < Len(s) THEN s[i + 1] = <<n, k + 1>>
                    ELSE data.pc = "data" /\ data.client = c
  BY DEF WholeParts
<1> DEFINE w == written[c]
<1>1. w = sent[c] \o Contents(buf[c])
  BY DEF IInv, StreamIntact
<1>2. w \in Seq(Byte) /\ Len(w) \in Nat
  BY LenProperties DEF IInv, TypeOK
<1>3. Chained(w) /\ EndsWell(c) /\ parts \in Seq(Nat) /\ HeaderLen \in Nat
  BY SizeAssumption, SeqMonotonic DEF PartsInv, IInv, TypeOK
<1>4. ASSUME NEW i \in 1..Len(w)
      PROVE  /\ w[i][2] > 1 => i > 1 /\ w[i - 1] = <<w[i][1], w[i][2] - 1>>
             /\ w[i][2] < HeaderLen + parts[w[i][1]] =>
                  IF i < Len(w) THEN w[i + 1] = <<w[i][1], w[i][2] + 1>>
                  ELSE data.pc = "data" /\ data.client = c
  <2>1. ASSUME i = Len(w), w[i][2] < PartLen(w[i][1])
        PROVE  data.pc = "data" /\ data.client = c
    <3>1. ~Complete(w)
      <4>1. w[i][2] \in Nat /\ PartLen(w[i][1]) \in Nat
        BY <1>3, SMTT(30) DEF Chained, PartLen
      <4> QED
        BY <2>1, <4>1, <1>2 DEF Complete
    <3> QED
      BY <3>1, <1>3 DEF EndsWell
  <2>2. i < Len(w) \/ i = Len(w)
    BY <1>2
  <2> QED
    BY <1>3, <2>1, <2>2 DEF Chained, PartLen
<1> HIDE DEF w
<1> QED
  BY <1>1, <1>4, Zenon

(* A client misses whole parts or nothing: every header that is sent or in *)
(* its buffer is followed by exactly its data (streamer_send_multipart     *)
(* looks for room for both before it writes either).                       *)
THEOREM PartsAreWhole == Spec => []WholeParts
BY InitInvariant, StepInvariant, PartsInit, PartsStep, PartsImply, PTL DEF Spec

-----------------------------------------------------------------------------
(* The lifetimes.  A client that is alive is being added by the server     *)
(* thread, or in one of the two lists, or in the list that delete_streamer *)
(* has taken (ClientsLocated); where it is says what its thread may be     *)
(* doing (ClientsPlaced).  The clients that the data thread goes through   *)
(* stay in the list as long as it has clients_mutex (MutexKept), and       *)
(* delete_streamer has joined who could add clients before it takes the    *)
(* list (DeletionOrder).                                                   *)

(* The client that the server thread is setting up                         *)
Starting == IF server.pc \in {"add", "start"} THEN {server.client} ELSE {}

(* The clients that delete_streamer is about to join                       *)
ToJoin == IF deleter.pc = "join_clients" THEN deleter.list ELSE {}

(* The clients that the data thread has before it                          *)
Visiting == CASE data.pc = "check" -> data.todo
              [] data.pc \in {"header", "data"} -> data.todo \cup {data.client}
              [] OTHER -> {}

Alive == {c \in Clients : object[c] = "alive"}

Streaming == {"headers", "loop", "read", "take", "chunk", "remove"}

ClientsLocated == Alive = clients \cup finished \cup Starting \cup ToJoin

ClientsPlaced ==
    \A c \in Clients :
        /\ object[c] \in {"none", "leaked"} => thread[c].pc = "none"
        /\ c \in Starting =>
            /\ thread[c].pc = "none" /\ c \notin finished
            /\ c \in clients <=> server.pc = "start"
        /\ c \in clients => thread[c].pc \in Streaming \/ c \in Starting
        /\ c \in finished => thread[c].pc = "done"
        /\ c \in ToJoin => thread[c].pc # "none"
        /\ thread[c].pc \in Streaming => c \in clients \cup ToJoin
        /\ thread[c].pc = "done" /\ object[c] = "alive" => c \in finished

MutexKept ==
    /\ holder = "data" <=> data.pc \in {"check", "header", "data"}
    /\ Visiting \subseteq clients

DeletionOrder ==
    /\ deleter.pc \notin {"none", "join_server"} => server.pc = "done"
    /\ deleter.pc \notin {"none", "join_server", "join_data"} => data.pc = "done"
    /\ deleter.pc \in {"join_clients", "delete_clients", "freed"} => clients = {}
    /\ deleter.pc = "freed" => finished = {}

LifeInv == ClientsLocated /\ ClientsPlaced /\ MutexKept /\ DeletionOrder

LEMMA LifeInit == Init => LifeInv
<1> SUFFICES ASSUME Init PROVE LifeInv
  OBVIOUS
<1>1. /\ \A c \in Clients : thread[c].pc = "none" /\ object[c] = "none"
      /\ clients = {} /\ finished = {} /\ holder = "none"
      /\ server.pc = "accept" /\ data.pc = "idle" /\ deleter.pc = "none"
  BY DEF Init
<1>2. Starting = {} /\ ToJoin = {} /\ Visiting = {} /\ Alive = {}
  BY <1>1 DEF Starting, ToJoin, Visiting, Alive
<1>3. ClientsLocated
  BY <1>1, <1>2 DEF ClientsLocated
<1>4. ClientsPlaced
  BY <1>1, <1>2 DEF ClientsPlaced, Streaming
<1> QED
  BY <1>1, <1>2, <1>3, <1>4 DEF MutexKept, DeletionOrder, LifeInv

(* The thread of a client goes on streaming.                               *)
LEMMA StreamingLife ==
    ASSUME TypeOK, LifeInv, NEW c \in Clients, NEW v,
           thread[c].pc \in Streaming, v.pc \in Streaming,
           thread' = [thread EXCEPT ![c] = v],
           UNCHANGED <<listVars, holder, server, data, deleter, object>>
    PROVE  LifeInv'
<1>1. /\ thread'[c].pc \in Streaming
      /\ \A d \in Clients \ {c} : thread'[d] = thread[d]
  BY DEF TypeOK
<1>2. Starting' = Starting /\ ToJoin' = ToJoin /\ Visiting' = Visiting /\ Alive' = Alive
  BY DEF Starting, ToJoin, Visiting, Alive
<1>3. ClientsPlaced'
  BY <1>1, <1>2 DEF LifeInv, ClientsPlaced, listVars, Streaming
<1> QED
  BY <1>2, <1>3 DEF LifeInv, ClientsLocated, MutexKept, DeletionOrder, listVars

(* Its last step moves the client to the list of finished clients.         *)
LEMMA RemoveLife ==
    ASSUME TypeOK, LifeInv, NEW c \in Clients, streamer_remove_client(c)
    PROVE  LifeInv'
<1>1. /\ thread[c].pc = "remove" /\ holder = "none"
      /\ clients' = clients \ {c} /\ finished' = finished \cup {c}
      /\ thread' = [thread EXCEPT ![c] = [pc |-> "done"]]
      /\ UNCHANGED <<holder, server, data, deleter, object>>
  BY DEF streamer_remove_client, ClientGoto, MutexFree
<1>2. /\ thread'[c].pc = "done"
      /\ \A d \in Clients \ {c} : thread'[d] = thread[d]
  BY <1>1 DEF TypeOK
<1>3. Starting' = Starting /\ ToJoin' = ToJoin /\ Visiting' = Visiting /\ Alive' = Alive
  BY <1>1 DEF Starting, ToJoin, Visiting, Alive
<1>4. /\ c \in clients \cup ToJoin /\ c \in Alive /\ c \notin Starting
      /\ Visiting = {}
  BY <1>1 DEF LifeInv, ClientsLocated, ClientsPlaced, MutexKept, Visiting, Streaming
<1>5. ClientsLocated'
  BY <1>1, <1>3, <1>4 DEF LifeInv, ClientsLocated
<1>6. ClientsPlaced'
  BY <1>1, <1>2, <1>3, <1>4 DEF LifeInv, ClientsPlaced, Alive, Streaming
<1>7. MutexKept'
  BY <1>1, <1>3, <1>4 DEF LifeInv, MutexKept
<1>8. DeletionOrder'
  <2>1. deleter.pc # "freed"
    BY <1>4 DEF LifeInv, DeletionOrder, ToJoin
  <2> QED
    BY <1>1, <2>1 DEF LifeInv, DeletionOrder
<1> QED
  BY <1>5, <1>6, <1>7, <1>8 DEF LifeInv

(* The server thread goes from one place without a client to another, or   *)
(* creates a client that it does not stream to.                            *)
LEMMA ServerWaitsLife ==
    ASSUME TypeOK, LifeInv,
           \/ server.pc = "accept" /\ server'.pc \in {"cleanup", "done"} /\ object' = object
           \/ server_other_request,
           UNCHANGED <<listVars, holder, data, deleter, thread>>
    PROVE  LifeInv'
<1>1. server.pc \in {"accept", "request"} /\ server'.pc \in {"accept", "cleanup", "done"}
  BY DEF server_other_request
<1>2. \A c \in Clients : object'[c] = object[c] \/ (object[c] = "none" /\ object'[c] \in {"freed", "leaked"})
  BY DEF server_other_request, TypeOK
<1>3. Starting = {} /\ Starting' = {} /\ ToJoin' = ToJoin /\ Visiting' = Visiting
  BY <1>1 DEF Starting, ToJoin, Visiting
<1>4. Alive' = Alive
  BY <1>2 DEF Alive
<1>5. ClientsPlaced'
  BY <1>2, <1>3 DEF LifeInv, ClientsPlaced, listVars
<1> QED
  BY <1>1, <1>3, <1>4, <1>5 DEF LifeInv, ClientsLocated, MutexKept, DeletionOrder, listVars

(* A client that is created for the stream is being added.                 *)
LEMMA StreamRequestLife ==
    ASSUME TypeOK, LifeInv, server_stream_request
    PROVE  LifeInv'
<1>1. PICK c \in Clients :
        /\ object[c] = "none" /\ object' = [object EXCEPT ![c] = "alive"]
        /\ server' = [pc |-> "add", client |-> c]
  BY DEF server_stream_request
<1>2. server.pc = "request" /\ UNCHANGED <<listVars, holder, data, deleter, thread>>
  BY DEF server_stream_request
<1>3. /\ Starting = {} /\ Starting' = {c} /\ ToJoin' = ToJoin /\ Visiting' = Visiting
      /\ Alive' = Alive \cup {c} /\ c \notin Alive /\ thread[c].pc = "none"
  BY <1>1, <1>2 DEF TypeOK, Starting, ToJoin, Visiting, Alive, LifeInv, ClientsPlaced
<1>4. c \notin clients \cup finished \cup ToJoin
  BY <1>3 DEF LifeInv, ClientsLocated
<1>5. ClientsLocated'
  BY <1>2, <1>3 DEF LifeInv, ClientsLocated, listVars
<1>6. ClientsPlaced'
  BY <1>1, <1>2, <1>3, <1>4 DEF TypeOK, LifeInv, ClientsPlaced, listVars, Streaming
<1>7. MutexKept' /\ DeletionOrder'
  BY <1>1, <1>2, <1>3 DEF LifeInv, MutexKept, DeletionOrder, listVars
<1> QED
  BY <1>5, <1>6, <1>7 DEF LifeInv

(* It is put into the list, then its thread is started.                    *)
LEMMA StartStreamLife ==
    ASSUME TypeOK, LifeInv, streamer_add_client \/ streamer_start_stream
    PROVE  LifeInv'
<1> DEFINE c == server.client
<1>1. /\ c \in Clients /\ c \in Starting
      /\ \/ /\ server.pc = "add" /\ holder = "none" /\ clients' = clients \cup {c}
            /\ server' = [pc |-> "start", client |-> c] /\ thread' = thread
         \/ /\ server.pc = "start" /\ clients' = clients
            /\ server' = [pc |-> "accept"] /\ thread' = [thread EXCEPT ![c] = [pc |-> "headers"]]
      /\ UNCHANGED <<finished, holder, data, deleter, object>>
  BY DEF streamer_add_client, streamer_start_stream, MutexFree, TypeOK, Starting, listVars
<1>2. /\ Starting = {c} /\ Starting' = (IF server.pc = "add" THEN {c} ELSE {})
      /\ ToJoin' = ToJoin /\ Visiting' = Visiting /\ Alive' = Alive
  BY <1>1 DEF Starting, ToJoin, Visiting, Alive
<1> HIDE DEF c
<1>3. /\ \A d \in Clients \ {c} : thread'[d] = thread[d]
      /\ thread'[c].pc = (IF server.pc = "add" THEN "none" ELSE "headers")
      /\ c \in Alive /\ c \notin finished /\ c \in clients' /\ clients \subseteq clients'
  BY <1>1, <1>2 DEF TypeOK, LifeInv, ClientsLocated, ClientsPlaced
<1>4. ClientsLocated'
  BY <1>1, <1>2, <1>3 DEF LifeInv, ClientsLocated
<1>5. ClientsPlaced'
  BY <1>1, <1>2, <1>3 DEF LifeInv, ClientsPlaced, Alive, Streaming
<1>6. MutexKept'
  BY <1>1, <1>2, <1>3 DEF LifeInv, MutexKept
<1>7. DeletionOrder'
  BY <1>1 DEF LifeInv, DeletionOrder
<1> QED
  BY <1>4, <1>5, <1>6, <1>7 DEF LifeInv

(* The finished clients are deleted; none of them is used any more.        *)
LEMMA DeleteClientsLife ==
    ASSUME TypeOK, LifeInv, server_delete_clients \/ delete_clients
    PROVE  LifeInv'
<1>1. /\ holder = "none" /\ finished' = {}
      /\ object' = [c \in Clients |-> IF c \in finished THEN "freed" ELSE object[c]]
      /\ UNCHANGED <<clients, holder, data, thread>>
      /\ \/ /\ server.pc = "cleanup" /\ server' = [pc |-> "request"] /\ deleter' = deleter
         \/ /\ deleter.pc = "delete_clients" /\ deleter' = [pc |-> "freed"] /\ server' = server
  BY DEF server_delete_clients, delete_clients, streamer_delete_clients, Free, MutexFree
<1>2. Alive' = Alive \ finished /\ finished \subseteq Clients
  BY <1>1 DEF Alive, TypeOK
<1>3. ToJoin = {} /\ ToJoin' = {} /\ Starting' = Starting /\ Visiting' = Visiting
  BY <1>1 DEF LifeInv, DeletionOrder, Starting, ToJoin, Visiting
<1>4. \A c \in finished : c \notin clients \cup Starting
  BY <1>2 DEF LifeInv, ClientsPlaced, Streaming
<1>5. ClientsLocated'
  BY <1>1, <1>2, <1>3, <1>4 DEF LifeInv, ClientsLocated
<1>6. ClientsPlaced'
  BY <1>1, <1>2, <1>3, <1>4 DEF LifeInv, ClientsPlaced, Alive, Streaming, Starting
<1>7. MutexKept'
  BY <1>1, <1>3 DEF LifeInv, MutexKept
<1>8. DeletionOrder'
  BY <1>1 DEF LifeInv, DeletionOrder
<1> QED
  BY <1>5, <1>6, <1>7, <1>8 DEF LifeInv

(* The data thread takes the list when it takes the mutex, and leaves both *)
(* as they are until it releases it.                                       *)
LEMMA DataLife ==
    ASSUME TypeOK, LifeInv, streamer_send_multipart \/ DataStep
    PROVE  LifeInv'
<1>1. UNCHANGED <<listVars, server, deleter, thread, object>>
  BY DEF streamer_send_multipart, DataStep, multipart_check, multipart_header, multipart_data,
         multipart_unlock, data_done, Write, flowVars
<1>2. Starting' = Starting /\ ToJoin' = ToJoin /\ Alive' = Alive
  BY <1>1 DEF Starting, ToJoin, Alive
<1>3. data'.pc = "done" \/ data.pc # "done"
  BY DEF streamer_send_multipart, DataStep, multipart_check, multipart_header, multipart_data,
         multipart_unlock, data_done, Write
<1>4. MutexKept'
  <2>1. CASE streamer_send_multipart
    BY <2>1, <1>1 DEF streamer_send_multipart, MutexKept, Visiting, listVars
  <2>2. CASE multipart_check
    <3>1. /\ data.pc = "check" /\ holder' = holder /\ holder = "data"
          /\ data'.pc \in {"check", "header"} /\ Visiting' \subseteq Visiting
      BY <2>2 DEF multipart_check, TypeOK, LifeInv, MutexKept, Visiting
    <3> QED
      BY <3>1, <1>1 DEF LifeInv, MutexKept, listVars
  <2>3. CASE multipart_header
    <3>1. /\ data.pc = "header" /\ holder' = holder
          /\ data'.pc = "data" /\ data'.client = data.client /\ data'.todo = data.todo
      BY <2>3 DEF multipart_header, Write, TypeOK
    <3> QED
      BY <3>1, <1>1 DEF LifeInv, MutexKept, Visiting, listVars
  <2>5. CASE multipart_data
    <3>1. /\ data.pc = "data" /\ holder' = holder
          /\ data'.pc = "check" /\ data'.todo = data.todo
      BY <2>5 DEF multipart_data, Write
    <3> QED
      BY <3>1, <1>1 DEF LifeInv, MutexKept, Visiting, listVars
  <2>4. CASE multipart_unlock \/ data_done
    <3>1. /\ data'.pc \notin {"check", "header", "data"} /\ holder' = "none"
      BY <2>4 DEF multipart_unlock, data_done, TypeOK, LifeInv, MutexKept
    <3> QED
      BY <3>1 DEF MutexKept, Visiting
  <2> QED
    BY <2>1, <2>2, <2>3, <2>4, <2>5 DEF DataStep
<1>5. ClientsLocated' /\ ClientsPlaced'
  BY <1>1, <1>2 DEF LifeInv, ClientsLocated, ClientsPlaced, listVars
<1>6. DeletionOrder'
  <2>1. deleter.pc \in {"none", "join_server", "join_data"} \/ data'.pc = "done"
    BY <1>3 DEF LifeInv, DeletionOrder
  <2> QED
    BY <1>1, <2>1 DEF LifeInv, DeletionOrder, listVars
<1> QED
  BY <1>4, <1>5, <1>6 DEF LifeInv

(* delete_streamer joins the threads one kind after the other, and then    *)
(* every client that is alive is finished.                                 *)
LEMMA DeleterLife ==
    ASSUME TypeOK, LifeInv,
           delete_streamer \/ join_server \/ join_data \/ take_clients \/ join_clients
    PROVE  LifeInv'
<1>1. /\ UNCHANGED <<finished, holder, server, data, thread, object>>
      /\ \/ deleter.pc = "none" /\ deleter' = [pc |-> "join_server"] /\ clients' = clients
         \/ /\ deleter.pc = "join_server" /\ server.pc = "done"
            /\ deleter' = [pc |-> "join_data"] /\ clients' = clients
         \/ /\ deleter.pc = "join_data" /\ data.pc = "done"
            /\ deleter' = [pc |-> "take_clients"] /\ clients' = clients
         \/ /\ deleter.pc = "take_clients" /\ holder = "none"
            /\ deleter' = [pc |-> "join_clients", list |-> clients] /\ clients' = {}
         \/ /\ deleter.pc = "join_clients" /\ \A c \in deleter.list : thread[c].pc = "done"
            /\ deleter' = [pc |-> "delete_clients"] /\ clients' = clients
  BY DEF delete_streamer, join_server, join_data, take_clients, join_clients, DeleterGoto,
         listVars, MutexFree
<1>2. Starting' = Starting /\ Visiting' = Visiting /\ Alive' = Alive
  BY <1>1 DEF Starting, Visiting, Alive
<1>3. /\ ToJoin \cup clients \subseteq Clients
      /\ \/ clients' = clients /\ ToJoin' = {}
            /\ \A c \in ToJoin : thread[c].pc = "done"
         \/ /\ clients' = {} /\ ToJoin = {} /\ ToJoin' = clients
            /\ Starting = {} /\ Visiting = {} /\ deleter'.pc = "join_clients"
  BY <1>1 DEF LifeInv, TypeOK, DeletionOrder, ToJoin, Starting, Visiting
<1>4. \A c \in ToJoin : thread[c].pc = "done" => c \in finished
  BY <1>3 DEF LifeInv, ClientsLocated, ClientsPlaced, Alive
<1>5. ClientsLocated'
  BY <1>1, <1>2, <1>3, <1>4 DEF LifeInv, ClientsLocated
<1>6. ClientsPlaced'
  BY <1>1, <1>2, <1>3, <1>4 DEF LifeInv, ClientsPlaced, Streaming
<1>7. MutexKept'
  BY <1>1, <1>2, <1>3 DEF LifeInv, MutexKept
<1>8. DeletionOrder'
  BY <1>1 DEF LifeInv, DeletionOrder
<1> QED
  BY <1>5, <1>6, <1>7, <1>8 DEF LifeInv

LEMMA LifeStep == TypeOK /\ LifeInv /\ [Next]_vars => LifeInv'
<1> SUFFICES ASSUME TypeOK, LifeInv, [Next]_vars PROVE LifeInv'
  OBVIOUS
<1>1. CASE server_socket_accept \/ server_done \/ server_other_request
  <2>1. UNCHANGED <<listVars, holder, data, deleter, thread>>
    BY <1>1 DEF server_socket_accept, server_done, server_other_request
  <2>2. \/ server.pc = "accept" /\ server'.pc \in {"cleanup", "done"} /\ object' = object
        \/ server_other_request
    BY <1>1 DEF server_socket_accept, server_done
  <2> QED
    BY <2>1, <2>2, ServerWaitsLife
<1>2. CASE server_stream_request
  BY <1>2, StreamRequestLife
<1>3. CASE streamer_add_client \/ streamer_start_stream
  BY <1>3, StartStreamLife
<1>4. CASE server_delete_clients \/ delete_clients
  BY <1>4, DeleteClientsLife
<1>5. CASE streamer_send_multipart \/ DataStep
  BY <1>5, DataLife
<1>6. ASSUME NEW c \in Clients,
             \/ client_headers(c) \/ client_loop(c) \/ client_data_available(c)
             \/ client_read(c) \/ client_read_quit(c) \/ client_chunk(c)
      PROVE  LifeInv'
  <2>1. /\ thread[c].pc \in Streaming
        /\ UNCHANGED <<listVars, holder, server, data, deleter, object>>
    BY <1>6 DEF client_headers, client_loop, client_data_available, client_read,
                client_read_quit, client_chunk, ClientGoto, Streaming, flowVars
  <2>2. CASE client_data_available(c)
    <3> DEFINE available == circular_buffer_data_available(buf[c])
               v == [pc |-> "take",
                     len |-> IF available > ChunkSize THEN ChunkSize ELSE available]
    <3>1. thread' = [thread EXCEPT ![c] = v]
      BY <2>2 DEF client_data_available
    <3>2. v.pc \in Streaming
      BY DEF Streaming
    <3> HIDE DEF v
    <3> QED
      BY <2>1, <3>1, <3>2, StreamingLife
  <2>3. CASE ~client_data_available(c)
    <3>1. \E pc \in Streaming : thread' = [thread EXCEPT ![c] = [pc |-> pc]]
      BY <1>6, <2>3 DEF client_headers, client_loop, client_read, client_read_quit,
                        client_chunk, ClientGoto, Streaming
    <3> QED
      BY <2>1, <3>1, StreamingLife
  <2> QED
    BY <2>2, <2>3
<1>7. ASSUME NEW c \in Clients, streamer_remove_client(c) PROVE LifeInv'
  BY <1>7, RemoveLife
<1>8. CASE delete_streamer \/ join_server \/ join_data \/ take_clients \/ join_clients
  BY <1>8, DeleterLife
<1>9. CASE AppQuit \/ UNCHANGED vars
  <2>1. UNCHANGED <<listVars, holder, server, data, deleter, thread, object>>
    BY <1>9 DEF AppQuit, vars, listVars
  <2>2. Starting' = Starting /\ ToJoin' = ToJoin /\ Visiting' = Visiting /\ Alive' = Alive
    BY <2>1 DEF Starting, ToJoin, Visiting, Alive
  <2> QED
    BY <2>1, <2>2 DEF LifeInv, ClientsLocated, ClientsPlaced, MutexKept, DeletionOrder, listVars
<1> QED
  BY <1>1, <1>2, <1>3, <1>4, <1>5, <1>6, <1>7, <1>8, <1>9
     DEF Next, ServerIO, ServerStep, ClientIO, ClientStep, DeleterStep

LEMMA LifeImplies == TypeOK /\ LifeInv => ClientFreedLast /\ StreamerFreedLast
<1> SUFFICES ASSUME TypeOK, LifeInv PROVE ClientFreedLast /\ StreamerFreedLast
  OBVIOUS
<1>1. ASSUME NEW c \in Clients, object[c] = "freed"
      PROVE  /\ thread[c].pc \in {"none", "done"}
             /\ server.pc \in {"add", "start"} => server.client # c
             /\ data.pc \in {"check", "header", "data"} => c \notin data.todo
             /\ data.pc \in {"header", "data"} => data.client # c
  <2>1. c \notin clients \cup Starting \cup ToJoin \cup Visiting
    BY <1>1 DEF Alive, LifeInv, ClientsLocated, MutexKept
  <2>2. thread[c].pc \in {"none", "done"}
    BY <2>1 DEF LifeInv, TypeOK, ClientsPlaced, Streaming
  <2> QED
    BY <2>1, <2>2 DEF Starting, Visiting
<1>2. ASSUME deleter.pc = "freed"
      PROVE  /\ server.pc = "done" /\ data.pc = "done"
             /\ \A c \in Clients : thread[c].pc \in {"none", "done"} /\ object[c] # "alive"
  <2>1. /\ server.pc = "done" /\ data.pc = "done"
        /\ clients = {} /\ finished = {} /\ ToJoin = {} /\ Starting = {}
    BY <1>2 DEF LifeInv, DeletionOrder, ToJoin, Starting
  <2>2. \A c \in Clients : object[c] # "alive"
    BY <2>1 DEF LifeInv, ClientsLocated, Alive
  <2>3. \A c \in Clients : thread[c].pc \in {"none", "done"}
    BY <2>1 DEF LifeInv, TypeOK, ClientsPlaced, Streaming
  <2> QED
    BY <2>1, <2>2, <2>3
<1> QED
  BY <1>1, <1>2 DEF ClientFreedLast, StreamerFreedLast

(* A client object is freed (streamer_delete_clients) after its own thread *)
(* has ended, when the server thread is not setting it up and the data     *)
(* thread does not have it before it.                                      *)
THEOREM ClientsAreFreedLast == Spec => []ClientFreedLast
<1>1. IInv => TypeOK
  BY DEF IInv
<1> QED
  BY <1>1, InitInvariant, StepInvariant, LifeInit, LifeStep, LifeImplies, PTL DEF Spec

(* The streamer is freed (the end of delete_streamer) after its threads    *)
(* and the clients it streamed to, finished ones and active ones.          *)
THEOREM StreamerIsFreedLast == Spec => []StreamerFreedLast
<1>1. IInv => TypeOK
  BY DEF IInv
<1> QED
  BY <1>1, InitInvariant, StepInvariant, LifeInit, LifeStep, LifeImplies, PTL DEF Spec
=============================================================================
