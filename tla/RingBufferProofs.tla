--------------------------- MODULE RingBufferProofs ---------------------------
(***************************************************************************)
(* The ring buffer is a byte stream, for every capacity, set of bytes and   *)
(* length of the copies: lemmas about each operation on the sequence of     *)
(* bytes a ring holds, then safety and the refinement of ByteStream.        *)
(***************************************************************************)
EXTENDS RingBuffer, SequenceTheorems, TLAPS

USE CapacityAssumption

-------------------------------------------------------------------------------
(* Index arithmetic. *)

LEMMA AdvanceIndexRange ==
    ASSUME NEW i \in Slots, NEW n \in 0 .. Capacity
    PROVE  AdvanceIndex(i, n) \in Slots
BY DEF AdvanceIndex, Slots

\* Two advances compose into one as long as together they are at most one lap.
LEMMA AdvanceIndexComposes ==
    ASSUME NEW i \in Slots, NEW m \in Nat, NEW n \in Nat, m + n <= Capacity
    PROVE  AdvanceIndex(AdvanceIndex(i, m), n) = AdvanceIndex(i, m + n)
BY DEF AdvanceIndex, Slots

-------------------------------------------------------------------------------
(* The operations on a valid ring. *)

SoundRing == {r \in RingRecord : StateIsValid(r)}

LEMMA SoundFields ==
    ASSUME NEW r \in SoundRing
    PROVE  /\ r \in RingRecord
           /\ r.read \in Slots /\ r.write \in Slots /\ r.used \in 0 .. Capacity
           /\ r.storage \in [Slots -> Bytes]
           /\ r.write = AdvanceIndex(r.read, r.used)
           /\ r.configured
BY DEF SoundRing, RingRecord, StateIsValid

LEMMA ContentsType ==
    ASSUME NEW r \in SoundRing
    PROVE  /\ Contents(r) \in Seq(Bytes)
           /\ Len(Contents(r)) = r.used
           /\ \A k \in 1 .. r.used : Contents(r)[k] = r.storage[AdvanceIndex(r.read, k - 1)]
<1>1. \A k \in 1 .. r.used : r.storage[AdvanceIndex(r.read, k - 1)] \in Bytes
  <2> TAKE k \in 1 .. r.used
  <2>1. k - 1 \in 0 .. Capacity
    BY SoundFields
  <2>2. AdvanceIndex(r.read, k - 1) \in Slots
    BY <2>1, SoundFields, AdvanceIndexRange
  <2> QED  BY <2>2, SoundFields
<1>2. Contents(r) \in [1 .. r.used -> Bytes]
  BY <1>1 DEF Contents
<1>3. Contents(r) \in Seq(Bytes)
  BY <1>2, SoundFields, SeqDef
<1>4. Len(Contents(r)) = r.used
  BY <1>3, SoundFields DEF Contents
<1> QED  BY <1>3, <1>4 DEF Contents

LEMMA EmptiedSound ==
    ASSUME NEW r \in RingRecord
    PROVE  Emptied(r) \in SoundRing /\ Contents(Emptied(r)) = << >>
<1>1. /\ Emptied(r) \in RingRecord
      /\ Emptied(r).configured /\ Emptied(r).read = 0
      /\ Emptied(r).write = 0 /\ Emptied(r).used = 0
  <2>1. 0 \in Slots /\ 0 \in 0 .. Capacity /\ TRUE \in BOOLEAN
    BY DEF Slots
  <2>2. Emptied(r) \in RingRecord
    BY <2>1 DEF Emptied, RingRecord
  <2> QED  BY <2>2 DEF Emptied, RingRecord
<1>2. Emptied(r) \in SoundRing
  BY <1>1 DEF SoundRing, StateIsValid, AdvanceIndex
<1> QED  BY <1>1, <1>2, ContentsType, EmptySeq

LEMMA DataIsSeq ==
    ASSUME NEW data \in Data
    PROVE  data \in Seq(Bytes) /\ Len(data) \in Lengths
<1>1. PICK n \in Lengths : data \in [1 .. n -> Bytes]
  BY DEF Data
<1>2. n \in Nat
  BY <1>1, MaxLengthAssumption DEF Lengths
<1>3. data \in Seq(Bytes)
  BY <1>1, <1>2, SeqDef
<1>4. Len(data) = n
  BY <1>1, <1>2, <1>3
<1> QED  BY <1>1, <1>3, <1>4

\* What relates a byte in use at index i to a write in two parts.
CopyLayout(c, read, write, used, k, i, n, first, second) ==
    /\ c \in Nat /\ read \in 0 .. c - 1 /\ write \in 0 .. c - 1 /\ used \in Nat
    /\ k \in 1 .. used /\ i \in Int /\ n \in Nat /\ first \in Nat /\ second \in Nat
    /\ first + second = n /\ n <= c - used /\ (first = n \/ first = c - write)
    /\ k - 1 < c - read => i = read + (k - 1)
    /\ ~(k - 1 < c - read) => i = k - 1 - (c - read)
    /\ used < c - read => write = read + used
    /\ ~(used < c - read) => write = used - (c - read)

\* The index of a byte in use lies in neither of the two parts of a write.
LEMMA UsedIsOutsideCopy ==
    ASSUME NEW c, NEW read, NEW write, NEW used, NEW k, NEW i, NEW n, NEW first, NEW second,
           CopyLayout(c, read, write, used, k, i, n, first, second)
    PROVE  i \notin write .. write + first - 1 /\ ~(i < second)
<1> USE DEF CopyLayout
<1>1. ~(i < second)
  <2>1. CASE used < c - read
    BY <2>1
  <2>2. CASE ~(used < c - read) /\ k - 1 < c - read
    BY <2>2
  <2>3. CASE ~(used < c - read) /\ ~(k - 1 < c - read)
    BY <2>3
  <2> QED  BY <2>1, <2>2, <2>3
<1>2. i < write \/ i > write + first - 1
  <2>1. CASE used < c - read
    BY <2>1
  <2>2. CASE ~(used < c - read) /\ k - 1 < c - read
    BY <2>2
  <2>3. CASE ~(used < c - read) /\ ~(k - 1 < c - read)
    BY <2>3
  <2> QED  BY <2>1, <2>2, <2>3
<1> QED  BY <1>1, <1>2

\* What a write puts where, as a function of the distance from the write index.
LEMMA WrittenFields ==
    ASSUME NEW r \in SoundRing, NEW data \in Seq(Bytes), Len(data) <= FreeSpace(r)
    PROVE  /\ Written(r, data) \in SoundRing
           /\ Written(r, data).read = r.read
           /\ Written(r, data).used = r.used + Len(data)
           /\ \A j \in 1 .. Len(data) :
                 Written(r, data).storage[AdvanceIndex(r.write, j - 1)] = data[j]
           /\ \A k \in 1 .. r.used :
                 Written(r, data).storage[AdvanceIndex(r.read, k - 1)]
                     = r.storage[AdvanceIndex(r.read, k - 1)]
<1> DEFINE n == Len(data)
           first == FirstPart(r.write, n)
           second == n - first
           copied == [i \in Slots |->
                         IF i \in r.write .. r.write + first - 1 THEN data[i - r.write + 1]
                         ELSE IF i < second THEN data[first + i + 1] ELSE r.storage[i]]
<1>1. /\ r.read \in Slots /\ r.write \in Slots /\ r.used \in 0 .. Capacity
      /\ r.storage \in [Slots -> Bytes] /\ r.configured
      /\ r.write = AdvanceIndex(r.read, r.used)
  BY SoundFields
<1>2. n \in Nat /\ r.used + n <= Capacity
  BY <1>1 DEF FreeSpace
<1>3. /\ first \in 0 .. n /\ second \in Nat
      /\ first <= Capacity - r.write
      /\ (second > 0 => first = Capacity - r.write)
  BY <1>1, <1>2 DEF FirstPart, Slots
<1>4. /\ Written(r, data).storage = copied
      /\ Written(r, data).write = AdvanceIndex(r.write, n)
      /\ Written(r, data).used = r.used + n
      /\ Written(r, data).read = r.read
      /\ Written(r, data).configured = r.configured
  BY SoundFields DEF Written, RingRecord
<1>5. copied \in [Slots -> Bytes]
  <2>1. ASSUME NEW i \in Slots PROVE copied[i] \in Bytes
    <3>1. CASE i \in r.write .. r.write + first - 1
      <4>1. i - r.write + 1 \in 1 .. n
        BY <1>1, <1>2, <1>3, <3>1 DEF Slots
      <4>2. data[i - r.write + 1] \in Bytes
        BY <4>1, ElementOfSeq
      <4> QED  BY <4>2, <3>1
    <3>2. CASE i \notin r.write .. r.write + first - 1 /\ i < second
      <4>1. first + i + 1 \in 1 .. n
        BY <1>1, <1>2, <1>3, <3>2 DEF Slots
      <4>2. data[first + i + 1] \in Bytes
        BY <4>1, ElementOfSeq
      <4> QED  BY <4>2, <3>2
    <3>3. CASE i \notin r.write .. r.write + first - 1 /\ ~(i < second)
      BY <3>3, <1>1
    <3> QED  BY <3>1, <3>2, <3>3
  <2> QED  BY <2>1
<1>6. AdvanceIndex(r.write, n) \in Slots
  BY <1>1, <1>2, AdvanceIndexRange
<1>7. AdvanceIndex(r.write, n) = AdvanceIndex(r.read, r.used + n)
  BY <1>1, <1>2, AdvanceIndexComposes
<1>8. Written(r, data) \in SoundRing
  <2>1. r.used + n \in 0 .. Capacity
    BY <1>1, <1>2
  <2>2. Written(r, data) \in RingRecord
    <3>1. r \in RingRecord
      BY SoundFields
    <3>2. Written(r, data) = [r EXCEPT !.storage = copied, !.write = AdvanceIndex(r.write, n),
                                       !.used = r.used + n]
      BY <3>1 DEF Written, RingRecord
    <3> HIDE DEF copied, n
    <3> QED  BY <1>5, <1>6, <2>1, <3>1, <3>2 DEF RingRecord
  <2>3. Written(r, data).configured
    BY <1>1, <1>4
  <2> QED  BY <1>1, <1>4, <1>6, <1>7, <2>1, <2>2, <2>3 DEF SoundRing, StateIsValid, Slots
<1>9. ASSUME NEW j \in 1 .. n
      PROVE  copied[AdvanceIndex(r.write, j - 1)] = data[j]
  <2> DEFINE i == AdvanceIndex(r.write, j - 1)
  <2>1. i \in Slots
    BY <1>1, <1>2, AdvanceIndexRange
  <2>2. CASE j - 1 < Capacity - r.write
    <3>1. i = r.write + (j - 1) /\ j <= first
      BY <2>2, <1>1, <1>2 DEF AdvanceIndex, FirstPart, Slots
    <3>2. i \in r.write .. r.write + first - 1 /\ i - r.write + 1 = j
      BY <3>1, <1>1, <1>3 DEF Slots
    <3> QED  BY <2>1, <3>2
  <2>3. CASE ~(j - 1 < Capacity - r.write)
    <3>1. first = Capacity - r.write /\ i = j - 1 - first
      BY <2>3, <1>1, <1>2 DEF AdvanceIndex, FirstPart, Slots
    <3>2. i < second /\ first + i + 1 = j /\ i < r.write
      BY <3>1, <1>1, <1>2 DEF Slots
    <3>3. i \notin r.write .. r.write + first - 1
      BY <3>2, <1>1, <1>3 DEF Slots
    <3> QED  BY <2>1, <3>2, <3>3
  <2> QED  BY <2>2, <2>3
<1>10. ASSUME NEW k \in 1 .. r.used
       PROVE  copied[AdvanceIndex(r.read, k - 1)] = r.storage[AdvanceIndex(r.read, k - 1)]
  <2> DEFINE i == AdvanceIndex(r.read, k - 1)
  <2>1. i \in Slots
    BY <1>1, AdvanceIndexRange
  <2>2. i \notin r.write .. r.write + first - 1 /\ ~(i < second)
    <3>1. /\ r.read \in 0 .. Capacity - 1 /\ r.write \in 0 .. Capacity - 1
          /\ first + second = n /\ n <= Capacity - r.used
          /\ first = n \/ first = Capacity - r.write
      BY <1>1, <1>2, <1>3 DEF FirstPart, Slots
    <3>2. /\ k - 1 < Capacity - r.read => i = r.read + (k - 1)
          /\ ~(k - 1 < Capacity - r.read) => i = k - 1 - (Capacity - r.read)
          /\ r.used < Capacity - r.read => r.write = r.read + r.used
          /\ ~(r.used < Capacity - r.read) => r.write = r.used - (Capacity - r.read)
      BY <1>1, <3>1 DEF AdvanceIndex
    <3> HIDE DEF i, first, second, n
    <3>3. first \in Nat /\ second \in Nat /\ n \in Nat /\ i \in Int
          /\ r.used \in Nat /\ k \in 1 .. r.used
      BY <1>1, <1>2, <1>3, <2>1 DEF Slots
    <3>4. Capacity \in Nat
      BY CapacityAssumption
    <3>5. CopyLayout(Capacity, r.read, r.write, r.used, k, i, n, first, second)
      BY <3>1, <3>2, <3>3, <3>4 DEF CopyLayout
    <3> QED  BY <3>5, UsedIsOutsideCopy
  <2> QED  BY <2>1, <2>2
<1> QED  BY <1>4, <1>8, <1>9, <1>10

\* A write appends its bytes, wherever the copy wraps.
LEMMA WrittenContents ==
    ASSUME NEW r \in SoundRing, NEW data \in Seq(Bytes), Len(data) <= FreeSpace(r)
    PROVE  Contents(Written(r, data)) = Contents(r) \o data
<1> DEFINE w == Written(r, data)
<1>1. /\ w \in SoundRing /\ w.read = r.read /\ w.used = r.used + Len(data)
      /\ \A j \in 1 .. Len(data) : w.storage[AdvanceIndex(r.write, j - 1)] = data[j]
      /\ \A k \in 1 .. r.used :
            w.storage[AdvanceIndex(r.read, k - 1)] = r.storage[AdvanceIndex(r.read, k - 1)]
  BY WrittenFields
<1> HIDE DEF w
<1>2. /\ Contents(r) \in Seq(Bytes) /\ Len(Contents(r)) = r.used
      /\ \A k \in 1 .. r.used : Contents(r)[k] = r.storage[AdvanceIndex(r.read, k - 1)]
  BY ContentsType
<1>3. /\ Contents(w) \in Seq(Bytes) /\ Len(Contents(w)) = r.used + Len(data)
      /\ \A k \in 1 .. r.used + Len(data) :
            Contents(w)[k] = w.storage[AdvanceIndex(r.read, k - 1)]
  BY <1>1, ContentsType
<1>4. /\ Contents(r) \o data \in Seq(Bytes)
      /\ Len(Contents(r) \o data) = r.used + Len(data)
      /\ \A k \in 1 .. r.used + Len(data) :
            (Contents(r) \o data)[k] = IF k <= r.used THEN Contents(r)[k] ELSE data[k - r.used]
  <2>1. /\ Contents(r) \o data \in Seq(Bytes)
        /\ Len(Contents(r) \o data) = Len(Contents(r)) + Len(data)
        /\ \A k \in 1 .. Len(Contents(r)) + Len(data) :
              (Contents(r) \o data)[k]
                  = IF k <= Len(Contents(r)) THEN Contents(r)[k] ELSE data[k - Len(Contents(r))]
    BY <1>2, ConcatProperties
  <2> QED  BY <1>2, <2>1
<1>5. /\ r.used \in Nat /\ Len(data) \in Nat /\ r.used + Len(data) <= Capacity
      /\ r.read \in Slots /\ r.write = AdvanceIndex(r.read, r.used)
  BY SoundFields DEF FreeSpace
<1>6. ASSUME NEW k \in 1 .. r.used + Len(data)
      PROVE  Contents(w)[k] = (Contents(r) \o data)[k]
  <2>1. CASE k <= r.used
    BY <1>1, <1>2, <1>3, <1>4, <1>5, <2>1
  <2>2. CASE k > r.used
    <3> DEFINE j == k - r.used
    <3>1. j \in 1 .. Len(data) /\ j - 1 \in Nat /\ r.used + (j - 1) = k - 1
          /\ r.used + (j - 1) <= Capacity
      BY <1>5, <2>2
    <3>2. AdvanceIndex(r.write, j - 1) = AdvanceIndex(r.read, k - 1)
      BY <1>5, <3>1, AdvanceIndexComposes
    <3>3. Contents(w)[k] = w.storage[AdvanceIndex(r.write, j - 1)]
      BY <1>3, <3>2
    <3>4. Contents(w)[k] = data[j]
      BY <1>1, <3>1, <3>3
    <3>5. (Contents(r) \o data)[k] = data[j]
      BY <1>4, <1>5, <2>2
    <3> QED  BY <3>4, <3>5
  <2>3. k <= r.used \/ k > r.used
    BY <1>5
  <2> QED  BY <2>1, <2>2, <2>3
<1>7. Contents(w) = Contents(r) \o data
  BY <1>3, <1>4, <1>6, SeqEqual
<1> QED  BY <1>7 DEF w

\* A peek copies out exactly the range it was asked for.
LEMMA PeekedContents ==
    ASSUME NEW r \in SoundRing, NEW m \in Nat, NEW n \in Nat, m <= r.used, n <= r.used - m
    PROVE  /\ Peeked(r, m, n) = SubSeq(Contents(r), m + 1, m + n)
           /\ Peeked(r, m, n) \in Seq(Bytes)
<1> DEFINE start == AdvanceIndex(r.read, m)
           first == FirstPart(start, n)
<1>1. r.read \in Slots /\ r.used \in 0 .. Capacity /\ r.storage \in [Slots -> Bytes]
  BY SoundFields
<1>2. /\ Contents(r) \in Seq(Bytes) /\ Len(Contents(r)) = r.used
      /\ \A k \in 1 .. r.used : Contents(r)[k] = r.storage[AdvanceIndex(r.read, k - 1)]
  BY ContentsType
<1>3. start \in Slots /\ first \in 0 .. n
  <2>1. start \in Slots
    BY <1>1, AdvanceIndexRange
  <2> QED  BY <2>1 DEF FirstPart, Slots
<1>4. ASSUME NEW k \in 1 .. n
      PROVE  Peeked(r, m, n)[k] = Contents(r)[m + k] /\ Contents(r)[m + k] \in Bytes
  <2>1. m + k \in 1 .. r.used /\ (m + k) - 1 = m + (k - 1) /\ k - 1 \in Nat
        /\ m + (k - 1) <= Capacity
    BY <1>1
  <2>2. Contents(r)[m + k] = r.storage[AdvanceIndex(start, k - 1)]
    BY <1>1, <1>2, <2>1, AdvanceIndexComposes
  <2>3. AdvanceIndex(start, k - 1) = IF k <= first THEN start + k - 1 ELSE k - first - 1
    <3> HIDE DEF start
    <3> QED  BY <1>3 DEF FirstPart, AdvanceIndex, Slots
  <2>4. Contents(r)[m + k] \in Bytes
    BY <1>2, <2>1, ElementOfSeq
  <2>5. Peeked(r, m, n)[k] = IF k <= first THEN r.storage[start + k - 1]
                                           ELSE r.storage[k - first - 1]
    BY DEF Peeked
  <2> QED  BY <2>2, <2>3, <2>4, <2>5
<1>5. Peeked(r, m, n) \in [1 .. n -> Bytes]
  <2>1. Peeked(r, m, n) = [k \in 1 .. n |-> Peeked(r, m, n)[k]]
    BY DEF Peeked
  <2> QED  BY <1>4, <2>1
<1>6. Peeked(r, m, n) \in Seq(Bytes) /\ Len(Peeked(r, m, n)) = n
  <2>1. Peeked(r, m, n) \in Seq(Bytes)
    BY <1>5, SeqDef
  <2> QED  BY <1>5, <2>1
<1>7. \A i \in m + 1 .. m + n : Contents(r)[i] \in Bytes
  BY <1>1, <1>2, ElementOfSeq
<1>8. /\ SubSeq(Contents(r), m + 1, m + n) \in Seq(Bytes)
      /\ Len(SubSeq(Contents(r), m + 1, m + n)) = n
      /\ \A k \in 1 .. n : SubSeq(Contents(r), m + 1, m + n)[k] = Contents(r)[m + k]
  BY <1>7, SubSeqProperties
<1>9. Peeked(r, m, n) = SubSeq(Contents(r), m + 1, m + n)
  BY <1>4, <1>6, <1>8, SeqEqual
<1> QED  BY <1>6, <1>9

\* A discard drops bytes from the front only.
LEMMA DiscardedContents ==
    ASSUME NEW r \in SoundRing, NEW n \in Nat, n <= r.used
    PROVE  /\ Discarded(r, n) \in SoundRing
           /\ Contents(Discarded(r, n)) = SubSeq(Contents(r), n + 1, Len(Contents(r)))
<1> DEFINE d == Discarded(r, n)
<1>1. /\ r \in RingRecord /\ r.read \in Slots /\ r.write \in Slots /\ r.used \in 0 .. Capacity
      /\ r.write = AdvanceIndex(r.read, r.used) /\ r.configured
  BY SoundFields
<1>2. /\ d.storage = r.storage /\ d.write = r.write /\ d.configured = r.configured
      /\ d.read = AdvanceIndex(r.read, n) /\ d.used = r.used - n
  BY <1>1 DEF Discarded, RingRecord
<1>3. AdvanceIndex(r.read, n) \in Slots /\ r.used - n \in 0 .. Capacity
  BY <1>1, AdvanceIndexRange
<1>4. AdvanceIndex(AdvanceIndex(r.read, n), r.used - n) = r.write
  <2>1. n + (r.used - n) = r.used /\ r.used - n \in Nat /\ r.used <= Capacity
    BY <1>1
  <2> QED  BY <1>1, <2>1, AdvanceIndexComposes
<1>5. d \in SoundRing
  <2>1. d \in RingRecord
    BY <1>1, <1>3 DEF Discarded, RingRecord
  <2>2. d.configured
    BY <1>1, <1>2
  <2> HIDE DEF d
  <2> QED  BY <1>1, <1>2, <1>3, <1>4, <2>1, <2>2 DEF SoundRing, StateIsValid, Slots
<1> HIDE DEF d
<1>6. /\ Contents(r) \in Seq(Bytes) /\ Len(Contents(r)) = r.used
      /\ \A k \in 1 .. r.used : Contents(r)[k] = r.storage[AdvanceIndex(r.read, k - 1)]
  BY ContentsType
<1>7. /\ Contents(d) \in Seq(Bytes) /\ Len(Contents(d)) = r.used - n
      /\ \A k \in 1 .. r.used - n :
            Contents(d)[k] = r.storage[AdvanceIndex(AdvanceIndex(r.read, n), k - 1)]
  BY <1>2, <1>5, ContentsType
<1>8. \A i \in n + 1 .. r.used : Contents(r)[i] \in Bytes
  BY <1>1, <1>6, ElementOfSeq
<1>9. /\ SubSeq(Contents(r), n + 1, r.used) \in Seq(Bytes)
      /\ Len(SubSeq(Contents(r), n + 1, r.used)) = r.used - n
      /\ \A k \in 1 .. r.used - n :
            SubSeq(Contents(r), n + 1, r.used)[k] = Contents(r)[n + k]
  BY <1>1, <1>8, SubSeqProperties
<1>10. ASSUME NEW k \in 1 .. r.used - n
       PROVE  Contents(d)[k] = SubSeq(Contents(r), n + 1, r.used)[k]
  <2>1. n + k \in 1 .. r.used /\ (n + k) - 1 = n + (k - 1) /\ k - 1 \in Nat
        /\ n + (k - 1) <= Capacity
    BY <1>1
  <2>2. AdvanceIndex(AdvanceIndex(r.read, n), k - 1) = AdvanceIndex(r.read, (n + k) - 1)
    BY <1>1, <2>1, AdvanceIndexComposes
  <2> QED  BY <1>6, <1>7, <1>9, <2>1, <2>2
<1>11. Contents(d) = SubSeq(Contents(r), n + 1, r.used)
  BY <1>7, <1>9, <1>10, SeqEqual
<1> QED  BY <1>5, <1>6, <1>11 DEF d

-------------------------------------------------------------------------------
(* Safety: the state check of a ring in use cannot fail. *)

IInv == TypeOK /\ ConfiguredIsValid

LEMMA InitSafe == Init => IInv
<1> SUFFICES ASSUME Init PROVE IInv
  OBVIOUS
<1>1. PICK storage \in [Slots -> Bytes] :
         ring = [configured |-> FALSE, storage |-> storage, read |-> 0, write |-> 0, used |-> 0]
  BY DEF Init
<1>2. ring \in RingRecord /\ ~ring.configured
  BY <1>1 DEF RingRecord, Slots
<1>3. reply \in [result : Results, data : Seq(Bytes)]
  BY EmptySeq DEF Init, Reply, Results
<1> QED  BY <1>2, <1>3 DEF IInv, TypeOK, ConfiguredIsValid

LEMMA ReplyType ==
    ASSUME NEW result \in Results, NEW data \in Seq(Bytes)
    PROVE  Reply(result, data) \in [result : Results, data : Seq(Bytes)]
BY DEF Reply

LEMMA StepSafe == IInv /\ [Next]_vars => IInv'
<1> SUFFICES ASSUME IInv, [Next]_vars PROVE IInv'
  OBVIOUS
<1>1. /\ ring \in RingRecord /\ (StateIsValid(ring) => ring \in SoundRing)
      /\ reply \in [result : Results, data : Seq(Bytes)]
  BY DEF IInv, TypeOK, SoundRing
<1>2. << >> \in Seq(Bytes)
  BY EmptySeq
<1>3. \A result \in Results : Reply(result, << >>) \in [result : Results, data : Seq(Bytes)]
  BY <1>2, ReplyType
<1>4. \A n \in Lengths : n \in Nat
  BY MaxLengthAssumption DEF Lengths
<1>5. ASSUME ring' \in SoundRing, reply' \in [result : Results, data : Seq(Bytes)]
      PROVE  IInv'
  BY <1>5 DEF IInv, TypeOK, ConfiguredIsValid, SoundRing
<1>6. ASSUME ring' = ring, reply' \in [result : Results, data : Seq(Bytes)]
      PROVE  IInv'
  BY <1>6 DEF IInv, TypeOK, ConfiguredIsValid, StateIsValid
<1> USE DEF Results
<1>7. CASE InitRing \/ Reset
  <2>1. ring' = Emptied(ring) /\ reply' = Reply("OK", << >>)
    BY <1>7 DEF InitRing, Reset
  <2> QED  BY <1>1, <1>3, <1>5, <2>1, EmptiedSound
<1>8. CASE RefuseInvalid
  BY <1>3, <1>6, <1>8 DEF RefuseInvalid
<1>9. ASSUME NEW data \in Data, WriteOk(data) PROVE IInv'
  <2>1. ring \in SoundRing /\ Len(data) <= FreeSpace(ring) /\ data \in Seq(Bytes)
    BY <1>1, <1>9, DataIsSeq DEF WriteOk
  <2>2. ring' \in SoundRing
    BY <1>9, <2>1, WrittenFields DEF WriteOk
  <2> QED  BY <1>3, <1>5, <1>9, <2>2 DEF WriteOk
<1>10. ASSUME NEW data \in Data, WriteRefused(data) PROVE IInv'
  BY <1>3, <1>6, <1>10 DEF WriteRefused
<1>11. ASSUME NEW offset \in Lengths, NEW length \in Lengths, PeekOk(offset, length) PROVE IInv'
  <2>1. ring \in SoundRing /\ Peeked(ring, offset, length) \in Seq(Bytes)
    BY <1>1, <1>4, <1>11, PeekedContents DEF PeekOk, Available
  <2>2. reply' \in [result : Results, data : Seq(Bytes)]
    BY <1>11, <2>1, ReplyType DEF PeekOk
  <2> QED  BY <1>6, <1>11, <2>2 DEF PeekOk
<1>12. ASSUME NEW offset \in Lengths, NEW length \in Lengths, OutputRefused(offset, length)
       PROVE  IInv'
  BY <1>3, <1>6, <1>12 DEF OutputRefused
<1>13. ASSUME NEW length \in Lengths, DiscardOk(length) PROVE IInv'
  <2>1. ring \in SoundRing /\ length \in Nat /\ length <= ring.used
    BY <1>1, <1>4, <1>13, SoundFields DEF DiscardOk, Available
  <2>2. ring' \in SoundRing
    BY <1>13, <2>1, DiscardedContents DEF DiscardOk
  <2> QED  BY <1>3, <1>5, <1>13, <2>2 DEF DiscardOk
<1>14. ASSUME NEW length \in Lengths, ReadOk(length) PROVE IInv'
  <2>1. ring \in SoundRing /\ length \in Nat /\ length <= ring.used /\ length <= ring.used - 0
        /\ 0 <= ring.used
    BY <1>1, <1>4, <1>14, SoundFields DEF ReadOk, Available
  <2>2. ring' \in SoundRing /\ Peeked(ring, 0, length) \in Seq(Bytes)
    BY <1>14, <2>1, DiscardedContents, PeekedContents DEF ReadOk
  <2>3. reply' \in [result : Results, data : Seq(Bytes)]
    BY <1>14, <2>2, ReplyType DEF ReadOk
  <2> QED  BY <1>5, <2>2, <2>3
<1>15. CASE UNCHANGED vars
  BY <1>1, <1>6, <1>15 DEF vars
<1> QED
  BY <1>7, <1>8, <1>9, <1>10, <1>11, <1>12, <1>13, <1>14, <1>15 DEF Next

LEMMA InvariantSafe == Spec => []IInv
BY InitSafe, StepSafe, PTL DEF Spec

\* The variables keep their types for any array and any lengths of calls.
THEOREM TypeCorrect == Spec => []TypeOK
BY InvariantSafe, PTL DEF IInv

\* Every initialised ring passes the state check that each entry point makes: no
\* sequence of legal calls bricks it.
THEOREM Safety == Spec => []ConfiguredIsValid
BY InvariantSafe, PTL DEF IInv

-------------------------------------------------------------------------------
(* Refinement: every call on the array is a call on a sequence of bytes. *)

LEMMA InitRefines == Init => Stream!Init
<1> SUFFICES ASSUME Init PROVE Stream!Init
  OBVIOUS
<1>1. ring.configured = FALSE /\ ring.used = 0 /\ reply = Reply("NONE", << >>)
  BY DEF Init
<1>2. Contents(ring) = << >>
  BY <1>1 DEF Contents
<1> QED  BY <1>1, <1>2 DEF Stream!Init, Stream!Reply, Reply

LEMMA StepRefines == IInv /\ [Next]_vars => [Stream!Next]_(Stream!vars)
<1> SUFFICES ASSUME IInv, [Next]_vars PROVE [Stream!Next]_(Stream!vars)
  OBVIOUS
<1>1. ring \in RingRecord /\ ring.configured \in BOOLEAN
      /\ (StateIsValid(ring) => ring \in SoundRing /\ ring.configured)
  BY DEF IInv, TypeOK, RingRecord, SoundRing, StateIsValid
<1>2. ring \in SoundRing => /\ Contents(ring) \in Seq(Bytes)
                            /\ Len(Contents(ring)) = ring.used /\ ring.used \in 0 .. Capacity
  BY ContentsType, SoundFields
<1>3. \A n \in Lengths : n \in Nat
  BY MaxLengthAssumption DEF Lengths
<1>4. Stream!Data = Data /\ Stream!Lengths = Lengths
  BY DEF Stream!Data, Stream!Lengths, Data, Lengths
<1>5. \A r \in SoundRing : r.configured = TRUE
  BY DEF SoundRing, RingRecord, StateIsValid
<1> USE DEF Stream!Reply, Reply
<1>6. CASE InitRing \/ Reset
  <2>1. ring' = Emptied(ring) /\ reply' = Reply("OK", << >>)
    BY <1>6 DEF InitRing, Reset
  <2>2. ring'.configured = TRUE /\ Contents(ring') = << >>
    BY <1>1, <1>5, <2>1, EmptiedSound
  <2>3. Stream!Create
    BY <2>1, <2>2 DEF Stream!Create, Contents
  <2> QED  BY <2>3 DEF Stream!Next
<1>7. CASE RefuseInvalid
  <2>1. ~ring.configured /\ ring' = ring /\ reply' = Reply("INVALID_STATE", << >>)
    BY <1>7 DEF RefuseInvalid, IInv, ConfiguredIsValid
  <2>2. Stream!Refuse
    BY <2>1 DEF Stream!Refuse, Stream!Refused, Contents
  <2> QED  BY <2>2 DEF Stream!Next
<1>8. ASSUME NEW data \in Data, WriteOk(data) PROVE Stream!Next
  <2>1. ring \in SoundRing /\ Len(data) <= FreeSpace(ring) /\ data \in Seq(Bytes)
        /\ ring' = Written(ring, data) /\ reply' = Reply("OK", << >>)
    BY <1>1, <1>8, DataIsSeq DEF WriteOk
  <2>2. Contents(ring') = Contents(ring) \o data /\ ring' \in SoundRing
    BY <2>1, WrittenContents, WrittenFields
  <2>3. ring.configured = TRUE /\ ring'.configured = TRUE
    BY <1>5, <2>1, <2>2
  <2>4. Len(data) \in Nat /\ Len(Contents(ring)) + Len(data) <= Capacity
    BY <1>2, <2>1 DEF FreeSpace
  <2>5. Stream!Write(data)
    BY <2>1, <2>2, <2>3, <2>4 DEF Stream!Write, Contents
  <2> QED  BY <1>4, <2>5 DEF Stream!Next
<1>9. ASSUME NEW data \in Data, WriteRefused(data) PROVE Stream!Next
  <2>1. ring \in SoundRing /\ Len(data) > Capacity - ring.used /\ Len(data) \in Lengths
        /\ ring' = ring /\ reply' = Reply("INSUFFICIENT_SPACE", << >>)
    BY <1>1, <1>9, DataIsSeq DEF WriteRefused, FreeSpace
  <2>2. Len(Contents(ring)) + Len(data) > Capacity
    BY <1>2, <1>3, <2>1
  <2>3. ring.configured = TRUE
    BY <1>5, <2>1
  <2>4. Stream!Refuse
    BY <1>4, <2>1, <2>2, <2>3 DEF Stream!Refuse, Stream!Refused, Contents
  <2> QED  BY <2>4 DEF Stream!Next
<1>10. ASSUME NEW offset \in Lengths, NEW length \in Lengths, PeekOk(offset, length)
       PROVE  Stream!Next
  <2>1. /\ ring \in SoundRing /\ ring' = ring
        /\ offset \in Nat /\ length \in Nat /\ offset <= ring.used /\ length <= ring.used - offset
        /\ reply' = Reply("OK", Peeked(ring, offset, length))
    BY <1>1, <1>3, <1>10 DEF PeekOk, Available
  <2>2. Peeked(ring, offset, length) = SubSeq(Contents(ring), offset + 1, offset + length)
    BY <2>1, PeekedContents
  <2>3. ring.configured = TRUE /\ offset + length <= Len(Contents(ring))
    BY <1>2, <1>5, <2>1
  <2>4. Stream!Peek(offset, length)
    BY <2>1, <2>2, <2>3 DEF Stream!Peek, Contents
  <2> QED  BY <1>4, <2>4 DEF Stream!Next
<1>11. ASSUME NEW offset \in Lengths, NEW length \in Lengths, OutputRefused(offset, length)
       PROVE  Stream!Next
  <2>1. /\ ring \in SoundRing /\ ring' = ring /\ reply' = Reply("INSUFFICIENT_DATA", << >>)
        /\ ~(offset <= ring.used /\ length <= ring.used - offset)
        /\ offset \in Nat /\ length \in Nat
    BY <1>1, <1>3, <1>11 DEF OutputRefused, Available
  <2>2. offset + length > Len(Contents(ring)) /\ ring.configured = TRUE
    BY <1>2, <1>5, <2>1
  <2>3. Stream!Refuse
    BY <1>4, <2>1, <2>2 DEF Stream!Refuse, Stream!Refused, Contents
  <2> QED  BY <2>3 DEF Stream!Next
<1>12. ASSUME NEW length \in Lengths, DiscardOk(length) PROVE Stream!Next
  <2>1. /\ ring \in SoundRing /\ ring' = Discarded(ring, length)
        /\ length \in Nat /\ length <= ring.used /\ reply' = Reply("OK", << >>)
    BY <1>1, <1>2, <1>3, <1>12 DEF DiscardOk, Available
  <2>2. /\ Contents(ring') = SubSeq(Contents(ring), length + 1, Len(Contents(ring)))
        /\ ring' \in SoundRing
    BY <2>1, DiscardedContents
  <2>3. ring.configured = TRUE /\ ring'.configured = TRUE /\ length <= Len(Contents(ring))
    BY <1>2, <1>5, <2>1, <2>2
  <2>4. Stream!Discard(length)
    BY <2>1, <2>2, <2>3 DEF Stream!Discard, Contents
  <2> QED  BY <1>4, <2>4 DEF Stream!Next
<1>13. ASSUME NEW length \in Lengths, ReadOk(length) PROVE Stream!Next
  <2>1. /\ ring \in SoundRing /\ ring' = Discarded(ring, length) /\ 0 <= ring.used
        /\ length \in Nat /\ length <= ring.used /\ length <= ring.used - 0
        /\ reply' = Reply("OK", Peeked(ring, 0, length))
    BY <1>1, <1>2, <1>3, <1>13 DEF ReadOk, Available
  <2>2. /\ Contents(ring') = SubSeq(Contents(ring), length + 1, Len(Contents(ring)))
        /\ ring' \in SoundRing
    BY <2>1, DiscardedContents
  <2>3. Peeked(ring, 0, length) = SubSeq(Contents(ring), 1, length)
    <3>1. Peeked(ring, 0, length) = SubSeq(Contents(ring), 0 + 1, 0 + length)
      BY <2>1, PeekedContents
    <3>2. 0 + 1 = 1 /\ 0 + length = length
      BY <2>1
    <3> QED  BY <3>1, <3>2
  <2>4. ring.configured = TRUE /\ ring'.configured = TRUE /\ length <= Len(Contents(ring))
    BY <1>2, <1>5, <2>1, <2>2
  <2>5. Stream!Read(length)
    BY <2>1, <2>2, <2>3, <2>4 DEF Stream!Read, Contents
  <2> QED  BY <1>4, <2>5 DEF Stream!Next
<1>14. CASE UNCHANGED vars
  BY <1>14 DEF vars, Stream!vars, Contents
<1> QED
  BY <1>6, <1>7, <1>8, <1>9, <1>10, <1>11, <1>12, <1>13, <1>14 DEF Next

\* The array with its wrapping indices and two-part copies implements the stream
\* of bytes: no byte is lost, repeated or reordered, a write is all or nothing.
THEOREM Refinement == Spec => ImplementsByteStream
BY InvariantSafe, InitRefines, StepRefines, PTL DEF Spec, ImplementsByteStream, Stream!Spec
================================================================================
