------------------------- MODULE FrameQueueCoreProofs -------------------------
(***************************************************************************)
(* Lemmas about the ring of FrameQueueCore: its index arithmetic, and what  *)
(* a push and a pop do to a valid ring and to the sequence of frames it     *)
(* holds.                                                                   *)
(***************************************************************************)
EXTENDS FrameQueueCore, SequenceTheorems, TLAPS

USE CapacityAssumption

-------------------------------------------------------------------------------
(* Index arithmetic. *)

\* Advancing by at most one lap stays inside the storage array.
LEMMA AdvanceIndexRange ==
    ASSUME NEW i \in Slots, NEW n \in 0 .. Capacity
    PROVE  AdvanceIndex(i, n) \in Slots
BY DEF AdvanceIndex, Slots

\* Two advances compose into one as long as together they are at most one lap.
LEMMA AdvanceIndexComposes ==
    ASSUME NEW i \in Slots, NEW m \in Nat, NEW n \in Nat, m + n <= Capacity
    PROVE  AdvanceIndex(AdvanceIndex(i, m), n) = AdvanceIndex(i, m + n)
BY DEF AdvanceIndex, Slots

\* Within one lap different distances reach different slots, which is why a
\* push never overwrites a frame that is still queued.
LEMMA AdvanceIndexInjective ==
    ASSUME NEW i \in Slots, NEW m \in Slots, NEW n \in Slots,
           AdvanceIndex(i, m) = AdvanceIndex(i, n)
    PROVE  m = n
BY DEF AdvanceIndex, Slots

-------------------------------------------------------------------------------
(* The operations on a valid queue, on its record and on its contents. *)

\* What the operations need of a queue: the state check, over typed fields.
SoundQueue == {q \in QueueRecord : StateIsValid(q)}

LEMMA SoundFields ==
    ASSUME NEW q \in SoundQueue
    PROVE  /\ q.read \in Slots /\ q.write \in Slots /\ q.used \in 0 .. Capacity
           /\ q.storage \in [Slots -> Frames]
           /\ q.write = AdvanceIndex(q.read, q.used)
BY DEF SoundQueue, QueueRecord, StateIsValid, Slots

LEMMA ContentsType ==
    ASSUME NEW q \in SoundQueue
    PROVE  /\ Contents(q) \in Seq(Frames)
           /\ Len(Contents(q)) = q.used
           /\ \A k \in 1 .. q.used : Contents(q)[k] = q.storage[AdvanceIndex(q.read, k - 1)]
<1>1. \A k \in 1 .. q.used : q.storage[AdvanceIndex(q.read, k - 1)] \in Frames
  <2> TAKE k \in 1 .. q.used
  <2>1. k - 1 \in 0 .. Capacity
    BY SoundFields
  <2>2. AdvanceIndex(q.read, k - 1) \in Slots
    BY <2>1, SoundFields, AdvanceIndexRange
  <2> QED  BY <2>2, SoundFields
<1>2. Contents(q) \in [1 .. q.used -> Frames]
  BY <1>1 DEF Contents
<1>3. Contents(q) \in Seq(Frames)
  BY <1>2, SoundFields, SeqDef
<1>4. Len(Contents(q)) = q.used
  BY <1>3, SoundFields DEF Contents
<1> QED  BY <1>3, <1>4 DEF Contents

LEMMA EmptiedSound ==
    ASSUME NEW q \in QueueRecord
    PROVE  Emptied(q) \in SoundQueue /\ Contents(Emptied(q)) = << >>
<1>1. /\ Emptied(q) \in QueueRecord
      /\ Emptied(q).configured /\ Emptied(q).read = 0
      /\ Emptied(q).write = 0 /\ Emptied(q).used = 0
  BY DEF Emptied, QueueRecord
<1>2. Emptied(q) \in SoundQueue
  BY <1>1 DEF SoundQueue, StateIsValid, AdvanceIndex
<1> QED  BY <1>1, <1>2, ContentsType, EmptySeq

LEMMA PushedSound ==
    ASSUME NEW q \in SoundQueue, ~IsFull(q), NEW f \in Frames
    PROVE  Pushed(q, f) \in SoundQueue
<1>1. /\ Pushed(q, f).storage = [q.storage EXCEPT ![q.write] = f]
      /\ Pushed(q, f).write = AdvanceIndex(q.write, 1)
      /\ Pushed(q, f).used = q.used + 1
      /\ Pushed(q, f).read = q.read
      /\ Pushed(q, f).configured = q.configured
  BY DEF Pushed, SoundQueue, QueueRecord
<1>2. q.used + 1 <= Capacity
  BY SoundFields DEF IsFull
<1>3. AdvanceIndex(q.write, 1) \in Slots
  BY AdvanceIndexRange, SoundFields
<1>4. AdvanceIndex(q.write, 1) = AdvanceIndex(q.read, q.used + 1)
  BY AdvanceIndexComposes, SoundFields, <1>2
<1>5. Pushed(q, f) \in QueueRecord
  <2>1. /\ [q.storage EXCEPT ![q.write] = f] \in [Slots -> Frames]
        /\ AdvanceIndex(q.write, 1) \in Nat
        /\ q.used + 1 \in Nat
    BY <1>3, SoundFields DEF Slots
  <2>2. q \in QueueRecord
    BY DEF SoundQueue
  <2> QED  BY <2>1, <2>2 DEF QueueRecord, Pushed
<1>6. StateIsValid(Pushed(q, f))
  BY <1>1, <1>2, <1>3, <1>4, SoundFields DEF StateIsValid, SoundQueue, Slots
<1> QED  BY <1>5, <1>6 DEF SoundQueue

\* A push appends at the tail and disturbs no queued frame.
LEMMA PushedContents ==
    ASSUME NEW q \in SoundQueue, ~IsFull(q), NEW f \in Frames
    PROVE  Contents(Pushed(q, f)) = Append(Contents(q), f)
<1> DEFINE p == Pushed(q, f)
<1>1. p.storage = [q.storage EXCEPT ![q.write] = f] /\ p.used = q.used + 1 /\ p.read = q.read
  BY DEF Pushed, SoundQueue, QueueRecord
<1>2. p \in SoundQueue
  BY PushedSound
<1> HIDE DEF p
<1>3. /\ Append(Contents(q), f) \in Seq(Frames)
      /\ Len(Append(Contents(q), f)) = q.used + 1
      /\ \A k \in 1 .. q.used : Append(Contents(q), f)[k] = Contents(q)[k]
      /\ Append(Contents(q), f)[q.used + 1] = f
  BY ContentsType, AppendProperties
<1>4. ASSUME NEW k \in 1 .. q.used + 1
      PROVE  Contents(p)[k] = Append(Contents(q), f)[k]
  <2>1. k - 1 \in Slots /\ AdvanceIndex(q.read, k - 1) \in Slots
    <3>1. k - 1 \in Slots /\ k - 1 \in 0 .. Capacity /\ q.read \in Slots
      BY SoundFields DEF IsFull, Slots
    <3> QED  BY <3>1, AdvanceIndexRange
  <2>2. Contents(p)[k] = p.storage[AdvanceIndex(q.read, k - 1)]
    BY <1>1, <1>2, ContentsType
  <2>3. CASE k = q.used + 1
    BY <2>1, <2>2, <2>3, <1>1, <1>3, SoundFields
  <2>4. CASE k \in 1 .. q.used
    <3>1. q.used \in Slots
      BY SoundFields DEF IsFull, Slots
    <3>2. AdvanceIndex(q.read, k - 1) # q.write
      BY <2>1, <2>4, <3>1, SoundFields, AdvanceIndexInjective
    <3> QED  BY <2>1, <2>2, <2>4, <3>2, <1>1, <1>3, SoundFields, ContentsType
  <2> QED
    <3>1. q.used \in Nat
      BY SoundFields
    <3>2. k = q.used + 1 \/ k \in 1 .. q.used
      BY <3>1
    <3> QED  BY <2>3, <2>4, <3>2
<1>5. Contents(p) \in Seq(Frames) /\ Len(Contents(p)) = q.used + 1
  BY <1>1, <1>2, ContentsType
<1>6. Contents(p) = Append(Contents(q), f)
  BY <1>3, <1>4, <1>5, SeqEqual
<1> QED  BY <1>6 DEF p

\* A pop delivers the head and leaves the tail.
LEMMA PoppedSound ==
    ASSUME NEW q \in SoundQueue, ~IsEmpty(q)
    PROVE  /\ Popped(q) \in SoundQueue
           /\ Front(q) \in Frames
<1>1. /\ Popped(q).write = q.write
      /\ Popped(q).read = AdvanceIndex(q.read, 1)
      /\ Popped(q).used = q.used - 1
      /\ Popped(q).configured = q.configured
  BY DEF Popped, SoundQueue, QueueRecord
<1>2. q.used - 1 \in Nat /\ q.used <= Capacity
  BY SoundFields DEF IsEmpty
<1>3. AdvanceIndex(q.read, 1) \in Slots
  BY AdvanceIndexRange, SoundFields
<1>4. AdvanceIndex(AdvanceIndex(q.read, 1), q.used - 1) = q.write
  <2>1. 1 + (q.used - 1) = q.used
    BY SoundFields
  <2> QED  BY <2>1, <1>2, AdvanceIndexComposes, SoundFields
<1>5. Popped(q) \in QueueRecord
  <2>1. AdvanceIndex(q.read, 1) \in Nat
    BY <1>3 DEF Slots
  <2>2. q \in QueueRecord
    BY DEF SoundQueue
  <2> QED  BY <1>2, <2>1, <2>2 DEF QueueRecord, Popped
<1>6. StateIsValid(Popped(q))
  BY <1>1, <1>2, <1>3, <1>4, SoundFields DEF StateIsValid, SoundQueue, Slots
<1>7. Front(q) \in Frames
  BY SoundFields DEF Front
<1> QED  BY <1>5, <1>6, <1>7 DEF SoundQueue

LEMMA PoppedContents ==
    ASSUME NEW q \in SoundQueue, ~IsEmpty(q)
    PROVE  /\ Contents(q) # << >>
           /\ Front(q) = Head(Contents(q))
           /\ Contents(Popped(q)) = Tail(Contents(q))
<1> DEFINE p == Popped(q)
<1>1. p.storage = q.storage /\ p.read = AdvanceIndex(q.read, 1) /\ p.used = q.used - 1
  BY DEF Popped, SoundQueue, QueueRecord
<1>2. p \in SoundQueue
  BY PoppedSound
<1> HIDE DEF p
<1>3. q.used \in 1 .. Capacity /\ q.read \in Slots
  BY SoundFields DEF IsEmpty
<1>4. Contents(q) \in Seq(Frames) /\ Len(Contents(q)) = q.used /\ Contents(q) # << >>
  BY <1>3, ContentsType, EmptySeq
<1>5. Front(q) = Head(Contents(q))
  <2>1. AdvanceIndex(q.read, 0) = q.read
    BY <1>3 DEF AdvanceIndex, Slots
  <2>2. Head(Contents(q)) = Contents(q)[1]
    BY <1>4
  <2>3. Contents(q)[1] = q.storage[AdvanceIndex(q.read, 1 - 1)]
    BY <1>3, ContentsType
  <2> QED  BY <2>1, <2>2, <2>3 DEF Front
<1>6. /\ Tail(Contents(q)) \in Seq(Frames)
      /\ Len(Tail(Contents(q))) = q.used - 1
      /\ \A k \in 1 .. q.used - 1 : Tail(Contents(q))[k] = Contents(q)[k + 1]
  BY <1>4, HeadTailProperties
<1>7. Contents(p) \in Seq(Frames) /\ Len(Contents(p)) = q.used - 1
  BY <1>1, <1>2, ContentsType
<1>8. ASSUME NEW k \in 1 .. q.used - 1
      PROVE  Contents(p)[k] = Tail(Contents(q))[k]
  <2>1. k - 1 \in Nat /\ 1 + (k - 1) = k /\ k <= Capacity /\ k + 1 \in 1 .. q.used
        /\ (k + 1) - 1 = k
    BY <1>3
  <2>2. Contents(p)[k] = q.storage[AdvanceIndex(AdvanceIndex(q.read, 1), k - 1)]
    BY <1>1, <1>2, ContentsType
  <2>3. AdvanceIndex(AdvanceIndex(q.read, 1), k - 1) = AdvanceIndex(q.read, k)
    BY <2>1, <1>3, AdvanceIndexComposes
  <2>4. Contents(q)[k + 1] = q.storage[AdvanceIndex(q.read, (k + 1) - 1)]
    BY <2>1, ContentsType
  <2> QED  BY <2>1, <2>2, <2>3, <2>4, <1>6
<1>9. Contents(p) = Tail(Contents(q))
  BY <1>6, <1>7, <1>8, SeqEqual
<1> QED  BY <1>4, <1>5, <1>9 DEF p

-------------------------------------------------------------------------------
(* Counters. *)

\* A counter stays in its range, and counts until it is saturated.
LEMMA TypedIncrement ==
    ASSUME NEW n \in 0 .. MaxCount
    PROVE  Increment(n) \in 0 .. MaxCount /\ (n < MaxCount => Increment(n) = n + 1)
BY MaxCountAssumption DEF Increment
================================================================================
