------------------------------ MODULE RingBuffer ------------------------------
(***************************************************************************)
(* src/src/comm_ringbuffer.c: bytes in a caller's array that is used as a   *)
(* ring, owned by one task.  Data is copied in and out in two parts where   *)
(* it wraps around the end of the array.                                    *)
(***************************************************************************)
EXTENDS Integers, Sequences

CONSTANTS
    Bytes,       \* the distinct bytes callers write
    Capacity,    \* size of the caller's array
    MaxLength    \* bound: the longest write, read, offset a caller asks for

ASSUME CapacityAssumption == Capacity \in Nat \ {0}
ASSUME MaxLengthAssumption == MaxLength \in Nat

VARIABLES
    ring,     \* comm_ringbuffer_t
    reply     \* result and output of the last call

vars == <<ring, reply>>

Slots == 0 .. Capacity - 1
Lengths == 0 .. MaxLength
Data == UNION {[1 .. n -> Bytes] : n \in Lengths}

\* comm_ringbuffer_t.  "configured" stands for storage # NULL /\ capacity > 0.
RingRecord ==
    [configured : BOOLEAN, storage : [Slots -> Bytes],
     read : Slots, write : Slots, used : 0 .. Capacity]

Results == {"NONE", "OK", "INVALID_STATE", "INSUFFICIENT_SPACE", "INSUFFICIENT_DATA"}
Reply(result, data) == [result |-> result, data |-> data]

-------------------------------------------------------------------------------
\* Mutant: an advance to the very end of the array is not wrapped.
AdvanceIndexOffByOne(index, amount) ==
    IF amount <= Capacity - index THEN index + amount ELSE amount - (Capacity - index)

\* comm_ringbuffer_advance_index
AdvanceIndex(index, amount) ==
    LET distanceToEnd == Capacity - index
    IN  IF amount < distanceToEnd THEN index + amount ELSE amount - distanceToEnd

\* comm_ringbuffer_state_is_valid
StateIsValid(r) ==
    /\ r.configured
    /\ r.read < Capacity
    /\ r.write < Capacity
    /\ r.used <= Capacity
    /\ r.write = AdvanceIndex(r.read, r.used)

Emptied(r) == [r EXCEPT !.configured = TRUE, !.read = 0, !.write = 0, !.used = 0]

FreeSpace(r) == Capacity - r.used

\* How much of a copy fits between an index and the end of the array.
FirstPart(index, length) ==
    IF Capacity - index > length THEN length ELSE Capacity - index

\* Mutant: the write index follows the first part of the copy only.
WrittenFirstPartOnly(r, data) ==
    LET first == FirstPart(r.write, Len(data))
    IN  [r EXCEPT !.storage = [i \in Slots |->
                      IF i \in r.write .. r.write + first - 1 THEN data[i - r.write + 1]
                      ELSE IF i < Len(data) - first THEN data[first + i + 1] ELSE @[i]],
                  !.write = AdvanceIndex(@, first),
                  !.used = @ + Len(data)]

\* The success path of comm_ringbuffer_write: two copies, then the indices.
Written(r, data) ==
    LET first == FirstPart(r.write, Len(data))
        second == Len(data) - first
    IN  [r EXCEPT !.storage = [i \in Slots |->
                      IF i \in r.write .. r.write + first - 1 THEN data[i - r.write + 1]
                      ELSE IF i < second THEN data[first + i + 1] ELSE @[i]],
                  !.write = AdvanceIndex(@, Len(data)),
                  !.used = @ + Len(data)]

\* Mutant: the second part is not taken from the start of the array.
PeekedNoWrap(r, offset, length) ==
    LET start == AdvanceIndex(r.read, offset)
        first == FirstPart(start, length)
    IN  [k \in 1 .. length |-> IF k <= first THEN r.storage[start + k - 1] ELSE r.storage[k - 1]]

\* The two copies of comm_ringbuffer_peek.
Peeked(r, offset, length) ==
    LET start == AdvanceIndex(r.read, offset)
        first == FirstPart(start, length)
    IN  [k \in 1 .. length |->
            IF k <= first THEN r.storage[start + k - 1] ELSE r.storage[k - first - 1]]

\* The success path of comm_ringbuffer_discard.
Discarded(r, length) ==
    [r EXCEPT !.read = AdvanceIndex(@, length), !.used = @ - length]

\* What the ring holds, oldest first.
Contents(r) == [i \in 1 .. r.used |-> r.storage[AdvanceIndex(r.read, i - 1)]]

-------------------------------------------------------------------------------
\* A zeroed object over an array with arbitrary contents.
Init ==
    /\ \E storage \in [Slots -> Bytes] :
          ring = [configured |-> FALSE, storage |-> storage, read |-> 0, write |-> 0, used |-> 0]
    /\ reply = Reply("NONE", << >>)

\* comm_ringbuffer_init with valid arguments; also legal on a ring in use.
InitRing == ring' = Emptied(ring) /\ reply' = Reply("OK", << >>)

\* comm_ringbuffer_reset: repairs the indices of any ring that has storage.
Reset ==
    /\ ring.configured
    /\ ring' = Emptied(ring)
    /\ reply' = Reply("OK", << >>)

\* comm_ringbuffer_write, by outcome.  A write of nothing changes nothing.
WriteOk(data) ==
    /\ StateIsValid(ring) /\ Len(data) <= FreeSpace(ring)
    /\ ring' = Written(ring, data)
    /\ reply' = Reply("OK", << >>)

WriteRefused(data) ==
    /\ StateIsValid(ring) /\ Len(data) > FreeSpace(ring)
    /\ reply' = Reply("INSUFFICIENT_SPACE", << >>)
    /\ UNCHANGED ring

\* The range asked for lies within the data.  The code compares with a
\* difference, so that no sum of an offset and a length can overflow.
Available(offset, length) ==
    offset <= ring.used /\ length <= ring.used - offset

\* comm_ringbuffer_peek
PeekOk(offset, length) ==
    /\ StateIsValid(ring) /\ Available(offset, length)
    /\ reply' = Reply("OK", Peeked(ring, offset, length))
    /\ UNCHANGED ring

\* comm_ringbuffer_discard
DiscardOk(length) ==
    /\ StateIsValid(ring) /\ Available(0, length)
    /\ ring' = Discarded(ring, length)
    /\ reply' = Reply("OK", << >>)

\* comm_ringbuffer_read: peek at the front, then discard.
ReadOk(length) ==
    /\ StateIsValid(ring) /\ Available(0, length)
    /\ ring' = Discarded(ring, length)
    /\ reply' = Reply("OK", Peeked(ring, 0, length))

\* A peek, discard (offset 0) or read (offset 0) that asks for too much.
OutputRefused(offset, length) ==
    /\ StateIsValid(ring) /\ ~Available(offset, length)
    /\ reply' = Reply("INSUFFICIENT_DATA", << >>)
    /\ UNCHANGED ring

\* Every entry point but init and reset refuses a ring whose state check fails.
RefuseInvalid ==
    /\ ~StateIsValid(ring)
    /\ reply' = Reply("INVALID_STATE", << >>)
    /\ UNCHANGED ring

Next ==
    \/ InitRing \/ Reset \/ RefuseInvalid
    \/ \E data \in Data : WriteOk(data) \/ WriteRefused(data)
    \/ \E offset, length \in Lengths : PeekOk(offset, length) \/ OutputRefused(offset, length)
    \/ \E length \in Lengths : DiscardOk(length) \/ ReadOk(length)

Spec == Init /\ [][Next]_vars

-------------------------------------------------------------------------------
TypeOK ==
    /\ ring \in RingRecord
    /\ reply \in [result : Results, data : Seq(Bytes)]

\* Once a ring has been initialised no sequence of calls makes its own state
\* check (comm_ringbuffer_state_is_valid) fail, after which every call would be
\* refused: the two indices and used agree across wraps of any length.
ConfiguredIsValid == ring.configured => StateIsValid(ring)

\* The two copies at the end of the array neither lose, repeat nor reorder
\* bytes, a write is all or nothing, and a peek or a refused call changes nothing.
Stream == INSTANCE ByteStream
              WITH usable <- ring.configured, bytes <- Contents(ring)
ImplementsByteStream == Stream!Spec
================================================================================
