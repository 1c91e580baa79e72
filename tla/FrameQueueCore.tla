---------------------------- MODULE FrameQueueCore ----------------------------
(***************************************************************************)
(* The ring of frame slots of src/src/comm_frame_queue.c as operators on a  *)
(* queue record, without any state of its own.  FrameQueue drives it as the *)
(* single-task object of the core library; PthreadFrameQueue drives it      *)
(* under a mutex.                                                           *)
(***************************************************************************)
EXTENDS Integers, Sequences

CONSTANTS
    Frames,     \* the distinct frames callers push
    NoFrame,    \* "no frame": the output of a call that delivers none
    Capacity,   \* number of slots in the caller's storage array
    MaxCount    \* the value the uint64_t counters saturate at

ASSUME CapacityAssumption == Capacity \in Nat \ {0}
ASSUME MaxCountAssumption == MaxCount \in Nat \ {0}
ASSUME NoFrameAssumption == NoFrame \notin Frames

Slots == 0 .. Capacity - 1

\* comm_frame_queue_t.  "configured" stands for storage # NULL /\ capacity > 0.
QueueRecord ==
    [configured : BOOLEAN, storage : [Slots -> Frames],
     read : Nat, write : Nat, used : Nat]

\* Mutant: a counter that does not saturate.
IncrementUnsaturated(n) == n + 1

\* comm_frame_queue_increment_counter
Increment(n) == IF n = MaxCount THEN n ELSE n + 1

\* Mutant: the slot one past the end is taken for a slot.
AdvanceIndexOffByOne(index, amount) ==
    IF amount <= Capacity - index THEN index + amount ELSE amount - (Capacity - index)

\* Walks an index forward around the ring without forming index + amount
\* unless it stays below the capacity.
AdvanceIndex(index, amount) ==
    LET distanceToEnd == Capacity - index
    IN  IF amount < distanceToEnd THEN index + amount ELSE amount - distanceToEnd

StateIsValid(q) ==
    /\ q.configured
    /\ q.read < Capacity
    /\ q.write < Capacity
    /\ q.used <= Capacity
    /\ q.write = AdvanceIndex(q.read, q.used)

\* The indices of an empty ring.  The slots keep what they held.
Emptied(q) == [q EXCEPT !.configured = TRUE, !.read = 0, !.write = 0, !.used = 0]

IsFull(q) == q.used = Capacity
IsEmpty(q) == q.used = 0

\* The success path of comm_frame_queue_push_internal ...
Pushed(q, f) ==
    [q EXCEPT !.storage = [@ EXCEPT ![q.write] = f],
              !.write = AdvanceIndex(@, 1),
              !.used = @ + 1]

\* ... and of comm_frame_queue_pop_internal.
FrontAfterAdvance(q) == q.storage[AdvanceIndex(q.read, 1)]  \* mutant: advance, then copy
Front(q) == q.storage[q.read]
Popped(q) == [q EXCEPT !.read = AdvanceIndex(@, 1), !.used = @ - 1]

\* What the ring holds, oldest first.
Contents(q) == [i \in 1 .. q.used |-> q.storage[AdvanceIndex(q.read, i - 1)]]
================================================================================
