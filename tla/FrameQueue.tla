------------------------------ MODULE FrameQueue ------------------------------
(***************************************************************************)
(* src/src/comm_frame_queue.c: the non-blocking frame queue with its        *)
(* optional external statistics, used by one task at a time.                *)
(***************************************************************************)
EXTENDS FrameQueueCore

VARIABLES
    queue,      \* comm_frame_queue_t
    stats,      \* comm_frame_queue_stats_t, owned by the caller
    reply,      \* result and output frame of the last call
    account,    \* history: frames in the queue that the counters do not explain,
                \*   and whether every call since stats_reset was counted
    highWater   \* history: the largest number of frames held since stats_reset

vars == <<queue, stats, reply, account, highWater>>

Larger(a, b) == IF a > b THEN a ELSE b

StatsRecord == [frames_pushed : 0 .. MaxCount, frames_popped : 0 .. MaxCount,
                push_full_count : 0 .. MaxCount, peak_size : Nat]

Results == {"NONE", "OK", "INVALID_STATE", "FULL", "EMPTY"}

Reply(result) == [result |-> result, frame |-> NoFrame]

\* comm_frame_queue_observe_size
Observe(s, used) == [s EXCEPT !.peak_size = Larger(@, used)]

\* The books are closed by a call the counters miss: one made without stats, or
\* one that finds its counter saturated.
Closed == [exact |-> FALSE, carry |-> 0]
Counted(counter) == IF counter < MaxCount THEN account ELSE Closed

-------------------------------------------------------------------------------
\* A queue object the caller has zeroed but not yet initialised, over a storage
\* array with arbitrary contents, and a zeroed stats object.
Init ==
    /\ \E storage \in [Slots -> Frames] :
          queue = [configured |-> FALSE, storage |-> storage,
                   read |-> 0, write |-> 0, used |-> 0]
    /\ stats = [frames_pushed |-> 0, frames_popped |-> 0,
                push_full_count |-> 0, peak_size |-> 0]
    /\ reply = Reply("NONE")
    /\ account = Closed
    /\ highWater = 0

\* comm_frame_queue_init with valid arguments; also legal on a queue in use.
InitQueue ==
    /\ queue' = Emptied(queue)
    /\ reply' = Reply("OK")
    /\ account' = [account EXCEPT !.carry = IF account.exact THEN @ - queue.used ELSE 0]
    /\ UNCHANGED <<stats, highWater>>

\* comm_frame_queue_reset: repairs the indices of any queue that has storage.
Reset ==
    /\ queue.configured
    /\ queue' = Emptied(queue)
    /\ reply' = Reply("OK")
    /\ account' = [account EXCEPT !.carry = IF account.exact THEN @ - queue.used ELSE 0]
    /\ UNCHANGED <<stats, highWater>>

StatsReset ==
    /\ StateIsValid(queue)
    /\ stats' = [frames_pushed |-> 0, frames_popped |-> 0,
                 push_full_count |-> 0, peak_size |-> queue.used]
    /\ reply' = Reply("OK")
    /\ account' = [exact |-> TRUE, carry |-> queue.used]
    /\ highWater' = queue.used
    /\ UNCHANGED queue

\* Mutant: the peak is sampled before the frame goes in, and not again after.
PushOkMissesPeak(f, counting) ==
    /\ StateIsValid(queue) /\ ~IsFull(queue)
    /\ queue' = Pushed(queue, f)
    /\ reply' = Reply("OK")
    /\ stats' = IF counting
                THEN [Observe(stats, queue.used) EXCEPT !.frames_pushed = Increment(@)]
                ELSE stats
    /\ account' = IF counting THEN Counted(stats.frames_pushed) ELSE Closed
    /\ highWater' = Larger(highWater, queue'.used)

\* comm_frame_queue_push / _push_with_stats, by outcome.  "counting" says
\* whether the caller passed a stats object.
PushOk(f, counting) ==
    /\ StateIsValid(queue) /\ ~IsFull(queue)
    /\ queue' = Pushed(queue, f)
    /\ reply' = Reply("OK")
    /\ stats' = IF counting
                THEN Observe([Observe(stats, queue.used) EXCEPT !.frames_pushed = Increment(@)],
                             queue.used + 1)
                ELSE stats
    /\ account' = IF counting THEN Counted(stats.frames_pushed) ELSE Closed
    /\ highWater' = Larger(highWater, queue'.used)

\* Mutant: a refused push is counted as a push.
PushFullCountsPush(counting) ==
    /\ StateIsValid(queue) /\ IsFull(queue)
    /\ reply' = Reply("FULL")
    /\ stats' = IF counting
                THEN [stats EXCEPT !.frames_pushed = Increment(@),
                                   !.push_full_count = Increment(@)]
                ELSE stats
    /\ UNCHANGED <<queue, account, highWater>>

PushFull(counting) ==
    /\ StateIsValid(queue) /\ IsFull(queue)
    /\ reply' = Reply("FULL")
    /\ stats' = IF counting
                THEN [Observe(stats, queue.used) EXCEPT !.push_full_count = Increment(@)]
                ELSE stats
    /\ UNCHANGED <<queue, account, highWater>>

PopOk(counting) ==
    /\ StateIsValid(queue) /\ ~IsEmpty(queue)
    /\ queue' = Popped(queue)
    /\ reply' = [result |-> "OK", frame |-> Front(queue)]
    /\ stats' = IF counting
                THEN [Observe(stats, queue.used) EXCEPT !.frames_popped = Increment(@)]
                ELSE stats
    /\ account' = IF counting THEN Counted(stats.frames_popped) ELSE Closed
    /\ UNCHANGED highWater

PopEmpty(counting) ==
    /\ StateIsValid(queue) /\ IsEmpty(queue)
    /\ reply' = Reply("EMPTY")
    /\ stats' = IF counting THEN Observe(stats, queue.used) ELSE stats
    /\ UNCHANGED <<queue, account, highWater>>

\* Every entry point but init refuses a queue whose state check fails; reset
\* looks at the storage alone.
RefuseInvalid ==
    /\ ~StateIsValid(queue)
    /\ reply' = Reply("INVALID_STATE")
    /\ UNCHANGED <<queue, stats, account, highWater>>

Next ==
    \/ InitQueue
    \/ Reset
    \/ StatsReset
    \/ \E counting \in BOOLEAN :
          \/ \E f \in Frames : PushOk(f, counting)
          \/ PushFull(counting)
          \/ PopOk(counting)
          \/ PopEmpty(counting)
    \/ RefuseInvalid

Spec == Init /\ [][Next]_vars

-------------------------------------------------------------------------------
TypeOK ==
    /\ queue \in QueueRecord
    /\ stats \in StatsRecord
    /\ reply \in [result : Results, frame : Frames \cup {NoFrame}]
    /\ account \in [exact : BOOLEAN, carry : Int]
    /\ highWater \in Nat

\* Once a queue has been initialised, no sequence of calls makes its own state
\* check (comm_frame_queue_state_is_valid) fail: used disambiguates full from
\* empty and agrees with the distance between the indices.
ConfiguredIsValid == queue.configured => StateIsValid(queue)

\* While every call is counted and no counter has saturated, the counters
\* explain the depth of the queue, across resets of the queue and of the stats.
CountersExplainDepth ==
    account.exact =>
        queue.used = account.carry + stats.frames_pushed - stats.frames_popped

\* The recorded peak is the true high-water mark of the period if every call
\* was counted, even though it is only sampled when a call is made; it is never
\* below the current depth then.
PeakIsHighWater ==
    account.exact => stats.peak_size = highWater /\ queue.used <= highWater

\* The ring of slots behaves as a bounded FIFO: wrapping the indices loses,
\* duplicates and reorders nothing, and a refused call changes nothing.
Fifo == INSTANCE BoundedFifo
            WITH usable <- queue.configured, items <- Contents(queue)
ImplementsFifo == Fifo!Spec
================================================================================
