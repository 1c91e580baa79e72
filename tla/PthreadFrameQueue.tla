--------------------------- MODULE PthreadFrameQueue ---------------------------
(***************************************************************************)
(* src/ports/linux/comm_frame_queue_pthread.c: the frame queue shared by    *)
(* threads through one mutex and the condition variables not_empty and      *)
(* not_full.                                                                *)
(*                                                                          *)
(* All of core, closed and stats is read and written under the mutex only,  *)
(* so a critical section, from acquiring the mutex to releasing it in an    *)
(* unlock or in a wait, is one action.  A thread competes for the mutex     *)
(* when it calls (pc "locking") and again after a wake-up ("woken") or      *)
(* after its deadline ended the wait ("timedout"); others may run before    *)
(* it gets there.                                                           *)
(***************************************************************************)
EXTENDS FrameQueueCore, FiniteSets

CONSTANTS
    Producers, Consumers,   \* the threads that push, and those that pop
    StatsModes,             \* subset of BOOLEAN: with and/or without statistics
    MaxCalls,               \* bound: calls made on a queue with statistics
    Faults,                 \* the kinds of system call that may fail
    TimeoutMayConsumeSignal \* may a wait that timed out absorb a signal
                            \*   (POSIX permits it; glibc passes the signal on)

ASSUME ThreadsAssumption == IsFiniteSet(Producers) /\ IsFiniteSet(Consumers)
                            /\ Producers \cap Consumers = {}
ASSUME StatsModesAssumption == StatsModes \subseteq BOOLEAN
ASSUME FaultsAssumption ==
    Faults \subseteq {"init", "lock", "wait", "signal", "broadcast", "unlock"}
ASSUME TimeoutAssumption == TimeoutMayConsumeSignal \in BOOLEAN

VARIABLES
    core,         \* the comm_frame_queue_t
    initialized,  \* the object holds a working mutex and condition variables
    live,         \* which of its system objects exist
    closed,
    hasStats,     \* was it initialised with a statistics object
    stats,        \* comm_frame_queue_pthread_stats_t
    pc,           \* where each thread stands
    call,         \* the arguments of the call it is in
    expired,      \* has the deadline of that call passed
    outcome,      \* what the latest step returned to a caller
    spent,        \* number of calls made with statistics (bounded by MaxCalls)
    account       \* history: the part of the queue's state that the counters of
                  \*   the current period do not cover

vars == <<core, initialized, live, closed, hasStats, stats, pc, call, expired,
          outcome, spent, account>>
lifecycle == <<initialized, live, hasStats>>

Threads == Producers \cup Consumers
Waits == {"zero", "finite", "forever"}
NoCall == [op |-> "none", frame |-> NoFrame, wait |-> "zero"]
PopCall(w) == [op |-> "pop", frame |-> NoFrame, wait |-> w]
PushCall(f, w) == [op |-> "push", frame |-> f, wait |-> w]
Calls == {NoCall} \cup {PopCall(w) : w \in Waits}
            \cup {PushCall(f, w) : f \in Frames, w \in Waits}

Outcome(op, result, frame) == [op |-> op, result |-> result, frame |-> frame]
NoOutcome == Outcome("none", "NONE", NoFrame)

Counters == {"frames_pushed", "frames_popped",
             "push_full_encounters", "pop_empty_encounters",
             "push_wait_count", "pop_wait_count",
             "push_timeout_count", "pop_timeout_count"}
StatFields == Counters \cup {"peak_size"}
ZeroStats(depth) == [k \in StatFields |-> IF k = "peak_size" THEN depth ELSE 0]

SystemObjects == {"mutex", "condattr", "not_empty", "not_full"}
OwnObjects == SystemObjects \ {"condattr"}

\* The outcomes of a system call: TRUE for success, and FALSE if it may fail.
Attempt(syscall) == IF syscall \in Faults THEN {TRUE, FALSE} ELSE {TRUE}

\* A call is under way and waits for room (push) or for a frame (pop).
InCall(op) == {t \in Threads : call[t].op = op}
At(op, where) == {t \in InCall(op) : pc[t] = where}
Waiting(op) == At(op, "waiting")
Suspended(op) == Waiting(op) \cup At(op, "woken") \cup At(op, "timedout")

-------------------------------------------------------------------------------
\* Statistics.

\* The books no longer balance once a counter has saturated.
Closed == [exact |-> FALSE, carry |-> 0, pushers |-> 0, poppers |-> 0]

\* Counts one event on each of the fields, as far as statistics are enabled.
Counted(fields) ==
    [k \in StatFields |->
        IF hasStats /\ k \in fields THEN Increment(stats[k]) ELSE stats[k]]
Audited(fields) ==
    IF hasStats /\ \E k \in fields : stats[k] = MaxCount THEN Closed ELSE account

Count(fields) == stats' = Counted(fields) /\ account' = Audited(fields)

\* Mutant: the first block of a waiting call is not an encounter.
FirstBlockMissesEncounter(t, encounter, wait) ==
    IF pc[t] # "locking" THEN {}
    ELSE IF call[t].wait = "zero" THEN {encounter} ELSE {wait}

\* The loop of a call is entered with its condition true: counted once per
\* call, before the first wait.
FirstBlock(t, encounter, wait) ==
    IF pc[t] # "locking" THEN {}
    ELSE IF call[t].wait = "zero" THEN {encounter} ELSE {encounter, wait}

-------------------------------------------------------------------------------
\* Life cycle.  The caller initialises an object that is not in use, and
\* destroys it after every thread has left it.

Init ==
    /\ \E storage \in [Slots -> Frames] :
          core = [configured |-> FALSE, storage |-> storage,
                  read |-> 0, write |-> 0, used |-> 0]
    /\ initialized = FALSE /\ live = {} /\ closed = FALSE
    /\ hasStats = FALSE /\ stats = ZeroStats(0)
    /\ pc = [t \in Threads |-> "idle"]
    /\ call = [t \in Threads |-> NoCall]
    /\ expired = [t \in Threads |-> FALSE]
    /\ outcome = NoOutcome
    /\ spent = 0
    /\ account = Closed

NobodyInside == \A t \in Threads : pc[t] = "idle"

\* comm_frame_queue_pthread_mark_uninitialized on the core
Unconfigured(q) == [q EXCEPT !.configured = FALSE, !.read = 0, !.write = 0, !.used = 0]

\* The steps of init that create or destroy a system object, in order, and
\* what the branch taken when one of them fails destroys again.
InitSteps == <<"mutex", "condattr", "setclock", "not_empty", "not_full", "condattr_destroy">>

Created(step) ==
    CASE step = "mutex" -> {}
      [] step = "condattr" -> {"mutex"}
      [] step \in {"setclock", "not_empty"} -> {"mutex", "condattr"}
      [] step = "not_full" -> {"mutex", "condattr", "not_empty"}
      [] step = "condattr_destroy" -> SystemObjects

\* Mutant: the branch for a failed second condition variable forgets the first.
RolledBackForgetsFirst(step) ==
    CASE step = "mutex" -> {}
      [] step = "condattr" -> {"mutex"}
      [] step \in {"setclock", "not_empty", "not_full"} -> {"condattr", "mutex"}
      [] step = "condattr_destroy" -> {"not_full", "not_empty", "mutex"}

RolledBack(step) ==
    CASE step = "mutex" -> {}
      [] step = "condattr" -> {"mutex"}
      [] step \in {"setclock", "not_empty"} -> {"condattr", "mutex"}
      [] step = "not_full" -> {"not_empty", "condattr", "mutex"}
      [] step = "condattr_destroy" -> {"not_full", "not_empty", "mutex"}

\* comm_frame_queue_pthread_init / _init_with_stats
InitQueue ==
    /\ ~initialized /\ NobodyInside
    /\ initialized' = TRUE /\ closed' = FALSE
    /\ core' = Emptied(core)
    /\ live' = (live \cup SystemObjects) \ {"condattr"}
    /\ \E m \in StatsModes :
          /\ hasStats' = m
          /\ stats' = IF m THEN ZeroStats(0) ELSE stats
          /\ account' = IF m THEN [Closed EXCEPT !.exact = TRUE] ELSE Closed
    /\ outcome' = NoOutcome
    /\ UNCHANGED <<pc, call, expired, spent>>

\* The attribute object is a local of init: one that cannot be destroyed is not
\* reachable from the queue.
InitFails ==
    /\ "init" \in Faults
    /\ ~initialized /\ NobodyInside
    /\ \E i \in DOMAIN InitSteps :
          live' = (live \cup Created(InitSteps[i])) \ (RolledBack(InitSteps[i]) \cup {"condattr"})
    /\ core' = Unconfigured(core)
    /\ closed' = FALSE /\ hasStats' = FALSE
    /\ outcome' = NoOutcome
    /\ UNCHANGED <<initialized, stats, pc, call, expired, spent, account>>

\* comm_frame_queue_pthread_destroy, when its three system calls succeed.
DestroyQueue ==
    /\ initialized /\ NobodyInside
    /\ initialized' = FALSE /\ closed' = FALSE /\ hasStats' = FALSE
    /\ live' = live \ OwnObjects
    /\ core' = Unconfigured(core)
    /\ account' = Closed
    /\ outcome' = NoOutcome
    /\ UNCHANGED <<stats, pc, call, expired, spent>>

-------------------------------------------------------------------------------
\* Waking and returning.

\* The waiters that one pthread_cond_signal may wake: one of those that wait,
\* none if there is none, and none as well if the signal is absorbed by a wait
\* that has already timed out.
Wakeable(op) ==
    IF Waiting(op) = {} THEN {{}}
    ELSE {{t} : t \in Waiting(op)}
         \cup (IF TimeoutMayConsumeSignal /\ At(op, "timedout") # {} THEN {{}} ELSE {})

Resume(woken, positions) ==
    [s \in Threads |-> IF s \in woken THEN "woken" ELSE positions[s]]

\* Every locked return path ends in unlock_and_return, whose own failure
\* replaces the result.
Return(t, woken, result, frame) ==
    /\ pc' = Resume(woken, [pc EXCEPT ![t] = "idle"])
    /\ call' = [call EXCEPT ![t] = NoCall]
    /\ expired' = [expired EXCEPT ![t] = FALSE]
    /\ \E unlocked \in Attempt("unlock") :
          outcome' = Outcome(call[t].op, IF unlocked THEN result ELSE "SYSTEM_ERROR", frame)

-------------------------------------------------------------------------------
\* A call up to the first attempt to take the mutex.

Begin(t, c) ==
    /\ initialized /\ pc[t] = "idle"
    /\ hasStats => spent < MaxCalls
    /\ pc' = [pc EXCEPT ![t] = "locking"]
    /\ call' = [call EXCEPT ![t] = c]
    /\ outcome' = NoOutcome
    /\ spent' = IF hasStats THEN spent + 1 ELSE spent
    /\ UNCHANGED <<core, closed, lifecycle, stats, expired, account>>

BeginPush(t, f, w) == t \in Producers /\ Begin(t, PushCall(f, w))
BeginPop(t, w) == t \in Consumers /\ Begin(t, PopCall(w))

RefuseUninitialized ==
    /\ ~initialized
    /\ \E op \in {"push", "pop"} : outcome' = Outcome(op, "INVALID_STATE", NoFrame)
    /\ UNCHANGED <<core, closed, lifecycle, stats, pc, call, expired, spent, account>>

\* The clock cannot be read or the mutex cannot be locked.
LockFails(t) ==
    /\ "lock" \in Faults /\ pc[t] = "locking"
    /\ Return(t, {}, "SYSTEM_ERROR", NoFrame)
    /\ UNCHANGED <<core, closed, lifecycle, stats, spent, account>>

\* The absolute deadline computed by the call goes by.
DeadlinePasses(t) ==
    /\ call[t].wait = "finite" /\ ~expired[t]
    /\ expired' = [expired EXCEPT ![t] = TRUE]
    /\ outcome' = NoOutcome
    /\ UNCHANGED <<core, closed, lifecycle, stats, pc, call, spent, account>>

-------------------------------------------------------------------------------
\* Waiting.  Entering a wait whose deadline has passed ends it at once.

\* Mutant: each wait starts a deadline of its own.
SuspendAfresh(t) ==
    /\ pc' = [pc EXCEPT ![t] = "waiting"]
    /\ expired' = [expired EXCEPT ![t] = FALSE]
    /\ outcome' = NoOutcome
    /\ UNCHANGED <<core, closed, lifecycle, call, spent>>

Suspend(t) ==
    /\ pc' = [pc EXCEPT ![t] = IF expired[t] THEN "timedout" ELSE "waiting"]
    /\ outcome' = NoOutcome
    /\ UNCHANGED <<core, closed, lifecycle, call, expired, spent>>

WaitTimesOut(t) ==
    /\ pc[t] = "waiting" /\ expired[t]
    /\ pc' = [pc EXCEPT ![t] = "timedout"]
    /\ outcome' = NoOutcome
    /\ UNCHANGED <<core, closed, lifecycle, stats, call, expired, spent, account>>

SpuriousWakeup(t) ==
    /\ pc[t] = "waiting"
    /\ pc' = [pc EXCEPT ![t] = "woken"]
    /\ outcome' = NoOutcome
    /\ UNCHANGED <<core, closed, lifecycle, stats, call, expired, spent, account>>

\* The wait returns an error other than ETIMEDOUT, with the mutex held.
WaitFails(t) ==
    /\ "wait" \in Faults /\ pc[t] = "waiting"
    /\ Return(t, {}, "SYSTEM_ERROR", NoFrame)
    /\ UNCHANGED <<core, closed, lifecycle, stats, spent, account>>

\* The thread holds the mutex and stands before the loop condition.
AtLoop(t, op) == call[t].op = op /\ pc[t] \in {"locking", "woken"}

-------------------------------------------------------------------------------
\* comm_frame_queue_pthread_push, from the loop to the return.

PushWaits(t) ==
    /\ AtLoop(t, "push") /\ ~closed /\ IsFull(core) /\ call[t].wait # "zero"
    /\ Count(FirstBlock(t, "push_full_encounters", "push_wait_count"))
    /\ Suspend(t)

PushWontWait(t) ==
    /\ AtLoop(t, "push") /\ ~closed /\ IsFull(core) /\ call[t].wait = "zero"
    /\ Count({"push_full_encounters", "push_timeout_count"})
    /\ Return(t, {}, "TIMEOUT", NoFrame)
    /\ UNCHANGED <<core, closed, lifecycle, spent>>

\* The deadline ended the wait: closed is looked at, the fullness is not.
PushTimesOut(t) ==
    /\ call[t].op = "push" /\ pc[t] = "timedout" /\ ~closed
    /\ Count({"push_timeout_count"})
    /\ Return(t, {}, "TIMEOUT", NoFrame)
    /\ UNCHANGED <<core, closed, lifecycle, spent>>

PushFindsClosed(t) ==
    /\ call[t].op = "push" /\ pc[t] \in {"locking", "woken", "timedout"} /\ closed
    /\ Return(t, {}, "CLOSED", NoFrame)
    /\ UNCHANGED <<core, closed, lifecycle, stats, spent, account>>

\* Mutant: the loop condition is tested once, with if in place of while.
PushCommitsUnchecked(t) ==
    /\ AtLoop(t, "push") /\ ~closed /\ (IsFull(core) => pc[t] = "woken")
    /\ core' = Pushed(core, call[t].frame)
    /\ Count({"frames_pushed"})
    /\ \E woken \in Wakeable("pop") : Return(t, woken, "OK", NoFrame)
    /\ UNCHANGED <<closed, lifecycle, spent>>

\* Mutant: only a push into an empty queue signals.
PushCommitsSignalsIfEmpty(t) ==
    /\ AtLoop(t, "push") /\ ~closed /\ ~IsFull(core)
    /\ core' = Pushed(core, call[t].frame)
    /\ Count({"frames_pushed"})
    /\ \E woken \in (IF IsEmpty(core) THEN Wakeable("pop") ELSE {{}}) : Return(t, woken, "OK", NoFrame)
    /\ UNCHANGED <<closed, lifecycle, spent>>

\* A signal that fails is reported, and the frame stays in.
PushCommits(t) ==
    /\ AtLoop(t, "push") /\ ~closed /\ ~IsFull(core)
    /\ core' = Pushed(core, call[t].frame)
    /\ stats' = [Counted({"frames_pushed"}) EXCEPT !["peak_size"] =
                    IF hasStats /\ core.used + 1 > @ THEN core.used + 1 ELSE @]
    /\ account' = Audited({"frames_pushed"})
    /\ \E signalled \in Attempt("signal") :
         \E woken \in (IF signalled THEN Wakeable("pop") ELSE {{}}) :
            Return(t, woken, IF signalled THEN "OK" ELSE "SYSTEM_ERROR", NoFrame)
    /\ UNCHANGED <<closed, lifecycle, spent>>

-------------------------------------------------------------------------------
\* comm_frame_queue_pthread_pop, from the loop to the return.

PopWaits(t) ==
    /\ AtLoop(t, "pop") /\ ~closed /\ IsEmpty(core) /\ call[t].wait # "zero"
    /\ Count(FirstBlock(t, "pop_empty_encounters", "pop_wait_count"))
    /\ Suspend(t)

PopWontWait(t) ==
    /\ AtLoop(t, "pop") /\ ~closed /\ IsEmpty(core) /\ call[t].wait = "zero"
    /\ Count({"pop_empty_encounters", "pop_timeout_count"})
    /\ Return(t, {}, "TIMEOUT", NoFrame)
    /\ UNCHANGED <<core, closed, lifecycle, spent>>

PopTimesOut(t) ==
    /\ call[t].op = "pop" /\ pc[t] = "timedout" /\ ~(closed /\ IsEmpty(core))
    /\ Count({"pop_timeout_count"})
    /\ Return(t, {}, "TIMEOUT", NoFrame)
    /\ UNCHANGED <<core, closed, lifecycle, spent>>

\* Mutant: a closed queue is not drained.
PopFindsClosedEarly(t) ==
    /\ call[t].op = "pop" /\ pc[t] \in {"locking", "woken", "timedout"} /\ closed
    /\ Return(t, {}, "CLOSED", NoFrame)
    /\ UNCHANGED <<core, closed, lifecycle, stats, spent, account>>

PopFindsClosed(t) ==
    /\ call[t].op = "pop" /\ pc[t] \in {"locking", "woken", "timedout"}
    /\ closed /\ IsEmpty(core)
    /\ Return(t, {}, "CLOSED", NoFrame)
    /\ UNCHANGED <<core, closed, lifecycle, stats, spent, account>>

\* Frames queued before the close are still delivered after it.
PopCommits(t) ==
    /\ AtLoop(t, "pop") /\ ~IsEmpty(core)
    /\ core' = Popped(core)
    /\ Count({"frames_popped"})
    /\ \E signalled \in Attempt("signal") :
         \E woken \in (IF signalled THEN Wakeable("push") ELSE {{}}) :
            Return(t, woken, IF signalled THEN "OK" ELSE "SYSTEM_ERROR", Front(core))
    /\ UNCHANGED <<closed, lifecycle, spent>>

-------------------------------------------------------------------------------
\* Calls that never wait, made by any thread.

\* Mutant: close signals where it must broadcast.
CloseWakesOne ==
    /\ initialized
    /\ closed' = TRUE
    /\ \E pops \in Wakeable("pop"), pushes \in Wakeable("push") :
          pc' = Resume(pops \cup pushes, pc)
    /\ outcome' = NoOutcome
    /\ UNCHANGED <<core, lifecycle, stats, call, expired, spent, account>>

\* comm_frame_queue_pthread_close: both broadcasts are tried even if one fails,
\* and again by a repeated close.
Close ==
    /\ initialized
    /\ closed' = TRUE
    /\ \E empty \in Attempt("broadcast"), full \in Attempt("broadcast") :
          pc' = Resume((IF empty THEN Waiting("pop") ELSE {})
                         \cup (IF full THEN Waiting("push") ELSE {}), pc)
    /\ outcome' = NoOutcome
    /\ UNCHANGED <<core, lifecycle, stats, call, expired, spent, account>>

\* Mutant: the new period starts from an empty queue.
ResetStatsForgetsDepth ==
    /\ initialized /\ hasStats
    /\ stats' = ZeroStats(0)
    /\ account' = [exact |-> TRUE, carry |-> core.used,
                   pushers |-> Cardinality(Suspended("push")),
                   poppers |-> Cardinality(Suspended("pop"))]
    /\ outcome' = NoOutcome
    /\ UNCHANGED <<core, closed, lifecycle, pc, call, expired, spent>>

\* comm_frame_queue_pthread_reset_stats: calls that are suspended keep their
\* place, their first encounter belongs to the period that ended.
ResetStats ==
    /\ initialized /\ hasStats
    /\ stats' = ZeroStats(core.used)
    /\ account' = [exact |-> TRUE, carry |-> core.used,
                   pushers |-> Cardinality(Suspended("push")),
                   poppers |-> Cardinality(Suspended("pop"))]
    /\ outcome' = NoOutcome
    /\ UNCHANGED <<core, closed, lifecycle, pc, call, expired, spent>>

-------------------------------------------------------------------------------
Push(t) == PushWaits(t) \/ PushWontWait(t) \/ PushTimesOut(t) \/ PushFindsClosed(t) \/ PushCommits(t)
Pop(t) == PopWaits(t) \/ PopWontWait(t) \/ PopTimesOut(t) \/ PopFindsClosed(t) \/ PopCommits(t)

Next ==
    \/ InitQueue \/ InitFails \/ DestroyQueue \/ RefuseUninitialized
    \/ Close \/ ResetStats
    \/ \E t \in Threads :
          \/ \E w \in Waits : BeginPop(t, w) \/ \E f \in Frames : BeginPush(t, f, w)
          \/ Push(t) \/ Pop(t)
          \/ DeadlinePasses(t) \/ WaitTimesOut(t) \/ SpuriousWakeup(t)
          \/ LockFails(t) \/ WaitFails(t)

Spec == Init /\ [][Next]_vars

\* A thread that is runnable gets the mutex and the processor eventually, and
\* time passes.  Nothing is assumed of callers, of wake-ups without a cause, or
\* of failures.
Fairness ==
    \A t \in Threads : /\ WF_vars(Push(t) \/ Pop(t))
                       /\ WF_vars(DeadlinePasses(t))
                       /\ WF_vars(WaitTimesOut(t))
FairSpec == Spec /\ Fairness

-------------------------------------------------------------------------------
TypeOK ==
    /\ core \in QueueRecord
    /\ initialized \in BOOLEAN /\ closed \in BOOLEAN /\ hasStats \in BOOLEAN
    /\ live \subseteq SystemObjects
    /\ stats \in [StatFields -> Nat]
    /\ \A k \in Counters : stats[k] <= MaxCount
    /\ pc \in [Threads -> {"idle", "locking", "waiting", "woken", "timedout"}]
    /\ call \in [Threads -> Calls]
    /\ expired \in [Threads -> BOOLEAN]
    /\ outcome \in [op : {"none", "push", "pop"},
                    result : {"NONE", "OK", "TIMEOUT", "CLOSED", "INVALID_STATE", "SYSTEM_ERROR"},
                    frame : Frames \cup {NoFrame}]
    /\ spent \in Nat
    /\ account \in [exact : BOOLEAN, carry : Int, pushers : Nat, poppers : Nat]

\* However the threads interleave, the core's own state check never fails while
\* the queue is in use, so the INVALID_STATE branches behind it are dead; and a
\* thread occupies a call exactly while it is not idle.
CoreStaysValid ==
    /\ initialized => StateIsValid(core)
    /\ ~initialized => NobodyInside
    /\ \A t \in Threads : pc[t] = "idle" <=> call[t] = NoCall

\* Every branch of init, the failing ones included, leaves either a queue with
\* all three system objects or none of them.
AllObjectsOrNone == live = IF initialized THEN OwnObjects ELSE {}

\* No wake-up is lost.  While a consumer sleeps on not_empty, each queued frame
\* has a woken consumer on its way to it, and while a producer sleeps on
\* not_full so has each free slot; and nobody sleeps on a closed queue.
\* One signal per operation is enough whichever threads barge in between.
NoStrandedWaiter ==
    /\ Waiting("pop") # {} => core.used <= Cardinality(At("pop", "woken"))
    /\ Waiting("push") # {} => Capacity - core.used <= Cardinality(At("push", "woken"))
    /\ closed => Waiting("pop") = {} /\ Waiting("push") = {}

\* The counters of the current period explain the depth of the queue, and the
\* peak is no lower than it, through waits, closes and resets of the counters.
CountersExplainDepth ==
    account.exact =>
        /\ core.used = account.carry + stats["frames_pushed"] - stats["frames_popped"]
        /\ core.used <= stats["peak_size"]

\* Every call that is suspended, or ended in TIMEOUT, was counted once as an
\* encounter with a full (empty) queue, in this period or, if it was suspended
\* when the counters were reset, in an earlier one.
EncountersCoverTimeouts ==
    account.exact =>
        /\ stats["push_timeout_count"] + Cardinality(Suspended("push"))
              <= stats["push_full_encounters"] + account.pushers
        /\ stats["pop_timeout_count"] + Cardinality(Suspended("pop"))
              <= stats["pop_empty_encounters"] + account.poppers

\* Each call takes effect at one instant on a bounded FIFO that can be closed:
\* no frame is lost, duplicated or reordered, none enters after the close, and
\* CLOSED is reported to a consumer only when nothing is left.
Fifo == INSTANCE ClosableFifo
            WITH usable <- initialized, items <- Contents(core), pending <- call
ImplementsClosableFifo == Fifo!Spec

\* A close releases every thread that is inside a call, whatever it waits for.
CloseReleasesAll ==
    \A t \in Threads : (closed /\ pc[t] # "idle") ~> (pc[t] = "idle")

\* A call with a deadline returns, however often it is woken in vain: the
\* deadline is that of the call and is not renewed by a further wait.
DeadlineIsHonoured ==
    \A t \in Threads : (pc[t] # "idle" /\ call[t].wait # "forever") ~> (pc[t] = "idle")

\* The documented meaning of a TIMEOUT: the queue was full (push) or empty (pop)
\* when the call gave up.
TimeoutMeansBlocked ==
    [][outcome'.result = "TIMEOUT" =>
          IF outcome'.op = "push" THEN IsFull(core) ELSE IsEmpty(core)]_vars
================================================================================
