------------------------ MODULE PthreadFrameQueueProofs ------------------------
(***************************************************************************)
(* The shared queue for any number of threads, frames and slots: its types  *)
(* and the validity of the ring, its system objects and counters, that no   *)
(* wake-up is lost, and that it implements ClosableFifo.                    *)
(***************************************************************************)
EXTENDS PthreadFrameQueue, FrameQueueCoreProofs, FiniteSetTheorems, TLAPS

USE CapacityAssumption

Positions == {"idle", "locking", "waiting", "woken", "timedout"}
Results == {"NONE", "OK", "TIMEOUT", "CLOSED", "INVALID_STATE", "SYSTEM_ERROR"}
Outcomes == [op : {"none", "push", "pop"}, result : Results, frame : Frames \cup {NoFrame}]

-------------------------------------------------------------------------------
(* Types and the valid ring.                                                *)

\* The threads' part of the types, and what ties positions to calls: a thread
\* occupies a call exactly while it is not idle, only a call with a deadline
\* expires, and only an expired call is ended by its deadline.
ThreadsOK ==
    /\ pc \in [Threads -> Positions]
    /\ call \in [Threads -> Calls]
    /\ expired \in [Threads -> BOOLEAN]
    /\ \A t \in Threads : pc[t] = "idle" <=> call[t] = NoCall
    /\ \A t \in Threads : expired[t] => call[t].wait = "finite"
    /\ \A t \in Threads : pc[t] = "timedout" => expired[t]

BooksOK ==
    /\ hasStats \in BOOLEAN
    /\ stats \in [StatFields -> Nat]
    /\ \A k \in Counters : stats[k] <= MaxCount
    /\ account \in [exact : BOOLEAN, carry : Int, pushers : Nat, poppers : Nat]
    /\ spent \in Nat

ObjectOK ==
    /\ initialized \in BOOLEAN /\ closed \in BOOLEAN
    /\ live \subseteq SystemObjects
    /\ core \in QueueRecord
    /\ initialized => core \in SoundQueue
    /\ ~initialized => core.used = 0 /\ ~closed /\ NobodyInside

IInv == ThreadsOK /\ BooksOK /\ ObjectOK /\ outcome \in Outcomes

LEMMA CallFields ==
    ASSUME NEW c \in Calls
    PROVE  /\ c.op \in {"none", "push", "pop"} /\ c.wait \in Waits
           /\ c.op = "none" <=> c = NoCall
           /\ c.op = "push" => c.frame \in Frames
BY DEF Calls, NoCall, PopCall, PushCall, Waits

LEMMA CallTypes ==
    /\ NoCall \in Calls /\ NoCall.wait = "zero" /\ NoCall.op = "none"
    /\ \A w \in Waits : PopCall(w) \in Calls /\ PopCall(w).op = "pop" /\ PopCall(w) # NoCall
    /\ \A w \in Waits, f \in Frames :
          PushCall(f, w) \in Calls /\ PushCall(f, w).op = "push" /\ PushCall(f, w) # NoCall
BY DEF Calls, NoCall, PopCall, PushCall

LEMMA ThreadsFinite == IsFiniteSet(Threads)
BY ThreadsAssumption, FS_Union DEF Threads

LEMMA WaitingThreads ==
    ASSUME NEW op
    PROVE  /\ Waiting(op) \subseteq {s \in Threads : pc[s] = "waiting"}
           /\ \A woken \in Wakeable(op) : woken \subseteq Waiting(op)
BY DEF Waiting, At, InCall, Wakeable

\* A return leaves the caller idle and moves only sleeping threads.
LEMMA ReturnThreads ==
    ASSUME ThreadsOK, NEW t \in Threads,
           NEW woken, woken \subseteq {s \in Threads : pc[s] = "waiting"}, t \notin woken,
           NEW result \in Results, NEW frame \in Frames \cup {NoFrame},
           Return(t, woken, result, frame)
    PROVE  ThreadsOK' /\ outcome' \in Outcomes
<1>1. /\ pc' \in [Threads -> Positions] /\ call' \in [Threads -> Calls]
      /\ expired' \in [Threads -> BOOLEAN]
  BY CallTypes DEF Return, Resume, ThreadsOK, Positions
<1>2. /\ pc'[t] = "idle" /\ call'[t] = NoCall /\ ~expired'[t]
      /\ \A s \in Threads \ {t} :
            /\ pc'[s] = IF s \in woken THEN "woken" ELSE pc[s]
            /\ call'[s] = call[s] /\ expired'[s] = expired[s]
  BY DEF Return, Resume, ThreadsOK
<1>3. ThreadsOK'
  BY <1>1, <1>2, CallTypes DEF ThreadsOK
<1>4. call[t].op \in {"none", "push", "pop"}
  BY CallFields DEF ThreadsOK
<1>5. PICK r \in {result, "SYSTEM_ERROR"} : outcome' = Outcome(call[t].op, r, frame)
  BY DEF Return
<1>6. outcome' \in Outcomes
  BY <1>4, <1>5 DEF Outcomes, Outcome, Results
<1> QED  BY <1>3, <1>6

\* Going to sleep, or straight on if the deadline has passed.
LEMMA SuspendThreads ==
    ASSUME ThreadsOK, NEW t \in Threads, pc[t] # "idle", Suspend(t)
    PROVE  ThreadsOK' /\ outcome' \in Outcomes
<1>1. /\ pc' \in [Threads -> Positions] /\ call' = call /\ expired' = expired
      /\ pc'[t] = IF expired[t] THEN "timedout" ELSE "waiting"
      /\ \A s \in Threads \ {t} : pc'[s] = pc[s]
  BY DEF Suspend, ThreadsOK, Positions
<1>2. ThreadsOK'
  BY <1>1 DEF ThreadsOK
<1>3. outcome' = NoOutcome
  BY DEF Suspend
<1> QED  BY <1>2, <1>3 DEF NoOutcome, Outcome, Outcomes, Results

LEMMA QuietOutcome == NoOutcome \in Outcomes
BY DEF NoOutcome, Outcome, Outcomes, Results

LEMMA CountedBooks ==
    ASSUME BooksOK, NEW fields
    PROVE  /\ Counted(fields) \in [StatFields -> Nat]
           /\ \A k \in Counters : Counted(fields)[k] <= MaxCount
           /\ Audited(fields) \in [exact : BOOLEAN, carry : Int, pushers : Nat, poppers : Nat]
<1>1. \A n \in Nat : Increment(n) \in Nat /\ (n <= MaxCount => Increment(n) <= MaxCount)
  BY MaxCountAssumption DEF Increment
<1>2. Counters \subseteq StatFields
  BY DEF StatFields
<1>3. \A k \in StatFields : stats[k] \in Nat
  BY DEF BooksOK
<1>4. Counted(fields) \in [StatFields -> Nat]
  BY <1>1, <1>3 DEF Counted
<1>5. \A k \in Counters : Counted(fields)[k] <= MaxCount
  BY <1>1, <1>2, <1>3 DEF Counted, BooksOK
<1>6. Audited(fields) \in [exact : BOOLEAN, carry : Int, pushers : Nat, poppers : Nat]
  BY DEF Audited, Closed, BooksOK
<1> QED  BY <1>4, <1>5, <1>6

LEMMA CountBooks ==
    ASSUME BooksOK, NEW fields, Count(fields), UNCHANGED <<hasStats, spent>>
    PROVE  BooksOK'
BY CountedBooks DEF Count, BooksOK

LEMMA ZeroBooks ==
    ASSUME NEW n \in Nat
    PROVE  /\ ZeroStats(n) \in [StatFields -> Nat]
           /\ \A k \in Counters : ZeroStats(n)[k] <= MaxCount
<1>1. \A k \in Counters : k \in StatFields /\ k # "peak_size"
  BY DEF Counters, StatFields
<1> QED  BY <1>1, MaxCountAssumption DEF ZeroStats

LEMMA InitSafe == Init => IInv
<1> SUFFICES ASSUME Init PROVE IInv
  OBVIOUS
<1>1. ThreadsOK
  BY CallTypes DEF Init, ThreadsOK, Positions
<1>2. BooksOK
  <2>1. ZeroStats(0) \in [StatFields -> Nat] /\ \A k \in Counters : ZeroStats(0)[k] <= MaxCount
    BY ZeroBooks
  <2>2. Closed \in [exact : BOOLEAN, carry : Int, pushers : Nat, poppers : Nat]
    BY DEF Closed
  <2> QED  BY <2>1, <2>2 DEF Init, BooksOK
<1>3. ObjectOK
  <2>1. core \in QueueRecord /\ core.used = 0
    BY DEF Init, QueueRecord
  <2> QED  BY <2>1 DEF Init, ObjectOK, NobodyInside
<1>4. outcome \in Outcomes
  BY QuietOutcome DEF Init
<1> QED  BY <1>1, <1>2, <1>3, <1>4 DEF IInv

\* What a step keeps when it leaves the object alone.
LEMMA SameObject ==
    ASSUME ObjectOK, UNCHANGED <<core, closed, lifecycle>>, initialized \/ pc' = pc
    PROVE  ObjectOK'
BY DEF ObjectOK, lifecycle, NobodyInside, Threads

LEMMA SameBooks ==
    ASSUME BooksOK, UNCHANGED <<lifecycle, stats, spent, account>>
    PROVE  BooksOK'
BY DEF BooksOK, lifecycle

LEMMA InsideMeansInitialized ==
    ASSUME ObjectOK, ThreadsOK, NEW t \in Threads, pc[t] # "idle" \/ call[t].op # "none"
    PROVE  initialized /\ core \in SoundQueue /\ StateIsValid(core) /\ pc[t] # "idle"
BY CallTypes DEF ObjectOK, ThreadsOK, NobodyInside, SoundQueue

\* A wake-up, a refusal or a failure of a call: nothing but threads and books.
LEMMA BeginSafe ==
    ASSUME IInv, NEW t \in Threads, NEW c \in Calls, c # NoCall, Begin(t, c)
    PROVE  IInv'
<1>1. ThreadsOK'
  <2>1. /\ pc' \in [Threads -> Positions] /\ call' \in [Threads -> Calls]
        /\ pc[t] = "idle" /\ pc'[t] = "locking" /\ call'[t] = c
        /\ \A s \in Threads \ {t} : pc'[s] = pc[s] /\ call'[s] = call[s]
    BY DEF Begin, IInv, ThreadsOK, Positions
  <2>2. ~expired[t] /\ expired' = expired
    BY <2>1, CallTypes DEF Begin, IInv, ThreadsOK
  <2> QED  BY <2>1, <2>2 DEF IInv, ThreadsOK
<1>2. BooksOK'
  BY DEF Begin, IInv, BooksOK, lifecycle
<1>3. ObjectOK'
  BY SameObject DEF Begin, IInv
<1> QED  BY <1>1, <1>2, <1>3, QuietOutcome DEF IInv, Begin

LEMMA ReturnSafe ==
    ASSUME IInv, NEW t \in Threads, pc[t] # "idle",
           NEW woken, woken \subseteq {s \in Threads : pc[s] = "waiting"}, t \notin woken,
           NEW result \in Results, NEW frame \in Frames \cup {NoFrame},
           Return(t, woken, result, frame),
           UNCHANGED <<core, closed, lifecycle>>, BooksOK'
    PROVE  IInv'
<1>1. ThreadsOK' /\ outcome' \in Outcomes
  BY ReturnThreads DEF IInv
<1>2. ObjectOK'
  BY SameObject, InsideMeansInitialized DEF IInv
<1> QED  BY <1>1, <1>2 DEF IInv

LEMMA SuspendSafe ==
    ASSUME IInv, NEW t \in Threads, pc[t] # "idle", Suspend(t), NEW fields, Count(fields)
    PROVE  IInv'
<1>1. ThreadsOK' /\ outcome' \in Outcomes
  BY SuspendThreads DEF IInv
<1>2. BooksOK' /\ ObjectOK'
  BY CountBooks, SameObject, InsideMeansInitialized DEF IInv, Suspend, lifecycle
<1> QED  BY <1>1, <1>2 DEF IInv

LEMMA PushCommitsSafe ==
    ASSUME IInv, NEW t \in Threads, PushCommits(t)
    PROVE  IInv'
<1>1. /\ core \in SoundQueue /\ pc[t] \in {"locking", "woken"} /\ ~IsFull(core) /\ initialized
      /\ call[t].op = "push" /\ call[t].frame \in Frames
  <2>1. call[t] \in Calls /\ call[t].op = "push" /\ pc[t] \in {"locking", "woken"} /\ ~IsFull(core)
    BY DEF PushCommits, AtLoop, IInv, ThreadsOK
  <2> QED  BY <2>1, CallFields, InsideMeansInitialized DEF IInv
<1>2. PICK woken \in Wakeable("pop") \cup {{}}, result \in {"OK", "SYSTEM_ERROR"} :
         Return(t, woken, result, NoFrame)
  <2>1. PICK signalled \in Attempt("signal") :
           \E woken \in (IF signalled THEN Wakeable("pop") ELSE {{}}) :
              Return(t, woken, IF signalled THEN "OK" ELSE "SYSTEM_ERROR", NoFrame)
    BY DEF PushCommits
  <2> QED  BY <2>1
<1>3. woken \subseteq {s \in Threads : pc[s] = "waiting"}
  BY <1>2, WaitingThreads
<1>4. ThreadsOK' /\ outcome' \in Outcomes
  BY <1>1, <1>2, <1>3, ReturnThreads DEF IInv, Results
<1>5. ObjectOK'
  <2>1. core' \in SoundQueue
    BY <1>1, PushedSound DEF PushCommits
  <2> QED  BY <1>1, <2>1 DEF PushCommits, lifecycle, ObjectOK, IInv, SoundQueue
<1>6. BooksOK'
  <2> DEFINE counted == Counted({"frames_pushed"})
             peak == IF hasStats /\ core.used + 1 > counted["peak_size"]
                     THEN core.used + 1 ELSE counted["peak_size"]
  <2>1. /\ counted \in [StatFields -> Nat]
        /\ \A k \in Counters : counted[k] <= MaxCount
        /\ Audited({"frames_pushed"}) \in [exact : BOOLEAN, carry : Int, pushers : Nat, poppers : Nat]
    BY CountedBooks DEF IInv
  <2>2. "peak_size" \in StatFields /\ \A k \in Counters : k # "peak_size"
    BY DEF StatFields, Counters
  <2>3. stats' = [counted EXCEPT !["peak_size"] = peak]
        /\ account' = Audited({"frames_pushed"}) /\ spent' = spent /\ hasStats' = hasStats
    BY DEF PushCommits, lifecycle
  <2> HIDE DEF counted
  <2>4. peak \in Nat
    BY <1>1, <2>1, <2>2, SoundFields
  <2> HIDE DEF peak
  <2>5. stats' \in [StatFields -> Nat] /\ \A k \in Counters : stats'[k] <= MaxCount
    BY <2>1, <2>2, <2>3, <2>4
  <2> QED  BY <2>1, <2>3, <2>5 DEF BooksOK, IInv
<1> QED  BY <1>4, <1>5, <1>6 DEF IInv

LEMMA PopCommitsSafe ==
    ASSUME IInv, NEW t \in Threads, PopCommits(t)
    PROVE  IInv'
<1>1. /\ core \in SoundQueue /\ pc[t] \in {"locking", "woken"} /\ ~IsEmpty(core) /\ initialized
  <2>1. call[t].op = "pop" /\ pc[t] \in {"locking", "woken"} /\ ~IsEmpty(core)
    BY DEF PopCommits, AtLoop
  <2> QED  BY <2>1, InsideMeansInitialized DEF IInv
<1>2. PICK woken \in Wakeable("push") \cup {{}}, result \in {"OK", "SYSTEM_ERROR"} :
         Return(t, woken, result, Front(core))
  <2>1. PICK signalled \in Attempt("signal") :
           \E woken \in (IF signalled THEN Wakeable("push") ELSE {{}}) :
              Return(t, woken, IF signalled THEN "OK" ELSE "SYSTEM_ERROR", Front(core))
    BY DEF PopCommits
  <2> QED  BY <2>1
<1>3. woken \subseteq {s \in Threads : pc[s] = "waiting"}
  BY <1>2, WaitingThreads
<1>4. ThreadsOK' /\ outcome' \in Outcomes
  BY <1>1, <1>2, <1>3, ReturnThreads, PoppedSound DEF IInv, Results
<1>5. ObjectOK'
  <2>1. core' \in SoundQueue
    BY <1>1, PoppedSound DEF PopCommits
  <2> QED  BY <1>1, <2>1 DEF PopCommits, lifecycle, ObjectOK, IInv, SoundQueue
<1>6. BooksOK'
  BY CountBooks DEF PopCommits, lifecycle, IInv
<1> QED  BY <1>4, <1>5, <1>6 DEF IInv

LEMMA StepSafe == IInv /\ [Next]_vars => IInv'
<1> SUFFICES ASSUME IInv, [Next]_vars PROVE IInv'
  OBVIOUS
<1>1. ThreadsOK /\ BooksOK /\ ObjectOK /\ core \in QueueRecord
  BY DEF IInv, ObjectOK
<1>2. CASE InitQueue
  <2>1. ThreadsOK'
    BY <1>1, <1>2 DEF InitQueue, ThreadsOK
  <2>2. BooksOK'
    <3>1. PICK m \in BOOLEAN :
             /\ hasStats' = m /\ stats' = IF m THEN ZeroStats(0) ELSE stats
             /\ account' = IF m THEN [Closed EXCEPT !.exact = TRUE] ELSE Closed
      BY <1>2, StatsModesAssumption DEF InitQueue
    <3>2. /\ Closed \in [exact : BOOLEAN, carry : Int, pushers : Nat, poppers : Nat]
          /\ [Closed EXCEPT !.exact = TRUE]
                \in [exact : BOOLEAN, carry : Int, pushers : Nat, poppers : Nat]
      <4>1. Closed \in [exact : BOOLEAN, carry : Int, pushers : Nat, poppers : Nat]
        BY DEF Closed
      <4> QED  BY <4>1
    <3>3. account' \in [exact : BOOLEAN, carry : Int, pushers : Nat, poppers : Nat]
      BY <3>1, <3>2
    <3>4. stats' \in [StatFields -> Nat] /\ \A k \in Counters : stats'[k] <= MaxCount
      BY <1>1, <3>1, ZeroBooks DEF BooksOK
    <3>5. hasStats' \in BOOLEAN /\ spent' \in Nat
      BY <1>1, <1>2, <3>1 DEF BooksOK, InitQueue
    <3> QED  BY <3>3, <3>4, <3>5 DEF BooksOK
  <2>3. ObjectOK'
    BY <1>1, <1>2, EmptiedSound DEF InitQueue, ObjectOK, SystemObjects, SoundQueue
  <2> QED  BY <1>2, <2>1, <2>2, <2>3, QuietOutcome DEF IInv, InitQueue
<1>3. CASE InitFails \/ DestroyQueue
  <2>1. ThreadsOK'
    BY <1>1, <1>3 DEF InitFails, DestroyQueue, ThreadsOK
  <2>2. account' \in [exact : BOOLEAN, carry : Int, pushers : Nat, poppers : Nat]
    <3>1. Closed \in [exact : BOOLEAN, carry : Int, pushers : Nat, poppers : Nat]
      BY DEF Closed
    <3>2. account' = account \/ account' = Closed
      BY <1>3 DEF InitFails, DestroyQueue
    <3> QED  BY <1>1, <3>1, <3>2 DEF BooksOK
  <2>3. BooksOK'
    BY <1>1, <1>3, <2>2 DEF InitFails, DestroyQueue, BooksOK
  <2>4. core' \in QueueRecord /\ core'.used = 0
    <3>1. core' = Unconfigured(core)
      BY <1>3 DEF InitFails, DestroyQueue
    <3> QED  BY <1>1, <3>1 DEF Unconfigured, QueueRecord
  <2>5. live' \subseteq SystemObjects
    <3>1. \A i \in DOMAIN InitSteps : Created(InitSteps[i]) \subseteq SystemObjects
      BY DEF InitSteps, Created, SystemObjects
    <3> QED  BY <1>1, <1>3, <3>1 DEF InitFails, DestroyQueue, ObjectOK
  <2>6. ObjectOK'
    <3>1. initialized' = FALSE /\ closed' = FALSE
      <4>1. CASE InitFails
        BY <1>1, <4>1 DEF InitFails, ObjectOK
      <4>2. CASE DestroyQueue
        BY <4>2 DEF DestroyQueue
      <4> QED  BY <1>3, <4>1, <4>2
    <3>2. NobodyInside'
      BY <1>3 DEF InitFails, DestroyQueue, NobodyInside
    <3> QED  BY <2>4, <2>5, <3>1, <3>2 DEF ObjectOK
  <2> QED  BY <1>3, <2>1, <2>3, <2>6, QuietOutcome DEF IInv, InitFails, DestroyQueue
<1>4. CASE RefuseUninitialized
  <2>1. outcome' \in Outcomes
    BY <1>4 DEF RefuseUninitialized, Outcomes, Outcome, Results
  <2> QED
    BY <1>1, <1>4, <2>1, SameBooks, SameObject DEF RefuseUninitialized, IInv, ThreadsOK
<1>5. CASE Close
  <2>1. PICK woken \in SUBSET (Waiting("pop") \cup Waiting("push")) : pc' = Resume(woken, pc)
    BY <1>5 DEF Close
  <2>2. woken \subseteq {s \in Threads : pc[s] = "waiting"}
    BY <2>1, WaitingThreads
  <2>3. /\ pc' \in [Threads -> Positions]
        /\ \A s \in Threads : pc'[s] = IF s \in woken THEN "woken" ELSE pc[s]
    BY <1>1, <2>1, <2>2 DEF Resume, ThreadsOK, Positions
  <2>4. ThreadsOK'
    BY <1>1, <1>5, <2>2, <2>3 DEF Close, ThreadsOK
  <2>5. BooksOK' /\ ObjectOK'
    BY <1>1, <1>5 DEF Close, BooksOK, ObjectOK, lifecycle
  <2> QED  BY <1>5, <2>4, <2>5, QuietOutcome DEF IInv, Close
<1>6. CASE ResetStats
  <2>1. \A op \in {"push", "pop"} : Cardinality(Suspended(op)) \in Nat
    <3>1. \A op : Suspended(op) \subseteq Threads
      BY DEF Suspended, Waiting, At, InCall
    <3> QED  BY <3>1, ThreadsFinite, FS_Subset, FS_CardinalityType
  <2>2. core.used \in Nat
    BY <1>1 DEF QueueRecord
  <2>3. BooksOK'
    BY <1>1, <1>6, <2>1, <2>2, ZeroBooks DEF ResetStats, BooksOK, lifecycle
  <2> QED
    BY <1>1, <1>6, <2>3, SameObject, QuietOutcome DEF ResetStats, IInv, ThreadsOK
<1>7. ASSUME NEW t \in Threads, NEW w \in Waits, NEW f \in Frames, BeginPush(t, f, w)
      PROVE  IInv'
  BY <1>7, BeginSafe, CallTypes DEF BeginPush
<1>8. ASSUME NEW t \in Threads, NEW w \in Waits, BeginPop(t, w)
      PROVE  IInv'
  BY <1>8, BeginSafe, CallTypes DEF BeginPop
<1>9. ASSUME NEW t \in Threads, PushWaits(t) \/ PopWaits(t)
      PROVE  IInv'
  BY <1>9, SuspendSafe DEF PushWaits, PopWaits, AtLoop
<1>10. ASSUME NEW t \in Threads,
              PushWontWait(t) \/ PushTimesOut(t) \/ PopWontWait(t) \/ PopTimesOut(t)
       PROVE  IInv'
  <2>1. Return(t, {}, "TIMEOUT", NoFrame) /\ pc[t] # "idle"
        /\ UNCHANGED <<core, closed, lifecycle>>
    BY <1>10 DEF PushWontWait, PushTimesOut, PopWontWait, PopTimesOut, AtLoop
  <2>2. BooksOK'
    BY <1>1, <1>10, CountBooks
    DEF PushWontWait, PushTimesOut, PopWontWait, PopTimesOut, lifecycle
  <2> QED  BY <2>1, <2>2, ReturnSafe DEF Results
<1>11. ASSUME NEW t \in Threads,
              PushFindsClosed(t) \/ PopFindsClosed(t) \/ LockFails(t) \/ WaitFails(t)
       PROVE  IInv'
  <2>1. PICK result \in {"CLOSED", "SYSTEM_ERROR"} : Return(t, {}, result, NoFrame)
    BY <1>11 DEF PushFindsClosed, PopFindsClosed, LockFails, WaitFails
  <2>2. pc[t] # "idle" /\ UNCHANGED <<core, closed, lifecycle, stats, spent, account>>
    BY <1>11 DEF PushFindsClosed, PopFindsClosed, LockFails, WaitFails
  <2>3. BooksOK'
    BY <1>1, <2>2, SameBooks
  <2> QED  BY <2>1, <2>2, <2>3, ReturnSafe DEF Results
<1>12. ASSUME NEW t \in Threads, DeadlinePasses(t)
       PROVE  IInv'
  <2>1. ThreadsOK'
    BY <1>1, <1>12 DEF DeadlinePasses, ThreadsOK
  <2> QED
    BY <1>1, <1>12, <2>1, SameBooks, SameObject, QuietOutcome DEF DeadlinePasses, IInv
<1>13. ASSUME NEW t \in Threads, WaitTimesOut(t) \/ SpuriousWakeup(t)
       PROVE  IInv'
  <2>1. ThreadsOK'
    BY <1>1, <1>13 DEF WaitTimesOut, SpuriousWakeup, ThreadsOK, Positions
  <2>2. initialized
    BY <1>1, <1>13, InsideMeansInitialized DEF WaitTimesOut, SpuriousWakeup
  <2> QED
    BY <1>1, <1>13, <2>1, <2>2, SameBooks, SameObject, QuietOutcome
    DEF WaitTimesOut, SpuriousWakeup, IInv
<1>14. CASE UNCHANGED vars
  BY <1>14 DEF vars, IInv, ThreadsOK, BooksOK, ObjectOK, lifecycle, NobodyInside
<1> QED
  BY <1>2, <1>3, <1>4, <1>5, <1>6, <1>7, <1>8, <1>9, <1>10, <1>11, <1>12, <1>13, <1>14,
     PushCommitsSafe, PopCommitsSafe
  DEF Next, Push, Pop

LEMMA InvariantSafe == Spec => []IInv
BY InitSafe, StepSafe, PTL DEF Spec

\* The variables keep their types for any threads, frames, slots and failures.
THEOREM TypeCorrect == Spec => []TypeOK
<1>1. IInv => TypeOK
  BY DEF IInv, ThreadsOK, BooksOK, ObjectOK, TypeOK, Outcomes, Results, Positions
<1> QED  BY <1>1, InvariantSafe, PTL

\* However many threads share the queue and whatever system calls fail, the
\* ring passes its own state check at every acquisition of the mutex, and a
\* thread occupies a call exactly while it is not idle.
THEOREM Safety == Spec => []CoreStaysValid
<1>1. IInv => CoreStaysValid
  BY DEF IInv, ThreadsOK, ObjectOK, CoreStaysValid, SoundQueue
<1> QED  BY <1>1, InvariantSafe, PTL

-------------------------------------------------------------------------------
(* The system objects and the counters.                                      *)

Blocked(op) == IF op = "push" THEN "push_full_encounters" ELSE "pop_empty_encounters"
Waited(op) == IF op = "push" THEN "push_wait_count" ELSE "pop_wait_count"
TimedOut(op) == IF op = "push" THEN "push_timeout_count" ELSE "pop_timeout_count"
Carried(op) == IF op = "push" THEN account.pushers ELSE account.poppers

\* EncountersCoverTimeouts for the calls of one kind.
CallsCovered(op) ==
    account.exact =>
        stats[TimedOut(op)] + Cardinality(Suspended(op)) <= stats[Blocked(op)] + Carried(op)

BooksBalance ==
    /\ account.exact => initialized /\ hasStats
    /\ AllObjectsOrNone
    /\ CountersExplainDepth
    /\ \A op \in {"push", "pop"} : CallsCovered(op)

BIInv == IInv /\ BooksBalance

LEMMA SuspendedFinite ==
    ASSUME NEW op
    PROVE  /\ IsFiniteSet(Suspended(op)) /\ Cardinality(Suspended(op)) \in Nat
           /\ IsFiniteSet(Suspended(op)') /\ Cardinality(Suspended(op)') \in Nat
<1>1. Suspended(op) \subseteq Threads /\ Suspended(op)' \subseteq Threads
  BY DEF Suspended, Waiting, At, InCall, Threads
<1> QED  BY <1>1, ThreadsFinite, FS_Subset, FS_CardinalityType

LEMMA SuspendedThreads ==
    \A op : Suspended(op) = {t \in Threads : call[t].op = op /\ pc[t] \in {"waiting", "woken", "timedout"}}
BY DEF Suspended, Waiting, At, InCall

\* While the books stay open, every event counted is counted exactly.
LEMMA CountedExactly ==
    ASSUME BooksOK, account.exact => hasStats, NEW fields, fields \subseteq Counters,
           Audited(fields).exact
    PROVE  /\ account.exact /\ hasStats /\ Audited(fields) = account
           /\ \A k \in StatFields :
                 Counted(fields)[k] = IF k \in fields THEN stats[k] + 1 ELSE stats[k]
<1>1. Audited(fields) = account /\ ~(hasStats /\ \E k \in fields : stats[k] = MaxCount)
  BY DEF Audited, Closed
<1>2. account.exact /\ hasStats
  BY <1>1
<1> QED  BY <1>1, <1>2 DEF Counted, Increment

LEMMA ExactCounters ==
    ASSUME BooksOK
    PROVE  /\ Counters \subseteq StatFields /\ "peak_size" \in StatFields \ Counters
           /\ \A k \in StatFields : stats[k] \in Nat
           /\ account.carry \in Int /\ account.pushers \in Nat /\ account.poppers \in Nat
           /\ account.exact \in BOOLEAN
BY DEF BooksOK, StatFields, Counters

\* A step that counts nothing and moves no frame, and suspends nobody.
LEMMA QuietBalance ==
    ASSUME IInv, BooksBalance, UNCHANGED <<live, initialized, hasStats, core, stats, account>>,
           \A op \in {"push", "pop"} : Suspended(op)' \subseteq Suspended(op)
    PROVE  BooksBalance'
<1>1. AllObjectsOrNone' /\ CountersExplainDepth' /\ (account.exact => initialized /\ hasStats)'
  BY DEF BooksBalance, AllObjectsOrNone, CountersExplainDepth
<1>2. ASSUME NEW op \in {"push", "pop"}
      PROVE  CallsCovered(op)'
  <2>1. Cardinality(Suspended(op)') <= Cardinality(Suspended(op))
    BY SuspendedFinite, FS_Subset
  <2>2. stats[TimedOut(op)] \in Nat /\ stats[Blocked(op)] \in Nat /\ Carried(op) \in Nat
    BY ExactCounters DEF IInv, TimedOut, Blocked, Carried, Counters
  <2>3. CallsCovered(op) /\ Carried(op)' = Carried(op) /\ TimedOut(op)' = TimedOut(op)
        /\ Blocked(op)' = Blocked(op)
    BY DEF BooksBalance, Carried, TimedOut, Blocked
  <2> QED  BY <2>1, <2>2, <2>3, SuspendedFinite DEF CallsCovered
<1> QED  BY <1>1, <1>2 DEF BooksBalance

\* Who is still suspended after a call has returned.
LEMMA ReturnSuspended ==
    ASSUME ThreadsOK, NEW t \in Threads, NEW op,
           NEW woken, woken \subseteq {s \in Threads : pc[s] = "waiting"}, t \notin woken,
           NEW result, NEW frame, Return(t, woken, result, frame)
    PROVE  Suspended(op)' = Suspended(op) \ {t}
<1>1. /\ pc'[t] = "idle"
      /\ \A s \in Threads \ {t} :
            /\ pc'[s] = IF s \in woken THEN "woken" ELSE pc[s]
            /\ call'[s] = call[s]
  BY DEF Return, Resume, ThreadsOK
<1>2. \A s : s \in Suspended(op)' <=> s \in Suspended(op) \ {t}
  BY <1>1 DEF Suspended, Waiting, At, InCall, Threads
<1> QED  BY <1>2

\* A call that was suspended, or is about to be, is an encounter already.
LEMMA SuspendBalance ==
    ASSUME IInv, BooksBalance, NEW t \in Threads, NEW op \in {"push", "pop"},
           AtLoop(t, op), call[t].wait # "zero", Suspend(t),
           Count(FirstBlock(t, Blocked(op), Waited(op)))
    PROVE  BooksBalance'
<1> DEFINE fields == FirstBlock(t, Blocked(op), Waited(op))
<1>1. ThreadsOK /\ BooksOK /\ (account.exact => hasStats)
  BY DEF IInv, BooksBalance
<1>2. /\ UNCHANGED <<core, initialized, live, hasStats, call>>
      /\ pc[t] \in {"locking", "woken"} /\ call[t].op = op
      /\ pc' = [pc EXCEPT ![t] = IF expired[t] THEN "timedout" ELSE "waiting"]
      /\ stats' = Counted(fields) /\ account' = Audited(fields)
  BY DEF Suspend, lifecycle, AtLoop, Count
<1>3. fields \subseteq Counters /\ fields \in {{}, {Blocked(op), Waited(op)}}
      /\ (pc[t] = "locking" => Blocked(op) \in fields)
  BY DEF FirstBlock, Blocked, Waited, Counters
<1> HIDE DEF fields
<1>4. AllObjectsOrNone'
  BY <1>2 DEF BooksBalance, AllObjectsOrNone
<1> SUFFICES ASSUME account'.exact
             PROVE  /\ initialized' /\ hasStats' /\ CountersExplainDepth'
                    /\ \A o \in {"push", "pop"} : CallsCovered(o)'
  BY <1>4 DEF BooksBalance, CallsCovered, CountersExplainDepth
<1>5. /\ account.exact /\ initialized /\ hasStats /\ account' = account
      /\ \A k \in StatFields : stats'[k] = IF k \in fields THEN stats[k] + 1 ELSE stats[k]
  BY <1>1, <1>2, <1>3, CountedExactly DEF BooksBalance
<1>6. CountersExplainDepth'
  <2>1. \A k \in {"frames_pushed", "frames_popped", "peak_size"} : stats'[k] = stats[k]
    BY <1>3, <1>5 DEF StatFields, Counters, Blocked, Waited
  <2> QED  BY <1>2, <1>5, <2>1 DEF BooksBalance, CountersExplainDepth
<1>7. ASSUME NEW o \in {"push", "pop"}
      PROVE  CallsCovered(o)'
  <2>1. /\ stats[TimedOut(o)] \in Nat /\ stats[Blocked(o)] \in Nat /\ Carried(o) \in Nat
        /\ {TimedOut(o), Blocked(o)} \subseteq StatFields
    BY <1>1, ExactCounters DEF TimedOut, Blocked, Carried, Counters
  <2>2. stats'[TimedOut(o)] = stats[TimedOut(o)] /\ stats'[Blocked(o)] >= stats[Blocked(o)]
        /\ (o = op /\ pc[t] = "locking" => stats'[Blocked(o)] = stats[Blocked(o)] + 1)
        /\ stats'[Blocked(o)] \in Nat
    BY <1>3, <1>5, <2>1 DEF TimedOut, Blocked, Waited
  <2>3. /\ CallsCovered(o) /\ Carried(o)' = Carried(o) /\ TimedOut(o)' = TimedOut(o)
        /\ Blocked(o)' = Blocked(o)
    BY <1>5 DEF BooksBalance, Carried, TimedOut, Blocked
  <2>4. CASE o # op \/ pc[t] = "woken"
    <3>1. Suspended(o)' = Suspended(o)
      BY <1>1, <1>2, <2>4 DEF Suspended, Waiting, At, InCall, Threads, ThreadsOK
    <3> QED  BY <1>5, <2>1, <2>2, <2>3, <3>1, SuspendedFinite DEF CallsCovered
  <2>5. CASE o = op /\ pc[t] = "locking"
    <3>1. Suspended(o)' = Suspended(o) \cup {t} /\ t \notin Suspended(o)
      BY <1>1, <1>2, <2>5 DEF Suspended, Waiting, At, InCall, Threads, ThreadsOK
    <3>2. Cardinality(Suspended(o)') = Cardinality(Suspended(o)) + 1
      BY <3>1, SuspendedFinite, FS_AddElement
    <3> QED  BY <1>5, <2>1, <2>2, <2>3, <2>5, <3>2, SuspendedFinite DEF CallsCovered
  <2> QED  BY <1>2, <2>4, <2>5
<1> QED  BY <1>2, <1>5, <1>6, <1>7

\* A call that ends in TIMEOUT was suspended, or is counted as an encounter now.
LEMMA TimeoutBalance ==
    ASSUME IInv, BooksBalance, NEW t \in Threads, NEW op \in {"push", "pop"}, call[t].op = op,
           NEW fields, Count(fields),
           \/ fields = {Blocked(op), TimedOut(op)}
           \/ fields = {TimedOut(op)} /\ pc[t] = "timedout",
           UNCHANGED <<core, lifecycle>>, NEW result, Return(t, {}, result, NoFrame)
    PROVE  BooksBalance'
<1>1. ThreadsOK /\ BooksOK /\ (account.exact => hasStats)
  BY DEF IInv, BooksBalance
<1>2. /\ UNCHANGED <<core, initialized, live, hasStats>>
      /\ stats' = Counted(fields) /\ account' = Audited(fields)
  BY DEF lifecycle, Count
<1>3. fields \subseteq Counters /\ fields \cap {"frames_pushed", "frames_popped", "peak_size"} = {}
  BY DEF Blocked, TimedOut, Counters
<1>4. AllObjectsOrNone'
  BY <1>2 DEF BooksBalance, AllObjectsOrNone
<1> SUFFICES ASSUME account'.exact
             PROVE  /\ initialized' /\ hasStats' /\ CountersExplainDepth'
                    /\ \A o \in {"push", "pop"} : CallsCovered(o)'
  BY <1>4 DEF BooksBalance, CallsCovered, CountersExplainDepth
<1>5. /\ account.exact /\ initialized /\ hasStats /\ account' = account
      /\ \A k \in StatFields : stats'[k] = IF k \in fields THEN stats[k] + 1 ELSE stats[k]
  BY <1>1, <1>2, <1>3, CountedExactly DEF BooksBalance
<1>6. CountersExplainDepth'
  <2>1. \A k \in {"frames_pushed", "frames_popped", "peak_size"} : stats'[k] = stats[k]
    BY <1>3, <1>5 DEF StatFields, Counters
  <2> QED  BY <1>2, <1>5, <2>1 DEF BooksBalance, CountersExplainDepth
<1>7. ASSUME NEW o \in {"push", "pop"}
      PROVE  CallsCovered(o)'
  <2>1. /\ stats[TimedOut(o)] \in Nat /\ stats[Blocked(o)] \in Nat /\ Carried(o) \in Nat
        /\ {TimedOut(o), Blocked(o)} \subseteq StatFields
    BY <1>1, ExactCounters DEF TimedOut, Blocked, Carried, Counters
  <2>2. /\ CallsCovered(o) /\ Carried(o)' = Carried(o) /\ TimedOut(o)' = TimedOut(o)
        /\ Blocked(o)' = Blocked(o)
    BY <1>5 DEF BooksBalance, Carried, TimedOut, Blocked
  <2>3. Suspended(o)' = Suspended(o) \ {t}
    BY <1>1, ReturnSuspended
  <2>4. Cardinality(Suspended(o) \ {t}) =
           IF t \in Suspended(o) THEN Cardinality(Suspended(o)) - 1 ELSE Cardinality(Suspended(o))
    BY SuspendedFinite, FS_RemoveElement
  <2>5. CASE o # op
    <3>1. stats'[TimedOut(o)] = stats[TimedOut(o)] /\ stats'[Blocked(o)] = stats[Blocked(o)]
      BY <1>5, <2>1, <2>5 DEF TimedOut, Blocked
    <3> QED  BY <1>5, <2>1, <2>2, <2>3, <2>4, <3>1, SuspendedFinite DEF CallsCovered
  <2>6. CASE o = op /\ fields = {Blocked(op), TimedOut(op)}
    <3>1. stats'[TimedOut(o)] = stats[TimedOut(o)] + 1
          /\ stats'[Blocked(o)] = stats[Blocked(o)] + 1
      BY <1>5, <2>1, <2>6
    <3> QED  BY <1>5, <2>1, <2>2, <2>3, <2>4, <3>1, SuspendedFinite DEF CallsCovered
  <2>7. CASE o = op /\ fields = {TimedOut(op)} /\ pc[t] = "timedout"
    <3>1. stats'[TimedOut(o)] = stats[TimedOut(o)] + 1 /\ stats'[Blocked(o)] = stats[Blocked(o)]
      BY <1>5, <2>1, <2>7 DEF TimedOut, Blocked
    <3>2. t \in Suspended(o)
      BY <2>7, SuspendedThreads
    <3> QED  BY <1>5, <2>1, <2>2, <2>3, <2>4, <3>1, <3>2, SuspendedFinite DEF CallsCovered
  <2> QED  BY <2>5, <2>6, <2>7
<1> QED  BY <1>2, <1>5, <1>6, <1>7

\* A frame that is moved is counted on the side it moved through.
LEMMA CommitBalance ==
    ASSUME IInv, BooksBalance, NEW t \in Threads, initialized,
           NEW field \in {"frames_pushed", "frames_popped"}, core'.used \in Nat,
           core'.used = IF field = "frames_pushed" THEN core.used + 1 ELSE core.used - 1,
           account' = Audited({field}),
           stats' \in [StatFields -> Nat],
           \A k \in Counters : stats'[k] = Counted({field})[k],
           account'.exact => stats'["peak_size"] >= core'.used,
           UNCHANGED lifecycle,
           NEW woken, woken \subseteq {s \in Threads : pc[s] = "waiting"}, t \notin woken,
           NEW result, NEW frame, Return(t, woken, result, frame)
    PROVE  BooksBalance'
<1>1. ThreadsOK /\ BooksOK /\ (account.exact => hasStats) /\ core.used \in Nat
  BY DEF IInv, BooksBalance, ObjectOK, QueueRecord
<1>2. UNCHANGED <<initialized, live, hasStats>> /\ {field} \subseteq Counters
  BY DEF lifecycle, Counters
<1>3. AllObjectsOrNone'
  BY <1>2 DEF BooksBalance, AllObjectsOrNone
<1> SUFFICES ASSUME account'.exact
             PROVE  /\ initialized' /\ hasStats' /\ CountersExplainDepth'
                    /\ \A o \in {"push", "pop"} : CallsCovered(o)'
  BY <1>3 DEF BooksBalance, CallsCovered, CountersExplainDepth
<1>4. /\ account.exact /\ initialized /\ hasStats /\ account' = account
      /\ \A k \in StatFields : Counted({field})[k] = IF k = field THEN stats[k] + 1 ELSE stats[k]
  <2> DEFINE fields == {field}
  <2>1. fields \subseteq Counters /\ Audited(fields).exact /\ account' = Audited(fields)
    BY <1>2
  <2>2. \A k : k \in fields <=> k = field
    OBVIOUS
  <2> HIDE DEF fields
  <2>3. /\ account.exact /\ hasStats /\ Audited(fields) = account
        /\ \A k \in StatFields : Counted(fields)[k] = IF k \in fields THEN stats[k] + 1 ELSE stats[k]
    BY <1>1, <2>1, CountedExactly
  <2>4. account' = account /\ initialized
    BY <2>1, <2>3 DEF BooksBalance
  <2>5. \A k \in StatFields : Counted(fields)[k] = IF k = field THEN stats[k] + 1 ELSE stats[k]
    BY <2>2, <2>3
  <2> QED  BY <2>3, <2>4, <2>5 DEF fields
<1>5. \A k \in Counters : stats'[k] = IF k = field THEN stats[k] + 1 ELSE stats[k]
  BY <1>1, <1>4, ExactCounters
<1>6. CountersExplainDepth'
  <2>1. {"frames_pushed", "frames_popped"} \subseteq Counters
        /\ stats["frames_pushed"] \in Nat /\ stats["frames_popped"] \in Nat
        /\ account.carry \in Int
    BY <1>1, ExactCounters DEF Counters
  <2>2. core.used = account.carry + stats["frames_pushed"] - stats["frames_popped"]
    BY <1>4 DEF BooksBalance, CountersExplainDepth
  <2>3. core'.used = account.carry + stats'["frames_pushed"] - stats'["frames_popped"]
    BY <1>1, <1>5, <2>1, <2>2
  <2>4. stats'["peak_size"] \in Nat
    BY <1>1, ExactCounters
  <2> QED  BY <1>4, <2>3, <2>4 DEF CountersExplainDepth
<1>7. ASSUME NEW o \in {"push", "pop"}
      PROVE  CallsCovered(o)'
  <2>1. /\ stats[TimedOut(o)] \in Nat /\ stats[Blocked(o)] \in Nat /\ Carried(o) \in Nat
        /\ {TimedOut(o), Blocked(o)} \subseteq Counters /\ field \notin {TimedOut(o), Blocked(o)}
    BY <1>1, ExactCounters DEF TimedOut, Blocked, Carried, Counters
  <2>2. /\ CallsCovered(o) /\ Carried(o)' = Carried(o) /\ TimedOut(o)' = TimedOut(o)
        /\ Blocked(o)' = Blocked(o)
    BY <1>4 DEF BooksBalance, Carried, TimedOut, Blocked
  <2>3. Suspended(o)' \subseteq Suspended(o)
    BY <1>1, ReturnSuspended
  <2>4. Cardinality(Suspended(o)') <= Cardinality(Suspended(o))
    BY <2>3, SuspendedFinite, FS_Subset
  <2>5. stats'[TimedOut(o)] = stats[TimedOut(o)] /\ stats'[Blocked(o)] = stats[Blocked(o)]
    BY <1>5, <2>1
  <2> QED  BY <1>4, <2>1, <2>2, <2>4, <2>5, SuspendedFinite DEF CallsCovered
<1> QED  BY <1>2, <1>4, <1>6, <1>7

LEMMA PushCommitsBalance ==
    ASSUME BIInv, NEW t \in Threads, PushCommits(t)
    PROVE  BooksBalance'
<1>1. /\ IInv /\ BooksBalance /\ BooksOK /\ (account.exact => hasStats)
      /\ call[t].op = "push" /\ pc[t] \in {"locking", "woken"}
  BY DEF BIInv, IInv, BooksBalance, PushCommits, AtLoop
<1>2. initialized /\ core \in SoundQueue
  BY <1>1, InsideMeansInitialized DEF IInv
<1>3. PICK woken \in Wakeable("pop") \cup {{}}, answer \in {"OK", "SYSTEM_ERROR"} :
         Return(t, woken, answer, NoFrame)
  <2>1. PICK signalled \in Attempt("signal") :
           \E woken \in (IF signalled THEN Wakeable("pop") ELSE {{}}) :
              Return(t, woken, IF signalled THEN "OK" ELSE "SYSTEM_ERROR", NoFrame)
    BY DEF PushCommits
  <2> QED  BY <2>1
<1>4. woken \subseteq {s \in Threads : pc[s] = "waiting"} /\ t \notin woken
  BY <1>1, <1>3, WaitingThreads
<1>5. core.used \in Nat /\ core'.used = core.used + 1
  BY <1>2, SoundFields DEF PushCommits, Pushed, SoundQueue, QueueRecord
<1> DEFINE counted == Counted({"frames_pushed"})
           peak == IF hasStats /\ core.used + 1 > counted["peak_size"]
                   THEN core.used + 1 ELSE counted["peak_size"]
<1>6. /\ stats' = [counted EXCEPT !["peak_size"] = peak]
      /\ account' = Audited({"frames_pushed"}) /\ UNCHANGED lifecycle
  BY DEF PushCommits
<1>7. counted \in [StatFields -> Nat]
  BY <1>1, CountedBooks
<1> HIDE DEF counted
<1>8. /\ stats' \in [StatFields -> Nat] /\ \A k \in Counters : stats'[k] = counted[k]
      /\ stats'["peak_size"] = peak
  BY <1>1, <1>5, <1>6, <1>7, ExactCounters
<1>9. account'.exact => hasStats
  BY <1>1, <1>6 DEF Audited, Closed
<1>10. account'.exact => stats'["peak_size"] >= core'.used
  BY <1>5, <1>7, <1>8, <1>9, <1>1, ExactCounters
<1> QED
  BY <1>1, <1>2, <1>3, <1>4, <1>5, <1>6, <1>8, <1>10, CommitBalance DEF counted

LEMMA PopCommitsBalance ==
    ASSUME BIInv, NEW t \in Threads, PopCommits(t)
    PROVE  BooksBalance'
<1>1. /\ IInv /\ BooksBalance /\ BooksOK /\ (account.exact => hasStats)
      /\ call[t].op = "pop" /\ pc[t] \in {"locking", "woken"}
  BY DEF BIInv, IInv, BooksBalance, PopCommits, AtLoop
<1>2. initialized /\ core \in SoundQueue
  BY <1>1, InsideMeansInitialized DEF IInv
<1>3. PICK woken \in Wakeable("push") \cup {{}}, answer \in {"OK", "SYSTEM_ERROR"} :
         Return(t, woken, answer, Front(core))
  <2>1. PICK signalled \in Attempt("signal") :
           \E woken \in (IF signalled THEN Wakeable("push") ELSE {{}}) :
              Return(t, woken, IF signalled THEN "OK" ELSE "SYSTEM_ERROR", Front(core))
    BY DEF PopCommits
  <2> QED  BY <2>1
<1>4. woken \subseteq {s \in Threads : pc[s] = "waiting"} /\ t \notin woken
  BY <1>1, <1>3, WaitingThreads
<1>5. core.used \in Nat /\ core'.used = core.used - 1 /\ core'.used \in Nat
  BY <1>2, SoundFields DEF PopCommits, Popped, SoundQueue, QueueRecord, IsEmpty
<1>6. /\ stats' = Counted({"frames_popped"})
      /\ account' = Audited({"frames_popped"}) /\ UNCHANGED lifecycle
  BY DEF PopCommits, Count
<1>7. stats' \in [StatFields -> Nat]
  BY <1>1, <1>6, CountedBooks
<1>8. account'.exact => stats'["peak_size"] >= core'.used
  <2> DEFINE fields == {"frames_popped"}
  <2>1. fields \subseteq Counters /\ "peak_size" \notin fields
    BY DEF Counters
  <2> HIDE DEF fields
  <2>2. Audited(fields).exact
           => account.exact /\ Counted(fields)["peak_size"] = stats["peak_size"]
    BY <1>1, <2>1, CountedExactly, ExactCounters
  <2>3. account.exact => stats["peak_size"] >= core.used /\ stats["peak_size"] \in Nat
    BY <1>1, <1>5, ExactCounters DEF BooksBalance, CountersExplainDepth
  <2> QED  BY <1>5, <1>6, <2>2, <2>3 DEF fields
<1> QED
  BY <1>1, <1>2, <1>3, <1>4, <1>5, <1>6, <1>7, <1>8, CommitBalance

\* Init, destroy and the reset of the counters.
LEMMA LifeCycleBalance ==
    ASSUME BIInv, InitQueue \/ InitFails \/ DestroyQueue \/ ResetStats
    PROVE  BooksBalance'
<1>1. /\ ThreadsOK /\ BooksOK /\ ObjectOK /\ BooksBalance /\ core \in QueueRecord
  BY DEF BIInv, IInv, ObjectOK
<1>2. NobodyInside /\ pc' = pc => \A op : Suspended(op)' = {}
  BY DEF NobodyInside, Suspended, Waiting, At, InCall, Threads
<1>3. Cardinality({}) = 0
  BY FS_EmptySet
<1>4. CASE InitQueue
  <2>1. PICK m \in BOOLEAN :
           /\ hasStats' = m /\ stats' = IF m THEN ZeroStats(0) ELSE stats
           /\ account' = IF m THEN [Closed EXCEPT !.exact = TRUE] ELSE Closed
    BY <1>4, StatsModesAssumption DEF InitQueue
  <2>2. initialized' = TRUE /\ live' = OwnObjects
    BY <1>1, <1>4 DEF InitQueue, ObjectOK, OwnObjects
  <2>3. core'.used = 0
    BY <1>1, <1>4, EmptiedSound DEF InitQueue, Emptied, QueueRecord
  <2>4. CASE m = FALSE
    BY <2>1, <2>2, <2>4
    DEF BooksBalance, AllObjectsOrNone, CountersExplainDepth, CallsCovered, Closed
  <2>5. CASE m = TRUE
    <3>1. /\ account' = [exact |-> TRUE, carry |-> 0, pushers |-> 0, poppers |-> 0]
          /\ \A k \in StatFields : stats'[k] = 0
      BY <2>1, <2>5 DEF Closed, ZeroStats
    <3>2. \A op \in {"push", "pop"} : Cardinality(Suspended(op)') = 0
      BY <1>2, <1>3, <1>4 DEF InitQueue
    <3>3. CountersExplainDepth'
      BY <2>3, <3>1 DEF CountersExplainDepth, StatFields, Counters
    <3>4. \A op \in {"push", "pop"} : CallsCovered(op)'
      BY <3>1, <3>2 DEF CallsCovered, StatFields, Counters, Blocked, TimedOut, Carried
    <3> QED  BY <2>1, <2>2, <2>5, <3>3, <3>4 DEF BooksBalance, AllObjectsOrNone
  <2> QED  BY <2>4, <2>5
<1>5. CASE InitFails
  <2>1. initialized' = FALSE /\ ~initialized /\ account' = account /\ live = {}
    BY <1>1, <1>5 DEF InitFails, ObjectOK, BooksBalance, AllObjectsOrNone
  <2>2. ~account'.exact
    BY <1>1, <2>1 DEF BooksBalance
  <2>3. live' = {}
    <3>1. \A i \in DOMAIN InitSteps :
             Created(InitSteps[i]) \subseteq RolledBack(InitSteps[i]) \cup {"condattr"}
      BY DEF InitSteps, Created, RolledBack, SystemObjects
    <3>2. PICK i \in DOMAIN InitSteps :
             live' = (live \cup Created(InitSteps[i]))
                        \ (RolledBack(InitSteps[i]) \cup {"condattr"})
      BY <1>5 DEF InitFails
    <3> QED  BY <2>1, <3>1, <3>2
  <2> QED
    BY <2>1, <2>2, <2>3 DEF BooksBalance, AllObjectsOrNone, CountersExplainDepth, CallsCovered
<1>6. CASE DestroyQueue
  <2>1. ~account'.exact /\ initialized' = FALSE /\ live' = {}
    BY <1>1, <1>6 DEF DestroyQueue, Closed, BooksBalance, AllObjectsOrNone
  <2> QED
    BY <2>1 DEF BooksBalance, AllObjectsOrNone, CountersExplainDepth, CallsCovered
<1>7. CASE ResetStats
  <2>1. /\ initialized' /\ hasStats' /\ live' = live /\ initialized' = initialized
        /\ core' = core /\ core.used \in Nat
        /\ account' = [exact |-> TRUE, carry |-> core.used,
                       pushers |-> Cardinality(Suspended("push")),
                       poppers |-> Cardinality(Suspended("pop"))]
        /\ stats' = ZeroStats(core.used)
    BY <1>1, <1>7 DEF ResetStats, lifecycle, QueueRecord
  <2>2. \A op \in {"push", "pop"} : Cardinality(Suspended(op)') = Cardinality(Suspended(op))
    BY <1>7 DEF ResetStats, Suspended, Waiting, At, InCall, Threads
  <2>3. \A k \in StatFields : stats'[k] = IF k = "peak_size" THEN core.used ELSE 0
    BY <2>1 DEF ZeroStats
  <2>4. CountersExplainDepth'
    BY <2>1, <2>3 DEF CountersExplainDepth, StatFields, Counters
  <2>5. ASSUME NEW op \in {"push", "pop"}
        PROVE  CallsCovered(op)'
    <3>1. stats'[TimedOut(op)] = 0 /\ stats'[Blocked(op)] = 0
          /\ Blocked(op)' = Blocked(op) /\ TimedOut(op)' = TimedOut(op)
      BY <2>3 DEF StatFields, Counters, Blocked, TimedOut
    <3>2. Carried(op)' = Cardinality(Suspended(op))
      BY <2>1 DEF Carried
    <3> QED  BY <2>2, <3>1, <3>2, SuspendedFinite DEF CallsCovered
  <2>6. AllObjectsOrNone'
    BY <1>1, <2>1 DEF BooksBalance, AllObjectsOrNone
  <2> QED  BY <2>1, <2>4, <2>5, <2>6 DEF BooksBalance
<1> QED  BY <1>4, <1>5, <1>6, <1>7

LEMMA StepBalances == BIInv /\ [Next]_vars => BooksBalance'
<1> SUFFICES ASSUME BIInv, [Next]_vars PROVE BooksBalance'
  OBVIOUS
<1>1. IInv /\ ThreadsOK /\ BooksBalance
  BY DEF BIInv, IInv
<1>2. CASE UNCHANGED vars \/ RefuseUninitialized \/ \E t \in Threads : DeadlinePasses(t)
  <2>1. UNCHANGED <<live, initialized, hasStats, core, stats, account, pc, call>>
    BY <1>2 DEF vars, RefuseUninitialized, DeadlinePasses, lifecycle
  <2>2. \A op : Suspended(op)' = Suspended(op)
    BY <2>1 DEF Suspended, Waiting, At, InCall, Threads
  <2> QED  BY <1>1, <2>1, <2>2, QuietBalance
<1>3. CASE Close
  <2>1. PICK woken \in SUBSET (Waiting("pop") \cup Waiting("push")) : pc' = Resume(woken, pc)
    BY <1>3 DEF Close
  <2>2. \A s \in Threads : pc'[s] = IF s \in woken THEN "woken" ELSE pc[s]
    BY <2>1 DEF Resume
  <2>3. woken \subseteq {s \in Threads : pc[s] = "waiting"}
    BY <2>1, WaitingThreads
  <2>4. \A op : Suspended(op)' \subseteq Suspended(op)
    BY <1>3, <2>2, <2>3 DEF Close, Suspended, Waiting, At, InCall, Threads
  <2> QED  BY <1>1, <1>3, <2>4, QuietBalance DEF Close, lifecycle
<1>4. ASSUME NEW t \in Threads, NEW c \in Calls, Begin(t, c)
      PROVE  BooksBalance'
  <2>1. \A op : Suspended(op)' \subseteq Suspended(op)
    BY <1>1, <1>4 DEF Begin, Suspended, Waiting, At, InCall, Threads, ThreadsOK
  <2> QED  BY <1>1, <1>4, <2>1, QuietBalance DEF Begin, lifecycle
<1>5. ASSUME NEW t \in Threads, WaitTimesOut(t) \/ SpuriousWakeup(t)
      PROVE  BooksBalance'
  <2>1. \A op : Suspended(op)' \subseteq Suspended(op)
    BY <1>1, <1>5
    DEF WaitTimesOut, SpuriousWakeup, Suspended, Waiting, At, InCall, Threads, ThreadsOK
  <2> QED  BY <1>1, <1>5, <2>1, QuietBalance DEF WaitTimesOut, SpuriousWakeup, lifecycle
<1>6. ASSUME NEW t \in Threads,
             LockFails(t) \/ WaitFails(t) \/ PushFindsClosed(t) \/ PopFindsClosed(t)
      PROVE  BooksBalance'
  <2>1. PICK result : Return(t, {}, result, NoFrame)
    BY <1>6 DEF LockFails, WaitFails, PushFindsClosed, PopFindsClosed
  <2>2. \A op : Suspended(op)' = Suspended(op) \ {t}
    BY <1>1, <2>1, ReturnSuspended
  <2> QED
    BY <1>1, <1>6, <2>2, QuietBalance
    DEF LockFails, WaitFails, PushFindsClosed, PopFindsClosed, lifecycle
<1>7. ASSUME NEW t \in Threads, PushWaits(t) \/ PopWaits(t)
      PROVE  BooksBalance'
  BY <1>1, <1>7, SuspendBalance DEF PushWaits, PopWaits, Blocked, Waited
<1>8. ASSUME NEW t \in Threads, PushWontWait(t) \/ PopWontWait(t)
      PROVE  BooksBalance'
  BY <1>1, <1>8, TimeoutBalance DEF PushWontWait, PopWontWait, AtLoop, Blocked, TimedOut
<1>9. ASSUME NEW t \in Threads, PushTimesOut(t) \/ PopTimesOut(t)
      PROVE  BooksBalance'
  BY <1>1, <1>9, TimeoutBalance DEF PushTimesOut, PopTimesOut, TimedOut
<1> QED
  BY <1>2, <1>3, <1>4, <1>5, <1>6, <1>7, <1>8, <1>9, PushCommitsBalance, PopCommitsBalance,
     LifeCycleBalance, CallTypes
  DEF Next, Push, Pop, BeginPush, BeginPop

LEMMA BooksSafe == Spec => []BIInv
<1>1. Init => BooksBalance
  BY DEF Init, BooksBalance, AllObjectsOrNone, CountersExplainDepth, CallsCovered, Closed
<1> QED  BY <1>1, StepBalances, InitSafe, StepSafe, PTL DEF Spec, BIInv

\* Every branch of init and destroy, a failure at whichever system call
\* included, leaves the mutex and both condition variables, or none of them.
THEOREM ObjectsAllOrNone == Spec => []AllObjectsOrNone
<1>1. BIInv => AllObjectsOrNone
  BY DEF BIInv, BooksBalance
<1> QED  BY <1>1, BooksSafe, PTL

\* As long as no counter has saturated, the counters of the current period add
\* up to the depth of the queue, and the peak is no lower, whatever failed.
THEOREM CountersSafe == Spec => []CountersExplainDepth
<1>1. BIInv => CountersExplainDepth
  BY DEF BIInv, BooksBalance
<1> QED  BY <1>1, BooksSafe, PTL

\* As long as no counter has saturated, each call that sleeps or that returned
\* TIMEOUT was counted as an encounter, once, for any number of threads.
THEOREM EncountersSafe == Spec => []EncountersCoverTimeouts
<1>1. BIInv => EncountersCoverTimeouts
  BY DEF BIInv, BooksBalance, CallsCovered, EncountersCoverTimeouts, Carried, TimedOut, Blocked
<1> QED  BY <1>1, BooksSafe, PTL

-------------------------------------------------------------------------------
(* No wake-up is lost.  Served(op, n) says that n pieces of work are in the   *)
(* hands of woken threads if anybody sleeps; the lemmas are the ways in which *)
(* a step may change the sleepers, the woken and the work.                    *)

Served(W, V, n) == W # {} => n <= Cardinality(V)

Woken(op) == At(op, "woken")
Work(op) == IF op = "pop" THEN core.used ELSE Capacity - core.used
AllServed ==
    \A op \in {"push", "pop"} :
        /\ Served(Waiting(op), Woken(op), Work(op))
        /\ closed => Waiting(op) = {}

LEMMA ServedMore ==
    ASSUME NEW W, NEW V, NEW n \in Nat, Served(W, V, n),
           NEW W2, NEW V2, NEW m \in Nat, IsFiniteSet(V2),
           W2 \subseteq W, V \subseteq V2, m <= n
    PROVE  Served(W2, V2, m)
<1>1. IsFiniteSet(V) /\ Cardinality(V) <= Cardinality(V2)
      /\ Cardinality(V) \in Nat /\ Cardinality(V2) \in Nat
  BY FS_Subset, FS_CardinalityType
<1> QED  BY <1>1 DEF Served

\* A woken thread takes one piece of work.
LEMMA ServedTaken ==
    ASSUME NEW W, NEW V, NEW n \in Nat \ {0}, Served(W, V, n), IsFiniteSet(V), NEW t,
           NEW W2, W2 \subseteq W
    PROVE  Served(W2, V \ {t}, n - 1)
<1>1. Cardinality(V) \in Nat
  BY FS_CardinalityType
<1>2. Cardinality(V \ {t}) \in {Cardinality(V), Cardinality(V) - 1}
  BY FS_RemoveElement
<1>3. Cardinality(V \ {t}) >= Cardinality(V) - 1
  BY <1>1, <1>2
<1>4. Cardinality(V \ {t}) \in Int
  BY <1>1, <1>2
<1> QED  BY <1>1, <1>3, <1>4 DEF Served

\* One more piece of work, and one sleeper, if there is any, woken for it.
LEMMA ServedSignalled ==
    ASSUME NEW W, NEW V, NEW n \in Nat, Served(W, V, n), IsFiniteSet(V),
           NEW w \in W, w \notin V
    PROVE  Served(W \ {w}, V \cup {w}, n + 1)
<1>1. Cardinality(V) \in Nat /\ Cardinality(V \cup {w}) = Cardinality(V) + 1
  BY FS_AddElement, FS_CardinalityType
<1> QED  BY <1>1 DEF Served

LEMMA WokenFinite == \A op : IsFiniteSet(Woken(op)) /\ IsFiniteSet(Woken(op))'
<1>1. \A op : Woken(op) \subseteq Threads /\ Woken(op)' \subseteq Threads
  BY DEF Woken, At, InCall, Threads
<1> QED  BY <1>1, ThreadsFinite, FS_Subset

LEMMA WorkType ==
    ASSUME core \in QueueRecord, core.used <= Capacity, NEW op \in {"push", "pop"}
    PROVE  Work(op) \in Nat
BY DEF QueueRecord, Work

\* The sleepers and the woken after a call has returned.
LEMMA ReturnMoves ==
    ASSUME ThreadsOK, NEW t \in Threads, NEW op \in {"push", "pop"},
           NEW woken, woken \subseteq {s \in Threads : pc[s] = "waiting"}, t \notin woken,
           NEW result, NEW frame, Return(t, woken, result, frame)
    PROVE  /\ Waiting(op)' = Waiting(op) \ (woken \cup {t})
           /\ Woken(op)' = (Woken(op) \ {t}) \cup (woken \cap Waiting(op))
<1>1. /\ pc'[t] = "idle" /\ call'[t].op = "none"
      /\ \A s \in Threads \ {t} :
            /\ pc'[s] = IF s \in woken THEN "woken" ELSE pc[s]
            /\ call'[s] = call[s]
  BY CallTypes DEF Return, Resume, ThreadsOK
<1>2. \A s : s \in Waiting(op)' <=> s \in Waiting(op) \ (woken \cup {t})
  BY <1>1 DEF Waiting, At, InCall, Threads
<1>3. \A s : s \in Woken(op)' <=> s \in (Woken(op) \ {t}) \cup (woken \cap Waiting(op))
  BY <1>1 DEF Woken, Waiting, At, InCall, Threads
<1> QED  BY <1>2, <1>3

\* A call that leaves without taking work: it was not woken, or nothing is to do.
LEMMA LeavingServes ==
    ASSUME IInv, AllServed, NEW t \in Threads, pc[t] # "idle",
           NEW result, NEW frame, Return(t, {}, result, frame),
           UNCHANGED <<core, closed>>,
           pc[t] # "woken" \/ closed \/ Work(call[t].op) = 0
    PROVE  AllServed'
<1> SUFFICES ASSUME NEW op \in {"push", "pop"}
             PROVE  Served(Waiting(op), Woken(op), Work(op))' /\ (closed' => Waiting(op)' = {})
  BY DEF AllServed
<1>1. Waiting(op)' = Waiting(op) \ {t} /\ Woken(op)' = Woken(op) \ {t} /\ Work(op)' = Work(op)
  BY ReturnMoves DEF IInv, Work
<1>2. Served(Waiting(op), Woken(op), Work(op)) /\ (closed => Waiting(op) = {})
  BY DEF AllServed
<1>3. Work(op) \in Nat
  BY WorkType, InsideMeansInitialized DEF IInv, StateIsValid, ObjectOK
<1>4. CASE t \notin Woken(op)
  <2>1. Woken(op)' = Woken(op)
    BY <1>1, <1>4
  <2>2. Served(Waiting(op) \ {t}, Woken(op), Work(op))
    BY <1>2, <1>3, WokenFinite, ServedMore
  <2> QED  BY <1>1, <1>2, <2>1, <2>2 DEF Served
<1>5. CASE t \in Woken(op) /\ closed
  BY <1>1, <1>2, <1>5 DEF Served
<1>6. CASE t \in Woken(op) /\ Work(op) = 0
  <2>1. Cardinality(Woken(op)') \in Nat
    BY WokenFinite, FS_CardinalityType
  <2> QED  BY <1>1, <1>2, <1>6, <2>1 DEF Served
<1> QED
  <2>1. t \in Woken(op) => pc[t] = "woken" /\ call[t].op = op
    BY DEF Woken, At, InCall
  <2> QED  BY <1>4, <1>5, <1>6, <2>1

\* A call that does its work, and by that makes work for the other side, which
\* it signals.
LEMMA CommitServes ==
    ASSUME IInv, AllServed, NEW t \in Threads, pc[t] \in {"locking", "woken"},
           NEW op \in {"push", "pop"}, call[t].op = op,
           NEW other \in {"push", "pop"}, other # op,
           Work(op) # 0, Work(op)' = Work(op) - 1, Work(other)' = Work(other) + 1,
           UNCHANGED closed,
           NEW woken, Waiting(other) = {} => woken = {},
           Waiting(other) # {} => \E w \in Waiting(other) : woken = {w},
           NEW result, NEW frame, Return(t, woken, result, frame)
    PROVE  AllServed'
<1>1. woken \subseteq {s \in Threads : pc[s] = "waiting"} /\ t \notin woken
      /\ woken \subseteq Waiting(other)
  BY WaitingThreads
<1>2. \A p \in {"push", "pop"} :
         /\ Waiting(p)' = Waiting(p) \ (woken \cup {t})
         /\ Woken(p)' = (Woken(p) \ {t}) \cup (woken \cap Waiting(p))
         /\ Served(Waiting(p), Woken(p), Work(p))
         /\ closed => Waiting(p) = {}
         /\ Work(p) \in Nat
  <2>1. \A p \in {"push", "pop"} : Work(p) \in Nat
    BY WorkType, InsideMeansInitialized DEF IInv, StateIsValid, ObjectOK
  <2> QED  BY <1>1, <2>1, ReturnMoves DEF IInv, AllServed
<1>3. Waiting(op) \cap Waiting(other) = {} /\ t \notin Waiting(op) /\ t \notin Waiting(other)
      /\ t \notin Woken(other)
  BY DEF Waiting, Woken, At, InCall
<1>4. Served(Waiting(op), Woken(op), Work(op))'
  <2>1. Waiting(op)' \subseteq Waiting(op) /\ Woken(op)' = Woken(op) \ {t}
    BY <1>1, <1>2, <1>3
  <2>2. Served(Waiting(op)', Woken(op) \ {t}, Work(op) - 1)
    BY <1>2, <2>1, WokenFinite, ServedTaken
  <2> QED  BY <2>1, <2>2 DEF Served
<1>5. Served(Waiting(other), Woken(other), Work(other))'
  <2>1. CASE Waiting(other) = {}
    BY <1>2, <2>1 DEF Served
  <2>2. ASSUME NEW w \in Waiting(other), woken = {w}
        PROVE  Served(Waiting(other), Woken(other), Work(other))'
    <3>1. w \notin Woken(other)
      BY DEF Waiting, Woken, At, InCall
    <3>2. Waiting(other)' = Waiting(other) \ {w} /\ Woken(other)' = Woken(other) \cup {w}
      BY <1>2, <1>3, <2>2
    <3>3. Served(Waiting(other) \ {w}, Woken(other) \cup {w}, Work(other) + 1)
      BY <1>2, <3>1, WokenFinite, ServedSignalled
    <3> QED  BY <3>2, <3>3 DEF Served
  <2> QED  BY <2>1, <2>2
<1>6. closed' => Waiting(op)' = {} /\ Waiting(other)' = {}
  BY <1>2
<1>7. {"push", "pop"} = {op, other}
  OBVIOUS
<1> QED  BY <1>4, <1>5, <1>6, <1>7 DEF AllServed

\* A step that wakes nobody it should not and leaves the work as it is.
LEMMA QuietServes ==
    ASSUME IInv, AllServed, initialized, UNCHANGED core, closed' \in BOOLEAN,
           \A op \in {"push", "pop"} :
              /\ Waiting(op)' \subseteq Waiting(op) /\ Woken(op) \subseteq Woken(op)'
              /\ closed' # closed => Waiting(op)' = {}
    PROVE  AllServed'
<1> SUFFICES ASSUME NEW op \in {"push", "pop"}
             PROVE  Served(Waiting(op), Woken(op), Work(op))' /\ (closed' => Waiting(op)' = {})
  BY DEF AllServed
<1>1. Work(op) \in Nat /\ Work(op)' = Work(op)
  BY WorkType DEF IInv, StateIsValid, ObjectOK, SoundQueue, Work
<1>2. Served(Waiting(op), Woken(op), Work(op)) /\ (closed => Waiting(op) = {})
  BY DEF AllServed
<1>3. Served(Waiting(op)', Woken(op)', Work(op))
  BY <1>1, <1>2, WokenFinite, ServedMore
<1> QED  BY <1>1, <1>2, <1>3 DEF Served

\* Signals and broadcasts succeed, and none is absorbed by a wait that is over.
SignalsArrive ==
    "signal" \notin Faults /\ "broadcast" \notin Faults /\ TimeoutMayConsumeSignal = FALSE

LEMMA SignalWakesOne ==
    ASSUME SignalsArrive, NEW op, NEW woken \in Wakeable(op)
    PROVE  /\ Waiting(op) = {} => woken = {}
           /\ Waiting(op) # {} => \E w \in Waiting(op) : woken = {w}
BY DEF SignalsArrive, Wakeable

LEMMA PushServes ==
    ASSUME SignalsArrive, IInv, AllServed, NEW t \in Threads, Push(t)
    PROVE  AllServed'
<1>1. CASE PushCommits(t)
  <2>1. /\ call[t].op = "push" /\ pc[t] \in {"locking", "woken"} /\ ~IsFull(core)
        /\ core' = Pushed(core, call[t].frame) /\ closed' = closed
    BY <1>1 DEF PushCommits, AtLoop
  <2>2. PICK woken \in Wakeable("pop") : Return(t, woken, "OK", NoFrame)
    BY <1>1 DEF PushCommits, Attempt, SignalsArrive
  <2>3. core \in QueueRecord /\ core.used \in 0 .. Capacity
    BY <2>1, InsideMeansInitialized, SoundFields DEF IInv, ObjectOK
  <2>4. core'.used = core.used + 1
    BY <2>1, <2>3 DEF Pushed, QueueRecord
  <2>5. Work("push") # 0 /\ Work("push")' = Work("push") - 1 /\ Work("pop")' = Work("pop") + 1
    BY <2>1, <2>3, <2>4 DEF Work, IsFull
  <2> QED  BY <2>1, <2>2, <2>5, SignalWakesOne, CommitServes
<1>2. CASE PushWaits(t)
  <2>1. /\ pc[t] \in {"locking", "woken"} /\ core.used = Capacity /\ ~closed
        /\ core' = core /\ closed' = closed /\ call' = call /\ initialized
        /\ pc' = [pc EXCEPT ![t] = IF expired[t] THEN "timedout" ELSE "waiting"]
        /\ call[t].op = "push"
    BY <1>2, InsideMeansInitialized DEF PushWaits, AtLoop, Suspend, IsFull, IInv
  <2>2. Waiting("pop")' = Waiting("pop") /\ Woken("pop")' = Woken("pop")
    BY <2>1 DEF Waiting, Woken, At, InCall, IInv, ThreadsOK
  <2>3. Served(Waiting("push"), Woken("push"), Work("push"))'
    <3>1. Work("push")' = 0
      BY <2>1 DEF Work
    <3>2. Cardinality(Woken("push")') \in Nat
      BY WokenFinite, FS_CardinalityType
    <3> QED  BY <3>1, <3>2 DEF Served
  <2>4. Served(Waiting("pop"), Woken("pop"), Work("pop"))'
    BY <2>1, <2>2 DEF AllServed, Served, Work
  <2> QED  BY <2>1, <2>3, <2>4 DEF AllServed
<1>3. CASE PushWontWait(t) \/ PushTimesOut(t) \/ PushFindsClosed(t)
  <2>1. PICK result : Return(t, {}, result, NoFrame)
    BY <1>3 DEF PushWontWait, PushTimesOut, PushFindsClosed
  <2>2. pc[t] # "idle" /\ call[t].op = "push" /\ UNCHANGED <<core, closed>>
    BY <1>3 DEF PushWontWait, PushTimesOut, PushFindsClosed, AtLoop
  <2>3. pc[t] # "woken" \/ closed \/ Work(call[t].op) = 0
    BY <1>3 DEF PushWontWait, PushTimesOut, PushFindsClosed, AtLoop, IsFull, Work
  <2> QED  BY <2>1, <2>2, <2>3, LeavingServes
<1> QED  BY <1>1, <1>2, <1>3 DEF Push

LEMMA PopServes ==
    ASSUME SignalsArrive, IInv, AllServed, NEW t \in Threads, Pop(t)
    PROVE  AllServed'
<1>1. CASE PopCommits(t)
  <2>1. /\ call[t].op = "pop" /\ pc[t] \in {"locking", "woken"} /\ ~IsEmpty(core)
        /\ core' = Popped(core) /\ closed' = closed
    BY <1>1 DEF PopCommits, AtLoop
  <2>2. PICK woken \in Wakeable("push") : Return(t, woken, "OK", Front(core))
    BY <1>1 DEF PopCommits, Attempt, SignalsArrive
  <2>3. core \in QueueRecord /\ core.used \in 0 .. Capacity
    BY <2>1, InsideMeansInitialized, SoundFields DEF IInv, ObjectOK
  <2>4. core'.used = core.used - 1
    BY <2>1, <2>3 DEF Popped, QueueRecord
  <2>5. Work("pop") # 0 /\ Work("pop")' = Work("pop") - 1 /\ Work("push")' = Work("push") + 1
    BY <2>1, <2>3, <2>4 DEF Work, IsEmpty
  <2> QED  BY <2>1, <2>2, <2>5, SignalWakesOne, CommitServes
<1>2. CASE PopWaits(t)
  <2>1. /\ pc[t] \in {"locking", "woken"} /\ core.used = 0 /\ ~closed
        /\ core' = core /\ closed' = closed /\ call' = call /\ initialized
        /\ pc' = [pc EXCEPT ![t] = IF expired[t] THEN "timedout" ELSE "waiting"]
        /\ call[t].op = "pop"
    BY <1>2, InsideMeansInitialized DEF PopWaits, AtLoop, Suspend, IsEmpty, IInv
  <2>2. Waiting("push")' = Waiting("push") /\ Woken("push")' = Woken("push")
    BY <2>1 DEF Waiting, Woken, At, InCall, IInv, ThreadsOK
  <2>3. Served(Waiting("pop"), Woken("pop"), Work("pop"))'
    <3>1. Work("pop")' = 0
      BY <2>1 DEF Work
    <3>2. Cardinality(Woken("pop")') \in Nat
      BY WokenFinite, FS_CardinalityType
    <3> QED  BY <3>1, <3>2 DEF Served
  <2>4. Served(Waiting("push"), Woken("push"), Work("push"))'
    BY <2>1, <2>2 DEF AllServed, Served, Work
  <2> QED  BY <2>1, <2>3, <2>4 DEF AllServed
<1>3. CASE PopWontWait(t) \/ PopTimesOut(t) \/ PopFindsClosed(t)
  <2>1. PICK result : Return(t, {}, result, NoFrame)
    BY <1>3 DEF PopWontWait, PopTimesOut, PopFindsClosed
  <2>2. pc[t] # "idle" /\ call[t].op = "pop" /\ UNCHANGED <<core, closed>>
    BY <1>3 DEF PopWontWait, PopTimesOut, PopFindsClosed, AtLoop
  <2>3. pc[t] # "woken" \/ closed \/ Work(call[t].op) = 0
    BY <1>3 DEF PopWontWait, PopTimesOut, PopFindsClosed, AtLoop, IsEmpty, Work
  <2> QED  BY <2>1, <2>2, <2>3, LeavingServes
<1> QED  BY <1>1, <1>2, <1>3 DEF Pop

\* Outside a critical section of push or pop threads only begin, wake or tire.
LEMMA OtherStepServes ==
    ASSUME SignalsArrive, IInv, AllServed, [Next]_vars,
           ~ \E t \in Threads : Push(t) \/ Pop(t)
    PROVE  AllServed'
<1>1. ThreadsOK /\ ObjectOK
  BY DEF IInv
<1>2. CASE InitQueue \/ InitFails \/ DestroyQueue \/ RefuseUninitialized
  <2>1. NobodyInside /\ pc' = pc /\ call' = call
    BY <1>1, <1>2 DEF InitQueue, InitFails, DestroyQueue, RefuseUninitialized, ObjectOK
  <2>2. \A op \in {"push", "pop"} : Waiting(op)' = {}
    BY <2>1 DEF NobodyInside, Waiting, At, InCall, Threads
  <2> QED  BY <2>2 DEF AllServed, Served
<1>3. CASE Close
  <2>1. /\ pc' = Resume(Waiting("pop") \cup Waiting("push"), pc)
        /\ core' = core /\ closed' = TRUE /\ call' = call
    BY <1>3 DEF Close, Attempt, SignalsArrive
  <2>2. \A op \in {"push", "pop"} : Waiting(op)' = {}
    BY <1>1, <2>1 DEF Waiting, At, InCall, Resume, Threads
  <2> QED  BY <2>2 DEF AllServed, Served
<1>4. CASE ResetStats \/ UNCHANGED vars \/ \E t \in Threads : DeadlinePasses(t)
  <2>1. UNCHANGED <<core, closed, pc, call>>
    BY <1>4 DEF ResetStats, vars, DeadlinePasses
  <2> QED  BY <2>1 DEF AllServed, Served, Waiting, Woken, Work, At, InCall, Threads
<1>5. ASSUME NEW t \in Threads, NEW c \in Calls, Begin(t, c)
      PROVE  AllServed'
  <2>1. /\ pc[t] = "idle" /\ pc' = [pc EXCEPT ![t] = "locking"]
        /\ call' = [call EXCEPT ![t] = c] /\ UNCHANGED <<core, closed>>
    BY <1>5 DEF Begin
  <2>2. \A op \in {"push", "pop"} : Waiting(op)' = Waiting(op) /\ Woken(op)' = Woken(op)
    BY <1>1, <2>1 DEF Waiting, Woken, At, InCall, Threads, ThreadsOK
  <2> QED  BY <2>1, <2>2 DEF AllServed, Served, Work
<1>6. ASSUME NEW t \in Threads, WaitTimesOut(t) \/ SpuriousWakeup(t)
      PROVE  AllServed'
  <2>1. /\ pc[t] = "waiting" /\ UNCHANGED <<core, closed, call>>
        /\ \E where \in {"timedout", "woken"} : pc' = [pc EXCEPT ![t] = where]
    BY <1>6 DEF WaitTimesOut, SpuriousWakeup
  <2>2. \A op \in {"push", "pop"} : Waiting(op)' \subseteq Waiting(op) /\ Woken(op) \subseteq Woken(op)'
    BY <1>1, <2>1 DEF Waiting, Woken, At, InCall, Threads, ThreadsOK
  <2> QED
    BY <1>1, <2>1, <2>2, InsideMeansInitialized, QuietServes DEF ObjectOK
<1>7. ASSUME NEW t \in Threads, LockFails(t) \/ WaitFails(t)
      PROVE  AllServed'
  BY <1>7, LeavingServes DEF LockFails, WaitFails
<1> QED
  BY <1>2, <1>3, <1>4, <1>5, <1>6, <1>7, CallTypes DEF Next, BeginPop, BeginPush

\* No wake-up is lost as long as signals arrive: each frame (free slot) that a
\* sleeping consumer (producer) could have has a woken thread on its way to it,
\* for every number of threads and slots, although push and pop signal once and
\* threads that barge in may take what was signalled.
THEOREM NoWakeupLost == SignalsArrive => (Spec => []NoStrandedWaiter)
<1>1. Init => AllServed
  BY DEF Init, AllServed, Served, Waiting, At, InCall, Threads
<1>2. SignalsArrive /\ IInv /\ AllServed /\ [Next]_vars => AllServed'
  BY PushServes, PopServes, OtherStepServes
<1>3. AllServed => NoStrandedWaiter
  BY DEF AllServed, Served, Work, Woken, NoStrandedWaiter
<1>4. SignalsArrive => [](SignalsArrive)
  <2>1. SignalsArrive => SignalsArrive'
    BY DEF SignalsArrive
  <2> QED  BY <2>1, PTL
<1> QED  BY <1>1, <1>2, <1>3, <1>4, InvariantSafe, PTL DEF Spec

-------------------------------------------------------------------------------
(* Refinement: each critical section is one step of the closable FIFO.       *)

LEMMA SameNames ==
    /\ Fifo!Threads = Threads /\ Fifo!Waits = Waits /\ Fifo!NoCall = NoCall
    /\ Fifo!NoOutcome = NoOutcome
    /\ \A op, r, f : Fifo!Outcome(op, r, f) = Outcome(op, r, f)
BY DEF Fifo!Threads, Threads, Fifo!Waits, Waits, Fifo!NoCall, NoCall,
       Fifo!NoOutcome, NoOutcome, Fifo!Outcome, Outcome

LEMMA EmptyContents ==
    ASSUME NEW q, q.used = 0
    PROVE  Contents(q) = << >>
BY DEF Contents

LEMMA InitRefines == Init => Fifo!Init
BY EmptyContents, SameNames DEF Init, Fifo!Init

\* What every return does that the FIFO sees.
LEMMA ReturnFinishes ==
    ASSUME NEW t \in Threads, NEW woken, NEW result, NEW frame, Return(t, woken, result, frame)
    PROVE  /\ Fifo!Finish(t)
           /\ \E r \in {result, "SYSTEM_ERROR"} : outcome' = Outcome(call[t].op, r, frame)
BY SameNames DEF Return, Fifo!Finish

\* A step the FIFO does not see, except that an old reply is no longer new.
LEMMA SettleRefines ==
    ASSUME outcome' = NoOutcome, UNCHANGED <<initialized, closed, core, call>>
    PROVE  Fifo!Next
BY SameNames DEF Fifo!Next, Fifo!Settle, Contents

LEMMA PushCommitRefines ==
    ASSUME IInv, NEW t \in Threads, PushCommits(t)
    PROVE  Fifo!Push(t)
<1>1. /\ call[t].op = "push" /\ pc[t] \in {"locking", "woken"} /\ ~IsFull(core) /\ ~closed
      /\ core' = Pushed(core, call[t].frame) /\ closed' = closed /\ initialized' = initialized
  BY DEF PushCommits, AtLoop, lifecycle
<1>2. core \in SoundQueue /\ call[t].frame \in Frames
  BY <1>1, InsideMeansInitialized, CallFields DEF IInv, ThreadsOK
<1>3. Contents(core)' = Append(Contents(core), call[t].frame)
  <2>1. Contents(Pushed(core, call[t].frame)) = Append(Contents(core), call[t].frame)
    BY <1>1, <1>2, PushedContents
  <2> QED  BY <1>1, <2>1 DEF Contents
<1>4. Len(Contents(core)) < Capacity
  BY <1>1, <1>2, ContentsType, SoundFields DEF IsFull
<1>5. PICK result \in {"OK", "SYSTEM_ERROR"} : \E woken : Return(t, woken, result, NoFrame)
  <2>1. PICK signalled \in Attempt("signal") :
           \E woken \in (IF signalled THEN Wakeable("pop") ELSE {{}}) :
              Return(t, woken, IF signalled THEN "OK" ELSE "SYSTEM_ERROR", NoFrame)
    BY DEF PushCommits
  <2> QED  BY <2>1
<1>6. /\ Fifo!Finish(t)
      /\ \E r \in {"OK", "SYSTEM_ERROR"} : outcome' = Outcome("push", r, NoFrame)
  BY <1>1, <1>5, ReturnFinishes
<1> QED  BY <1>1, <1>3, <1>4, <1>6, SameNames DEF Fifo!Push

LEMMA PopCommitRefines ==
    ASSUME IInv, NEW t \in Threads, PopCommits(t)
    PROVE  Fifo!Pop(t)
<1>1. /\ call[t].op = "pop" /\ pc[t] \in {"locking", "woken"} /\ ~IsEmpty(core)
      /\ core' = Popped(core) /\ closed' = closed /\ initialized' = initialized
  BY DEF PopCommits, AtLoop, lifecycle
<1>2. core \in SoundQueue
  BY <1>1, InsideMeansInitialized DEF IInv
<1>3. /\ Contents(core) # << >> /\ Front(core) = Head(Contents(core))
      /\ Contents(core)' = Tail(Contents(core))
  <2>1. Contents(core) # << >> /\ Front(core) = Head(Contents(core))
        /\ Contents(Popped(core)) = Tail(Contents(core))
    BY <1>1, <1>2, PoppedContents
  <2> QED  BY <1>1, <2>1 DEF Contents
<1>4. PICK result \in {"OK", "SYSTEM_ERROR"} : \E woken : Return(t, woken, result, Front(core))
  <2>1. PICK signalled \in Attempt("signal") :
           \E woken \in (IF signalled THEN Wakeable("push") ELSE {{}}) :
              Return(t, woken, IF signalled THEN "OK" ELSE "SYSTEM_ERROR", Front(core))
    BY DEF PopCommits
  <2> QED  BY <2>1
<1>5. /\ Fifo!Finish(t)
      /\ \E r \in {"OK", "SYSTEM_ERROR"} : outcome' = Outcome("pop", r, Front(core))
  BY <1>1, <1>4, ReturnFinishes
<1> QED  BY <1>1, <1>3, <1>5, SameNames DEF Fifo!Pop

\* A call that returns without a frame having moved.
LEMMA RefusalRefines ==
    ASSUME IInv, NEW t \in Threads,
           \/ PushWontWait(t) \/ PushTimesOut(t) \/ PushFindsClosed(t)
           \/ PopWontWait(t) \/ PopTimesOut(t) \/ PopFindsClosed(t)
           \/ LockFails(t) \/ WaitFails(t)
    PROVE  Fifo!RefuseClosed(t) \/ Fifo!GiveUp(t) \/ Fifo!Fail(t)
<1>1. /\ UNCHANGED <<initialized, closed, core>> /\ Contents(core)' = Contents(core)
      /\ pc[t] # "idle"
  BY DEF PushWontWait, PushTimesOut, PushFindsClosed, PopWontWait, PopTimesOut,
         PopFindsClosed, LockFails, WaitFails, AtLoop, lifecycle, Contents
<1>2. call[t] \in Calls /\ call[t].op \in {"push", "pop"} /\ core \in SoundQueue
  BY <1>1, CallFields, InsideMeansInitialized DEF IInv, ThreadsOK
<1>3. /\ (core.used = 0) <=> (Contents(core) = << >>)
      /\ Len(Contents(core)) = core.used
  BY <1>2, ContentsType, EmptySeq, SoundFields
<1>4. ASSUME outcome' = Outcome(call[t].op, "SYSTEM_ERROR", NoFrame), Fifo!Finish(t)
      PROVE  Fifo!Fail(t)
  BY <1>1, <1>2, <1>4, SameNames DEF Fifo!Fail
<1>5. CASE PushFindsClosed(t) \/ PopFindsClosed(t)
  <2>1. /\ Fifo!Finish(t) /\ closed /\ (call[t].op = "pop" => core.used = 0)
        /\ \E r \in {"CLOSED", "SYSTEM_ERROR"} : outcome' = Outcome(call[t].op, r, NoFrame)
    BY <1>5, ReturnFinishes DEF PushFindsClosed, PopFindsClosed, IsEmpty
  <2>2. outcome' = Outcome(call[t].op, "CLOSED", NoFrame) => Fifo!RefuseClosed(t)
    BY <1>1, <1>2, <1>3, <2>1, SameNames DEF Fifo!RefuseClosed
  <2> QED  BY <1>4, <2>1, <2>2
<1>6. CASE PushWontWait(t) \/ PushTimesOut(t) \/ PopWontWait(t) \/ PopTimesOut(t)
  <2>1. /\ Fifo!Finish(t)
        /\ \E r \in {"TIMEOUT", "SYSTEM_ERROR"} : outcome' = Outcome(call[t].op, r, NoFrame)
    BY <1>6, ReturnFinishes DEF PushWontWait, PushTimesOut, PopWontWait, PopTimesOut
  <2>2. /\ call[t].wait # "forever" /\ (call[t].op = "push" => ~closed)
        /\ call[t].op = "pop" => ~closed \/ core.used # 0
        /\ call[t].wait = "zero" =>
              /\ ~closed
              /\ call[t].op = "push" => core.used = Capacity
              /\ call[t].op = "pop" => core.used = 0
    <3>1. pc[t] = "timedout" => call[t].wait = "finite"
      BY DEF IInv, ThreadsOK
    <3> QED
      BY <1>6, <3>1
      DEF PushWontWait, PushTimesOut, PopWontWait, PopTimesOut, AtLoop, IsFull, IsEmpty
  <2>3. outcome' = Outcome(call[t].op, "TIMEOUT", NoFrame) => Fifo!GiveUp(t)
    BY <1>1, <1>2, <1>3, <2>1, <2>2, SameNames DEF Fifo!GiveUp
  <2> QED  BY <1>4, <2>1, <2>3
<1>7. CASE LockFails(t) \/ WaitFails(t)
  BY <1>4, <1>7, ReturnFinishes DEF LockFails, WaitFails
<1> QED  BY <1>5, <1>6, <1>7

LEMMA StepRefines == IInv /\ [Next]_vars => [Fifo!Next]_(Fifo!vars)
<1> SUFFICES ASSUME IInv, [Next]_vars PROVE [Fifo!Next]_(Fifo!vars)
  OBVIOUS
<1>1. ThreadsOK /\ ObjectOK /\ core \in QueueRecord
  BY DEF IInv, ObjectOK
<1>2. NobodyInside => Fifo!AllIdle
  BY <1>1, SameNames DEF NobodyInside, Fifo!AllIdle, ThreadsOK
<1>3. CASE InitQueue
  <2>1. Contents(core)' = << >>
    BY <1>1, <1>3, EmptiedSound DEF InitQueue, Contents
  <2>2. Fifo!Create
    BY <1>2, <1>3, <2>1, SameNames DEF InitQueue, Fifo!Create
  <2> QED  BY <2>2 DEF Fifo!Next
<1>4. CASE InitFails \/ DestroyQueue
  <2>1. core' = Unconfigured(core) /\ NobodyInside /\ outcome' = NoOutcome /\ call' = call
        /\ closed' = FALSE /\ initialized' = FALSE
    <3>1. CASE InitFails
      BY <1>1, <3>1 DEF InitFails, ObjectOK
    <3>2. CASE DestroyQueue
      BY <3>2 DEF DestroyQueue
    <3> QED  BY <1>4, <3>1, <3>2
  <2>2. core'.used = 0
    BY <1>1, <2>1 DEF Unconfigured, QueueRecord
  <2>3. Contents(core)' = << >>
    BY <2>2 DEF Contents
  <2>4. CASE initialized
    <3>1. Fifo!Destroy
      BY <1>2, <2>1, <2>3, <2>4, SameNames DEF Fifo!Destroy
    <3> QED  BY <3>1 DEF Fifo!Next
  <2>5. CASE ~initialized
    <3>1. Contents(core) = << >> /\ closed = FALSE /\ initialized = FALSE
      BY <1>1, <2>5, EmptyContents DEF ObjectOK
    <3>2. Fifo!Settle
      BY <2>1, <2>3, <3>1, SameNames DEF Fifo!Settle
    <3> QED  BY <3>2 DEF Fifo!Next
  <2> QED  BY <2>4, <2>5
<1>5. CASE RefuseUninitialized
  <2>1. Fifo!RefuseUnusable
    BY <1>5, SameNames DEF RefuseUninitialized, Fifo!RefuseUnusable, lifecycle, Contents
  <2> QED  BY <2>1 DEF Fifo!Next
<1>6. CASE Close
  <2>1. Fifo!Close
    BY <1>6, SameNames DEF Close, Fifo!Close, lifecycle, Contents
  <2> QED  BY <2>1 DEF Fifo!Next
<1>7. CASE ResetStats \/ \E t \in Threads :
              DeadlinePasses(t) \/ WaitTimesOut(t) \/ SpuriousWakeup(t) \/ PushWaits(t) \/ PopWaits(t)
  BY <1>7, SettleRefines
  DEF ResetStats, DeadlinePasses, WaitTimesOut, SpuriousWakeup, PushWaits, PopWaits,
      Suspend, lifecycle
<1>8. ASSUME NEW t \in Threads, NEW w \in Waits,
             BeginPop(t, w) \/ \E f \in Frames : BeginPush(t, f, w)
      PROVE  Fifo!Next
  <2>1. /\ initialized /\ call[t] = NoCall /\ outcome' = NoOutcome
        /\ UNCHANGED <<initialized, closed, core>>
    BY <1>1, <1>8 DEF BeginPop, BeginPush, Begin, ThreadsOK, lifecycle
  <2>2. \/ t \in Consumers
           /\ call' = [call EXCEPT ![t] = [NoCall EXCEPT !.op = "pop", !.wait = w]]
        \/ t \in Producers /\ \E f \in Frames :
              call' = [call EXCEPT ![t] = [op |-> "push", frame |-> f, wait |-> w]]
    BY <1>8 DEF BeginPop, BeginPush, Begin, NoCall, PopCall, PushCall
  <2>3. Fifo!Begin(t)
    BY <2>1, <2>2, SameNames DEF Fifo!Begin, Contents
  <2> QED  BY <2>3, SameNames DEF Fifo!Next
<1>9. ASSUME NEW t \in Threads, PushCommits(t) \/ PopCommits(t)
      PROVE  Fifo!Next
  BY <1>9, PushCommitRefines, PopCommitRefines, SameNames DEF Fifo!Next
<1>10. ASSUME NEW t \in Threads,
              \/ PushWontWait(t) \/ PushTimesOut(t) \/ PushFindsClosed(t)
              \/ PopWontWait(t) \/ PopTimesOut(t) \/ PopFindsClosed(t)
              \/ LockFails(t) \/ WaitFails(t)
       PROVE  Fifo!Next
  BY <1>10, RefusalRefines, SameNames DEF Fifo!Next
<1>11. CASE UNCHANGED vars
  BY <1>11 DEF vars, Fifo!vars, Contents
<1> QED
  BY <1>3, <1>4, <1>5, <1>6, <1>7, <1>8, <1>9, <1>10, <1>11 DEF Next, Push, Pop

\* The queue under its mutex, with any threads, waits, wake-ups, deadlines and
\* failing system calls, is a FIFO on which each call takes effect at one
\* instant: nothing is lost, duplicated, reordered or accepted after the close.
THEOREM Refinement == Spec => ImplementsClosableFifo
BY InvariantSafe, InitRefines, StepRefines, PTL DEF Spec, ImplementsClosableFifo, Fifo!Spec
================================================================================
