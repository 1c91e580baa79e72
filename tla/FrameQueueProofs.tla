--------------------------- MODULE FrameQueueProofs ---------------------------
(***************************************************************************)
(* The safety of FrameQueue, and that it implements BoundedFifo, for every  *)
(* capacity, frame set and saturation value.                                *)
(***************************************************************************)
EXTENDS FrameQueue, FrameQueueCoreProofs, TLAPS

USE CapacityAssumption

-------------------------------------------------------------------------------
(* Safety.  ConfiguredIsValid is what lets every call find a valid queue; the *)
(* conjuncts about the books also need the types.                             *)

IInv == TypeOK /\ ConfiguredIsValid /\ CountersExplainDepth /\ PeakIsHighWater

LEMMA TypedObserve ==
    ASSUME NEW s \in StatsRecord, NEW n \in Nat
    PROVE  /\ Observe(s, n) \in StatsRecord
           /\ Observe(s, n).peak_size = Larger(s.peak_size, n)
           /\ Observe(s, n).frames_pushed = s.frames_pushed
           /\ Observe(s, n).frames_popped = s.frames_popped
           /\ Observe(s, n).push_full_count = s.push_full_count
BY DEF Observe, Larger, StatsRecord

LEMMA InitSafe == Init => IInv
<1> SUFFICES ASSUME Init PROVE IInv
  OBVIOUS
<1>1. TypeOK
  <2>1. queue \in QueueRecord
    BY DEF Init, QueueRecord
  <2>2. stats \in StatsRecord
    BY MaxCountAssumption DEF Init, StatsRecord
  <2>3. reply \in [result : Results, frame : Frames \cup {NoFrame}]
    BY DEF Init, Reply, Results
  <2>4. account \in [exact : BOOLEAN, carry : Int] /\ highWater \in Nat
    BY DEF Init, Closed
  <2> QED  BY <2>1, <2>2, <2>3, <2>4 DEF TypeOK
<1>2. ~queue.configured /\ ~account.exact
  BY DEF Init, Closed
<1> QED
  BY <1>1, <1>2 DEF IInv, ConfiguredIsValid, CountersExplainDepth, PeakIsHighWater

LEMMA StepSafe == IInv /\ [Next]_vars => IInv'
<1> SUFFICES ASSUME IInv, [Next]_vars PROVE IInv'
  OBVIOUS
<1> USE DEF IInv
<1>1. /\ queue \in QueueRecord /\ stats \in StatsRecord /\ queue.used \in Nat
      /\ account \in [exact : BOOLEAN, carry : Int] /\ highWater \in Nat
      /\ reply \in [result : Results, frame : Frames \cup {NoFrame}]
  BY DEF TypeOK, QueueRecord
<1>2. StateIsValid(queue) => queue \in SoundQueue
  BY <1>1 DEF SoundQueue
<1>3. \A r \in Results : Reply(r) \in [result : Results, frame : Frames \cup {NoFrame}]
  BY DEF Reply
<1>4. CASE InitQueue \/ Reset
  <2>1. queue' \in SoundQueue /\ queue'.used = 0
    BY <1>1, <1>4, EmptiedSound DEF InitQueue, Reset, Emptied, QueueRecord
  <2>2. account' \in [exact : BOOLEAN, carry : Int] /\ account'.exact = account.exact
        /\ (account.exact => account'.carry = account.carry - queue.used)
    BY <1>1, <1>4 DEF InitQueue, Reset
  <2>3. stats' = stats /\ highWater' = highWater /\ reply' = Reply("OK")
    BY <1>4 DEF InitQueue, Reset
  <2> QED
    BY <1>1, <1>3, <2>1, <2>2, <2>3
    DEF TypeOK, ConfiguredIsValid, CountersExplainDepth, PeakIsHighWater, SoundQueue,
        Results, StatsRecord
<1>5. CASE StatsReset
  BY <1>1, <1>3, <1>5, MaxCountAssumption
  DEF StatsReset, TypeOK, ConfiguredIsValid, CountersExplainDepth, PeakIsHighWater,
      Results, StatsRecord
<1>6. ASSUME NEW counting \in BOOLEAN, NEW f \in Frames, PushOk(f, counting)
      PROVE  IInv'
  <2>1. queue' \in SoundQueue /\ queue'.used = queue.used + 1
    BY <1>1, <1>2, <1>6, PushedSound DEF PushOk, Pushed, QueueRecord
  <2>2. reply' \in [result : Results, frame : Frames \cup {NoFrame}]
    BY <1>3, <1>6 DEF PushOk, Results
  <2>3. highWater' = Larger(highWater, queue.used + 1) /\ highWater' \in Nat
    BY <1>1, <1>6, <2>1 DEF PushOk, Larger
  <2>4. CASE ~counting
    BY <1>1, <1>6, <2>1, <2>2, <2>3, <2>4
    DEF PushOk, TypeOK, ConfiguredIsValid, CountersExplainDepth, PeakIsHighWater,
        SoundQueue, Closed
  <2>5. CASE counting
    <3> DEFINE seen == Observe(stats, queue.used)
               counted == [seen EXCEPT !.frames_pushed = Increment(@)]
    <3>1. seen \in StatsRecord /\ seen.peak_size = Larger(stats.peak_size, queue.used)
          /\ seen.frames_pushed = stats.frames_pushed
          /\ seen.frames_popped = stats.frames_popped
      BY <1>1, TypedObserve
    <3>2. stats.frames_pushed \in 0 .. MaxCount /\ Increment(stats.frames_pushed) \in 0 .. MaxCount
      BY <1>1, TypedIncrement DEF StatsRecord
    <3> HIDE DEF seen
    <3>3. counted \in StatsRecord /\ counted.peak_size = seen.peak_size
          /\ counted.frames_pushed = Increment(stats.frames_pushed)
          /\ counted.frames_popped = stats.frames_popped
      BY <3>1, <3>2 DEF StatsRecord
    <3>4. stats' = Observe(counted, queue.used + 1)
      BY <1>6, <2>5 DEF PushOk, seen
    <3> HIDE DEF counted
    <3>5. stats' \in StatsRecord
          /\ stats'.peak_size = Larger(Larger(stats.peak_size, queue.used), queue.used + 1)
          /\ stats'.frames_pushed = Increment(stats.frames_pushed)
          /\ stats'.frames_popped = stats.frames_popped
      <4>1. queue.used + 1 \in Nat
        BY <1>1
      <4>2. stats' \in StatsRecord
            /\ stats'.peak_size = Larger(counted.peak_size, queue.used + 1)
            /\ stats'.frames_pushed = counted.frames_pushed
            /\ stats'.frames_popped = counted.frames_popped
        BY <3>3, <3>4, <4>1, TypedObserve
      <4> QED  BY <3>1, <3>3, <4>2
    <3>6. account' = Counted(stats.frames_pushed)
      BY <1>6, <2>5 DEF PushOk
    <3>7. account' \in [exact : BOOLEAN, carry : Int]
          /\ (account'.exact => account' = account /\ account.exact
                                /\ stats.frames_pushed < MaxCount)
      BY <1>1, <3>6 DEF Counted, Closed
    <3>8. TypeOK' /\ ConfiguredIsValid'
      BY <2>1, <2>2, <2>3, <3>5, <3>7 DEF TypeOK, ConfiguredIsValid, SoundQueue
    <3>9. CountersExplainDepth'
      BY <1>1, <2>1, <3>2, <3>5, <3>7, TypedIncrement
      DEF CountersExplainDepth, StatsRecord
    <3>10. PeakIsHighWater'
      BY <1>1, <2>1, <2>3, <3>5, <3>7 DEF PeakIsHighWater, Larger, StatsRecord
    <3> QED  BY <3>8, <3>9, <3>10
  <2> QED  BY <2>4, <2>5
<1>7. ASSUME NEW counting \in BOOLEAN, PushFull(counting) PROVE IInv'
  <2>1. reply' \in [result : Results, frame : Frames \cup {NoFrame}]
        /\ queue' = queue /\ account' = account /\ highWater' = highWater
    BY <1>3, <1>7 DEF PushFull, Results
  <2>2. stats' \in StatsRecord
        /\ (stats'.peak_size = stats.peak_size
              \/ stats'.peak_size = Larger(stats.peak_size, queue.used))
        /\ stats'.frames_pushed = stats.frames_pushed
        /\ stats'.frames_popped = stats.frames_popped
    <3>1. Increment(stats.push_full_count) \in 0 .. MaxCount
      BY <1>1, TypedIncrement DEF StatsRecord
    <3>2. Observe(stats, queue.used) \in StatsRecord
      BY <1>1, TypedObserve
    <3> QED  BY <1>1, <1>7, <3>1, <3>2, TypedObserve DEF PushFull, StatsRecord
  <2> QED
    BY <1>1, <2>1, <2>2
    DEF TypeOK, ConfiguredIsValid, CountersExplainDepth, PeakIsHighWater, Larger, StatsRecord
<1>8. ASSUME NEW counting \in BOOLEAN, PopOk(counting) PROVE IInv'
  <2>1. queue' \in SoundQueue /\ queue'.used = queue.used - 1 /\ Front(queue) \in Frames
    BY <1>1, <1>2, <1>8, PoppedSound DEF PopOk, Popped, QueueRecord
  <2>2. reply' \in [result : Results, frame : Frames \cup {NoFrame}] /\ highWater' = highWater
    BY <1>8, <2>1 DEF PopOk, Results
  <2>3. CASE ~counting
    BY <1>1, <1>8, <2>1, <2>2, <2>3
    DEF PopOk, TypeOK, ConfiguredIsValid, CountersExplainDepth, PeakIsHighWater,
        SoundQueue, Closed
  <2>4. CASE counting
    <3>1. stats.frames_popped \in 0 .. MaxCount /\ Increment(stats.frames_popped) \in 0 .. MaxCount
      BY <1>1, TypedIncrement DEF StatsRecord
    <3>2. stats' = [Observe(stats, queue.used) EXCEPT !.frames_popped = Increment(@)]
          /\ account' = Counted(stats.frames_popped)
      BY <1>8, <2>4 DEF PopOk
    <3>3. stats' \in StatsRecord
          /\ stats'.peak_size = Larger(stats.peak_size, queue.used)
          /\ stats'.frames_popped = Increment(stats.frames_popped)
          /\ stats'.frames_pushed = stats.frames_pushed
      BY <1>1, <3>1, <3>2, TypedObserve DEF StatsRecord
    <3>4. account' \in [exact : BOOLEAN, carry : Int]
          /\ (account'.exact => account' = account /\ account.exact
                                /\ stats.frames_popped < MaxCount)
      BY <1>1, <3>2 DEF Counted, Closed
    <3>5. TypeOK' /\ ConfiguredIsValid'
      BY <1>1, <2>1, <2>2, <3>3, <3>4 DEF TypeOK, ConfiguredIsValid, SoundQueue
    <3>6. CountersExplainDepth'
      BY <1>1, <2>1, <3>1, <3>3, <3>4, TypedIncrement
      DEF CountersExplainDepth, StatsRecord
    <3>7. PeakIsHighWater'
      BY <1>1, <2>1, <2>2, <3>3, <3>4 DEF PeakIsHighWater, Larger, StatsRecord
    <3> QED  BY <3>5, <3>6, <3>7
  <2> QED  BY <2>3, <2>4
<1>9. ASSUME NEW counting \in BOOLEAN, PopEmpty(counting) PROVE IInv'
  <2>1. reply' \in [result : Results, frame : Frames \cup {NoFrame}]
        /\ queue' = queue /\ account' = account /\ highWater' = highWater
    BY <1>3, <1>9 DEF PopEmpty, Results
  <2>2. stats' = stats \/ stats' = Observe(stats, queue.used)
    BY <1>9 DEF PopEmpty
  <2>3. stats' \in StatsRecord
        /\ (stats'.peak_size = stats.peak_size
              \/ stats'.peak_size = Larger(stats.peak_size, queue.used))
        /\ stats'.frames_pushed = stats.frames_pushed
        /\ stats'.frames_popped = stats.frames_popped
    BY <1>1, <2>2, TypedObserve
  <2> QED
    BY <1>1, <2>1, <2>3
    DEF TypeOK, ConfiguredIsValid, CountersExplainDepth, PeakIsHighWater, Larger, StatsRecord
<1>10. CASE RefuseInvalid
  BY <1>1, <1>3, <1>10
  DEF RefuseInvalid, TypeOK, ConfiguredIsValid, CountersExplainDepth, PeakIsHighWater, Results
<1>11. CASE UNCHANGED vars
  BY <1>11
  DEF vars, TypeOK, ConfiguredIsValid, CountersExplainDepth, PeakIsHighWater
<1> QED
  BY <1>4, <1>5, <1>6, <1>7, <1>8, <1>9, <1>10, <1>11 DEF Next

LEMMA InvariantSafe == Spec => []IInv
BY InitSafe, StepSafe, PTL DEF Spec

\* The variables keep their types for any frames, slots and counter limit.
THEOREM TypeCorrect == Spec => []TypeOK
BY InvariantSafe, PTL DEF IInv

\* No sequence of calls makes the state check of an initialised queue fail.
THEOREM Safety == Spec => []ConfiguredIsValid
BY InvariantSafe, PTL DEF IInv

\* What was counted in and out is what the queue holds, until a counter saturates.
THEOREM CountersSafe == Spec => []CountersExplainDepth
BY InvariantSafe, PTL DEF IInv

\* The reported peak is the depth at some moment of the period, and no lower
\* than the depth at any.
THEOREM PeakSafe == Spec => []PeakIsHighWater
BY InvariantSafe, PTL DEF IInv

-------------------------------------------------------------------------------
(* Refinement: every step of the ring of slots is a step of the bounded FIFO. *)

LEMMA InitRefines == Init => Fifo!Init
<1> SUFFICES ASSUME Init PROVE Fifo!Init
  OBVIOUS
<1>1. queue.configured = FALSE /\ queue.used = 0 /\ reply = Reply("NONE")
  BY DEF Init
<1>2. Contents(queue) = << >>
  BY <1>1 DEF Contents
<1> QED  BY <1>1, <1>2 DEF Fifo!Init, Fifo!Reply, Reply

LEMMA StepRefines == IInv /\ [Next]_vars => [Fifo!Next]_(Fifo!vars)
<1> SUFFICES ASSUME IInv, [Next]_vars PROVE [Fifo!Next]_(Fifo!vars)
  OBVIOUS
<1>1. queue \in QueueRecord /\ (StateIsValid(queue) => queue \in SoundQueue)
  BY DEF IInv, TypeOK, SoundQueue
<1>2. queue \in SoundQueue => Len(Contents(queue)) = queue.used
  BY ContentsType
<1> USE DEF Fifo!Reply, Reply
<1>3. CASE InitQueue
  <2>1. queue'.configured = TRUE /\ Contents(queue') = << >> /\ reply' = Reply("OK")
    BY <1>1, <1>3, EmptiedSound DEF InitQueue, Emptied, QueueRecord
  <2>2. Fifo!Create
    BY <2>1 DEF Fifo!Create, Contents
  <2> QED  BY <2>2 DEF Fifo!Next
<1>4. CASE Reset
  <2>1. queue'.configured = TRUE /\ queue.configured = TRUE
        /\ Contents(queue') = << >> /\ reply' = Reply("OK")
    BY <1>1, <1>4, EmptiedSound DEF Reset, Emptied, QueueRecord
  <2>2. Fifo!Clear
    BY <2>1 DEF Fifo!Clear, Contents
  <2> QED  BY <2>2 DEF Fifo!Next
<1>5. CASE StatsReset
  <2>1. Fifo!Inspect
    BY <1>5 DEF StatsReset, StateIsValid, Fifo!Inspect, Contents
  <2> QED  BY <2>1 DEF Fifo!Next
<1>6. ASSUME NEW counting \in BOOLEAN, NEW f \in Frames, PushOk(f, counting)
      PROVE  Fifo!Next
  <2>1. queue \in SoundQueue /\ queue' = Pushed(queue, f) /\ reply' = Reply("OK")
        /\ ~IsFull(queue)
    BY <1>1, <1>6 DEF PushOk
  <2>2. Contents(queue') = Append(Contents(queue), f)
    BY <2>1, PushedContents
  <2>3. queue.configured = TRUE /\ queue'.configured = TRUE
    BY <2>1, <1>1 DEF SoundQueue, StateIsValid, Pushed, QueueRecord
  <2>4. Len(Contents(queue)) < Capacity
    BY <2>1, <1>2, SoundFields DEF IsFull
  <2>5. Fifo!Push(f)
    BY <2>1, <2>2, <2>3, <2>4 DEF Fifo!Push, Contents
  <2> QED  BY <2>5 DEF Fifo!Next
<1>7. ASSUME NEW counting \in BOOLEAN, PushFull(counting) PROVE Fifo!Next
  <2>1. queue \in SoundQueue /\ queue' = queue /\ reply' = Reply("FULL") /\ queue.configured
        /\ queue.used = Capacity
    BY <1>1, <1>7 DEF PushFull, StateIsValid, IsFull
  <2>2. Fifo!Refuse
    BY <2>1, <1>2 DEF Fifo!Refuse, Contents
  <2> QED  BY <2>2 DEF Fifo!Next
<1>8. ASSUME NEW counting \in BOOLEAN, PopOk(counting) PROVE Fifo!Next
  <2>1. queue \in SoundQueue /\ queue' = Popped(queue) /\ ~IsEmpty(queue)
        /\ reply' = [result |-> "OK", frame |-> Front(queue)]
    BY <1>1, <1>8 DEF PopOk
  <2>2. Contents(queue) # << >> /\ Front(queue) = Head(Contents(queue))
        /\ Contents(queue') = Tail(Contents(queue))
    BY <2>1, PoppedContents
  <2>3. queue.configured = TRUE /\ queue'.configured = TRUE
    BY <2>1, <1>1 DEF SoundQueue, StateIsValid, Popped, QueueRecord
  <2>4. Fifo!Pop
    BY <2>1, <2>2, <2>3 DEF Fifo!Pop, Contents
  <2> QED  BY <2>4 DEF Fifo!Next
<1>9. ASSUME NEW counting \in BOOLEAN, PopEmpty(counting) PROVE Fifo!Next
  <2>1. queue' = queue /\ reply' = Reply("EMPTY") /\ queue.configured /\ queue.used = 0
    BY <1>9 DEF PopEmpty, StateIsValid, IsEmpty
  <2>2. Contents(queue) = << >>
    BY <2>1 DEF Contents
  <2>3. Fifo!Refuse
    BY <2>1, <2>2 DEF Fifo!Refuse, Contents
  <2> QED  BY <2>3 DEF Fifo!Next
<1>10. CASE RefuseInvalid
  <2>1. ~queue.configured /\ queue' = queue /\ reply' = Reply("INVALID_STATE")
    BY <1>10 DEF RefuseInvalid, IInv, ConfiguredIsValid
  <2>2. Fifo!Refuse
    BY <2>1 DEF Fifo!Refuse, Contents
  <2> QED  BY <2>2 DEF Fifo!Next
<1>11. CASE UNCHANGED vars
  BY <1>11 DEF vars, Fifo!vars, Contents
<1> QED
  BY <1>3, <1>4, <1>5, <1>6, <1>7, <1>8, <1>9, <1>10, <1>11 DEF Next

\* The ring of slots with wrapping indices implements the bounded FIFO.
THEOREM Refinement == Spec => ImplementsFifo
BY InvariantSafe, InitRefines, StepRefines, PTL DEF Spec, ImplementsFifo, Fifo!Spec
================================================================================
