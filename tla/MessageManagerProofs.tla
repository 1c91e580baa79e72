------------------------- MODULE MessageManagerProofs -------------------------
(***************************************************************************)
(* The safety of the message manager, for any number of slots, sequences,   *)
(* retries and any clock: its types, that its calls never bring it into a   *)
(* state its own check refuses, that its counters explain the open requests, *)
(* and how far apart two requests with the same sequence are.               *)
(***************************************************************************)
EXTENDS MessageManager, FiniteSetTheorems, TLAPS

USE PendingCapacityAssumption, MaxSequenceAssumption, TimeAssumption, BoundsAssumption

SlotRecord == [active : BOOLEAN, sequence : Sequences \cup {0}, request : Requests \cup {0},
               deadline : 0 .. MaxTime, retries : 0 .. MaxRetries]
ManagerRecord ==
    [initialized : BOOLEAN, next_sequence : Sequences \cup {0}, hasStats : BOOLEAN]
AccountRecord == [exact : BOOLEAN, carry : Int, others : Nat]
EventRecord == [type : EventTypes, request : Requests \cup {0}, retries : 0 .. MaxRetries]
Answers == {"NONE", "INVALID_STATE", "PENDING_FULL", "SEQUENCE_EXHAUSTED",
            "INVALID_SEQUENCE", "UNSUPPORTED_FRAME_TYPE"} \cup ChannelResults

\* The part of a state that the state check reads, its bookkeeping, and what a
\* call tells its caller.
SlotsOK == manager \in ManagerRecord /\ pending \in [Indices -> SlotRecord]
BooksOK ==
    /\ stats \in [StatFields -> Nat] /\ \A k \in Counters : stats[k] <= MaxCount
    /\ account \in AccountRecord /\ spent \in 0 .. MaxCalls
HistoryOK == issued \in Requests \cup {0} /\ sequenceOf \in [Requests -> Sequences \cup {0}]
RepliesOK == result \in Answers /\ events \subseteq EventRecord /\ clock \in 0 .. MaxTime

IInv == SlotsOK /\ BooksOK /\ HistoryOK /\ RepliesOK /\ InitialisedStateIsValid

-------------------------------------------------------------------------------
(* Operators. *)

LEMMA ActiveFinite == IsFiniteSet(Active) /\ Cardinality(Active) \in Nat
<1>1. IsFiniteSet(Indices) /\ Active \subseteq Indices
  BY FS_Interval DEF Indices, Active
<1> QED  BY <1>1, FS_Subset, FS_CardinalityType

LEMMA DeadlineType ==
    ASSUME clock \in 0 .. MaxTime
    PROVE  Deadline(clock) \in 0 .. MaxTime
BY DEF Deadline

\* The search walks over sequences only and never over 0.
LEMMA AheadType ==
    ASSUME manager \in ManagerRecord, manager.next_sequence # 0, NEW n \in 0 .. MaxSequence - 1
    PROVE  Ahead(n) \in Sequences
BY DEF Ahead, Sequences, ManagerRecord

LEMMA NextSequenceType ==
    ASSUME NEW s \in Sequences
    PROVE  NextSequence(s) \in Sequences
BY DEF NextSequence, Sequences

LEMMA CountedType ==
    ASSUME BooksOK, NEW amounts, \A k \in DOMAIN amounts : amounts[k] \in Nat
    PROVE  /\ Counted(amounts) \in [StatFields -> Nat]
           /\ \A k \in Counters : Counted(amounts)[k] <= MaxCount
           /\ Audited(amounts) \in AccountRecord
<1>1. \A a, b \in Nat : Sum(a, b) \in Nat /\ Sum(a, b) <= MaxCount
  BY DEF Sum
<1>2. Counters \subseteq StatFields /\ \A k \in StatFields : stats[k] \in Nat
  BY DEF StatFields, BooksOK
<1>3. Counted(amounts) \in [StatFields -> Nat]
  BY <1>1, <1>2 DEF Counted
<1>4. \A k \in Counters : Counted(amounts)[k] <= MaxCount
  BY <1>1, <1>2 DEF Counted, BooksOK
<1>5. Audited(amounts) \in AccountRecord
  BY DEF Audited, Closed, BooksOK, AccountRecord
<1> QED  BY <1>3, <1>4, <1>5

LEMMA ZeroStatsType ==
    ASSUME NEW n \in Nat
    PROVE  /\ ZeroStats(n) \in [StatFields -> Nat]
           /\ \A k \in Counters : ZeroStats(n)[k] <= MaxCount
<1>1. \A k \in Counters : k \in StatFields /\ k # "pending_peak"
  BY DEF Counters, StatFields
<1> QED  BY <1>1 DEF ZeroStats

LEMMA SpendType ==
    ASSUME BooksOK, Spend
    PROVE  spent' \in 0 .. MaxCalls
BY DEF BooksOK, Spend

LEMMA CountBooks ==
    ASSUME BooksOK, NEW amounts, \A k \in DOMAIN amounts : amounts[k] \in Nat, Count(amounts)
    PROVE  BooksOK'
BY CountedType, SpendType DEF Count, Tally, BooksOK

-------------------------------------------------------------------------------
(* The state check depends on the cursor and the open slots only. *)

LEMMA StateCheckKept ==
    ASSUME SlotsOK, InitialisedStateIsValid, SlotsOK',
           manager'.initialized => manager.initialized /\ manager'.next_sequence # 0,
           \A i \in Indices : pending'[i].active =>
              /\ pending[i].active
              /\ pending'[i].sequence = pending[i].sequence
    PROVE  InitialisedStateIsValid'
<1> SUFFICES ASSUME manager'.initialized PROVE PendingStateIsValid'
  BY DEF InitialisedStateIsValid
<1>1. PendingStateIsValid
  BY DEF InitialisedStateIsValid
<1>2. ASSUME NEW i \in Active'
      PROVE  /\ i \in Active /\ pending'[i].sequence = pending[i].sequence
             /\ pending'[i].retries <= MaxRetries
  BY <1>2 DEF Active, SlotsOK, SlotRecord
<1> QED  BY <1>1, <1>2 DEF PendingStateIsValid

LEMMA SameSlots ==
    ASSUME SlotsOK, HistoryOK, InitialisedStateIsValid, UNCHANGED <<manager, pending, history>>
    PROVE  SlotsOK' /\ HistoryOK' /\ InitialisedStateIsValid'
BY DEF SlotsOK, HistoryOK, history, InitialisedStateIsValid, PendingStateIsValid, Active

LEMMA ClearedSlots ==
    ASSUME pending \in [Indices -> SlotRecord]
    PROVE  Cleared \in [Indices -> SlotRecord] /\ \A i \in Indices : ~Cleared[i].active
BY DEF Cleared, SlotRecord

LEMMA EmptyEvents == {} \subseteq EventRecord
OBVIOUS

LEMMA InitSafe == Init => IInv
<1> SUFFICES ASSUME Init PROVE IInv
  OBVIOUS
<1>1. SlotsOK
  <2>1. manager \in ManagerRecord
    BY DEF Init, ManagerRecord
  <2>2. pending \in [Indices -> SlotRecord]
    BY DEF Init, SlotRecord
  <2> QED  BY <2>1, <2>2 DEF SlotsOK
<1>2. BooksOK
  <2>1. Closed \in AccountRecord
    BY DEF Closed, AccountRecord
  <2> QED  BY <2>1, ZeroStatsType DEF Init, BooksOK
<1>3. HistoryOK /\ RepliesOK
  BY DEF Init, HistoryOK, RepliesOK, NoSequences, Answers
<1>4. InitialisedStateIsValid
  BY DEF Init, InitialisedStateIsValid
<1> QED  BY <1>1, <1>2, <1>3, <1>4 DEF IInv

LEMMA SetUpSafe ==
    ASSUME IInv, InitManager \/ Reset
    PROVE  IInv'
<1>1. SlotsOK /\ BooksOK /\ HistoryOK /\ RepliesOK
  BY DEF IInv
<1>2. /\ manager' \in ManagerRecord /\ manager'.next_sequence = 1
  <2>1. 1 \in Sequences
    BY DEF Sequences
  <2>2. CASE InitManager
    <3>1. PICK withStats \in BOOLEAN :
             manager' = [initialized |-> TRUE, next_sequence |-> 1, hasStats |-> withStats]
      BY <2>2, StatsModesAssumption DEF InitManager
    <3> QED  BY <2>1, <3>1 DEF ManagerRecord
  <2>3. CASE Reset
    BY <1>1, <2>1, <2>3 DEF Reset, SlotsOK, ManagerRecord
  <2> QED  BY <2>2, <2>3
<1>3. pending' = Cleared /\ sequenceOf' = NoSequences /\ result' = "OK" /\ events' = {}
      /\ issued' = issued /\ clock' = clock /\ spent' = spent
  BY DEF InitManager, Reset
<1>4. SlotsOK' /\ HistoryOK' /\ RepliesOK'
  BY <1>1, <1>2, <1>3, ClearedSlots
  DEF SlotsOK, HistoryOK, RepliesOK, NoSequences, Answers, ChannelResults
<1>5. Active' = {}
  BY <1>1, <1>3, ClearedSlots DEF Active, SlotsOK
<1>6. InitialisedStateIsValid'
  BY <1>2, <1>5 DEF InitialisedStateIsValid, PendingStateIsValid
<1>7. BooksOK'
  <2>1. CASE InitManager
    <3>1. PICK withStats \in BOOLEAN :
             /\ stats' = IF withStats THEN ZeroStats(0) ELSE stats
             /\ account' = [Closed EXCEPT !.exact = withStats]
      BY <2>1, StatsModesAssumption DEF InitManager
    <3>2. Closed \in AccountRecord
      BY DEF Closed, AccountRecord
    <3>3. account' \in AccountRecord
      BY <3>1, <3>2 DEF AccountRecord
    <3>4. stats' \in [StatFields -> Nat] /\ \A k \in Counters : stats'[k] <= MaxCount
      BY <1>1, <3>1, ZeroStatsType DEF BooksOK
    <3> QED  BY <1>1, <1>3, <3>3, <3>4 DEF BooksOK
  <2>2. CASE Reset
    <3> DEFINE c == IF account.exact THEN account.carry - Cardinality(Active) ELSE 0
    <3>1. account' = [account EXCEPT !.carry = c] /\ stats' = stats
      BY <2>2 DEF Reset
    <3>2. c \in Int /\ account \in AccountRecord
      BY <1>1, ActiveFinite DEF BooksOK, AccountRecord
    <3> HIDE DEF c
    <3>3. account' \in AccountRecord
      BY <3>1, <3>2 DEF AccountRecord
    <3> QED  BY <1>1, <1>3, <3>1, <3>3 DEF BooksOK
  <2> QED  BY <2>1, <2>2
<1> QED  BY <1>4, <1>6, <1>7 DEF IInv

\* A call that leaves slots and sequences alone.
LEMMA QuietSafe ==
    ASSUME IInv,
           \/ Tick \/ ResetStats \/ RefuseInvalid \/ RequestFindsPendingFull
           \/ RequestFindsNoSequence \/ RequestIsNotAccepted \/ SendOther \/ RefuseSequenceZero
           \/ HandleRequestOrReport \/ HandleUnmatchedReply \/ HandleUnsupportedFrame
           \/ UNCHANGED vars
    PROVE  IInv'
<1>1. SlotsOK /\ BooksOK /\ HistoryOK /\ RepliesOK /\ InitialisedStateIsValid
  BY DEF IInv
<1>2. UNCHANGED <<manager, pending, history>>
  BY DEF Tick, ResetStats, RefuseInvalid, RequestFindsPendingFull, RequestFindsNoSequence,
         RequestIsNotAccepted, SendOther, RefuseSequenceZero, HandleRequestOrReport,
         HandleUnmatchedReply, HandleUnsupportedFrame, vars, history
<1>3. SlotsOK' /\ HistoryOK' /\ InitialisedStateIsValid'
  BY <1>1, <1>2, SameSlots
<1>4. CASE RequestFindsPendingFull
  BY <1>1, <1>3, <1>4, CountBooks DEF RequestFindsPendingFull, RepliesOK, Answers, IInv
<1>5. CASE RequestIsNotAccepted
  BY <1>1, <1>3, <1>5, CountBooks
  DEF RequestIsNotAccepted, RepliesOK, Answers, ChannelResults, IInv
<1>6. CASE HandleRequestOrReport
  <2>1. BooksOK'
    BY <1>1, <1>6, CountBooks DEF HandleRequestOrReport
  <2>2. events' \subseteq EventRecord
    BY <1>6 DEF HandleRequestOrReport, Event, EventRecord, EventTypes
  <2> QED
    BY <1>1, <1>3, <1>6, <2>1, <2>2
    DEF HandleRequestOrReport, RepliesOK, Answers, ChannelResults, IInv
<1>7. CASE HandleUnmatchedReply
  <2>1. BooksOK'
    BY <1>1, <1>7, CountBooks DEF HandleUnmatchedReply
  <2>2. events' \subseteq EventRecord
    BY <1>7 DEF HandleUnmatchedReply, Event, EventRecord, EventTypes
  <2> QED
    BY <1>1, <1>3, <1>7, <2>1, <2>2
    DEF HandleUnmatchedReply, RepliesOK, Answers, ChannelResults, IInv
<1>8. CASE SendOther
  <2>1. PICK r \in ChannelResults :
           /\ result' = r
           /\ IF r = "OK"
              THEN /\ stats' = Counted([frames_sent |-> 1])
                   /\ account' = IF Saturates([frames_sent |-> 1]) THEN Closed
                                 ELSE [account EXCEPT !.others = IF account.exact THEN @ + 1 ELSE 0]
                   /\ Spend
              ELSE Count([send_failures |-> 1])
    BY <1>8 DEF SendOther
  <2>2. BooksOK'
    <3>1. CASE r # "OK"
      BY <1>1, <2>1, <3>1, CountBooks
    <3>2. CASE r = "OK"
      <4> DEFINE o == IF account.exact THEN account.others + 1 ELSE 0
      <4>1. o \in Nat /\ account \in AccountRecord
        BY <1>1 DEF BooksOK, AccountRecord
      <4>2. account' = Closed \/ account' = [account EXCEPT !.others = o]
        BY <2>1, <3>2
      <4> HIDE DEF o
      <4>3. Closed \in AccountRecord
        BY DEF Closed, AccountRecord
      <4>4. account' \in AccountRecord
        BY <4>1, <4>2, <4>3 DEF AccountRecord
      <4>5. \A k \in DOMAIN [frames_sent |-> 1] : [frames_sent |-> 1][k] \in Nat
        OBVIOUS
      <4> QED  BY <1>1, <2>1, <3>2, <4>4, <4>5, CountedType, SpendType DEF BooksOK
    <3> QED  BY <3>1, <3>2
  <2> QED  BY <1>1, <1>3, <1>8, <2>1, <2>2 DEF SendOther, RepliesOK, Answers, IInv
<1>9. CASE ResetStats
  <2>1. [exact |-> TRUE, carry |-> Cardinality(Active), others |-> 0] \in AccountRecord
    BY ActiveFinite DEF AccountRecord
  <2>2. BooksOK'
    BY <1>1, <1>9, <2>1, ActiveFinite, ZeroStatsType DEF ResetStats, BooksOK
  <2> QED
    BY <1>1, <1>3, <1>9, <2>2 DEF ResetStats, RepliesOK, Answers, ChannelResults, IInv
<1>10. CASE Tick
  BY <1>1, <1>3, <1>10 DEF Tick, RepliesOK, Answers, BooksOK, IInv
<1>11. CASE RefuseInvalid \/ RequestFindsNoSequence \/ RefuseSequenceZero \/ HandleUnsupportedFrame
  BY <1>1, <1>3, <1>11
  DEF RefuseInvalid, RequestFindsNoSequence, RefuseSequenceZero, HandleUnsupportedFrame,
      RepliesOK, Answers, BooksOK, IInv
<1>12. CASE UNCHANGED vars
  BY <1>1, <1>3, <1>12 DEF vars, RepliesOK, BooksOK, IInv
<1> QED  BY <1>4, <1>5, <1>6, <1>7, <1>8, <1>9, <1>10, <1>11, <1>12

\* The new request takes a sequence that no open request has, and not 0.
LEMMA RequestIsSentSafe ==
    ASSUME IInv, RequestIsSent
    PROVE  IInv'
<1>1. SlotsOK /\ BooksOK /\ HistoryOK /\ RepliesOK /\ InitialisedStateIsValid
  BY DEF IInv
<1>2. PICK i \in Indices, n \in SearchSteps : FirstFree(i) /\ RegisterRequest(i, Ahead(n))
  BY DEF RequestIsSent
<1> DEFINE s == Ahead(n)
           slot == [active |-> TRUE, sequence |-> s, request |-> issued + 1,
                    deadline |-> Deadline(clock), retries |-> 0]
<1>3. s \in Sequences /\ ~SequenceIsActive(s) /\ PendingStateIsValid
  BY <1>1, <1>2, AheadType DEF SearchSteps, RequestIsSent, PendingStateIsValid, SlotsOK
<1>4. /\ pending' = [pending EXCEPT ![i] = slot]
      /\ manager' = [manager EXCEPT !.next_sequence = NextSequence(s)]
      /\ issued' = issued + 1 /\ sequenceOf' = [sequenceOf EXCEPT ![issued + 1] = s]
      /\ result' = "OK" /\ events' = {} /\ clock' = clock
  BY <1>2 DEF RegisterRequest, RequestIsSent
<1> HIDE DEF s
<1>5. issued + 1 \in Requests
  BY <1>1 DEF RequestIsSent, HistoryOK, Requests
<1>6. slot \in SlotRecord
  BY <1>1, <1>3, <1>5, DeadlineType DEF SlotRecord, RepliesOK
<1>7. slot.active /\ slot.sequence = s /\ slot.retries = 0
  OBVIOUS
<1> HIDE DEF slot
<1>8. SlotsOK'
  BY <1>1, <1>3, <1>4, <1>6, NextSequenceType DEF SlotsOK, ManagerRecord
<1>9. HistoryOK' /\ RepliesOK'
  BY <1>1, <1>3, <1>4, <1>5 DEF HistoryOK, RepliesOK, Answers, ChannelResults
<1>10. InitialisedStateIsValid'
  <2>1. manager'.initialized /\ manager'.next_sequence \in Sequences
    BY <1>1, <1>3, <1>4, NextSequenceType DEF PendingStateIsValid, SlotsOK, ManagerRecord
  <2>2. \A j \in Active' : j # i => j \in Active /\ pending'[j] = pending[j]
    BY <1>1, <1>4 DEF Active, SlotsOK
  <2>3. pending'[i] = slot
    BY <1>1, <1>4 DEF SlotsOK
  <2>4. \A j \in Active : pending[j].sequence # s
    BY <1>3 DEF SequenceIsActive
  <2>5. \A j \in Active' :
           /\ pending'[j].sequence # 0 /\ pending'[j].retries <= MaxRetries
           /\ \A k \in Active' : k # j => pending'[k].sequence # pending'[j].sequence
    BY <1>3, <1>7, <2>2, <2>3, <2>4 DEF PendingStateIsValid, Sequences
  <2> QED  BY <2>1, <2>5 DEF InitialisedStateIsValid, PendingStateIsValid, Sequences
<1>11. BooksOK'
  <2> DEFINE amounts == [frames_sent |-> 1, requests_sent |-> 1]
             depth == Cardinality(Active) + 1
             counted == Counted(amounts)
             peak == IF manager.hasStats /\ depth > counted["pending_peak"]
                     THEN depth ELSE counted["pending_peak"]
  <2>1. \A k \in DOMAIN amounts : amounts[k] \in Nat
    OBVIOUS
  <2>2. /\ counted \in [StatFields -> Nat] /\ \A k \in Counters : counted[k] <= MaxCount
        /\ Audited(amounts) \in AccountRecord
    BY <1>1, <2>1, CountedType
  <2>3. "pending_peak" \in StatFields /\ \A k \in Counters : k # "pending_peak"
    BY DEF StatFields, Counters
  <2>4. /\ stats' = [counted EXCEPT !["pending_peak"] = peak]
        /\ account' = Audited(amounts) /\ Spend
    BY DEF RequestIsSent
  <2> HIDE DEF counted, amounts
  <2>5. peak \in Nat
    BY <2>2, <2>3, ActiveFinite
  <2> HIDE DEF peak
  <2>6. stats' \in [StatFields -> Nat] /\ \A k \in Counters : stats'[k] <= MaxCount
    BY <2>2, <2>3, <2>4, <2>5
  <2> QED  BY <1>1, <2>2, <2>4, <2>6, SpendType DEF BooksOK
<1> QED  BY <1>8, <1>9, <1>10, <1>11 DEF IInv

LEMMA MatchedReplySafe ==
    ASSUME IInv, HandleMatchedReply
    PROVE  IInv'
<1>1. SlotsOK /\ BooksOK /\ HistoryOK /\ RepliesOK /\ InitialisedStateIsValid
  BY DEF IInv
<1>2. PICK i \in Indices :
         /\ EndMatched(i)
         /\ \/ /\ events' = {Event("RESPONSE_RECEIVED", pending[i].request, pending[i].retries)}
               /\ Count([responses_matched |-> 1])
            \/ /\ events' = {Event("ERROR_RECEIVED", pending[i].request, pending[i].retries)}
               /\ Count([errors_matched |-> 1])
  BY DEF HandleMatchedReply
<1>3. pending[i] \in SlotRecord
  BY <1>1 DEF SlotsOK
<1>4. pending' \in [Indices -> SlotRecord]
      /\ \A j \in Indices : pending'[j].active =>
            pending[j].active /\ pending'[j].sequence = pending[j].sequence
  BY <1>1, <1>2 DEF EndMatched, SlotsOK, SlotRecord
<1>5. UNCHANGED <<manager, clock, issued, sequenceOf>> /\ result' = "OK"
  BY DEF HandleMatchedReply, history
<1>6. SlotsOK' /\ HistoryOK'
  BY <1>1, <1>4, <1>5 DEF SlotsOK, HistoryOK
<1>7. InitialisedStateIsValid'
  BY <1>1, <1>4, <1>5, <1>6, StateCheckKept DEF HandleMatchedReply, PendingStateIsValid
<1>8. BooksOK'
  BY <1>1, <1>2, CountBooks
<1>9. events' \subseteq EventRecord
  <2>1. pending[i].request \in Requests \cup {0} /\ pending[i].retries \in 0 .. MaxRetries
    BY <1>3 DEF SlotRecord
  <2> QED  BY <1>2, <2>1 DEF Event, EventRecord, EventTypes
<1> QED
  BY <1>1, <1>5, <1>6, <1>7, <1>8, <1>9 DEF IInv, RepliesOK, Answers, ChannelResults

\* A scan retries within the limit and reopens nothing.
LEMMA ScanSafe ==
    ASSUME IInv, PendingStateIsValid, NEW pushed \in [Retryable -> ChannelResults], Scan(pushed)
    PROVE  IInv'
<1>1. SlotsOK /\ BooksOK /\ HistoryOK /\ RepliesOK /\ InitialisedStateIsValid
  BY DEF IInv
<1>2. /\ pending' = Scanned(pushed) /\ UNCHANGED <<manager, clock, issued, sequenceOf, spent>>
      /\ result' \in ChannelResults
      /\ events' = {Event("REQUEST_TIMEOUT", pending[i].request, pending[i].retries) : i \in Exhausted}
  BY DEF Scan, history
<1>3. \A i \in Indices : pending[i] \in SlotRecord
  BY <1>1 DEF SlotsOK
<1>4. ASSUME NEW i \in Retryable
      PROVE  /\ Retried(pending[i]) \in SlotRecord
             /\ Retried(pending[i]).active = pending[i].active
             /\ Retried(pending[i]).sequence = pending[i].sequence
  <2>1. i \in Indices /\ pending[i].retries < MaxRetries
    BY <1>3 DEF Retryable, Exhausted, Due, Active, SlotRecord
  <2>2. pending[i] \in SlotRecord /\ pending[i].retries + 1 \in 0 .. MaxRetries
    BY <1>3, <2>1 DEF SlotRecord
  <2>3. Deadline(clock) \in 0 .. MaxTime
    BY <1>1, DeadlineType DEF RepliesOK
  <2> QED  BY <2>2, <2>3 DEF Retried, SlotRecord
<1>5. ASSUME NEW i \in Indices
      PROVE  /\ Scanned(pushed)[i] \in SlotRecord
             /\ Scanned(pushed)[i].active => pending[i].active
             /\ Scanned(pushed)[i].sequence = pending[i].sequence
  <2>1. /\ [pending[i] EXCEPT !.active = FALSE] \in SlotRecord
        /\ ~[pending[i] EXCEPT !.active = FALSE].active
        /\ [pending[i] EXCEPT !.active = FALSE].sequence = pending[i].sequence
    BY <1>3 DEF SlotRecord
  <2>2. \/ Scanned(pushed)[i] = [pending[i] EXCEPT !.active = FALSE]
        \/ Scanned(pushed)[i] = pending[i]
        \/ i \in Retryable /\ Scanned(pushed)[i] = Retried(pending[i])
    BY DEF Scanned
  <2> QED  BY <1>3, <1>4, <2>1, <2>2
<1>6. pending' \in [Indices -> SlotRecord]
  BY <1>2, <1>5 DEF Scanned
<1>7. SlotsOK' /\ HistoryOK'
  BY <1>1, <1>2, <1>6 DEF SlotsOK, HistoryOK
<1>8. InitialisedStateIsValid'
  BY <1>1, <1>2, <1>5, <1>7, StateCheckKept DEF PendingStateIsValid
<1>9. RepliesOK'
  <2>1. \A i \in Exhausted : Event("REQUEST_TIMEOUT", pending[i].request, pending[i].retries)
                                \in EventRecord
    <3> TAKE i \in Exhausted
    <3>1. pending[i] \in SlotRecord
      BY <1>3 DEF Exhausted, Due, Active
    <3>2. pending[i].request \in Requests \cup {0} /\ pending[i].retries \in 0 .. MaxRetries
      BY <3>1 DEF SlotRecord
    <3> QED  BY <3>2 DEF Event, EventRecord, EventTypes
  <2> QED  BY <1>1, <1>2, <2>1 DEF RepliesOK, Answers
<1>10. BooksOK'
  <2> DEFINE accepted == Cardinality({i \in Retryable : pushed[i] = "OK"})
             amounts == [frames_sent |-> accepted, retries_sent |-> accepted,
                         send_failures |-> Cardinality(Retryable) - accepted,
                         request_timeouts |-> Cardinality(Exhausted)]
  <2>1. /\ accepted \in Nat /\ Cardinality(Retryable) - accepted \in Nat
        /\ Cardinality(Exhausted) \in Nat
    <3>1. Retryable \subseteq Active /\ Exhausted \subseteq Active
      BY DEF Retryable, Exhausted, Due
    <3>2. IsFiniteSet(Retryable) /\ IsFiniteSet(Exhausted)
      BY <3>1, ActiveFinite, FS_Subset
    <3>3. IsFiniteSet({i \in Retryable : pushed[i] = "OK"}) /\ accepted <= Cardinality(Retryable)
      BY <3>2, FS_Subset
    <3>4. accepted \in Nat /\ Cardinality(Retryable) \in Nat /\ Cardinality(Exhausted) \in Nat
      BY <3>2, <3>3, FS_CardinalityType
    <3> QED  BY <3>3, <3>4
  <2>2. stats' = Counted(amounts) /\ account' = Audited(amounts)
    BY DEF Scan, Tally
  <2> HIDE DEF accepted
  <2>3. \A k \in DOMAIN amounts : amounts[k] \in Nat
    BY <2>1
  <2> HIDE DEF amounts
  <2>4. /\ Counted(amounts) \in [StatFields -> Nat]
        /\ \A k \in Counters : Counted(amounts)[k] <= MaxCount
        /\ Audited(amounts) \in AccountRecord
    BY <1>1, <2>3, CountedType
  <2> QED  BY <1>1, <1>2, <2>2, <2>4 DEF BooksOK
<1> QED  BY <1>7, <1>8, <1>9, <1>10 DEF IInv

LEMMA StepSafe == IInv /\ [Next]_vars => IInv'
BY SetUpSafe, QuietSafe, RequestIsSentSafe, MatchedReplySafe, ScanSafe
DEF Next, SendRequest, HandleFrame, ProcessTimeouts

LEMMA InvariantSafe == Spec => []IInv
BY InitSafe, StepSafe, PTL DEF Spec

\* The variables keep their types for any slots, sequences, limits and clock.
THEOREM TypeCorrect == Spec => []TypeOK
<1>1. IInv => TypeOK
  BY DEF IInv, SlotsOK, BooksOK, HistoryOK, RepliesOK, TypeOK, SlotRecord, ManagerRecord,
         AccountRecord, EventRecord, Answers
<1> QED  BY <1>1, InvariantSafe, PTL

\* For any number of slots and sequences, smaller ones included, and any retry
\* limit and clock: no sequence of calls brings an initialised manager into a
\* state its own check refuses, so open requests never share a sequence, none
\* has sequence 0, and none is retried more often than configured.
THEOREM Safety == Spec => []InitialisedStateIsValid
BY InvariantSafe, PTL DEF IInv
-------------------------------------------------------------------------------
(* The counters. *)

BooksBalance == (account.exact => manager.hasStats) /\ CountersExplainPending

BIInv == IInv /\ BooksBalance

\* The counters that CountersExplainPending speaks of.
Explaining == {"requests_sent", "responses_matched", "errors_matched", "request_timeouts",
               "frames_sent", "retries_sent"}

LEMMA BookTypes ==
    ASSUME BooksOK
    PROVE  /\ Explaining \subseteq Counters /\ Counters \subseteq StatFields
           /\ "pending_peak" \in StatFields \ Counters
           /\ \A k \in StatFields : stats[k] \in Nat
           /\ account.exact \in BOOLEAN /\ account.carry \in Int /\ account.others \in Nat
BY DEF BooksOK, StatFields, Counters, Explaining, AccountRecord

\* While the books stay open, every amount is counted in full.
LEMMA CountedExactly ==
    ASSUME BooksOK, account.exact => manager.hasStats,
           NEW amounts, \A k \in DOMAIN amounts : k \in StatFields /\ amounts[k] \in Nat,
           Audited(amounts).exact
    PROVE  /\ account.exact /\ manager.hasStats /\ Audited(amounts) = account
           /\ \A k \in StatFields :
                 Counted(amounts)[k] = IF k \in DOMAIN amounts THEN stats[k] + amounts[k]
                                       ELSE stats[k]
<1>1. Audited(amounts) = account /\ ~Saturates(amounts)
  BY DEF Audited, Closed
<1>2. account.exact /\ manager.hasStats
  BY <1>1
<1>3. \A k \in StatFields : stats[k] \in Nat
  BY DEF BooksOK
<1>4. ASSUME NEW k \in DOMAIN amounts
      PROVE  Sum(stats[k], amounts[k]) = stats[k] + amounts[k]
  <2>1. stats[k] \in Nat /\ amounts[k] \in Nat /\ ~(stats[k] + amounts[k] > MaxCount)
    BY <1>1, <1>3 DEF Saturates
  <2> QED  BY <2>1 DEF Sum
<1>5. \A k \in StatFields :
         Counted(amounts)[k] = IF k \in DOMAIN amounts THEN stats[k] + amounts[k] ELSE stats[k]
  BY <1>2, <1>4 DEF Counted
<1> QED  BY <1>1, <1>2, <1>5

\* A call that changes no slot and counts nothing that explains them.
LEMMA QuietBalance ==
    ASSUME IInv, BooksBalance, manager'.hasStats = manager.hasStats, Active' = Active,
           \/ UNCHANGED <<stats, account>>
           \/ \E amounts : /\ Tally(amounts)
                           /\ \A k \in DOMAIN amounts :
                                 k \in Counters \ Explaining /\ amounts[k] \in Nat
    PROVE  BooksBalance'
<1>1. BooksOK /\ (account.exact => manager.hasStats)
  BY DEF IInv, BooksBalance
<1>2. CASE UNCHANGED <<stats, account>>
  BY <1>2 DEF BooksBalance, CountersExplainPending
<1>3. ASSUME NEW amounts, Tally(amounts), account'.exact,
             \A k \in DOMAIN amounts : k \in Counters \ Explaining /\ amounts[k] \in Nat
      PROVE  manager'.hasStats /\ CountersExplainPending'
  <2>1. \A k \in DOMAIN amounts : k \in StatFields /\ amounts[k] \in Nat
    BY <1>1, <1>3, BookTypes
  <2>2. /\ account.exact /\ manager.hasStats /\ account' = account
        /\ \A k \in StatFields : k \notin DOMAIN amounts => stats'[k] = stats[k]
    BY <1>1, <1>3, <2>1, CountedExactly DEF Tally
  <2>3. \A k \in Explaining \cup {"pending_peak"} : stats'[k] = stats[k]
    BY <1>1, <1>3, <2>2, BookTypes
  <2> QED
    BY <2>2, <2>3 DEF BooksBalance, CountersExplainPending, Explaining
<1> QED  BY <1>2, <1>3 DEF BooksBalance, CountersExplainPending

\* What has to be shown of a call that counts "amounts" and changes the slots.
LEMMA TallyBalance ==
    ASSUME IInv, BooksBalance, manager'.hasStats = manager.hasStats,
           NEW amounts, \A k \in DOMAIN amounts : k \in Counters /\ amounts[k] \in Nat,
           account' = Audited(amounts),
           stats' \in [StatFields -> Nat], \A k \in Counters : stats'[k] = Counted(amounts)[k],
           NEW total \in Nat, Cardinality(Active') = total,
           (account.exact /\ account'.exact) => stats'["pending_peak"] >= total,
           LET of(k) == IF k \in DOMAIN amounts THEN amounts[k] ELSE 0
           IN  /\ Cardinality(Active) + of("requests_sent")
                     = total + of("responses_matched") + of("errors_matched")
                             + of("request_timeouts")
               /\ of("frames_sent") = of("requests_sent") + of("retries_sent")
    PROVE  BooksBalance'
<1> SUFFICES ASSUME account'.exact PROVE manager'.hasStats /\ CountersExplainPending'
  BY DEF BooksBalance, CountersExplainPending
<1> DEFINE of(k) == IF k \in DOMAIN amounts THEN amounts[k] ELSE 0
<1>1. BooksOK /\ (account.exact => manager.hasStats)
  BY DEF IInv, BooksBalance
<1>2. \A k \in DOMAIN amounts : k \in StatFields /\ amounts[k] \in Nat
  BY <1>1, BookTypes
<1>3. /\ account.exact /\ manager.hasStats /\ account' = account
      /\ \A k \in StatFields : Counted(amounts)[k] = IF k \in DOMAIN amounts
                                                     THEN stats[k] + amounts[k] ELSE stats[k]
  BY <1>1, <1>2, CountedExactly
<1>4. \A k \in Explaining : stats'[k] = stats[k] + of(k) /\ stats[k] \in Nat /\ of(k) \in Nat
  BY <1>1, <1>2, <1>3, BookTypes
<1>5. /\ Cardinality(Active) + of("requests_sent")
            = total + of("responses_matched") + of("errors_matched") + of("request_timeouts")
      /\ of("frames_sent") = of("requests_sent") + of("retries_sent")
  OBVIOUS
<1> HIDE DEF of
<1>6. /\ account.carry + stats["requests_sent"]
            = Cardinality(Active) + stats["responses_matched"]
              + stats["errors_matched"] + stats["request_timeouts"]
      /\ stats["frames_sent"] = stats["requests_sent"] + stats["retries_sent"] + account.others
  BY <1>3 DEF BooksBalance, CountersExplainPending
<1>7. account.carry \in Int /\ account.others \in Nat /\ Cardinality(Active) \in Nat
  BY <1>1, BookTypes, ActiveFinite
<1>8. CountersExplainPending'
  <2>1. /\ stats'["requests_sent"] = stats["requests_sent"] + of("requests_sent")
        /\ stats'["responses_matched"] = stats["responses_matched"] + of("responses_matched")
        /\ stats'["errors_matched"] = stats["errors_matched"] + of("errors_matched")
        /\ stats'["request_timeouts"] = stats["request_timeouts"] + of("request_timeouts")
        /\ stats'["frames_sent"] = stats["frames_sent"] + of("frames_sent")
        /\ stats'["retries_sent"] = stats["retries_sent"] + of("retries_sent")
    BY <1>4 DEF Explaining
  <2>2. \A k \in Explaining : stats[k] \in Nat /\ of(k) \in Nat
    BY <1>4
  <2>3. account.carry + stats'["requests_sent"]
           = total + stats'["responses_matched"]
             + stats'["errors_matched"] + stats'["request_timeouts"]
    BY <1>5, <1>6, <1>7, <2>1, <2>2 DEF Explaining
  <2>4. stats'["frames_sent"] = stats'["requests_sent"] + stats'["retries_sent"] + account.others
    BY <1>5, <1>6, <1>7, <2>1, <2>2 DEF Explaining
  <2> QED  BY <1>3, <2>3, <2>4 DEF CountersExplainPending
<1> QED  BY <1>3, <1>8

LEMMA SetUpBalance ==
    ASSUME BIInv, InitManager \/ Reset \/ ResetStats
    PROVE  BooksBalance'
<1>1. /\ SlotsOK /\ BooksOK /\ BooksBalance /\ manager \in ManagerRecord
      /\ Cardinality(Active) \in Nat /\ Cardinality({}) = 0
  BY ActiveFinite, FS_EmptySet DEF BIInv, IInv, SlotsOK
<1>2. pending' = Cleared => Active' = {}
  BY <1>1, ClearedSlots DEF Active, SlotsOK
<1>3. CASE InitManager
  <2>1. PICK withStats \in BOOLEAN :
           /\ manager' = [initialized |-> TRUE, next_sequence |-> 1, hasStats |-> withStats]
           /\ stats' = IF withStats THEN ZeroStats(0) ELSE stats
           /\ account' = [Closed EXCEPT !.exact = withStats]
    BY <1>3, StatsModesAssumption DEF InitManager
  <2>2. account' = [exact |-> withStats, carry |-> 0, others |-> 0] /\ manager'.hasStats = withStats
    BY <2>1 DEF Closed
  <2>3. Cardinality(Active') = 0
    BY <1>1, <1>2, <1>3 DEF InitManager
  <2>4. withStats => \A k \in StatFields : stats'[k] = 0
    BY <2>1 DEF ZeroStats
  <2>5. withStats => CountersExplainPending'
    BY <2>2, <2>3, <2>4 DEF CountersExplainPending, StatFields, Counters
  <2> QED  BY <2>2, <2>5 DEF BooksBalance, CountersExplainPending
<1>4. CASE Reset
  <2>1. /\ manager'.hasStats = manager.hasStats /\ stats' = stats /\ account \in AccountRecord
        /\ account' = [account EXCEPT !.carry =
                          IF account.exact THEN account.carry - Cardinality(Active) ELSE 0]
    BY <1>1, <1>4 DEF Reset, ManagerRecord, BooksOK
  <2>2. Cardinality(Active') = 0
    BY <1>1, <1>2, <1>4 DEF Reset
  <2>3. account'.exact = account.exact /\ account'.others = account.others
        /\ (account.exact => account'.carry = account.carry - Cardinality(Active))
    BY <2>1 DEF AccountRecord
  <2>4. account.exact => CountersExplainPending'
    <3>1. \A k \in Explaining \cup {"pending_peak"} : stats[k] \in Nat
      BY <1>1, BookTypes
    <3>2. account.exact =>
             /\ account.carry + stats["requests_sent"]
                   = Cardinality(Active) + stats["responses_matched"]
                     + stats["errors_matched"] + stats["request_timeouts"]
             /\ stats["frames_sent"] = stats["requests_sent"] + stats["retries_sent"] + account.others
      BY <1>1 DEF BooksBalance, CountersExplainPending
    <3>3. account.carry \in Int /\ account.others \in Nat
      BY <1>1, BookTypes
    <3> QED
      BY <1>1, <2>1, <2>2, <2>3, <3>1, <3>2, <3>3 DEF CountersExplainPending, Explaining
  <2> QED  BY <1>1, <2>1, <2>3, <2>4 DEF BooksBalance, CountersExplainPending
<1>5. CASE ResetStats
  <2>1. /\ manager' = manager /\ manager.hasStats
        /\ account' = [exact |-> TRUE, carry |-> Cardinality(Active), others |-> 0]
        /\ Active' = Active
    BY <1>5 DEF ResetStats, Active
  <2>2. \A k \in StatFields : stats'[k] = IF k = "pending_peak" THEN Cardinality(Active) ELSE 0
    BY <1>5 DEF ResetStats, ZeroStats
  <2>3. CountersExplainPending'
    BY <1>1, <2>1, <2>2 DEF CountersExplainPending, StatFields, Counters
  <2> QED  BY <2>1, <2>3 DEF BooksBalance
<1> QED  BY <1>3, <1>4, <1>5

\* A frame that is neither request nor retry is one of the others.
LEMMA SendOtherBalance ==
    ASSUME BIInv, SendOther
    PROVE  BooksBalance'
<1>1. IInv /\ BooksOK /\ BooksBalance /\ account \in AccountRecord /\ manager' = manager
      /\ Active' = Active
  BY DEF BIInv, IInv, BooksOK, SendOther, Active
<1>2. PICK r \in ChannelResults :
         IF r = "OK"
         THEN /\ stats' = Counted([frames_sent |-> 1])
              /\ account' = IF Saturates([frames_sent |-> 1]) THEN Closed
                            ELSE [account EXCEPT !.others = IF account.exact THEN @ + 1 ELSE 0]
         ELSE Count([send_failures |-> 1])
  BY DEF SendOther
<1>3. CASE r # "OK"
  <2> DEFINE amounts == [send_failures |-> 1]
  <2>1. \A k \in DOMAIN amounts : k \in Counters \ Explaining /\ amounts[k] \in Nat
    BY DEF Counters, Explaining
  <2>2. Tally(amounts)
    BY <1>2, <1>3 DEF Count
  <2> HIDE DEF amounts
  <2> QED  BY <1>1, <2>1, <2>2, QuietBalance
<1>4. CASE r = "OK"
  <2> SUFFICES ASSUME account'.exact PROVE manager'.hasStats /\ CountersExplainPending'
    BY DEF BooksBalance, CountersExplainPending
  <2> DEFINE amounts == [frames_sent |-> 1]
  <2>1. /\ stats' = Counted(amounts) /\ ~Saturates(amounts)
        /\ account' = [account EXCEPT !.others = IF account.exact THEN account.others + 1 ELSE 0]
    BY <1>2, <1>4 DEF Closed
  <2>2. account.exact /\ account'.others = account.others + 1 /\ account'.carry = account.carry
    BY <1>1, <2>1 DEF AccountRecord
  <2>3. \A k \in DOMAIN amounts : k \in StatFields /\ amounts[k] \in Nat
    BY DEF Counters, StatFields
  <2>4. DOMAIN amounts = {"frames_sent"} /\ amounts["frames_sent"] = 1
    OBVIOUS
  <2> HIDE DEF amounts
  <2>5. \A k \in StatFields : stats'[k] = IF k \in DOMAIN amounts THEN stats[k] + amounts[k] ELSE stats[k]
    <3>1. Audited(amounts).exact
      BY <2>1, <2>2 DEF Audited
    <3> QED  BY <1>1, <2>1, <2>3, <3>1, CountedExactly DEF BooksBalance
  <2>6. \A k \in Explaining \cup {"pending_peak"} :
           /\ stats'[k] = IF k = "frames_sent" THEN stats[k] + 1 ELSE stats[k]
           /\ stats[k] \in Nat
    BY <1>1, <2>4, <2>5, BookTypes
  <2>7. account.others \in Nat /\ account.carry \in Int
    BY <1>1, BookTypes
  <2> QED
    BY <1>1, <2>2, <2>6, <2>7 DEF BooksBalance, CountersExplainPending, Explaining
<1> QED  BY <1>3, <1>4

LEMMA RequestIsSentBalance ==
    ASSUME BIInv, RequestIsSent
    PROVE  BooksBalance'
<1>1. IInv /\ BooksBalance /\ SlotsOK /\ BooksOK
  BY DEF BIInv, IInv
<1>2. PICK i \in Indices, n \in SearchSteps : FirstFree(i) /\ RegisterRequest(i, Ahead(n))
  BY DEF RequestIsSent
<1> DEFINE total == Cardinality(Active) + 1
<1>3. Active' = Active \cup {i} /\ i \notin Active
  BY <1>1, <1>2 DEF RegisterRequest, FirstFree, Active, SlotsOK
<1>4. Cardinality(Active') = total /\ total \in Nat
  <2>1. Cardinality(Active \cup {i}) = Cardinality(Active) + 1
    BY <1>3, ActiveFinite, FS_AddElement
  <2> QED  BY <1>3, <2>1, ActiveFinite
<1>5. manager'.hasStats = manager.hasStats
  BY <1>1, <1>2 DEF RegisterRequest, SlotsOK, ManagerRecord
<1> DEFINE amounts == [frames_sent |-> 1, requests_sent |-> 1]
           counted == Counted(amounts)
           peak == IF manager.hasStats /\ total > counted["pending_peak"]
                   THEN total ELSE counted["pending_peak"]
<1>6. stats' = [counted EXCEPT !["pending_peak"] = peak] /\ account' = Audited(amounts)
  BY DEF RequestIsSent
<1>7. /\ \A k \in DOMAIN amounts : k \in Counters /\ amounts[k] \in Nat
      /\ amounts["frames_sent"] = 1 /\ amounts["requests_sent"] = 1
      /\ DOMAIN amounts = {"frames_sent", "requests_sent"}
  BY DEF Counters
<1> HIDE DEF amounts
<1>8. counted \in [StatFields -> Nat]
  BY <1>1, <1>7, CountedType
<1> HIDE DEF counted, total
<1>9. /\ stats' \in [StatFields -> Nat] /\ \A k \in Counters : stats'[k] = counted[k]
      /\ stats'["pending_peak"] = peak
  BY <1>1, <1>4, <1>6, <1>8, BookTypes
<1>10. account.exact => stats'["pending_peak"] >= total
  <2>1. account.exact => manager.hasStats
    BY <1>1 DEF BooksBalance
  <2>2. counted["pending_peak"] \in Nat
    BY <1>1, <1>8, BookTypes
  <2> QED  BY <1>4, <1>9, <2>1, <2>2
<1>11. LET of(k) == IF k \in DOMAIN amounts THEN amounts[k] ELSE 0
       IN  /\ Cardinality(Active) + of("requests_sent")
                 = total + of("responses_matched") + of("errors_matched")
                         + of("request_timeouts")
           /\ of("frames_sent") = of("requests_sent") + of("retries_sent")
  BY <1>4, <1>7, ActiveFinite DEF total
<1> QED
  BY <1>1, <1>4, <1>5, <1>6, <1>7, <1>9, <1>10, <1>11, TallyBalance DEF counted

LEMMA MatchedReplyBalance ==
    ASSUME BIInv, HandleMatchedReply
    PROVE  BooksBalance'
<1>1. IInv /\ BooksBalance /\ SlotsOK /\ BooksOK /\ manager' = manager
  BY DEF BIInv, IInv, HandleMatchedReply
<1>2. PICK i \in Active : EndMatched(i) /\
         \E amounts \in {[responses_matched |-> 1], [errors_matched |-> 1]} : Count(amounts)
  BY DEF HandleMatchedReply, FirstMatch
<1>3. PICK amounts \in {[responses_matched |-> 1], [errors_matched |-> 1]} : Tally(amounts)
  BY <1>2 DEF Count
<1> DEFINE total == Cardinality(Active) - 1
<1>4. Active' = Active \ {i}
  BY <1>1, <1>2 DEF EndMatched, Active, SlotsOK, SlotRecord
<1>5. Cardinality(Active') = total /\ total \in Nat
  <2>1. Cardinality(Active \ {i}) = Cardinality(Active) - 1
    BY <1>2, ActiveFinite, FS_RemoveElement
  <2>2. IsFiniteSet(Active \ {i})
    BY ActiveFinite, FS_Subset
  <2> QED  BY <1>4, <2>1, <2>2, FS_CardinalityType
<1>6. /\ \A k \in DOMAIN amounts : k \in Counters /\ amounts[k] \in Nat
      /\ \E k \in {"responses_matched", "errors_matched"} : DOMAIN amounts = {k} /\ amounts[k] = 1
  BY <1>3 DEF Counters
<1> HIDE DEF total
<1>7. stats' = Counted(amounts) /\ account' = Audited(amounts) /\ stats' \in [StatFields -> Nat]
  BY <1>1, <1>3, <1>6, CountedType DEF Tally
<1>8. (account.exact /\ account'.exact) => stats'["pending_peak"] >= total
  <2> SUFFICES ASSUME account.exact, account'.exact PROVE stats'["pending_peak"] >= total
    OBVIOUS
  <2>1. \A k \in DOMAIN amounts : k \in StatFields /\ amounts[k] \in Nat
    BY <1>1, <1>6, BookTypes
  <2>2. stats'["pending_peak"] = stats["pending_peak"]
    BY <1>1, <1>6, <1>7, <2>1, CountedExactly, BookTypes DEF BooksBalance
  <2>3. stats["pending_peak"] >= Cardinality(Active) /\ stats["pending_peak"] \in Nat
    BY <1>1, ActiveFinite, BookTypes DEF BooksBalance, CountersExplainPending
  <2> QED  BY <2>2, <2>3, <1>5, ActiveFinite DEF total
<1>9. LET of(k) == IF k \in DOMAIN amounts THEN amounts[k] ELSE 0
      IN  /\ Cardinality(Active) + of("requests_sent")
                = total + of("responses_matched") + of("errors_matched")
                        + of("request_timeouts")
          /\ of("frames_sent") = of("requests_sent") + of("retries_sent")
  BY <1>6, ActiveFinite DEF total
<1> QED  BY <1>1, <1>5, <1>6, <1>7, <1>8, <1>9, TallyBalance

\* The requests that a scan ends are the timeouts it counts, and each frame it
\* sends is a retry.
LEMMA ScanBalance ==
    ASSUME BIInv, NEW pushed \in [Retryable -> ChannelResults], Scan(pushed)
    PROVE  BooksBalance'
<1>1. IInv /\ BooksBalance /\ SlotsOK /\ BooksOK /\ manager' = manager
  BY DEF BIInv, IInv, Scan
<1> DEFINE accepted == Cardinality({i \in Retryable : pushed[i] = "OK"})
           ended == Cardinality(Exhausted)
           total == Cardinality(Active) - ended
           amounts == [frames_sent |-> accepted, retries_sent |-> accepted,
                       send_failures |-> Cardinality(Retryable) - accepted,
                       request_timeouts |-> ended]
<1>2. Retryable \subseteq Active /\ Exhausted \subseteq Active /\ Retryable \cap Exhausted = {}
  BY DEF Retryable, Exhausted, Due
<1>3. IsFiniteSet(Retryable) /\ IsFiniteSet(Exhausted) /\ IsFiniteSet(Active)
  BY <1>2, ActiveFinite, FS_Subset
<1>4. /\ accepted \in Nat /\ Cardinality(Retryable) - accepted \in Nat /\ ended \in Nat
  <2>1. IsFiniteSet({i \in Retryable : pushed[i] = "OK"}) /\ accepted <= Cardinality(Retryable)
    BY <1>3, FS_Subset
  <2>2. accepted \in Nat /\ Cardinality(Retryable) \in Nat /\ ended \in Nat
    BY <1>3, <2>1, FS_CardinalityType
  <2> QED  BY <2>1, <2>2
<1>5. Active' = Active \ Exhausted
  <2>1. \A i \in Indices : pending[i] \in SlotRecord
    BY <1>1 DEF SlotsOK
  <2>2. \A i \in Indices :
           Scanned(pushed)[i].active = (pending[i].active /\ i \notin Exhausted)
    BY <2>1 DEF Scanned, Retried, SlotRecord, Exhausted, Due, Active
  <2>3. pending' = Scanned(pushed)
    BY DEF Scan
  <2> QED  BY <2>1, <2>2, <2>3 DEF Active
<1>6. Cardinality(Active') = total /\ total \in Nat
  <2>1. Active \ Exhausted \subseteq Active /\ IsFiniteSet(Active \ Exhausted)
    BY <1>3, FS_Subset
  <2>2. Cardinality(Active \ Exhausted) = Cardinality(Active) - Cardinality(Active \cap Exhausted)
    BY <1>3, FS_Difference
  <2>3. Active \cap Exhausted = Exhausted
    BY <1>2
  <2> QED  BY <1>5, <2>1, <2>2, <2>3, FS_CardinalityType
<1>7. stats' = Counted(amounts) /\ account' = Audited(amounts)
  BY DEF Scan, Tally
<1> HIDE DEF accepted, ended
<1>8. /\ \A k \in DOMAIN amounts : k \in Counters /\ amounts[k] \in Nat
      /\ DOMAIN amounts = {"frames_sent", "retries_sent", "send_failures", "request_timeouts"}
      /\ amounts["frames_sent"] = accepted /\ amounts["retries_sent"] = accepted
      /\ amounts["request_timeouts"] = ended
  BY <1>4 DEF Counters
<1> HIDE DEF amounts
<1>9. stats' \in [StatFields -> Nat]
  BY <1>1, <1>7, <1>8, CountedType
<1>10. (account.exact /\ account'.exact) => stats'["pending_peak"] >= total
  <2> SUFFICES ASSUME account.exact, account'.exact PROVE stats'["pending_peak"] >= total
    OBVIOUS
  <2>1. \A k \in DOMAIN amounts : k \in StatFields /\ amounts[k] \in Nat
    BY <1>1, <1>8, BookTypes
  <2>2. stats'["pending_peak"] = stats["pending_peak"]
    BY <1>1, <1>7, <1>8, <2>1, CountedExactly, BookTypes DEF BooksBalance
  <2>3. stats["pending_peak"] >= Cardinality(Active) /\ stats["pending_peak"] \in Nat
    BY <1>1, ActiveFinite, BookTypes DEF BooksBalance, CountersExplainPending
  <2> QED  BY <1>4, <2>2, <2>3, ActiveFinite
<1>11. LET of(k) == IF k \in DOMAIN amounts THEN amounts[k] ELSE 0
       IN  /\ Cardinality(Active) + of("requests_sent")
                 = total + of("responses_matched") + of("errors_matched")
                         + of("request_timeouts")
           /\ of("frames_sent") = of("requests_sent") + of("retries_sent")
  BY <1>4, <1>8, ActiveFinite
<1> HIDE DEF total
<1> QED  BY <1>1, <1>6, <1>7, <1>8, <1>9, <1>10, <1>11, TallyBalance

LEMMA StepBalances == BIInv /\ [Next]_vars => BooksBalance'
<1> SUFFICES ASSUME BIInv, [Next]_vars PROVE BooksBalance'
  OBVIOUS
<1>1. IInv /\ BooksBalance
  BY DEF BIInv
<1>2. CASE Tick \/ RefuseInvalid \/ RequestFindsNoSequence \/ RefuseSequenceZero
           \/ HandleUnsupportedFrame \/ UNCHANGED vars
  <2>1. UNCHANGED <<manager, pending, stats, account>>
    BY <1>2 DEF Tick, RefuseInvalid, RequestFindsNoSequence, RefuseSequenceZero,
                HandleUnsupportedFrame, vars
  <2> QED  BY <1>1, <2>1, QuietBalance DEF Active
<1>3. CASE RequestFindsPendingFull \/ RequestIsNotAccepted \/ HandleRequestOrReport
           \/ HandleUnmatchedReply
  <2>1. UNCHANGED <<manager, pending>>
    BY <1>3 DEF RequestFindsPendingFull, RequestIsNotAccepted, HandleRequestOrReport,
                HandleUnmatchedReply
  <2>2. PICK amounts \in {[pending_full_count |-> 1], [send_failures |-> 1],
                          [requests_received |-> 1], [reports_received |-> 1],
                          [unmatched_replies |-> 1]} : Tally(amounts)
    BY <1>3 DEF RequestFindsPendingFull, RequestIsNotAccepted, HandleRequestOrReport,
                HandleUnmatchedReply, Count
  <2>3. \A k \in DOMAIN amounts : k \in Counters \ Explaining /\ amounts[k] \in Nat
    BY <2>2 DEF Counters, Explaining
  <2> QED  BY <1>1, <2>1, <2>2, <2>3, QuietBalance DEF Active
<1> QED
  BY <1>2, <1>3, SetUpBalance, SendOtherBalance, RequestIsSentBalance, MatchedReplyBalance,
     ScanBalance
  DEF Next, SendRequest, HandleFrame, ProcessTimeouts

\* As long as no counter has saturated, each request counted as sent is open, or
\* was counted once as answered, refused or timed out, or was cancelled by a
\* reset; each accepted frame is a request, a retry or one of the others; and
\* the peak is no lower than what is open.
THEOREM CountersSafe == Spec => []CountersExplainPending
<1>1. Init => BooksBalance
  BY DEF Init, BooksBalance, CountersExplainPending, Closed
<1>2. BIInv => CountersExplainPending
  BY DEF BIInv, BooksBalance
<1> QED  BY <1>1, <1>2, StepBalances, InitSafe, StepSafe, PTL DEF Spec, BIInv

-------------------------------------------------------------------------------
(* The distance between two requests with the same sequence.  The cursor goes *)
(* round; on its first lap after request k it passes over a sequence without  *)
(* giving it out only if an open request has it, and that request stands in   *)
(* its way since k was sent.                                                  *)

\* The sequence o steps from s, and how many lie between s and t on the way round.
Around(s, o) == IF s + o <= MaxSequence THEN s + o ELSE s + o - MaxSequence
Gap(s, t) == IF t > s THEN t - s - 1 ELSE t - s - 1 + MaxSequence

\* How far the cursor has come, in sequences, from the one after request k's.
Distance(k) == Gap(sequenceOf[k], manager.next_sequence)

\* The distances at which the cursor has yet to pass a sequence in use.
InTheWay(k) ==
    {o \in 1 .. MaxSequence - 1 :
        o > Distance(k) /\ SequenceIsActive(Around(sequenceOf[k], o))}

Distant(k) == issued - k > MaxSequence - PendingCapacity
OnFirstLap(k) == Distance(k) + Cardinality(InTheWay(k)) < PendingCapacity + issued - k

Spread ==
    \A k \in Requests :
        sequenceOf[k] # 0 => /\ manager.initialized /\ k <= issued
                             /\ Distant(k) \/ OnFirstLap(k)

RIInv == IInv /\ Spread /\ ReuseIsDistant

LEMMA AroundType ==
    ASSUME NEW s \in Sequences, NEW o \in 0 .. MaxSequence
    PROVE  /\ Around(s, o) \in Sequences
           /\ o \in 1 .. MaxSequence - 1 => Around(s, o) # s
           /\ o = 0 => Around(s, o) = s
BY DEF Around, Sequences

LEMMA AroundInjective ==
    ASSUME NEW s \in Sequences, NEW o \in 1 .. MaxSequence, NEW p \in 1 .. MaxSequence,
           Around(s, o) = Around(s, p)
    PROVE  o = p
BY DEF Around, Sequences

LEMMA AroundTwice ==
    ASSUME NEW s \in Sequences, NEW o \in 0 .. MaxSequence, NEW p \in 0 .. MaxSequence
    PROVE  Around(Around(s, o), p) = IF o + p <= MaxSequence THEN Around(s, o + p)
                                     ELSE Around(s, o + p - MaxSequence)
BY DEF Around, Sequences

LEMMA GapType ==
    ASSUME NEW s \in Sequences, NEW t \in Sequences
    PROVE  Gap(s, t) \in 0 .. MaxSequence - 1 /\ t = Around(s, Gap(s, t) + 1)
BY DEF Gap, Around, Sequences

LEMMA GapOfAround ==
    ASSUME NEW s \in Sequences, NEW o \in 1 .. MaxSequence
    PROVE  Gap(s, Around(s, o)) = o - 1
BY DEF Gap, Around, Sequences

LEMMA GapOfNext ==
    ASSUME NEW s \in Sequences, NEW o \in 0 .. MaxSequence - 1
    PROVE  Gap(s, NextSequence(Around(s, o))) = o
BY DEF Gap, Around, NextSequence, Sequences

LEMMA SearchIsAround ==
    ASSUME manager.next_sequence \in Sequences
    PROVE  \A n \in Int : Ahead(n) = Around(manager.next_sequence, n)
BY DEF Ahead, Around, Sequences

LEMMA DistanceType ==
    ASSUME HistoryOK, manager \in ManagerRecord, manager.next_sequence # 0,
           NEW k \in Requests, sequenceOf[k] # 0
    PROVE  /\ Distance(k) \in 0 .. MaxSequence - 1
           /\ sequenceOf[k] \in Sequences /\ manager.next_sequence \in Sequences
           /\ manager.next_sequence = Around(sequenceOf[k], Distance(k) + 1)
           /\ issued \in Nat /\ k \in Nat
<1>1. sequenceOf[k] \in Sequences /\ manager.next_sequence \in Sequences
      /\ issued \in Nat /\ k \in Nat
  BY DEF HistoryOK, ManagerRecord, Requests
<1> QED  BY <1>1, GapType DEF Distance

LEMMA InTheWayFinite ==
    ASSUME NEW k
    PROVE  /\ IsFiniteSet(InTheWay(k)) /\ Cardinality(InTheWay(k)) \in Nat
           /\ IsFiniteSet(InTheWay(k)') /\ Cardinality(InTheWay(k)') \in Nat
<1>1. IsFiniteSet(1 .. MaxSequence - 1)
  <2>1. 1 \in Int /\ MaxSequence - 1 \in Int
    OBVIOUS
  <2> QED  BY <2>1, FS_Interval
<1>2. InTheWay(k) \subseteq 1 .. MaxSequence - 1 /\ InTheWay(k)' \subseteq 1 .. MaxSequence - 1
  BY DEF InTheWay
<1>3. IsFiniteSet(InTheWay(k)) /\ IsFiniteSet(InTheWay(k)')
  BY <1>1, <1>2, FS_Subset
<1> QED  BY <1>3, FS_CardinalityType

\* Requests that end make way; nothing else moves.
LEMMA EndingSpreads ==
    ASSUME RIInv, UNCHANGED history,
           manager'.initialized = manager.initialized,
           manager'.next_sequence = manager.next_sequence,
           \A i \in Indices : pending'[i].active =>
              /\ pending[i].active
              /\ pending'[i].sequence = pending[i].sequence
    PROVE  Spread' /\ ReuseIsDistant'
<1>1. ReuseIsDistant'
  BY DEF RIInv, ReuseIsDistant, history
<1>2. ASSUME NEW k \in Requests, sequenceOf[k] # 0
      PROVE  Distant(k)' \/ OnFirstLap(k)'
  <2>1. Distance(k)' = Distance(k)
    BY DEF Distance, history
  <2>2. InTheWay(k)' \subseteq InTheWay(k)
    BY <2>1 DEF InTheWay, SequenceIsActive, Active, history
  <2>3. Cardinality(InTheWay(k)') <= Cardinality(InTheWay(k))
    BY <2>2, InTheWayFinite, FS_Subset
  <2>4. CASE Distant(k)
    BY <2>4 DEF Distant, history
  <2>5. CASE OnFirstLap(k)
    <3>1. Distance(k) \in 0 .. MaxSequence - 1 /\ issued \in Nat /\ k \in Nat
      <4>1. manager \in ManagerRecord /\ HistoryOK /\ manager.next_sequence # 0
        BY <1>2 DEF RIInv, IInv, SlotsOK, Spread, InitialisedStateIsValid, PendingStateIsValid
      <4> QED  BY <1>2, <4>1, DistanceType
    <3>2. issued' = issued /\ PendingCapacity \in Nat
      BY DEF history
    <3>3. Cardinality(InTheWay(k)) \in Nat /\ Cardinality(InTheWay(k)') \in Nat
      BY InTheWayFinite
    <3>4. Distance(k) + Cardinality(InTheWay(k)) < PendingCapacity + issued - k
      BY <2>5 DEF OnFirstLap
    <3>5. Distance(k)' + Cardinality(InTheWay(k)') < PendingCapacity + issued' - k
      BY <2>1, <2>3, <3>1, <3>2, <3>3, <3>4
    <3> QED  BY <3>5 DEF OnFirstLap
  <2> QED  BY <1>2, <2>4, <2>5 DEF RIInv, Spread
<1> QED  BY <1>1, <1>2 DEF RIInv, Spread, history

\* The request just sent has the whole round before it, and at most the other
\* slots' requests in its way.
LEMMA NewRequestSpreads ==
    ASSUME IInv', NEW k \in Requests, k = issued', sequenceOf'[k] # 0,
           manager'.next_sequence = NextSequence(sequenceOf'[k]), manager'.initialized,
           NEW slot \in Active', pending'[slot].sequence = sequenceOf'[k]
    PROVE  OnFirstLap(k)'
<1> DEFINE s == sequenceOf'[k]
           others == Active' \ {slot}
           f == [i \in others |-> Gap(s, pending'[i].sequence) + 1]
           Far == {f[i] : i \in others}
<1>1. /\ s \in Sequences /\ k \in Nat
      /\ \A i \in Active' : pending'[i].sequence \in Sequences
  <2>1. PendingStateIsValid'
    BY DEF IInv, InitialisedStateIsValid
  <2>2. \A i \in Active' : pending'[i].sequence \in Sequences
    BY <2>1 DEF IInv, SlotsOK, SlotRecord, PendingStateIsValid, Active
  <2> QED  BY <2>2 DEF IInv, HistoryOK, Requests
<1>2. Distance(k)' = 0
  <2>1. Distance(k)' = Gap(s, NextSequence(s))
    BY DEF Distance
  <2>2. Around(s, 0) = s /\ 0 \in 0 .. MaxSequence - 1 /\ 0 \in 0 .. MaxSequence
    BY <1>1, AroundType
  <2>3. Gap(s, NextSequence(Around(s, 0))) = 0
    BY <1>1, <2>2, GapOfNext
  <2> QED  BY <2>1, <2>2, <2>3
<1>3. InTheWay(k)' \subseteq Far
  <2> SUFFICES ASSUME NEW o \in InTheWay(k)' PROVE o \in Far
    OBVIOUS
  <2>1. PICK i \in Active' : pending'[i].sequence = Around(s, o)
    BY DEF InTheWay, SequenceIsActive
  <2>2. o \in 1 .. MaxSequence - 1 /\ o \in 1 .. MaxSequence /\ o \in 0 .. MaxSequence
    BY DEF InTheWay
  <2>3. Around(s, o) # s /\ Gap(s, Around(s, o)) = o - 1
    BY <1>1, <2>2, AroundType, GapOfAround
  <2>4. i \in others
    BY <2>1, <2>3
  <2>5. f[i] = Gap(s, Around(s, o)) + 1
    BY <2>1, <2>4
  <2>6. f[i] = o
    BY <2>2, <2>3, <2>5
  <2> QED  BY <2>4, <2>6
<1>4. IsFiniteSet(Active') /\ Cardinality(Active') <= PendingCapacity
  <2>1. 1 \in Int /\ PendingCapacity \in Int
    OBVIOUS
  <2>2. IsFiniteSet(Indices) /\ Cardinality(Indices) = PendingCapacity
    BY <2>1, FS_Interval DEF Indices
  <2>3. Active' \subseteq Indices
    BY DEF Active, Indices
  <2> QED  BY <2>2, <2>3, FS_Subset
<1>5. IsFiniteSet(others) /\ Cardinality(others) <= PendingCapacity - 1
      /\ Cardinality(others) \in Nat
  <2>1. Cardinality(others) = Cardinality(Active') - 1 /\ IsFiniteSet(others)
    BY <1>4, FS_RemoveElement
  <2>2. Cardinality(others) \in Nat /\ Cardinality(Active') \in Nat
    BY <1>4, <2>1, FS_CardinalityType
  <2> QED  BY <1>4, <2>1, <2>2
<1>6. IsFiniteSet(Far) /\ Cardinality(Far) <= Cardinality(others)
  <2>1. f \in Surjection(others, Far)
    BY DEF Surjection
  <2> HIDE DEF others, f, Far
  <2> QED  BY <1>5, <2>1, FS_Surjection
<1> HIDE DEF Far, others
<1>7. Cardinality(InTheWay(k)') <= Cardinality(Far) /\ Cardinality(Far) \in Nat
  BY <1>3, <1>6, FS_Subset, FS_CardinalityType
<1>8. Cardinality(InTheWay(k)') \in Nat
  BY InTheWayFinite
<1>9. Distance(k)' + Cardinality(InTheWay(k)') < PendingCapacity + issued' - k
  BY <1>1, <1>2, <1>5, <1>6, <1>7, <1>8
<1> QED  BY <1>9 DEF OnFirstLap

\* An earlier request: the cursor moves on over sequences in use, each of which
\* stood in its way, to the first free one.
LEMMA OldRequestSpreads ==
    ASSUME RIInv, IInv', NEW k \in Requests, sequenceOf[k] # 0, sequenceOf'[k] = sequenceOf[k],
           PendingStateIsValid,
           NEW n \in 0 .. MaxSequence - 1, \A m \in 0 .. n - 1 : SequenceIsActive(Ahead(m)),
           NEW i \in Indices, pending'[i].sequence = Ahead(n),
           \A j \in Indices \ {i} : pending'[j] = pending[j],
           manager'.next_sequence = NextSequence(Ahead(n)), issued' = issued + 1
    PROVE  /\ Distant(k)' \/ OnFirstLap(k)'
           /\ Ahead(n) = sequenceOf[k] => issued + 1 - k > MaxSequence - PendingCapacity
<1> DEFINE d == Distance(k)
           s == sequenceOf[k]
           blocking == Cardinality(InTheWay(k))
<1>1. /\ d \in 0 .. MaxSequence - 1 /\ s \in Sequences /\ manager.next_sequence \in Sequences
      /\ manager.next_sequence = Around(s, d + 1) /\ issued \in Nat /\ k \in Nat
  BY DistanceType DEF RIInv, IInv, SlotsOK, PendingStateIsValid
<1>2. \A m \in 0 .. MaxSequence - 1 :
         d + 1 + m <= MaxSequence => Ahead(m) = Around(s, d + 1 + m)
  <2> TAKE m \in 0 .. MaxSequence - 1
  <2> HAVE d + 1 + m <= MaxSequence
  <2>1. d + 1 \in 0 .. MaxSequence /\ m \in 0 .. MaxSequence /\ m \in Int
    BY <1>1
  <2>2. Ahead(m) = Around(Around(s, d + 1), m)
    BY <1>1, <2>1, SearchIsAround
  <2> HIDE DEF d, s
  <2>3. Around(Around(s, d + 1), m) = Around(s, d + 1 + m)
    BY <1>1, <2>1, AroundTwice
  <2> QED  BY <2>2, <2>3
<1>3. blocking \in Nat /\ IsFiniteSet(InTheWay(k))
      /\ Cardinality(InTheWay(k)') \in Nat /\ IsFiniteSet(InTheWay(k)')
  BY InTheWayFinite
<1>4. \A o \in d + 1 .. MaxSequence - 1 : o < d + 1 + n => o \in InTheWay(k)
  <2> TAKE o \in d + 1 .. MaxSequence - 1
  <2> HAVE o < d + 1 + n
  <2> DEFINE m == o - d - 1
  <2>1. /\ m \in 0 .. n - 1 /\ m \in 0 .. MaxSequence - 1 /\ d + 1 + m <= MaxSequence
        /\ d + 1 + m = o /\ o \in 1 .. MaxSequence - 1 /\ o > d
    BY <1>1
  <2> HIDE DEF m, d, s
  <2>2. SequenceIsActive(Around(s, o))
    BY <1>2, <2>1
  <2> QED  BY <2>1, <2>2 DEF InTheWay, d, s
<1>5. CASE Distant(k)
  <2>1. issued + 1 - k > MaxSequence - PendingCapacity
    BY <1>1, <1>5 DEF Distant
  <2>2. Distant(k)'
    BY <1>1, <2>1 DEF Distant
  <2> QED  BY <2>1, <2>2
<1>6. ASSUME OnFirstLap(k) PROVE d + blocking < PendingCapacity + issued - k
  BY <1>6 DEF OnFirstLap
<1>7. CASE OnFirstLap(k) /\ d + 1 + n >= MaxSequence
  <2>1. d + 1 .. MaxSequence - 1 \subseteq InTheWay(k)
    BY <1>1, <1>4, <1>7
  <2>2. Cardinality(d + 1 .. MaxSequence - 1) = MaxSequence - 1 - d
    <3>1. d + 1 \in Int /\ MaxSequence - 1 \in Int /\ ~(d + 1 > MaxSequence)
          /\ (d + 1 > MaxSequence - 1 => MaxSequence - 1 - d = 0)
          /\ (MaxSequence - 1) - (d + 1) + 1 = MaxSequence - 1 - d
      BY <1>1
    <3> HIDE DEF d
    <3> QED  BY <3>1, FS_Interval
  <2>3. blocking >= MaxSequence - 1 - d
    BY <1>3, <2>1, <2>2, FS_Subset
  <2> HIDE DEF d, blocking
  <2>4. issued + 1 - k > MaxSequence - PendingCapacity
    BY <1>1, <1>3, <1>6, <1>7, <2>3
  <2>5. Distant(k)'
    BY <1>1, <2>4 DEF Distant
  <2> QED  BY <2>4, <2>5
<1>8. CASE OnFirstLap(k) /\ d + 1 + n < MaxSequence
  <2> DEFINE passed == d + 1 .. d + n
  <2>1. d + 1 + n \in 1 .. MaxSequence - 1 /\ d + 1 + n \in 0 .. MaxSequence
        /\ d + 1 + n \in 0 .. MaxSequence - 1 /\ d + 1 + n \in 1 .. MaxSequence
    BY <1>1, <1>8
  <2>2. Ahead(n) = Around(s, d + 1 + n)
    BY <1>2, <2>1
  <2>3. Ahead(n) # s /\ Ahead(n) \in Sequences
    <3> HIDE DEF d, s
    <3> QED  BY <1>1, <2>1, <2>2, AroundType
  <2>4. Distance(k)' = d + 1 + n
    <3>1. Distance(k)' = Gap(s, NextSequence(Around(s, d + 1 + n)))
      BY <2>2 DEF Distance
    <3> HIDE DEF d, s
    <3> QED  BY <1>1, <2>1, <3>1, GapOfNext
  <2>5. passed \subseteq InTheWay(k)
    BY <1>1, <1>4, <1>8
  <2>6. InTheWay(k)' \subseteq InTheWay(k) \ passed
    <3> SUFFICES ASSUME NEW o \in InTheWay(k)' PROVE o \in InTheWay(k) \ passed
      OBVIOUS
    <3>1. o \in 1 .. MaxSequence - 1 /\ o > d + 1 + n /\ SequenceIsActive(Around(s, o))'
      BY <2>4 DEF InTheWay
    <3>2. PICK j \in Active' : pending'[j].sequence = Around(s, o)
      BY <3>1 DEF SequenceIsActive
    <3>3. Around(s, o) # Ahead(n)
      <4>1. o \in 1 .. MaxSequence /\ o # d + 1 + n
        BY <1>1, <3>1
      <4> HIDE DEF d, s
      <4> QED  BY <1>1, <2>1, <2>2, <4>1, AroundInjective
    <3>4. j \in Active /\ pending[j].sequence = Around(s, o)
      BY <3>2, <3>3 DEF Active
    <3>5. SequenceIsActive(Around(s, o))
      BY <3>4 DEF SequenceIsActive
    <3>6. o > d /\ o \notin passed
      BY <1>1, <3>1
    <3> QED  BY <3>1, <3>5, <3>6 DEF InTheWay
  <2>7. Cardinality(passed) = n /\ IsFiniteSet(passed)
    <3>1. d + 1 \in Int /\ d + n \in Int /\ (d + n) - (d + 1) + 1 = n
          /\ (d + 1 > d + n => n = 0)
      BY <1>1
    <3> HIDE DEF d
    <3> QED  BY <3>1, FS_Interval
  <2>8. InTheWay(k) \cap passed = passed
    BY <2>5
  <2> HIDE DEF passed
  <2>9. Cardinality(InTheWay(k) \ passed) = blocking - n /\ IsFiniteSet(InTheWay(k) \ passed)
    <3>1. /\ IsFiniteSet(InTheWay(k) \ passed)
          /\ Cardinality(InTheWay(k) \ passed)
                = Cardinality(InTheWay(k)) - Cardinality(InTheWay(k) \cap passed)
      BY <1>3, FS_Difference
    <3> QED  BY <2>7, <2>8, <3>1
  <2>10. Cardinality(InTheWay(k)') <= blocking - n
    BY <2>6, <2>9, FS_Subset
  <2> HIDE DEF blocking, d
  <2>11. Distance(k)' + Cardinality(InTheWay(k)') < PendingCapacity + issued' - k
    BY <1>1, <1>3, <1>6, <1>8, <2>4, <2>10
  <2>12. OnFirstLap(k)'
    BY <2>11 DEF OnFirstLap
  <2> QED  BY <2>3, <2>12
<1>9. Distant(k) \/ OnFirstLap(k)
  BY DEF RIInv, Spread
<1> QED
  <2>1. d + 1 + n >= MaxSequence \/ d + 1 + n < MaxSequence
    BY <1>1
  <2> QED  BY <1>5, <1>7, <1>8, <1>9, <2>1

LEMMA RequestIsSentSpreads ==
    ASSUME RIInv, IInv', RequestIsSent
    PROVE  Spread' /\ ReuseIsDistant'
<1>1. /\ IInv /\ SlotsOK /\ HistoryOK /\ Spread /\ ReuseIsDistant /\ PendingStateIsValid
      /\ manager \in ManagerRecord /\ manager.initialized /\ manager.next_sequence # 0
  BY DEF RIInv, IInv, SlotsOK, RequestIsSent, PendingStateIsValid
<1>2. PICK i \in Indices, n \in SearchSteps :
         FirstFree(i) /\ (\A m \in SearchSteps : n <= m) /\ RegisterRequest(i, Ahead(n))
  BY DEF RequestIsSent
<1>0. issued + 1 \in Requests
  BY <1>1 DEF RequestIsSent, HistoryOK, Requests
<1> PICK new \in Requests : new = issued + 1
  BY <1>0
<1> DEFINE q == Ahead(n)
<1>3. n \in 0 .. MaxSequence - 1 /\ q \in Sequences
  BY <1>1, AheadType DEF SearchSteps
<1>4. \A m \in 0 .. n - 1 : SequenceIsActive(Ahead(m))
  <2> TAKE m \in 0 .. n - 1
  <2>1. m \in 0 .. MaxSequence - 1 /\ ~(n <= m)
    BY <1>3
  <2> QED  BY <1>2, <2>1 DEF SearchSteps
<1>5. new = issued + 1 /\ issued \in Nat /\ \A k \in Requests : k \in Nat
  BY <1>1 DEF HistoryOK, Requests
<1>6. /\ issued' = new /\ sequenceOf' = [sequenceOf EXCEPT ![new] = q]
      /\ manager' = [manager EXCEPT !.next_sequence = NextSequence(q)]
      /\ pending' = [pending EXCEPT ![i] =
                        [active |-> TRUE, sequence |-> q, request |-> new,
                         deadline |-> Deadline(clock), retries |-> 0]]
  BY <1>2, <1>5 DEF RegisterRequest
<1> HIDE DEF q
<1>7. /\ manager'.next_sequence = NextSequence(q) /\ manager'.initialized
      /\ pending'[i].active /\ pending'[i].sequence = q
      /\ \A j \in Indices \ {i} : pending'[j] = pending[j]
  BY <1>1, <1>6 DEF SlotsOK, ManagerRecord
<1>8. /\ sequenceOf'[new] = q /\ q # 0
      /\ \A k \in Requests : k # new => sequenceOf'[k] = sequenceOf[k]
  BY <1>1, <1>3, <1>5, <1>6 DEF HistoryOK, Sequences
<1>9. \A k \in Requests : sequenceOf[k] # 0 => k <= issued
  BY <1>1 DEF Spread
<1>10. OnFirstLap(new)'
  <2>1. i \in Active'
    BY <1>7 DEF Active
  <2> QED  BY <1>5, <1>6, <1>7, <1>8, <2>1, NewRequestSpreads
<1>11. ASSUME NEW k \in Requests, k # new, sequenceOf'[k] # 0
       PROVE  /\ Distant(k)' \/ OnFirstLap(k)'
              /\ q = sequenceOf[k] => new - k > MaxSequence - PendingCapacity
              /\ k <= issued
  <2>1. sequenceOf'[k] = sequenceOf[k] /\ sequenceOf[k] # 0
    BY <1>8, <1>11
  <2>2. /\ Distant(k)' \/ OnFirstLap(k)'
        /\ Ahead(n) = sequenceOf[k] => issued + 1 - k > MaxSequence - PendingCapacity
    BY <1>1, <1>3, <1>4, <1>5, <1>6, <1>7, <2>1, OldRequestSpreads DEF q
  <2>3. q = sequenceOf[k] => new - k > MaxSequence - PendingCapacity
    BY <1>5, <2>2 DEF q
  <2>4. k <= issued
    BY <1>9, <2>1
  <2> QED  BY <2>2, <2>3, <2>4
<1>12. Spread'
  <2> SUFFICES ASSUME NEW k \in Requests, sequenceOf'[k] # 0
               PROVE  k <= issued' /\ (Distant(k)' \/ OnFirstLap(k)')
    BY <1>7 DEF Spread
  <2>1. CASE k = new
    BY <1>5, <1>6, <1>10, <2>1
  <2>2. CASE k # new
    BY <1>5, <1>6, <1>11, <2>2
  <2> QED  BY <2>1, <2>2
<1>13. ReuseIsDistant'
  <2> SUFFICES ASSUME NEW k \in Requests, NEW m \in Requests, k < m,
                      sequenceOf'[k] = sequenceOf'[m], sequenceOf'[m] # 0
               PROVE  m - k > MaxSequence - PendingCapacity
    BY DEF ReuseIsDistant
  <2>1. CASE m = new
    BY <1>5, <1>8, <1>11, <2>1
  <2>2. CASE m # new
    <3>1. k # new
      BY <1>5, <1>11, <2>2
    <3> QED  BY <1>1, <1>8, <2>2, <3>1 DEF ReuseIsDistant
  <2> QED  BY <2>1, <2>2
<1> QED  BY <1>12, <1>13

LEMMA StepSpreads ==
    ASSUME RIInv, [Next]_vars
    PROVE  Spread' /\ ReuseIsDistant'
<1>1. IInv /\ IInv' /\ SlotsOK /\ \A i \in Indices : pending[i] \in SlotRecord
  BY StepSafe DEF RIInv, IInv, SlotsOK
<1>2. CASE InitManager \/ Reset
  <2>1. sequenceOf' = NoSequences
    BY <1>2 DEF InitManager, Reset
  <2> QED  BY <2>1 DEF NoSequences, Spread, ReuseIsDistant
<1>3. CASE UNCHANGED <<manager, pending, history>>
  BY <1>3, EndingSpreads
<1>4. CASE HandleMatchedReply
  <2>1. UNCHANGED <<manager, history>> /\ \E i \in Indices : EndMatched(i)
    BY <1>4 DEF HandleMatchedReply
  <2>2. \A i \in Indices : pending'[i].active =>
           pending[i].active /\ pending'[i].sequence = pending[i].sequence
    BY <1>1, <2>1 DEF EndMatched, SlotsOK, SlotRecord
  <2> QED  BY <2>1, <2>2, EndingSpreads
<1>5. ASSUME NEW pushed \in [Retryable -> ChannelResults], Scan(pushed)
      PROVE  Spread' /\ ReuseIsDistant'
  <2>1. UNCHANGED <<manager, history>> /\ pending' = Scanned(pushed)
    BY <1>5 DEF Scan
  <2>2. \A i \in Indices : pending'[i].active =>
           pending[i].active /\ pending'[i].sequence = pending[i].sequence
    BY <1>1, <2>1 DEF Scanned, Retried, SlotRecord
  <2> QED  BY <2>1, <2>2, EndingSpreads
<1>6. CASE \/ Tick \/ ResetStats \/ RefuseInvalid \/ RequestFindsPendingFull
           \/ RequestFindsNoSequence \/ RequestIsNotAccepted \/ SendOther \/ RefuseSequenceZero
           \/ HandleRequestOrReport \/ HandleUnmatchedReply \/ HandleUnsupportedFrame
           \/ UNCHANGED vars
  <2>1. UNCHANGED <<manager, pending, history>>
    BY <1>6 DEF Tick, ResetStats, RefuseInvalid, RequestFindsPendingFull, RequestFindsNoSequence,
           RequestIsNotAccepted, SendOther, RefuseSequenceZero, HandleRequestOrReport,
           HandleUnmatchedReply, HandleUnsupportedFrame, vars, history
  <2> QED  BY <1>3, <2>1
<1> QED
  BY <1>1, <1>2, <1>4, <1>5, <1>6, RequestIsSentSpreads
  DEF Next, SendRequest, HandleFrame, ProcessTimeouts

\* For any number of slots and sequences: two requests sent since the last reset
\* share a sequence only if more than MaxSequence - PendingCapacity requests lie
\* between them, so a late reply is taken for that to a newer request only after
\* almost a whole round of the sequences.
THEOREM ReuseSafe == Spec => []ReuseIsDistant
<1>1. Init => Spread /\ ReuseIsDistant
  BY DEF Init, NoSequences, Spread, ReuseIsDistant
<1>2. RIInv /\ [Next]_vars => RIInv'
  BY StepSafe, StepSpreads DEF RIInv
<1>3. RIInv => ReuseIsDistant
  BY DEF RIInv
<1>4. Init => RIInv
  BY <1>1, InitSafe DEF RIInv
<1> QED  BY <1>2, <1>3, <1>4, PTL DEF Spec

================================================================================
