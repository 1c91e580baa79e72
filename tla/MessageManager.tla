---------------------------- MODULE MessageManager ----------------------------
(***************************************************************************)
(* src/src/comm_message_manager.c: requests in flight, their sequence       *)
(* numbers, retries and timeouts.  One task owns the manager, so a call is   *)
(* one action; the callback does not re-enter it.                           *)
(*                                                                          *)
(* A frame is known by its type, its sequence and, as a history, by the     *)
(* number of the request it carries or answers.  The transmit channel is    *)
(* external: it accepts a frame or fails in one of its ways at every push.  *)
(* The peer may answer a request that was ever transmitted, at any time and *)
(* any number of times, which covers lost, late and duplicated replies.     *)
(***************************************************************************)
EXTENDS Integers, FiniteSets

CONSTANTS
    PendingCapacity,    \* number of slots the caller provides
    MaxSequence,        \* UINT16_MAX
    ResponseTimeout,    \* config.response_timeout_ms
    MaxRetries,         \* config.max_retries
    MaxTime,            \* UINT64_MAX, in milliseconds
    MaxCount,           \* UINT64_MAX, where the counters saturate
    StatsModes,         \* subset of BOOLEAN: with and/or without statistics
    MaxRequests,        \* bound: requests sent
    MaxCalls            \* bound: sends and received frames that are counted

ASSUME PendingCapacityAssumption == PendingCapacity \in Nat \ {0}
ASSUME MaxSequenceAssumption == MaxSequence \in Nat \ {0}
ASSUME TimeAssumption == ResponseTimeout \in Nat \ {0} /\ MaxTime \in Nat /\ MaxRetries \in Nat
ASSUME StatsModesAssumption == StatsModes \subseteq BOOLEAN
ASSUME BoundsAssumption == MaxCount \in Nat \ {0} /\ MaxRequests \in Nat /\ MaxCalls \in Nat

VARIABLES
    manager,    \* comm_message_manager_t: initialized, next_sequence, hasStats
    pending,    \* the caller's array of comm_message_pending_t
    stats,      \* comm_message_manager_stats_t
    clock,      \* the caller's monotonic milliseconds, passed as now_ms
    result,     \* of the latest call
    events,     \* the events the latest call handed to the callback
    issued,     \* history: number of requests sent, the name of the latest
    sequenceOf, \* history: the sequence given to each since the last reset, or 0
    account,    \* history: pending requests that the counters do not explain
    spent       \* number of counting calls made (bounded by MaxCalls)

vars == <<manager, pending, stats, clock, result, events, issued, sequenceOf,
          account, spent>>
history == <<issued, sequenceOf>>

Indices == 1 .. PendingCapacity
Sequences == 1 .. MaxSequence       \* 0 is never given to a request
Requests == 1 .. MaxRequests
NoSequences == [k \in Requests |-> 0]

ChannelFailures == {"CHANNEL_TIMEOUT", "CHANNEL_CLOSED", "CHANNEL_ERROR"}
\* What comm_frame_channel_push returns, as map_channel_result translates it.
ChannelResults == {"OK"} \cup ChannelFailures

Counters == {"frames_sent", "requests_sent", "send_failures", "requests_received",
             "reports_received", "responses_matched", "errors_matched",
             "unmatched_replies", "retries_sent", "request_timeouts", "pending_full_count"}
StatFields == Counters \cup {"pending_peak"}
EventTypes == {"REQUEST_RECEIVED", "RESPONSE_RECEIVED", "REPORT_RECEIVED",
               "ERROR_RECEIVED", "REQUEST_TIMEOUT", "UNMATCHED_REPLY"}

Event(type, request, retries) == [type |-> type, request |-> request, retries |-> retries]

-------------------------------------------------------------------------------
\* Pending requests.

Active == {i \in Indices : pending[i].active}
ActiveIn(slots) == {i \in Indices : slots[i].active}
SequenceIsActive(s) == \E i \in Active : pending[i].sequence = s

\* comm_message_manager_next_sequence
NextSequence(s) == IF s = MaxSequence THEN 1 ELSE s + 1

\* Mutant: the search starts over at 1 for every request.
AheadOfOne(n) == n + 1

\* The candidate after n steps from the cursor.
Ahead(n) ==
    IF n <= MaxSequence - manager.next_sequence
    THEN manager.next_sequence + n
    ELSE manager.next_sequence + n - MaxSequence

\* Mutant: a sequence in use is not skipped.
SearchStepsUnchecked == {0}

\* How far the search may have to go before it meets a free sequence.
SearchSteps == {n \in 0 .. MaxSequence - 1 : ~SequenceIsActive(Ahead(n))}

FirstFree(i) == i \in Indices \ Active /\ \A j \in 1 .. i - 1 : j \in Active
FirstMatch(i, s) ==
    /\ i \in Active /\ pending[i].sequence = s
    /\ \A j \in 1 .. i - 1 : j \in Active => pending[j].sequence # s

\* comm_message_manager_make_deadline
Deadline(now) ==
    IF now > MaxTime - ResponseTimeout THEN MaxTime ELSE now + ResponseTimeout

\* comm_message_manager_has_valid_pending_state
PendingStateIsValid ==
    /\ manager.initialized /\ manager.next_sequence # 0
    /\ \A i \in Active :
          /\ pending[i].sequence # 0
          /\ pending[i].retries <= MaxRetries
          /\ \A j \in Active : j # i => pending[j].sequence # pending[i].sequence

Cleared == [i \in Indices |-> [pending[i] EXCEPT !.active = FALSE]]

-------------------------------------------------------------------------------
\* Statistics.

ZeroStats(peak) == [k \in StatFields |-> IF k = "pending_peak" THEN peak ELSE 0]

Sum(a, b) == IF a + b > MaxCount THEN MaxCount ELSE a + b

\* Counts "amounts", a record of counter names, if statistics are enabled.  A
\* saturated counter closes the books.
Counted(amounts) ==
    [k \in StatFields |->
        IF manager.hasStats /\ k \in DOMAIN amounts THEN Sum(stats[k], amounts[k]) ELSE stats[k]]
Saturates(amounts) == \E k \in DOMAIN amounts : stats[k] + amounts[k] > MaxCount
Closed == [exact |-> FALSE, carry |-> 0, others |-> 0]
Audited(amounts) == IF Saturates(amounts) THEN Closed ELSE account

Spend == /\ manager.hasStats => spent < MaxCalls
         /\ spent' = IF manager.hasStats THEN spent + 1 ELSE spent

Tally(amounts) == stats' = Counted(amounts) /\ account' = Audited(amounts)
Count(amounts) == Spend /\ Tally(amounts)

-------------------------------------------------------------------------------
Init ==
    /\ manager = [initialized |-> FALSE, next_sequence |-> 0, hasStats |-> FALSE]
    /\ pending = [i \in Indices |-> [active |-> FALSE, sequence |-> 0, request |-> 0,
                                     deadline |-> 0, retries |-> 0]]
    /\ stats = ZeroStats(0)
    /\ clock = 0
    /\ result = "NONE" /\ events = {}
    /\ issued = 0 /\ sequenceOf = NoSequences
    /\ account = Closed /\ spent = 0

Tick ==
    /\ clock < MaxTime
    /\ clock' = clock + 1
    /\ result' = "NONE" /\ events' = {}
    /\ UNCHANGED <<manager, pending, stats, history, account, spent>>

\* comm_message_manager_init / _init_with_stats, also on a manager in use.
InitManager ==
    /\ \E withStats \in StatsModes :
          /\ manager' = [initialized |-> TRUE, next_sequence |-> 1, hasStats |-> withStats]
          /\ stats' = IF withStats THEN ZeroStats(0) ELSE stats
          /\ account' = [Closed EXCEPT !.exact = withStats]
    /\ pending' = Cleared
    /\ sequenceOf' = NoSequences
    /\ result' = "OK" /\ events' = {}
    /\ UNCHANGED <<clock, issued, spent>>

\* comm_message_manager_reset: the statistics go on, and the requests that are
\* cancelled are counted nowhere.
Reset ==
    /\ manager.initialized
    /\ manager' = [manager EXCEPT !.next_sequence = 1]
    /\ pending' = Cleared
    /\ sequenceOf' = NoSequences
    /\ account' = [account EXCEPT !.carry = IF account.exact THEN @ - Cardinality(Active) ELSE 0]
    /\ result' = "OK" /\ events' = {}
    /\ UNCHANGED <<stats, clock, issued, spent>>

\* Mutant: the peak of the new period starts at zero.
ResetStatsForgetsPending ==
    /\ PendingStateIsValid /\ manager.hasStats
    /\ stats' = ZeroStats(0)
    /\ account' = [exact |-> TRUE, carry |-> Cardinality(Active), others |-> 0]
    /\ result' = "OK" /\ events' = {}
    /\ UNCHANGED <<manager, pending, clock, history, spent>>

ResetStats ==
    /\ PendingStateIsValid /\ manager.hasStats
    /\ stats' = ZeroStats(Cardinality(Active))
    /\ account' = [exact |-> TRUE, carry |-> Cardinality(Active), others |-> 0]
    /\ result' = "OK" /\ events' = {}
    /\ UNCHANGED <<manager, pending, clock, history, spent>>

RefuseInvalid ==
    /\ ~PendingStateIsValid
    /\ result' = "INVALID_STATE" /\ events' = {}
    /\ UNCHANGED <<manager, pending, stats, clock, history, account, spent>>

-------------------------------------------------------------------------------
\* comm_message_manager_send_request, by outcome.

RequestFindsPendingFull ==
    /\ PendingStateIsValid /\ Active = Indices
    /\ Count([pending_full_count |-> 1])
    /\ result' = "PENDING_FULL" /\ events' = {}
    /\ UNCHANGED <<manager, pending, clock, history>>

RequestFindsNoSequence ==
    /\ PendingStateIsValid /\ Active # Indices /\ SearchSteps = {}
    /\ result' = "SEQUENCE_EXHAUSTED" /\ events' = {}
    /\ UNCHANGED <<manager, pending, stats, clock, history, account, spent>>

RequestIsNotAccepted ==
    /\ PendingStateIsValid /\ Active # Indices /\ SearchSteps # {}
    /\ Count([send_failures |-> 1])
    /\ result' \in ChannelFailures /\ events' = {}
    /\ UNCHANGED <<manager, pending, clock, history>>

\* The channel accepted the frame: only now is the request registered.
RegisterRequest(i, s) ==
    /\ pending' = [pending EXCEPT ![i] =
                      [active |-> TRUE, sequence |-> s, request |-> issued + 1,
                       deadline |-> Deadline(clock), retries |-> 0]]
    /\ manager' = [manager EXCEPT !.next_sequence = NextSequence(s)]
    /\ issued' = issued + 1
    /\ sequenceOf' = [sequenceOf EXCEPT ![issued + 1] = s]

RequestIsSent ==
    /\ PendingStateIsValid /\ issued < MaxRequests
    /\ \E i \in Indices, n \in SearchSteps :
          /\ FirstFree(i)
          /\ \A m \in SearchSteps : n <= m
          /\ RegisterRequest(i, Ahead(n))
    /\ LET amounts == [frames_sent |-> 1, requests_sent |-> 1]
           depth == Cardinality(Active) + 1
       IN  /\ Spend
           /\ stats' = [Counted(amounts) EXCEPT !["pending_peak"] =
                           IF manager.hasStats /\ depth > @ THEN depth ELSE @]
           /\ account' = Audited(amounts)
    /\ result' = "OK" /\ events' = {}
    /\ UNCHANGED clock

\* comm_message_manager_send_response / _send_report / _send_error.  They need
\* a configured manager, and the replies a sequence other than 0.
SendOther ==
    /\ manager.initialized
    /\ \E r \in ChannelResults :
          /\ result' = r
          /\ IF r = "OK"
             THEN /\ stats' = Counted([frames_sent |-> 1])
                  /\ account' = IF Saturates([frames_sent |-> 1]) THEN Closed
                                ELSE [account EXCEPT !.others = IF account.exact THEN @ + 1 ELSE 0]
                  /\ Spend
             ELSE Count([send_failures |-> 1])
    /\ events' = {}
    /\ UNCHANGED <<manager, pending, clock, history>>

RefuseSequenceZero ==
    /\ manager.initialized
    /\ result' = "INVALID_SEQUENCE" /\ events' = {}
    /\ UNCHANGED <<manager, pending, stats, clock, history, account, spent>>

-------------------------------------------------------------------------------
\* comm_message_manager_handle_frame, by the kind of frame.

HandleRequestOrReport ==
    /\ PendingStateIsValid
    /\ \/ /\ events' = {Event("REQUEST_RECEIVED", 0, 0)}
          /\ Count([requests_received |-> 1])
       \/ /\ events' = {Event("REPORT_RECEIVED", 0, 0)}
          /\ Count([reports_received |-> 1])
    /\ result' = "OK"
    /\ UNCHANGED <<manager, pending, clock, history>>

\* The sequences a reply can carry: of a request ever transmitted, or anything
\* the peer makes up.
ReplySequences == 0 .. MaxSequence

\* The slot is released before the callback hears of it.
EndMatched(i) == pending' = [pending EXCEPT ![i].active = FALSE]

HandleMatchedReply ==
    /\ PendingStateIsValid
    /\ \E s \in ReplySequences, i \in Indices :
          /\ FirstMatch(i, s)
          /\ EndMatched(i)
          /\ \/ /\ events' = {Event("RESPONSE_RECEIVED", pending[i].request, pending[i].retries)}
                /\ Count([responses_matched |-> 1])
             \/ /\ events' = {Event("ERROR_RECEIVED", pending[i].request, pending[i].retries)}
                /\ Count([errors_matched |-> 1])
    /\ result' = "OK"
    /\ UNCHANGED <<manager, clock, history>>

HandleUnmatchedReply ==
    /\ PendingStateIsValid
    /\ \E s \in ReplySequences : ~SequenceIsActive(s)
    /\ Count([unmatched_replies |-> 1])
    /\ events' = {Event("UNMATCHED_REPLY", 0, 0)}
    /\ result' = "OK"
    /\ UNCHANGED <<manager, pending, clock, history>>

HandleUnsupportedFrame ==
    /\ PendingStateIsValid
    /\ result' = "UNSUPPORTED_FRAME_TYPE" /\ events' = {}
    /\ UNCHANGED <<manager, pending, stats, clock, history, account, spent>>

-------------------------------------------------------------------------------
\* comm_message_manager_process_timeouts.  A slot's fate depends on that slot
\* and on its own push alone, so the scan is stated slot by slot.

Due == {i \in Active : clock >= pending[i].deadline}
\* Mutant: one retry too many.
ExhaustedTooLate == {i \in Due : pending[i].retries > MaxRetries}
Exhausted == {i \in Due : pending[i].retries >= MaxRetries}
Retryable == Due \ Exhausted

\* Mutant: the deadline moves, but the retry is not counted.
RetriedUncounted(slot) == [slot EXCEPT !.deadline = Deadline(clock)]
Retried(slot) == [slot EXCEPT !.retries = @ + 1, !.deadline = Deadline(clock)]

\* Mutant: the scan gives up at the first push that is refused.
ScannedUntilFailure(pushed) ==
    LET failed == {i \in Retryable : pushed[i] # "OK"}
        reached(i) == \A j \in failed : i <= j
    IN  [i \in Indices |->
            IF i \in Exhausted /\ reached(i) THEN [pending[i] EXCEPT !.active = FALSE]
            ELSE IF i \in Retryable /\ reached(i) /\ pushed[i] = "OK" THEN Retried(pending[i])
            ELSE pending[i]]

\* "pushed" is what the channel answers for each slot that retransmits.  A
\* refused one keeps its state and stays due.
Scanned(pushed) ==
    [i \in Indices |->
        IF i \in Exhausted THEN [pending[i] EXCEPT !.active = FALSE]
        ELSE IF i \in Retryable /\ pushed[i] = "OK" THEN Retried(pending[i])
        ELSE pending[i]]

\* The first error met is what the call returns.
FirstFailure(pushed, r) ==
    \/ r = "OK" /\ \A i \in Retryable : pushed[i] = "OK"
    \/ \E i \in Retryable : /\ r # "OK" /\ pushed[i] = r
                            /\ \A j \in Retryable : j < i => pushed[j] = "OK"

Scan(pushed) ==
    LET accepted == Cardinality({i \in Retryable : pushed[i] = "OK"})
    IN  /\ pending' = Scanned(pushed)
        /\ events' = {Event("REQUEST_TIMEOUT", pending[i].request, pending[i].retries) : i \in Exhausted}
        /\ Tally([frames_sent |-> accepted, retries_sent |-> accepted,
                  send_failures |-> Cardinality(Retryable) - accepted,
                  request_timeouts |-> Cardinality(Exhausted)])
        /\ \E r \in ChannelResults : FirstFailure(pushed, r) /\ result' = r
        /\ UNCHANGED <<manager, clock, history, spent>>

ProcessTimeouts ==
    /\ PendingStateIsValid
    /\ \E pushed \in [Retryable -> ChannelResults] : Scan(pushed)

-------------------------------------------------------------------------------
SendRequest == RequestFindsPendingFull \/ RequestFindsNoSequence \/ RequestIsNotAccepted \/ RequestIsSent
HandleFrame == HandleRequestOrReport \/ HandleMatchedReply \/ HandleUnmatchedReply \/ HandleUnsupportedFrame

Next ==
    \/ Tick \/ InitManager \/ Reset \/ ResetStats \/ RefuseInvalid
    \/ SendRequest \/ SendOther \/ RefuseSequenceZero
    \/ HandleFrame \/ ProcessTimeouts

Spec == Init /\ [][Next]_vars

\* The owning task runs its loop for ever: the clock it reads advances and it
\* keeps scanning for timeouts.  The channel may refuse any number of frames, but
\* it does not refuse the retries of one request for ever.
ScanServes(i) ==
    /\ PendingStateIsValid /\ i \in Due
    /\ \E pushed \in [Retryable -> ChannelResults] :
          (i \in Retryable => pushed[i] = "OK") /\ Scan(pushed)
Fairness == WF_vars(Tick) /\ \A i \in Indices : WF_vars(ScanServes(i))
FairSpec == Spec /\ Fairness

-------------------------------------------------------------------------------
TypeOK ==
    /\ manager \in [initialized : BOOLEAN, next_sequence : Sequences \cup {0}, hasStats : BOOLEAN]
    /\ pending \in [Indices -> [active : BOOLEAN, sequence : Sequences \cup {0},
                                request : Requests \cup {0}, deadline : 0 .. MaxTime,
                                retries : 0 .. MaxRetries]]
    /\ stats \in [StatFields -> Nat] /\ \A k \in Counters : stats[k] <= MaxCount
    /\ clock \in 0 .. MaxTime
    /\ result \in {"NONE", "INVALID_STATE", "PENDING_FULL", "SEQUENCE_EXHAUSTED",
                  "INVALID_SEQUENCE", "UNSUPPORTED_FRAME_TYPE"} \cup ChannelResults
    /\ events \subseteq [type : EventTypes, request : Requests \cup {0}, retries : 0 .. MaxRetries]
    /\ issued \in Requests \cup {0} /\ sequenceOf \in [Requests -> Sequences \cup {0}]
    /\ account \in [exact : BOOLEAN, carry : Int, others : Nat]
    /\ spent \in 0 .. MaxCalls

\* No sequence of calls, wrap of the sequence numbers or retry brings an
\* initialised manager into a state its own check refuses: two requests never
\* share a sequence, none has sequence 0, none is retried too often, and the
\* cursor never stops at 0.  So INVALID_STATE is only answered before init.
InitialisedStateIsValid == manager.initialized => PendingStateIsValid

\* A late reply is taken for the reply to a newer request only if it is very
\* late: between two requests with the same sequence, since the last reset, at
\* least MaxSequence - PendingCapacity others were sent, since the cursor skips
\* at most the sequences of the other open requests on its way round.
ReuseIsDistant ==
    \A k, n \in Requests :
        (k < n /\ sequenceOf[k] = sequenceOf[n] /\ sequenceOf[n] # 0)
            => n - k > MaxSequence - PendingCapacity

\* The counters explain the open requests: each request counted as sent is open
\* or was counted once as answered, refused or timed out, unless a reset
\* cancelled it; every accepted frame is a request, a retry or one of the others.
CountersExplainPending ==
    account.exact =>
        /\ account.carry + stats["requests_sent"]
              = Cardinality(Active) + stats["responses_matched"]
                + stats["errors_matched"] + stats["request_timeouts"]
        /\ stats["frames_sent"] = stats["requests_sent"] + stats["retries_sent"] + account.others
        /\ Cardinality(Active) <= stats["pending_peak"]

\* Whatever happens to slots, sequences and pushes, a request accepted by the
\* channel ends exactly once, with the retries it really had; it times out only
\* when all its transmissions were made and the last was given a full window;
\* and a scan ends every request that is due and used up, and says OK only if
\* it left none due.
OpenRequests == {pending[i].request : i \in Active}
SlotOf(k) == CHOOSE i \in Active : pending[i].request = k
Entry(slot) == [attempts |-> slot.retries + 1, until |-> slot.deadline]
OpenEntries == [k \in OpenRequests |-> Entry(pending[SlotOf(k)])]
Ledger == INSTANCE RequestLedger WITH open <- OpenEntries
ImplementsLedger == Ledger!Spec

\* No request stays open for ever: the retries are counted, and after the last
\* one the request ends.
EveryRequestEnds == \A k \in Requests : k \in OpenRequests ~> k \notin OpenRequests
================================================================================
