-------------------------- MODULE MessageLedgerProofs --------------------------
(***************************************************************************)
(* The message manager keeps the ledger of its requests: every step of it is *)
(* a step of RequestLedger on the entries its active slots stand for, for    *)
(* any number of slots and sequences, any retry limit and any clock.        *)
(***************************************************************************)
EXTENDS MessageManagerProofs

USE PendingCapacityAssumption, MaxSequenceAssumption, TimeAssumption, BoundsAssumption

\* An active slot holds a request of its own, one that was sent.
Numbered ==
    \A i \in Active :
        /\ pending[i].request \in 1 .. issued
        /\ \A j \in Active : j # i => pending[j].request # pending[i].request

LIInv == IInv /\ Numbered

-------------------------------------------------------------------------------
(* Entries and slots. *)

LEMMA EntryOfSlot ==
    ASSUME Numbered, NEW i \in Active
    PROVE  /\ pending[i].request \in OpenRequests
           /\ OpenEntries[pending[i].request] = Entry(pending[i])
<1> DEFINE k == pending[i].request
<1>1. k \in OpenRequests
  BY DEF OpenRequests
<1>2. SlotOf(k) \in Active /\ pending[SlotOf(k)].request = k
  BY DEF SlotOf
<1>3. SlotOf(k) = i
  BY <1>2 DEF Numbered
<1> QED  BY <1>1, <1>3 DEF OpenEntries

LEMMA SlotOfEntry ==
    ASSUME NEW k \in OpenRequests
    PROVE  \E i \in Active : pending[i].request = k
BY DEF OpenRequests

LEMMA EntriesDomain == DOMAIN OpenEntries = OpenRequests
BY DEF OpenEntries

\* The entries after a step are known from the slots after it.
LEMMA EntriesAfter ==
    ASSUME Numbered', NEW E, E = [k \in OpenRequests' |-> E[k]],
           \A i \in Active' : E[pending'[i].request] = Entry(pending'[i])
    PROVE  OpenEntries' = E
<1>1. ASSUME NEW k \in OpenRequests'
      PROVE  Entry(pending'[SlotOf(k)']) = E[k]
  <2>1. \E i \in Active' : pending'[i].request = k
    BY DEF OpenRequests
  <2>2. SlotOf(k)' \in Active' /\ pending'[SlotOf(k)'].request = k
    BY <2>1 DEF SlotOf
  <2> QED  BY <2>2
<1>2. OpenEntries' = [k \in OpenRequests' |-> Entry(pending'[SlotOf(k)'])]
  BY DEF OpenEntries, Entry
<1> QED  BY <1>1, <1>2

-------------------------------------------------------------------------------
(* What the steps do to the active slots. *)

LEMMA SendOpens ==
    ASSUME IInv, RequestIsSent
    PROVE  \E i \in Indices \ Active :
              /\ Active' = Active \cup {i}
              /\ pending'[i].request = issued + 1
              /\ Entry(pending'[i]) = [attempts |-> 1, until |-> Deadline(clock)]
              /\ \A j \in Active : pending'[j] = pending[j]
              /\ issued' = issued + 1 /\ issued \in Nat
<1>1. SlotsOK /\ HistoryOK
  BY DEF IInv
<1>2. PICK i \in Indices, n \in SearchSteps : FirstFree(i) /\ RegisterRequest(i, Ahead(n))
  BY DEF RequestIsSent
<1> DEFINE slot == [active |-> TRUE, sequence |-> Ahead(n), request |-> issued + 1,
                    deadline |-> Deadline(clock), retries |-> 0]
<1>3. pending' = [pending EXCEPT ![i] = slot] /\ issued' = issued + 1
  BY <1>2 DEF RegisterRequest
<1>4. i \in Indices \ Active
  BY <1>2 DEF FirstFree
<1>5. slot.active /\ slot.request = issued + 1
      /\ Entry(slot) = [attempts |-> 1, until |-> Deadline(clock)]
  BY DEF Entry
<1>6. issued \in Nat
  BY <1>1 DEF HistoryOK, Requests
<1> HIDE DEF slot
<1>7. pending'[i] = slot /\ \A j \in Indices \ {i} : pending'[j] = pending[j]
  BY <1>1, <1>3 DEF SlotsOK
<1>8. Active' = Active \cup {i} /\ \A j \in Active : pending'[j] = pending[j]
  BY <1>4, <1>5, <1>7 DEF Active
<1> QED  BY <1>3, <1>4, <1>5, <1>6, <1>7, <1>8

LEMMA ReplyCloses ==
    ASSUME IInv, HandleMatchedReply
    PROVE  \E i \in Active :
              /\ Active' = Active \ {i}
              /\ \A j \in Active' : pending'[j] = pending[j]
              /\ \E type \in {"RESPONSE_RECEIVED", "ERROR_RECEIVED"} :
                    events' = {Event(type, pending[i].request, pending[i].retries)}
<1>1. SlotsOK
  BY DEF IInv
<1>2. PICK i \in Active :
         /\ EndMatched(i)
         /\ \E type \in {"RESPONSE_RECEIVED", "ERROR_RECEIVED"} :
               events' = {Event(type, pending[i].request, pending[i].retries)}
  BY DEF HandleMatchedReply, FirstMatch
<1>3. Active' = Active \ {i} /\ \A j \in Active' : pending'[j] = pending[j]
  BY <1>1, <1>2 DEF EndMatched, Active, SlotsOK, SlotRecord
<1> QED  BY <1>2, <1>3

LEMMA ScanServesSlots ==
    ASSUME IInv, NEW pushed \in [Retryable -> ChannelResults], Scan(pushed)
    PROVE  /\ Exhausted \subseteq Active /\ Retryable \subseteq Active
           /\ Active' = Active \ Exhausted
           /\ \A j \in Active' :
                 /\ pending'[j].request = pending[j].request
                 /\ Entry(pending'[j]) =
                       IF j \in Retryable /\ pushed[j] = "OK"
                       THEN [attempts |-> pending[j].retries + 2, until |-> Deadline(clock)]
                       ELSE Entry(pending[j])
<1>1. SlotsOK /\ \A i \in Indices : pending[i] \in SlotRecord
  BY DEF IInv, SlotsOK
<1>2. pending' = Scanned(pushed)
  BY DEF Scan
<1>3. Exhausted \subseteq Active /\ Retryable \subseteq Active /\ Active \subseteq Indices
  BY DEF Exhausted, Retryable, Due, Active
<1>4. \A i \in Indices :
         /\ i \in Exhausted => ~pending'[i].active
         /\ i \notin Exhausted => pending'[i] = IF i \in Retryable /\ pushed[i] = "OK"
                                                THEN Retried(pending[i]) ELSE pending[i]
  BY <1>1, <1>2 DEF Scanned, SlotRecord
<1>5. ASSUME NEW i \in Indices
      PROVE  /\ Retried(pending[i]).active = pending[i].active
             /\ Retried(pending[i]).request = pending[i].request
             /\ Entry(Retried(pending[i])) =
                   [attempts |-> pending[i].retries + 2, until |-> Deadline(clock)]
  <2>1. pending[i] \in SlotRecord /\ pending[i].retries \in Int
    BY <1>1 DEF SlotRecord
  <2>2. Retried(pending[i]).retries = pending[i].retries + 1
        /\ Retried(pending[i]).deadline = Deadline(clock)
        /\ Retried(pending[i]).active = pending[i].active
        /\ Retried(pending[i]).request = pending[i].request
    BY <2>1 DEF Retried, SlotRecord
  <2>3. pending[i].retries + 1 + 1 = pending[i].retries + 2
    BY <2>1
  <2> QED  BY <2>2, <2>3 DEF Entry
<1>6. Active' = Active \ Exhausted
  BY <1>3, <1>4, <1>5 DEF Active
<1> QED  BY <1>3, <1>4, <1>5, <1>6

LEMMA SetUpCloses ==
    ASSUME IInv, InitManager \/ Reset
    PROVE  Active' = {} /\ issued' = issued
<1>1. pending' = Cleared /\ issued' = issued
  BY DEF InitManager, Reset
<1>2. \A i \in Indices : ~Cleared[i].active
  BY ClearedSlots DEF IInv, SlotsOK
<1> QED  BY <1>1, <1>2 DEF Active

LEMMA StepNumbered ==
    ASSUME LIInv, [Next]_vars
    PROVE  Numbered'
<1>1. IInv /\ Numbered
  BY DEF LIInv
<1>2. CASE InitManager \/ Reset
  BY <1>1, <1>2, SetUpCloses DEF Numbered
<1>3. CASE RequestIsSent
  <2>1. PICK i \in Indices \ Active :
              /\ Active' = Active \cup {i}
              /\ pending'[i].request = issued + 1
              /\ \A j \in Active : pending'[j] = pending[j]
              /\ issued' = issued + 1 /\ issued \in Nat
    BY <1>1, <1>3, SendOpens
  <2> QED  BY <1>1, <2>1 DEF Numbered
<1>4. CASE HandleMatchedReply
  <2>1. PICK i \in Active :
              /\ Active' = Active \ {i}
              /\ \A j \in Active' : pending'[j] = pending[j]
    BY <1>1, <1>4, ReplyCloses
  <2>2. issued' = issued
    BY <1>4 DEF HandleMatchedReply, history
  <2> QED  BY <1>1, <2>1, <2>2 DEF Numbered
<1>5. ASSUME NEW pushed \in [Retryable -> ChannelResults], Scan(pushed)
      PROVE  Numbered'
  <2>1. Active' \subseteq Active /\ \A j \in Active' : pending'[j].request = pending[j].request
    BY <1>1, <1>5, ScanServesSlots
  <2>2. issued' = issued
    BY <1>5 DEF Scan, history
  <2> QED  BY <1>1, <2>1, <2>2 DEF Numbered
<1>6. CASE \/ Tick \/ ResetStats \/ RefuseInvalid \/ RequestFindsPendingFull
           \/ RequestFindsNoSequence \/ RequestIsNotAccepted \/ SendOther \/ RefuseSequenceZero
           \/ HandleRequestOrReport \/ HandleUnmatchedReply \/ HandleUnsupportedFrame
           \/ UNCHANGED vars
  <2>1. UNCHANGED <<pending, issued>>
    BY <1>6 DEF Tick, ResetStats, RefuseInvalid, RequestFindsPendingFull, RequestFindsNoSequence,
           RequestIsNotAccepted, SendOther, RefuseSequenceZero, HandleRequestOrReport,
           HandleUnmatchedReply, HandleUnsupportedFrame, vars, history
  <2> QED  BY <1>1, <2>1 DEF Numbered, Active
<1> QED
  BY <1>2, <1>3, <1>4, <1>5, <1>6 DEF Next, SendRequest, HandleFrame, ProcessTimeouts

-------------------------------------------------------------------------------
(* Every step is a step of the ledger. *)

LEMMA WindowEndIsDeadline ==
    ASSUME clock \in 0 .. MaxTime
    PROVE  \A n : Ledger!Transmitted(n) = [attempts |-> n, until |-> Deadline(clock)]
<1>1. Ledger!WindowEnd = Deadline(clock)
  BY DEF Ledger!WindowEnd, Deadline
<1> QED  BY <1>1 DEF Ledger!Transmitted

LEMMA SameCardinality == \A S : Ledger!Cardinality(S) = Cardinality(S)
BY DEF Ledger!Cardinality, Cardinality

LEMMA InitRefines == Init => Ledger!Init
<1> SUFFICES ASSUME Init PROVE Ledger!Init
  OBVIOUS
<1>1. Active = {}
  BY DEF Init, Active
<1>2. OpenEntries = [k \in {} |-> Ledger!Transmitted(0)]
  BY <1>1 DEF OpenEntries, OpenRequests
<1> QED  BY <1>2 DEF Init, Ledger!Init

LEMMA SetUpCancels ==
    ASSUME LIInv, LIInv', InitManager \/ Reset
    PROVE  Ledger!Cancel
<1>1. Active' = {} /\ issued' = issued
  BY SetUpCloses DEF LIInv
<1>2. OpenEntries' = Ledger!Without(DOMAIN OpenEntries)
  BY <1>1 DEF OpenEntries, OpenRequests, Ledger!Without
<1>3. result' = "OK" /\ events' = {} /\ clock' = clock
  BY DEF InitManager, Reset
<1> QED  BY <1>1, <1>2, <1>3 DEF Ledger!Cancel

LEMMA SendStarts ==
    ASSUME LIInv, LIInv', RequestIsSent
    PROVE  Ledger!Start
<1>1. IInv /\ Numbered /\ Numbered' /\ clock \in 0 .. MaxTime
  BY DEF LIInv, IInv, RepliesOK
<1>2. PICK i \in Indices \ Active :
         /\ Active' = Active \cup {i}
         /\ pending'[i].request = issued + 1
         /\ Entry(pending'[i]) = [attempts |-> 1, until |-> Deadline(clock)]
         /\ \A j \in Active : pending'[j] = pending[j]
         /\ issued' = issued + 1 /\ issued \in Nat
  BY <1>1, SendOpens
<1>3. result' = "OK" /\ events' = {} /\ clock' = clock
  BY DEF RequestIsSent
<1> DEFINE f == [j \in Active |-> pending[j].request]
<1>4. Cardinality(OpenRequests) < PendingCapacity
  <2>1. 1 \in Int /\ PendingCapacity \in Int
    OBVIOUS
  <2>2. IsFiniteSet(Indices) /\ Cardinality(Indices) = PendingCapacity
    BY <2>1, FS_Interval DEF Indices
  <2>3. Active \subseteq Indices \ {i} /\ Cardinality(Indices \ {i}) = PendingCapacity - 1
    BY <1>2, <2>2, FS_RemoveElement DEF Active
  <2>4. IsFiniteSet(Indices \ {i})
    BY <2>2, FS_Subset
  <2>5. Cardinality(Active) <= PendingCapacity - 1
    BY <2>3, <2>4, FS_Subset
  <2>6. f \in Surjection(Active, OpenRequests)
    BY DEF Surjection, OpenRequests
  <2> HIDE DEF f
  <2>7. IsFiniteSet(OpenRequests) /\ Cardinality(OpenRequests) <= Cardinality(Active)
    BY <2>6, ActiveFinite, FS_Surjection
  <2>8. Cardinality(OpenRequests) \in Nat /\ Cardinality(Active) \in Nat
    BY <2>7, ActiveFinite, FS_CardinalityType
  <2> QED  BY <2>5, <2>7, <2>8
<1> DEFINE E == [k \in OpenRequests \cup {issued'} |->
                    IF k = issued' THEN Ledger!Transmitted(1) ELSE OpenEntries[k]]
<1>5. OpenRequests' = OpenRequests \cup {issued'}
  BY <1>2 DEF OpenRequests
<1>6. \A j \in Active' : E[pending'[j].request] = Entry(pending'[j])
  <2> TAKE j \in Active'
  <2>1. CASE j = i
    <3>1. E[issued'] = Ledger!Transmitted(1)
      OBVIOUS
    <3>2. Ledger!Transmitted(1) = [attempts |-> 1, until |-> Deadline(clock)]
      BY <1>1, WindowEndIsDeadline
    <3> QED  BY <1>2, <2>1, <3>1, <3>2
  <2>2. CASE j # i
    <3>1. j \in Active /\ pending'[j] = pending[j] /\ pending[j].request \in 1 .. issued
      BY <1>1, <1>2, <2>2 DEF Numbered
    <3>2. /\ pending[j].request \in OpenRequests /\ pending[j].request # issued'
          /\ OpenEntries[pending[j].request] = Entry(pending[j])
      BY <1>1, <1>2, <3>1, EntryOfSlot
    <3>3. E[pending[j].request] = OpenEntries[pending[j].request]
      BY <3>2
    <3> QED  BY <3>1, <3>2, <3>3
  <2> QED  BY <2>1, <2>2
<1>7. OpenEntries' = E
  <2>1. E = [k \in OpenRequests' |-> E[k]]
    BY <1>5
  <2> HIDE DEF E
  <2> QED  BY <1>1, <1>6, <2>1, EntriesAfter
<1>8. /\ Cardinality(DOMAIN OpenEntries) < PendingCapacity
      /\ OpenEntries' = [k \in DOMAIN OpenEntries \cup {issued'} |->
                            IF k = issued' THEN Ledger!Transmitted(1) ELSE OpenEntries[k]]
  BY <1>4, <1>7, EntriesDomain
<1>9. issued' = issued + 1
  BY <1>2
<1> HIDE DEF f, E
<1> QED  BY <1>3, <1>8, <1>9, SameCardinality DEF Ledger!Start

LEMMA ReplyAnswers ==
    ASSUME LIInv, LIInv', HandleMatchedReply
    PROVE  Ledger!Answer
<1>1. IInv /\ Numbered /\ Numbered' /\ \A i \in Indices : pending[i] \in SlotRecord
  BY DEF LIInv, IInv, SlotsOK
<1>2. PICK i \in Active :
         /\ Active' = Active \ {i}
         /\ \A j \in Active' : pending'[j] = pending[j]
         /\ \E type \in {"RESPONSE_RECEIVED", "ERROR_RECEIVED"} :
               events' = {Event(type, pending[i].request, pending[i].retries)}
  BY <1>1, ReplyCloses
<1>3. PICK type \in {"RESPONSE_RECEIVED", "ERROR_RECEIVED"} :
         events' = {Event(type, pending[i].request, pending[i].retries)}
  BY <1>2
<1> DEFINE id == pending[i].request
           E == Ledger!Without({id})
<1>4. id \in OpenRequests /\ OpenEntries[id] = Entry(pending[i])
  BY <1>1, EntryOfSlot
<1>5. OpenRequests' = OpenRequests \ {id}
  BY <1>1, <1>2 DEF OpenRequests, Numbered
<1>6. E = [k \in OpenRequests \ {id} |-> OpenEntries[k]]
  BY EntriesDomain DEF Ledger!Without
<1>7. \A j \in Active' : E[pending'[j].request] = Entry(pending'[j])
  <2> TAKE j \in Active'
  <2>1. j \in Active /\ j # i /\ pending'[j] = pending[j] /\ pending[j].request # id
    BY <1>1, <1>2 DEF Numbered
  <2>2. pending[j].request \in OpenRequests
        /\ OpenEntries[pending[j].request] = Entry(pending[j])
    BY <1>1, <2>1, EntryOfSlot
  <2> HIDE DEF E
  <2> QED  BY <1>6, <2>1, <2>2
<1>8. OpenEntries' = E
  <2> HIDE DEF E
  <2>1. E = [k \in OpenRequests' |-> E[k]]
    BY <1>5, <1>6
  <2> QED  BY <1>1, <1>7, <2>1, EntriesAfter
<1>9. Ledger!Ended(type, id) = Event(type, pending[i].request, pending[i].retries)
  <2>1. Entry(pending[i]).attempts - 1 = pending[i].retries
    BY <1>1 DEF Entry, Active, SlotRecord
  <2> QED  BY <1>4, <2>1 DEF Ledger!Ended, Event
<1>10. result' = "OK" /\ clock' = clock /\ issued' = issued
  BY DEF HandleMatchedReply, history
<1>11. /\ id \in DOMAIN OpenEntries /\ OpenEntries' = Ledger!Without({id})
       /\ events' = {Ledger!Ended(type, id)}
  BY <1>3, <1>4, <1>8, <1>9, EntriesDomain
<1> HIDE DEF id
<1> QED  BY <1>10, <1>11 DEF Ledger!Answer

\* The slots that are due stand for the entries whose window is over, and those
\* that are used up for the entries that are.
LEMMA ScanProcesses ==
    ASSUME LIInv, LIInv', NEW pushed \in [Retryable -> ChannelResults], Scan(pushed)
    PROVE  Ledger!ProcessTimeouts
<1>1. /\ IInv /\ Numbered /\ Numbered' /\ clock \in 0 .. MaxTime
      /\ \A i \in Active : pending[i].retries \in Nat /\ pending[i].deadline \in Nat
  BY DEF LIInv, IInv, RepliesOK, SlotsOK, SlotRecord, Active
<1>2. /\ Exhausted \subseteq Active /\ Retryable \subseteq Active
      /\ Active' = Active \ Exhausted
      /\ \A j \in Active' :
            /\ pending'[j].request = pending[j].request
            /\ Entry(pending'[j]) =
                  IF j \in Retryable /\ pushed[j] = "OK"
                  THEN [attempts |-> pending[j].retries + 2, until |-> Deadline(clock)]
                  ELSE Entry(pending[j])
  BY <1>1, ScanServesSlots
<1> DEFINE due == {k \in OpenRequests : OpenEntries[k].until <= clock}
           used == {k \in due : OpenEntries[k].attempts > MaxRetries}
           accepted == {pending[i].request : i \in {j \in Retryable : pushed[j] = "OK"}}
           E == [k \in OpenRequests \ used |->
                    IF k \in accepted THEN Ledger!Transmitted(OpenEntries[k].attempts + 1)
                    ELSE OpenEntries[k]]
<1>3. \A i \in Active : /\ pending[i].request \in OpenRequests
                        /\ OpenEntries[pending[i].request].attempts = pending[i].retries + 1
                        /\ OpenEntries[pending[i].request].until = pending[i].deadline
  <2> TAKE i \in Active
  <2>1. /\ pending[i].request \in OpenRequests
        /\ OpenEntries[pending[i].request] = Entry(pending[i])
    BY <1>1, EntryOfSlot
  <2> QED  BY <2>1 DEF Entry
<1>4. \A i, j \in Active : pending[i].request = pending[j].request => i = j
  BY <1>1 DEF Numbered
<1>5. \A i \in Active : /\ pending[i].request \in due <=> i \in Due
                        /\ pending[i].request \in used <=> i \in Exhausted
  BY <1>1, <1>3 DEF Due, Exhausted
<1>6. \A k \in OpenRequests : \E i \in Active : pending[i].request = k
  BY SlotOfEntry
<1>7. \A i \in Active : pending[i].request \in accepted <=> i \in Retryable /\ pushed[i] = "OK"
  BY <1>2, <1>4
<1>8. \A i \in Active : pending[i].request \in due \ used <=> i \in Retryable
  BY <1>5 DEF Retryable
<1>9. accepted \in SUBSET (due \ used)
  BY <1>2, <1>8
<1>10. used \subseteq OpenRequests /\ due \subseteq OpenRequests
  OBVIOUS
<1> HIDE DEF due, used, accepted
<1>11. (result' = "OK") = (accepted = due \ used)
  <2>1. PICK r \in ChannelResults : FirstFailure(pushed, r) /\ result' = r
    BY DEF Scan
  <2>2. CASE r = "OK"
    <3>1. \A i \in Retryable : pushed[i] = "OK"
      BY <2>1, <2>2 DEF FirstFailure
    <3>2. due \ used \subseteq accepted
      BY <1>2, <1>6, <1>7, <1>8, <1>10, <3>1
    <3> QED  BY <1>9, <2>1, <2>2, <3>2
  <2>3. CASE r # "OK"
    <3>1. PICK i \in Retryable : pushed[i] = r
      BY <2>1, <2>3 DEF FirstFailure
    <3>2. pending[i].request \in due \ used /\ pending[i].request \notin accepted
      BY <1>2, <1>7, <1>8, <2>3, <3>1
    <3>3. accepted # due \ used
      BY <3>2
    <3> QED  BY <2>1, <2>3, <3>3
  <2> QED  BY <2>2, <2>3
<1>12. OpenRequests' = OpenRequests \ used
  <2>1. OpenRequests' = {pending[i].request : i \in Active \ Exhausted}
    BY <1>2 DEF OpenRequests
  <2>2. \A k : k \in OpenRequests \ used <=> \E i \in Active \ Exhausted : pending[i].request = k
    BY <1>3, <1>5, <1>6
  <2> QED  BY <2>1, <2>2
<1>13. \A n : Ledger!Transmitted(n) = [attempts |-> n, until |-> Deadline(clock)]
  BY <1>1, WindowEndIsDeadline
<1>14. \A j \in Active' : E[pending'[j].request] = Entry(pending'[j])
  <2> TAKE j \in Active'
  <2> DEFINE id == pending[j].request
  <2>1. j \in Active /\ pending'[j].request = id /\ id \in OpenRequests \ used
    BY <1>2, <1>3, <1>5
  <2>2. E[id] = IF id \in accepted THEN Ledger!Transmitted(OpenEntries[id].attempts + 1)
                ELSE OpenEntries[id]
    BY <2>1
  <2> HIDE DEF E
  <2>3. CASE j \in Retryable /\ pushed[j] = "OK"
    <3>1. OpenEntries[id].attempts + 1 = pending[j].retries + 2
      BY <1>1, <1>3, <2>1
    <3>2. E[id] = Ledger!Transmitted(pending[j].retries + 2)
      BY <1>7, <2>1, <2>2, <2>3, <3>1
    <3> QED  BY <1>2, <1>13, <2>1, <2>3, <3>2
  <2>4. CASE ~(j \in Retryable /\ pushed[j] = "OK")
    <3>1. E[id] = OpenEntries[id]
      BY <1>7, <2>1, <2>2, <2>4
    <3>2. OpenEntries[id] = Entry(pending[j])
      BY <1>1, <2>1, EntryOfSlot
    <3> QED  BY <1>2, <2>1, <2>4, <3>1, <3>2
  <2> QED  BY <2>3, <2>4
<1>15. OpenEntries' = E
  <2>1. E = [k \in OpenRequests' |-> E[k]]
    BY <1>12
  <2> HIDE DEF E
  <2> QED  BY <1>1, <1>14, <2>1, EntriesAfter
<1>16. events' = {Ledger!Ended("REQUEST_TIMEOUT", k) : k \in used}
  <2>1. events' = {Event("REQUEST_TIMEOUT", pending[i].request, pending[i].retries) : i \in Exhausted}
    BY DEF Scan
  <2>2. ASSUME NEW i \in Exhausted
        PROVE  /\ pending[i].request \in used
               /\ Ledger!Ended("REQUEST_TIMEOUT", pending[i].request)
                     = Event("REQUEST_TIMEOUT", pending[i].request, pending[i].retries)
    <3>1. OpenEntries[pending[i].request].attempts - 1 = pending[i].retries
      BY <1>1, <1>2, <1>3
    <3> QED  BY <1>2, <1>5, <3>1 DEF Ledger!Ended, Event
  <2>3. \A k \in used : \E i \in Exhausted : pending[i].request = k
    BY <1>5, <1>6, <1>10
  <2> QED  BY <2>1, <2>2, <2>3
<1>17. UNCHANGED <<issued, clock>>
  BY DEF Scan, history
<1> USE DEF due, used
<1> QED  BY <1>9, <1>11, <1>15, <1>16, <1>17, EntriesDomain DEF Ledger!ProcessTimeouts

LEMMA StepRefines == LIInv /\ LIInv' /\ [Next]_vars => [Ledger!Next]_(Ledger!vars)
<1> SUFFICES ASSUME LIInv, LIInv', [Next]_vars PROVE [Ledger!Next]_(Ledger!vars)
  OBVIOUS
<1>1. UNCHANGED pending => OpenEntries' = OpenEntries
  BY DEF OpenEntries, OpenRequests, SlotOf, Active
<1>2. CASE Tick
  BY <1>1, <1>2 DEF Tick, Ledger!Tick, Ledger!Next, history
<1>3. CASE \/ ResetStats \/ RefuseInvalid \/ RequestFindsPendingFull
           \/ RequestFindsNoSequence \/ RequestIsNotAccepted \/ SendOther \/ RefuseSequenceZero
           \/ HandleRequestOrReport \/ HandleUnmatchedReply \/ HandleUnsupportedFrame
  <2>1. UNCHANGED <<pending, issued, clock>>
    BY <1>3 DEF ResetStats, RefuseInvalid, RequestFindsPendingFull, RequestFindsNoSequence,
           RequestIsNotAccepted, SendOther, RefuseSequenceZero, HandleRequestOrReport,
           HandleUnmatchedReply, HandleUnsupportedFrame, history
  <2>2. /\ result' # "NONE"
        /\ \/ events' = {}
           \/ \E type \in {"REQUEST_RECEIVED", "REPORT_RECEIVED", "UNMATCHED_REPLY"} :
                 events' = {[type |-> type, request |-> 0, retries |-> 0]}
    BY <1>3 DEF ResetStats, RefuseInvalid, RequestFindsPendingFull, RequestFindsNoSequence,
           RequestIsNotAccepted, SendOther, RefuseSequenceZero, HandleRequestOrReport,
           HandleUnmatchedReply, HandleUnsupportedFrame, Event, ChannelResults, ChannelFailures
  <2> QED  BY <1>1, <2>1, <2>2 DEF Ledger!Other, Ledger!Next
<1>4. CASE UNCHANGED vars
  BY <1>1, <1>4 DEF vars, Ledger!vars
<1>5. (InitManager \/ Reset => Ledger!Next) /\ (RequestIsSent => Ledger!Next)
      /\ (HandleMatchedReply => Ledger!Next)
  BY SetUpCancels, SendStarts, ReplyAnswers DEF Ledger!Next
<1>6. ProcessTimeouts => Ledger!Next
  BY ScanProcesses DEF ProcessTimeouts, Ledger!Next
<1> QED
  BY <1>2, <1>3, <1>4, <1>5, <1>6 DEF Next, SendRequest, HandleFrame

\* Slots, sequence numbers and scans keep the ledger: a request the channel
\* accepted is open until it ends once, by a reply, by its final timeout or by
\* being cancelled; it times out only after MaxRetries retries, the last given a
\* full window; a scan ends every request that is due and used up, and says OK
\* only if no retry was refused.
THEOREM Refinement == Spec => ImplementsLedger
<1>1. Init => LIInv
  <2>1. Init => Numbered
    BY DEF Init, Numbered, Active
  <2> QED  BY <2>1, InitSafe DEF LIInv
<1>2. LIInv /\ [Next]_vars => LIInv'
  BY StepSafe, StepNumbered DEF LIInv
<1> QED  BY <1>1, <1>2, InitRefines, StepRefines, PTL DEF Spec, ImplementsLedger, Ledger!Spec
================================================================================
