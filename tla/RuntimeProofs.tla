----------------------------- MODULE RuntimeProofs -----------------------------
(***************************************************************************)
(* The host program, for any queues, sockets, bursts, retries and number of *)
(* reconnects: its types, what its connections are confirmed by and ended   *)
(* for, that back pressure loses nothing, that no stale snapshot is shown   *)
(* while it reconnects, that a success is earned by what was received, and  *)
(* that it keeps the promises of Connection.                                *)
(***************************************************************************)
EXTENDS Runtime, FiniteSetTheorems, TLAPS

USE ModesAssumption, CapacityAssumption, BurstAssumption, LimitsAssumption

Kinds == {"NONE", "INTERNAL", "TRANSPORT"}
Links == {"up", "cut", "hung", "down"}
Sendable == [type : {"REPORT", "RESPONSE"}, sequence : Sequences, progress : 0 .. 100, serial : Nat]
Carried == Sendable \cup {NoFrame}
Steps == Sendable \cup {Cut, Hang}
Queries == Sequences \ {0}

AppRecord == [state : {"OFFLINE", "SYNCING", "ONLINE"}, session : Nat, progress : 0 .. 100,
              notifications : Nat]
RunRecord == [sync : {0, 1}, followup : {0, 2}, responses : Nat, reports : Nat, timeouts : Nat,
              unmatched : Nat, retries : Nat, hold : BOOLEAN, frame : Carried, handled : Nat]
PendingRecord == [next : 1 .. 3, active : SUBSET Requests]
StopRecord == [stopping : BOOLEAN, failed : BOOLEAN, kind : Kinds]
TxQueue == [open : BOOLEAN, items : Seq(Queries)]
RxQueue == [open : BOOLEAN, items : Seq(Sendable)]
TxRecord == [pc : {"test", "pop", "send", "done"}, sequence : Sequences]
RxRecord == [pc : {"test", "recv", "keep", "push", "done"}, frame : Carried, timedOut : BOOLEAN]
PeerRecord == [pc : {"test", "recv", "answer", "done"}, requests : Nat, script : Seq(Steps),
               sent : Nat, reports : Nat, answered : SUBSET Sequences, broke : BOOLEAN]

\* What the main thread's variables, the shared ones and the workers' may be.
MainTypes ==
    /\ app \in AppRecord /\ main \in Positions /\ run \in RunRecord /\ pending \in PendingRecord
SharedTypes ==
    /\ stop \in StopRecord /\ tx \in TxQueue /\ rx \in RxQueue /\ link \in Links
    /\ toPeer \in Seq(Queries) /\ toHost \in Seq(Sendable)
    /\ Len(tx.items) <= QueueCapacity /\ Len(rx.items) <= QueueCapacity
    /\ Len(toPeer) <= SocketCapacity /\ Len(toHost) <= SocketCapacity
WorkerTypes ==
    /\ txThread \in TxRecord /\ rxThread \in RxRecord /\ peer \in PeerRecord
    /\ txThread.pc = "send" => txThread.sequence # 0
    /\ rxThread.pc \in {"keep", "push"} => rxThread.frame # NoFrame
OutsideTypes ==
    /\ mode \in Modes /\ session \in 1 .. MaxReconnects + 1
    /\ late \in BOOLEAN /\ interrupted \in BOOLEAN /\ status \in {-1, 0, 1, 128}
Types == MainTypes /\ SharedTypes /\ WorkerTypes /\ OutsideTypes

Ended == {"connect", "delay", "return", "exit"}
Between == Ended \cup {"join"}
Before == {"start", "query"}

\* Where the main thread is, the connection is in the state that goes with it,
\* and no worker runs outside a connection.
SessionOK ==
    /\ main \in Between <=> app.state = "OFFLINE"
    /\ main \in Before => app.state = "SYNCING"
    /\ main \in Ended \cup {"start"} => WorkersAreDone
    /\ main = "connect" => app.session = session - 1
    /\ main \notin Ended \/ main = "delay" => app.session = session
    /\ main \in {"return", "exit"} => app.session \in {session - 1, session}
    /\ main = "delay" => session <= MaxReconnects

\* Why a connection ended: only the device's break lets the transport fail.
ReasonOK ==
    /\ link \in {"cut", "hung"} => peer.broke
    /\ link = "down" => stop.stopping \/ main \in Ended
    /\ stop.kind = "TRANSPORT" => peer.broke
    /\ main = "delay" \/ (main = "connect" /\ session > 1) => stop.kind = "TRANSPORT"

\* The requests in flight: the synchronising query, and the second one once it
\* has been answered.
RequestsOK ==
    /\ \A p, q \in pending.active : p = q
    /\ main \in Before => pending.next = 1 /\ pending.active = {} /\ run.sync = 0 /\ run.followup = 0
    /\ main \notin Between \cup Before =>
          pending.next = IF run.followup = 2 THEN 3 ELSE IF run.sync = 1 THEN 2 ELSE 1
    /\ app.state = "SYNCING" => run.followup = 0 /\ \A p \in pending.active : p.sequence = run.sync
    /\ app.state = "ONLINE" => run.sync = 1 /\ (run.followup = 0 => pending.active = {})

\* Every reply on its way was sent by the device of this connection.
Genuine(frame) == frame.type = "RESPONSE" => frame.sequence \in peer.answered
RepliesOK ==
    /\ \A i \in DOMAIN rx.items : Genuine(rx.items[i])
    /\ \A i \in DOMAIN toHost : Genuine(toHost[i])
    /\ Genuine(rxThread.frame) /\ Genuine(run.frame)
    /\ app.state = "ONLINE" => run.sync \in peer.answered

\* The frames on their way carry consecutive numbers: those queued, the one the
\* receiving thread holds, those in the socket.
Held == IF rxThread.frame = NoFrame THEN 0 ELSE 1
SerialsOK ==
    ~stop.stopping =>
        /\ rxThread.pc \in {"test", "recv"} \/ main = "start" => Held = 0
        /\ Len(rx.items) + Held + Len(toHost) = peer.sent - run.handled
        /\ \A i \in DOMAIN rx.items : rx.items[i].serial = run.handled + i
        /\ Held = 1 => rxThread.frame.serial = run.handled + Len(rx.items) + 1
        /\ \A i \in DOMAIN toHost : toHost[i].serial = run.handled + Len(rx.items) + Held + i

IInv == Types /\ SessionOK /\ ReasonOK /\ RequestsOK /\ RepliesOK /\ SerialsOK

-------------------------------------------------------------------------------
(* Operators. *)

LEMMA NoFrameIsNotSent == NoFrame \notin Sendable /\ NoFrame \in Carried
BY DEF NoFrame, Frame, Sendable, Carried

LEMMA SentIsCarried == \A frame \in Sendable : frame \in Carried /\ frame # NoFrame
BY NoFrameIsNotSent DEF Carried

\* Whoever stops the connection closes what the threads share, and the first
\* one says why.
LEMMA StopFacts ==
    ASSUME SharedTypes, NEW failed \in BOOLEAN, NEW kind \in Kinds, Stop(failed, kind)
    PROVE  /\ stop' \in StopRecord /\ tx' \in TxQueue /\ rx' \in RxQueue /\ link' \in Links
           /\ stop'.stopping /\ tx'.items = tx.items /\ rx'.items = rx.items
           /\ \/ stop.stopping /\ UNCHANGED shared
              \/ ~stop.stopping /\ stop'.kind = kind /\ link' = "down"
<1>1. CASE stop.stopping /\ UNCHANGED shared
  BY <1>1 DEF SharedTypes, shared
<1>2. CASE ~stop.stopping /\ ~(stop.stopping /\ UNCHANGED shared)
  <2>1. /\ stop' = [stopping |-> TRUE, failed |-> failed, kind |-> kind]
        /\ tx' = [tx EXCEPT !.open = FALSE] /\ rx' = [rx EXCEPT !.open = FALSE]
        /\ link' = "down"
    BY <1>2 DEF Stop
  <2>2. stop' \in StopRecord
    BY <2>1 DEF StopRecord
  <2>3. tx' \in TxQueue /\ tx'.items = tx.items
    BY <2>1 DEF SharedTypes, TxQueue
  <2>4. rx' \in RxQueue /\ rx'.items = rx.items
    BY <2>1 DEF SharedTypes, RxQueue
  <2> QED  BY <1>2, <2>1, <2>2, <2>3, <2>4 DEF Links
<1> QED  BY <1>1, <1>2 DEF Stop

LEMMA StopRuntimeFacts ==
    ASSUME SharedTypes, NEW failed \in BOOLEAN, StopRuntime(failed)
    PROVE  /\ stop' \in StopRecord /\ tx' \in TxQueue /\ rx' \in RxQueue /\ link' \in Links
           /\ stop'.stopping /\ tx'.items = tx.items /\ rx'.items = rx.items
           /\ \/ stop.stopping /\ UNCHANGED shared
              \/ ~stop.stopping /\ stop'.kind # "TRANSPORT" /\ link' = "down"
<1> DEFINE kind == IF failed THEN "INTERNAL" ELSE "NONE"
<1>1. kind \in Kinds /\ kind # "TRANSPORT" /\ Stop(failed, kind)
  BY DEF Kinds, StopRuntime
<1> HIDE DEF kind
<1> QED  BY <1>1, StopFacts

LEMMA TransportFacts ==
    ASSUME SharedTypes, TransportFailed
    PROVE  /\ stop' \in StopRecord /\ tx' \in TxQueue /\ rx' \in RxQueue /\ link' \in Links
           /\ stop'.stopping /\ tx'.items = tx.items /\ rx'.items = rx.items
           /\ \/ stop.stopping /\ UNCHANGED shared
              \/ ~stop.stopping /\ link' = "down"
<1>1. "TRANSPORT" \in Kinds /\ TRUE \in BOOLEAN
  BY DEF Kinds
<1> QED  BY <1>1, StopFacts DEF TransportFailed

\* What the device sends can be sent.
LEMMA ReportType ==
    ASSUME NEW progress \in 0 .. 100
    PROVE  Report(progress) \in Steps
BY DEF Report, Frame, Sendable, Sequences, Steps

LEMMA ResponseType ==
    ASSUME NEW sequence \in Sequences, NEW progress \in 0 .. 100
    PROVE  Response(sequence, progress) \in Steps
BY DEF Response, Frame, Sendable, Sequences, Steps

LEMMA ScriptsType ==
    ASSUME NEW sequence \in Queries, NEW n \in Nat, NEW script \in Scripts(sequence, n)
    PROVE  script \in Seq(Steps)
<1>1. sequence \in Sequences
  BY DEF Queries
<1> DEFINE early == IF n = 1 THEN <<Report(99), Response(2, 99)>> ELSE << >>
           burst == IF mode \in Holding /\ n = 1 THEN [i \in 1 .. Burst |-> Report(i)] ELSE << >>
           stream(k) == [i \in 1 .. k |-> Report(i % 101)]
<1>2. Cut \in Steps /\ Hang \in Steps
  BY DEF Steps
<1>3. early \in Seq(Steps)
  <2>1. Report(99) \in Steps
    BY ReportType
  <2>2. Response(2, 99) \in Steps
    BY ResponseType DEF Sequences
  <2> QED  BY <2>1, <2>2
<1>4. burst \in Seq(Steps)
  <2>1. \A i \in 1 .. Burst : Report(i) \in Steps
    BY ReportType
  <2> QED  BY <2>1
<1>5. \A k \in 1 .. StreamReports : stream(k) \in Seq(Steps)
  <2>1. \A i \in Nat : i % 101 \in 0 .. 100
    OBVIOUS
  <2>2. \A i \in Nat : Report(i % 101) \in Steps
    BY <2>1, ReportType
  <2> QED  BY <2>2
<1>6. \A progress \in 0 .. 100 : Response(sequence, progress) \in Steps
  BY <1>1, ResponseType
<1>7. \/ script = <<Hang>> \/ script = << >> \/ script = <<Cut>> \/ script = early
      \/ script = Append(early, Response(sequence, 80))
      \/ \E k \in 1 .. StreamReports : script = Append(stream(k), Response(sequence, 99))
      \/ script = Append(burst, Response(sequence, 40))
  BY DEF Scripts
<1> HIDE DEF early, burst, stream
<1>8. \A prefix \in Seq(Steps), step \in Steps : Append(prefix, step) \in Seq(Steps)
  OBVIOUS
<1>9. <<Hang>> \in Seq(Steps) /\ <<Cut>> \in Seq(Steps) /\ << >> \in Seq(Steps)
  BY <1>2
<1>10. Append(early, Response(sequence, 80)) \in Seq(Steps)
  BY <1>3, <1>6, <1>8
<1>11. Append(burst, Response(sequence, 40)) \in Seq(Steps)
  BY <1>4, <1>6, <1>8
<1>12. \A k \in 1 .. StreamReports : Append(stream(k), Response(sequence, 99)) \in Seq(Steps)
  BY <1>5, <1>6, <1>8
<1> QED  BY <1>3, <1>7, <1>9, <1>10, <1>11, <1>12

-------------------------------------------------------------------------------
(* Types. *)

LEMMA InitTypes == Init => Types
<1> SUFFICES ASSUME Init PROVE Types
  OBVIOUS
<1>1. NoFrame \in Carried
  BY DEF Carried
<1>2. app \in AppRecord /\ main \in Positions
  BY DEF Init, InitialApplication, AppRecord, Positions
<1>3. run \in RunRecord
  BY <1>1 DEF Init, RunRecord
<1>4. pending \in PendingRecord
  BY DEF Init, PendingRecord
<1>5. SharedTypes
  BY DEF Init, SharedTypes, StopRecord, Kinds, TxQueue, RxQueue, Links
<1>6. txThread \in TxRecord /\ rxThread \in RxRecord
  BY <1>1 DEF Init, TxRecord, RxRecord, Sequences
<1>7. peer \in PeerRecord
  BY DEF Init, PeerRecord
<1>8. WorkerTypes
  BY <1>6, <1>7 DEF Init, WorkerTypes
<1>9. OutsideTypes
  <2>1. session \in 1 .. MaxReconnects + 1 /\ mode \in Modes
    BY DEF Init
  <2>2. status \in {-1, 0, 1, 128}
    BY DEF Init
  <2>3. late \in BOOLEAN /\ interrupted \in BOOLEAN
    BY DEF Init
  <2> QED  BY <2>1, <2>2, <2>3 DEF OutsideTypes
<1> QED  BY <1>2, <1>3, <1>4, <1>5, <1>8, <1>9 DEF Types, MainTypes

\* A worker leaves the main thread's variables alone.
LEMMA MainTypesKept ==
    ASSUME MainTypes, UNCHANGED <<app, main, run, pending>>
    PROVE  MainTypes'
BY DEF MainTypes

LEMMA WorkerTypesKept ==
    ASSUME WorkerTypes, UNCHANGED workers
    PROVE  WorkerTypes'
BY DEF WorkerTypes, workers

LEMMA OutsideTypesKept ==
    ASSUME OutsideTypes, UNCHANGED outside
    PROVE  OutsideTypes'
BY DEF OutsideTypes, outside

LEMMA SharedTypesKept ==
    ASSUME SharedTypes, UNCHANGED <<shared, sockets>>
    PROVE  SharedTypes'
BY DEF SharedTypes, shared, sockets

\* A stop, or nothing at all, happens to what the threads share.
LEMMA SharedTypesStopped ==
    ASSUME SharedTypes, UNCHANGED sockets,
           UNCHANGED shared \/ TransportFailed \/ \E failed \in BOOLEAN : StopRuntime(failed)
    PROVE  SharedTypes'
<1>1. CASE UNCHANGED shared
  BY <1>1, SharedTypesKept
<1>2. CASE TransportFailed
  BY <1>2, TransportFacts DEF SharedTypes, sockets
<1>3. CASE \E failed \in BOOLEAN : StopRuntime(failed)
  BY <1>3, StopRuntimeFacts DEF SharedTypes, sockets
<1> QED  BY <1>1, <1>2, <1>3

LEMMA TailType ==
    ASSUME NEW S, NEW s \in Seq(S), s # << >>
    PROVE  Head(s) \in S /\ Tail(s) \in Seq(S) /\ Len(Tail(s)) = Len(s) - 1
OBVIOUS

LEMMA AppendType ==
    ASSUME NEW S, NEW s \in Seq(S), NEW e \in S
    PROVE  Append(s, e) \in Seq(S) /\ Len(Append(s, e)) = Len(s) + 1
OBVIOUS

LEMMA TxTypes ==
    ASSUME Types, TxStep
    PROVE  Types'
<1> USE DEF Types
<1>1. MainTypes' /\ OutsideTypes'
  <2>1. UNCHANGED <<app, main, run, pending, outside>>
    BY DEF TxStep, TxTest, TxPop, TxSend
  <2> QED  BY <2>1, MainTypesKept, OutsideTypesKept
<1>2. CASE TxTest
  <2>1. txThread' \in TxRecord /\ txThread'.pc # "send"
    BY <1>2 DEF TxTest, WorkerTypes, TxRecord
  <2>2. UNCHANGED <<shared, sockets, rxThread, peer>>
    BY <1>2 DEF TxTest
  <2> QED  BY <1>1, <2>1, <2>2, SharedTypesKept DEF WorkerTypes
<1>3. CASE TxPop
  <2>1. UNCHANGED <<stop, rx, link, sockets, rxThread, peer>>
    BY <1>3 DEF TxPop
  <2>2. CASE tx.items # << >>
    <3>1. Head(tx.items) \in Queries /\ Tail(tx.items) \in Seq(Queries)
          /\ Len(Tail(tx.items)) = Len(tx.items) - 1
      BY <2>2, TailType DEF SharedTypes, TxQueue
    <3>2. /\ txThread' = [pc |-> "send", sequence |-> Head(tx.items)]
          /\ tx' = [tx EXCEPT !.items = Tail(@)]
      BY <1>3, <2>2 DEF TxPop
    <3>3. txThread' \in TxRecord /\ txThread'.sequence # 0
      BY <3>1, <3>2 DEF TxRecord, Queries
    <3>4. tx' \in TxQueue /\ tx'.items = Tail(tx.items)
      BY <3>1, <3>2 DEF SharedTypes, TxQueue
    <3>5. Len(tx.items) \in Nat /\ Len(tx.items) <= QueueCapacity
      BY DEF SharedTypes, TxQueue
    <3>6. Len(tx'.items) <= QueueCapacity
      BY <3>1, <3>4, <3>5
    <3> QED  BY <1>1, <2>1, <3>3, <3>4, <3>6 DEF WorkerTypes, SharedTypes, sockets
  <2>3. CASE tx.items = << >>
    <3>1. tx' = tx /\ txThread' = [txThread EXCEPT !.pc = "done"]
      BY <1>3, <2>3 DEF TxPop
    <3>2. txThread' \in TxRecord /\ txThread'.pc # "send"
      BY <3>1 DEF WorkerTypes, TxRecord
    <3> QED  BY <1>1, <2>1, <3>1, <3>2 DEF WorkerTypes, SharedTypes, sockets
  <2> QED  BY <2>2, <2>3
<1>4. CASE TxSend
  <2>1. UNCHANGED <<rxThread, peer, toHost>>
    BY <1>4 DEF TxSend
  <2>2. txThread' \in TxRecord /\ txThread'.pc # "send"
    BY <1>4 DEF TxSend, WorkerTypes, TxRecord
  <2>3. CASE toPeer' = toPeer /\ (UNCHANGED shared \/ TransportFailed)
    BY <1>1, <2>1, <2>2, <2>3, SharedTypesStopped DEF WorkerTypes, sockets
  <2>4. CASE /\ Len(toPeer) < SocketCapacity /\ toPeer' = Append(toPeer, txThread.sequence)
             /\ UNCHANGED shared
    <3>1. txThread.sequence \in Queries
      BY <1>4 DEF TxSend, WorkerTypes, TxRecord, Queries
    <3>2. toPeer' \in Seq(Queries) /\ Len(toPeer') = Len(toPeer) + 1
      BY <2>4, <3>1, AppendType DEF SharedTypes
    <3>3. Len(toPeer) \in Nat
      BY DEF SharedTypes
    <3>4. Len(toPeer') <= SocketCapacity
      BY <2>4, <3>2, <3>3
    <3> QED  BY <1>1, <2>1, <2>2, <2>4, <3>2, <3>4 DEF WorkerTypes, SharedTypes, shared
  <2> QED  BY <1>4, <2>3, <2>4 DEF TxSend
<1> QED  BY <1>2, <1>3, <1>4 DEF TxStep

LEMMA RxTypes ==
    ASSUME Types, RxStep
    PROVE  Types'
<1> USE DEF Types
<1>1. MainTypes' /\ OutsideTypes'
  <2>1. UNCHANGED <<app, main, run, pending, outside>>
    BY DEF RxStep, RxTest, RxReceive, RxKeep, RxPush
  <2> QED  BY <2>1, MainTypesKept, OutsideTypesKept
<1>2. CASE RxTest
  <2>1. rxThread' \in RxRecord /\ rxThread'.pc \notin {"keep", "push"}
    BY <1>2 DEF RxTest, WorkerTypes, RxRecord
  <2>2. UNCHANGED <<shared, sockets, txThread, peer>>
    BY <1>2 DEF RxTest
  <2> QED  BY <1>1, <2>1, <2>2, SharedTypesKept DEF WorkerTypes
<1>3. CASE RxReceive
  <2>1. UNCHANGED <<toPeer, txThread, peer>>
    BY <1>3 DEF RxReceive
  <2>2. CASE toHost # << >>
    <3>1. /\ rxThread' = [rxThread EXCEPT !.pc = "keep", !.frame = Head(toHost)]
          /\ toHost' = Tail(toHost) /\ UNCHANGED shared
      BY <1>3, <2>2 DEF RxReceive
    <3>2. Head(toHost) \in Sendable /\ toHost' \in Seq(Sendable)
          /\ Len(toHost') = Len(toHost) - 1
      BY <2>2, <3>1, TailType DEF SharedTypes
    <3>3. Head(toHost) \in Carried /\ Head(toHost) # NoFrame
      BY <3>2, SentIsCarried
    <3>4. rxThread' \in RxRecord /\ rxThread'.frame # NoFrame
      BY <3>1, <3>3 DEF WorkerTypes, RxRecord
    <3>5. Len(toHost) \in Nat
      BY DEF SharedTypes
    <3>6. Len(toHost') <= SocketCapacity
      BY <3>2, <3>5 DEF SharedTypes
    <3> QED  BY <1>1, <2>1, <3>1, <3>2, <3>4, <3>6 DEF WorkerTypes, SharedTypes, shared
  <2>3. CASE toHost = << >>
    <3>1. /\ rxThread' = [rxThread EXCEPT !.pc = "done"]
          /\ toHost' = toHost /\ TransportFailed
      BY <1>3, <2>3 DEF RxReceive
    <3>2. rxThread' \in RxRecord /\ rxThread'.pc \notin {"keep", "push"}
      BY <3>1 DEF WorkerTypes, RxRecord
    <3> QED  BY <1>1, <2>1, <3>1, <3>2, SharedTypesStopped DEF WorkerTypes, sockets
  <2> QED  BY <2>2, <2>3
<1>4. CASE RxKeep
  <2>1. rxThread' \in RxRecord /\ rxThread'.frame # NoFrame
    BY <1>4 DEF RxKeep, WorkerTypes, RxRecord
  <2>2. UNCHANGED <<shared, sockets, txThread, peer>>
    BY <1>4 DEF RxKeep
  <2> QED  BY <1>1, <2>1, <2>2, SharedTypesKept DEF WorkerTypes
<1>5. CASE RxPush
  <2>1. UNCHANGED <<stop, tx, link, sockets, txThread, peer>>
    BY <1>5 DEF RxPush
  <2>2. rxThread.frame # NoFrame /\ rxThread.frame \in Sendable
    BY <1>5 DEF RxPush, WorkerTypes, RxRecord, Carried
  <2>3. rxThread' \in RxRecord
    BY <1>5, NoFrameIsNotSent DEF RxPush, WorkerTypes, RxRecord, AfterTimeout
  <2>4. rxThread'.pc \in {"keep", "push"} => rxThread'.frame # NoFrame
    BY <1>5, <2>2 DEF RxPush, WorkerTypes, RxRecord, AfterTimeout
  <2>5. CASE rx' = rx
    BY <1>1, <2>1, <2>3, <2>4, <2>5 DEF WorkerTypes, SharedTypes, sockets
  <2>6. CASE Len(rx.items) < QueueCapacity /\ rx' = [rx EXCEPT !.items = Append(@, rxThread.frame)]
    <3>1. Len(rx.items) \in Nat /\ rx.items \in Seq(Sendable)
      BY DEF SharedTypes, RxQueue
    <3>2. Append(rx.items, rxThread.frame) \in Seq(Sendable)
          /\ Len(Append(rx.items, rxThread.frame)) = Len(rx.items) + 1
      BY <2>2, <3>1, AppendType
    <3>3. rx' \in RxQueue /\ rx'.items = Append(rx.items, rxThread.frame)
      BY <2>6, <3>2 DEF SharedTypes, RxQueue
    <3>4. Len(rx'.items) <= QueueCapacity
      BY <2>6, <3>1, <3>2, <3>3
    <3> QED  BY <1>1, <2>1, <2>3, <2>4, <3>3, <3>4 DEF WorkerTypes, SharedTypes, sockets
  <2> QED  BY <1>5, <2>5, <2>6 DEF RxPush
<1> QED  BY <1>2, <1>3, <1>4, <1>5 DEF RxStep

\* The device's record after it has received a query, and after it has sent.
LEMMA PeerQueried ==
    ASSUME NEW p \in PeerRecord, NEW n \in Nat, NEW script \in Seq(Steps)
    PROVE  [p EXCEPT !.pc = "answer", !.requests = n, !.script = script] \in PeerRecord
<1>1. [p EXCEPT !.pc = "answer"] \in PeerRecord
  BY DEF PeerRecord
<1>2. \A q \in PeerRecord : [q EXCEPT !.requests = n] \in PeerRecord
  BY DEF PeerRecord
<1>3. \A q \in PeerRecord : [q EXCEPT !.script = script] \in PeerRecord
  BY DEF PeerRecord
<1> QED  BY <1>1, <1>2, <1>3

LEMMA PeerSent ==
    ASSUME NEW p \in PeerRecord, NEW n \in Nat, NEW script \in Seq(Steps), NEW k \in Nat,
           NEW answered \in SUBSET Sequences
    PROVE  [p EXCEPT !.script = script, !.sent = n, !.reports = k, !.answered = answered]
              \in PeerRecord
<1>1. \A q \in PeerRecord : [q EXCEPT !.script = script] \in PeerRecord
  BY DEF PeerRecord
<1>2. \A q \in PeerRecord : [q EXCEPT !.sent = n] \in PeerRecord
  BY DEF PeerRecord
<1>3. \A q \in PeerRecord : [q EXCEPT !.reports = k] \in PeerRecord
  BY DEF PeerRecord
<1>4. \A q \in PeerRecord : [q EXCEPT !.answered = answered] \in PeerRecord
  BY DEF PeerRecord
<1> QED  BY <1>1, <1>2, <1>3, <1>4

LEMMA PeerTypes ==
    ASSUME Types, PeerStep
    PROVE  Types'
<1> USE DEF Types
<1>1. MainTypes' /\ OutsideTypes' /\ UNCHANGED <<txThread, rxThread>>
  <2>1. UNCHANGED <<app, main, run, pending, txThread, rxThread, outside>>
    BY DEF PeerStep, PeerTest, PeerReceive, PeerAnswer
  <2> QED  BY <2>1, MainTypesKept, OutsideTypesKept
<1>2. ASSUME peer' \in PeerRecord, SharedTypes' PROVE Types'
  BY <1>1, <1>2 DEF WorkerTypes
<1>3. CASE PeerTest
  <2>1. peer' \in PeerRecord
    BY <1>3 DEF PeerTest, WorkerTypes, PeerRecord
  <2> QED  BY <1>2, <1>3, <2>1, SharedTypesKept DEF PeerTest
<1>4. CASE PeerReceive
  <2>1. CASE toPeer # << >>
    <3>1. Head(toPeer) \in Queries /\ Tail(toPeer) \in Seq(Queries)
          /\ Len(Tail(toPeer)) = Len(toPeer) - 1
      BY <2>1, TailType DEF SharedTypes
    <3>2. toPeer' = Tail(toPeer) /\ UNCHANGED <<shared, toHost>>
      BY <1>4, <2>1 DEF PeerReceive
    <3>3. PICK script \in Scripts(Head(toPeer), peer.requests + 1) :
             peer' = [peer EXCEPT !.pc = "answer", !.requests = @ + 1, !.script = script]
      BY <1>4, <2>1 DEF PeerReceive
    <3>4. peer.requests + 1 \in Nat
      BY DEF WorkerTypes, PeerRecord
    <3>5. script \in Seq(Steps)
      BY <3>1, <3>4, ScriptsType
    <3>6. peer' \in PeerRecord
      BY <3>3, <3>4, <3>5, PeerQueried DEF WorkerTypes
    <3>7. Len(toPeer) \in Nat
      BY DEF SharedTypes
    <3>8. Len(toPeer') <= SocketCapacity
      <4>1. Len(toPeer) <= SocketCapacity
        BY DEF SharedTypes
      <4> QED  BY <3>1, <3>2, <3>7, <4>1
    <3>9. SharedTypes'
      BY <3>1, <3>2, <3>8 DEF SharedTypes, shared
    <3> QED  BY <1>2, <3>6, <3>9
  <2>2. CASE toPeer = << >>
    <3>1. /\ peer' = [peer EXCEPT !.pc = "done"] /\ TransportFailed /\ UNCHANGED sockets
      BY <1>4, <2>2 DEF PeerReceive, sockets
    <3>2. peer' \in PeerRecord
      BY <3>1 DEF WorkerTypes, PeerRecord
    <3> QED  BY <1>2, <3>1, <3>2, SharedTypesStopped
  <2> QED  BY <2>1, <2>2
<1>5. CASE PeerAnswer
  <2>1. CASE peer' = [peer EXCEPT !.pc = "test"] /\ UNCHANGED <<shared, toHost>>
    <3>1. peer' \in PeerRecord
      BY <2>1 DEF WorkerTypes, PeerRecord
    <3> QED  BY <1>2, <1>5, <2>1, <3>1, SharedTypesKept DEF PeerAnswer, sockets
  <2>2. CASE peer' = [peer EXCEPT !.pc = "done"] /\ UNCHANGED <<shared, toHost>>
    <3>1. peer' \in PeerRecord
      BY <2>2 DEF WorkerTypes, PeerRecord
    <3> QED  BY <1>2, <1>5, <2>2, <3>1, SharedTypesKept DEF PeerAnswer, sockets
  <2>3. CASE \E state \in Links : PeerEnds(state)
    <3>1. peer' \in PeerRecord
      BY <2>3 DEF PeerEnds, WorkerTypes, PeerRecord
    <3>2. SharedTypes'
      BY <1>5, <2>3 DEF PeerEnds, PeerAnswer, SharedTypes
    <3> QED  BY <1>2, <3>1, <3>2
  <2>4. CASE /\ peer.script # << >> /\ Head(peer.script) \notin {Cut, Hang}
             /\ PeerSends(Head(peer.script))
    <3>1. Head(peer.script) \in Steps /\ Tail(peer.script) \in Seq(Steps)
      BY <2>4, TailType DEF WorkerTypes, PeerRecord
    <3> DEFINE frame == Head(peer.script)
               numbered == [frame EXCEPT !.serial = peer.sent + 1]
    <3>2. frame \in Sendable
      BY <2>4, <3>1 DEF Steps
    <3>3. peer.sent + 1 \in Nat
      BY DEF WorkerTypes, PeerRecord
    <3>4. numbered \in Sendable
      BY <3>2, <3>3 DEF Sendable
    <3>5. /\ link = "up" /\ Len(toHost) < SocketCapacity
          /\ toHost' = Append(toHost, numbered) /\ UNCHANGED shared
          /\ peer' = [peer EXCEPT !.script = Tail(@), !.sent = @ + 1,
                         !.reports = IF frame.type = "REPORT" THEN @ + 1 ELSE @,
                         !.answered = IF frame.type = "RESPONSE" THEN @ \cup {frame.sequence} ELSE @]
      BY <2>4 DEF PeerSends
    <3>6. frame.sequence \in Sequences
      BY <3>2 DEF Sendable
    <3> HIDE DEF frame, numbered
    <3>7. peer' \in PeerRecord
      <4> DEFINE reports == IF frame.type = "REPORT" THEN peer.reports + 1 ELSE peer.reports
                 answered == IF frame.type = "RESPONSE" THEN peer.answered \cup {frame.sequence}
                             ELSE peer.answered
      <4>1. peer \in PeerRecord
        BY DEF WorkerTypes
      <4>2. reports \in Nat
        BY <4>1 DEF PeerRecord
      <4>3. answered \in SUBSET Sequences
        BY <3>6, <4>1 DEF PeerRecord
      <4>4. peer' = [peer EXCEPT !.script = Tail(peer.script), !.sent = peer.sent + 1,
                                 !.reports = reports, !.answered = answered]
        BY <3>5
      <4>5. Tail(peer.script) \in Seq(Steps)
        BY <3>1
      <4> HIDE DEF reports, answered
      <4> QED  BY <3>3, <4>1, <4>2, <4>3, <4>4, <4>5, PeerSent
    <3>8. toHost \in Seq(Sendable) /\ Len(toHost) \in Nat
      BY DEF SharedTypes
    <3>9. toHost' \in Seq(Sendable) /\ Len(toHost') = Len(toHost) + 1
      BY <3>4, <3>5, <3>8, AppendType
    <3>10. Len(toHost') <= SocketCapacity
      BY <3>5, <3>8, <3>9
    <3>11. toPeer' = toPeer
      BY <1>5 DEF PeerAnswer
    <3>12. SharedTypes'
      BY <3>5, <3>9, <3>10, <3>11 DEF SharedTypes, shared
    <3> QED  BY <1>2, <3>7, <3>12
  <2>5. \A state : PeerEnds(state) /\ state \in {"cut", "hung", "down"} => state \in Links
    BY DEF Links
  <2> QED  BY <1>5, <2>1, <2>2, <2>3, <2>4, <2>5 DEF PeerAnswer, Links
<1> QED  BY <1>3, <1>4, <1>5 DEF PeerStep

\* Actions of the main thread that decide where it goes on and, at most, stop the
\* connection.
Running == Positions \ (Between \cup Before)
Turn == Loop \/ Scan \/ Judge \/ Settle

LEMMA TurnFacts ==
    ASSUME Turn
    PROVE  /\ main \in Running /\ main' \in Running
           /\ UNCHANGED <<app, run, pending, sockets, workers, outside>>
           /\ UNCHANGED shared \/ StopRuntime(TRUE)
<1> USE DEF Running, Positions, Between, Ended, Before
<1>1. CASE Loop
  BY <1>1 DEF Loop
<1>2. CASE Scan
  BY <1>2 DEF Scan
<1>3. CASE Judge
  BY <1>3 DEF Judge
<1>4. CASE Settle
  BY <1>4 DEF Settle
<1> QED  BY <1>1, <1>2, <1>3, <1>4 DEF Turn

LEMMA TurnTypes ==
    ASSUME Types, Turn
    PROVE  Types'
<1>1. /\ main' \in Positions /\ UNCHANGED <<app, run, pending, sockets, workers, outside>>
      /\ UNCHANGED shared \/ StopRuntime(TRUE)
  BY TurnFacts DEF Running
<1>2. MainTypes'
  BY <1>1 DEF Types, MainTypes
<1> QED  BY <1>1, <1>2, SharedTypesStopped, WorkerTypesKept, OutsideTypesKept DEF Types

LEMMA ConnectTypes ==
    ASSUME Types, SessionOK, Connect
    PROVE  Types'
<1> USE DEF Types
<1>1. NoFrame \in Carried
  BY DEF Carried
<1>2. CASE main' = "start"
  <2>1. /\ app' = [app EXCEPT !.state = "SYNCING", !.session = session]
        /\ run' = [sync |-> 0, followup |-> 0, responses |-> 0, reports |-> 0, timeouts |-> 0,
                   unmatched |-> 0, retries |-> 0, hold |-> mode \in Holding,
                   frame |-> NoFrame, handled |-> 0]
        /\ pending' = [next |-> 1, active |-> {}]
        /\ stop' = [stopping |-> FALSE, failed |-> FALSE, kind |-> "NONE"]
        /\ tx' = [open |-> TRUE, items |-> <<>>]
        /\ rx' = [open |-> TRUE, items |-> ReceivedAtStart]
        /\ link' = "up" /\ toPeer' = <<>> /\ toHost' = <<>>
        /\ rxThread' = [rxThread EXCEPT !.frame = NoFrame, !.timedOut = FALSE]
        /\ peer' = [peer EXCEPT !.requests = 0, !.script = <<>>, !.sent = 0, !.reports = 0,
                                !.answered = {}, !.broke = FALSE]
        /\ late' = FALSE
        /\ UNCHANGED <<txThread, status, mode, session, interrupted>>
    BY <1>2 DEF Connect
  <2>2. app' \in AppRecord
    <3>1. session \in Nat
      BY DEF OutsideTypes
    <3> QED  BY <2>1, <3>1 DEF MainTypes, AppRecord
  <2>3. run' \in RunRecord
    <3> DEFINE hold == mode \in Holding
    <3>1. hold \in BOOLEAN
      OBVIOUS
    <3>2. run' = [sync |-> 0, followup |-> 0, responses |-> 0, reports |-> 0, timeouts |-> 0,
                  unmatched |-> 0, retries |-> 0, hold |-> hold, frame |-> NoFrame, handled |-> 0]
      BY <2>1
    <3> HIDE DEF hold
    <3>3. CASE hold = TRUE
      BY <1>1, <3>2, <3>3 DEF RunRecord
    <3>4. CASE hold = FALSE
      BY <1>1, <3>2, <3>4 DEF RunRecord
    <3> QED  BY <3>1, <3>3, <3>4
  <2>4. MainTypes'
    BY <1>2, <2>1, <2>2, <2>3 DEF MainTypes, PendingRecord, Positions
  <2>5. SharedTypes'
    BY <2>1 DEF SharedTypes, StopRecord, Kinds, TxQueue, RxQueue, Links, ReceivedAtStart
  <2>6. rxThread' \in RxRecord
    BY <1>1, <2>1 DEF WorkerTypes, RxRecord
  <2>7. rxThread'.pc \notin {"keep", "push"}
    <3>1. rxThread.pc = "done"
      BY DEF Connect, SessionOK, Ended, WorkersAreDone
    <3> QED  BY <2>1, <3>1 DEF WorkerTypes, RxRecord
  <2>8. peer' \in PeerRecord
    <3>1. \A q \in PeerRecord : [q EXCEPT !.requests = 0, !.broke = FALSE] \in PeerRecord
      BY DEF PeerRecord
    <3>2. <<>> \in Seq(Steps) /\ {} \in SUBSET Sequences
      OBVIOUS
    <3>3. peer' = [[peer EXCEPT !.requests = 0, !.broke = FALSE]
                     EXCEPT !.script = <<>>, !.sent = 0, !.reports = 0, !.answered = {}]
      BY <2>1
    <3> QED  BY <3>1, <3>2, <3>3, PeerSent DEF WorkerTypes
  <2>9. OutsideTypes'
    BY <2>1 DEF OutsideTypes
  <2> QED  BY <2>1, <2>4, <2>5, <2>6, <2>7, <2>8, <2>9 DEF WorkerTypes
<1>3. CASE main' = "return"
  <2>1. /\ status' = 1
        /\ UNCHANGED <<app, run, pending, shared, sockets, workers, late, mode, session, interrupted>>
    BY <1>3 DEF Connect
  <2>2. MainTypes' /\ OutsideTypes'
    BY <1>3, <2>1 DEF MainTypes, OutsideTypes, Positions
  <2> QED  BY <2>1, <2>2, SharedTypesKept, WorkerTypesKept
<1> QED  BY <1>2, <1>3 DEF Connect

LEMMA StartTypes ==
    ASSUME Types, Start
    PROVE  Types'
<1> USE DEF Types
<1>1. UNCHANGED <<app, run, pending, sockets, outside>>
  BY DEF Start
<1>2. main' \in {"query", "finish"} /\ (UNCHANGED shared \/ StopRuntime(TRUE))
  BY DEF Start
<1>3. txThread' \in TxRecord /\ txThread'.pc # "send"
  BY DEF Start, WorkerTypes, TxRecord
<1>4. rxThread' \in RxRecord /\ rxThread'.pc \notin {"keep", "push"}
  BY DEF Start, WorkerTypes, RxRecord
<1>5. peer' \in PeerRecord
  BY DEF Start, WorkerTypes, PeerRecord
<1>6. MainTypes'
  BY <1>1, <1>2 DEF MainTypes, Positions
<1>7. WorkerTypes'
  BY <1>3, <1>4, <1>5 DEF WorkerTypes
<1> QED  BY <1>1, <1>2, <1>6, <1>7, SharedTypesStopped, OutsideTypesKept

\* A request accepted: its frame is queued, and it is in flight.
LEMMA AcceptedTypes ==
    ASSUME SharedTypes, MainTypes, UNCHANGED sockets, RequestAccepted, pending.next \in Queries
    PROVE  SharedTypes' /\ pending' \in PendingRecord
<1>1. /\ tx' = [tx EXCEPT !.items = Append(@, pending.next)]
      /\ pending' = [next |-> pending.next + 1,
                     active |-> pending.active \cup {[sequence |-> pending.next, retries |-> 0]}]
      /\ UNCHANGED <<stop, rx, link>> /\ Len(tx.items) < QueueCapacity
  BY DEF RequestAccepted
<1>2. tx.items \in Seq(Queries) /\ Len(tx.items) \in Nat
  BY DEF SharedTypes, TxQueue
<1>3. Append(tx.items, pending.next) \in Seq(Queries)
      /\ Len(Append(tx.items, pending.next)) = Len(tx.items) + 1
  BY <1>2, AppendType
<1>4. tx' \in TxQueue /\ tx'.items = Append(tx.items, pending.next)
  BY <1>1, <1>3 DEF SharedTypes, TxQueue
<1>5. Len(tx'.items) <= QueueCapacity
  BY <1>1, <1>2, <1>3, <1>4
<1>6. SharedTypes'
  BY <1>1, <1>4, <1>5 DEF SharedTypes, sockets
<1>7. [sequence |-> pending.next, retries |-> 0] \in Requests
  BY DEF Requests, Queries
<1>8. pending.next + 1 \in 1 .. 3
  BY DEF Queries, Sequences
<1>9. pending.active \in SUBSET Requests
  BY DEF MainTypes, PendingRecord
<1>10. pending.active \cup {[sequence |-> pending.next, retries |-> 0]} \in SUBSET Requests
  BY <1>7, <1>9
<1> QED  BY <1>1, <1>6, <1>8, <1>10 DEF PendingRecord

LEMMA QueryTypes ==
    ASSUME Types, SessionOK, RequestsOK, Query
    PROVE  Types'
<1> USE DEF Types
<1>1. main' \in Positions /\ UNCHANGED <<app, sockets, workers, outside>>
  BY DEF Query, Positions
<1>2. CASE RequestAccepted /\ run' = [run EXCEPT !.sync = pending.next]
  <2>1. pending.next = 1
    BY DEF RequestsOK, Query, Before
  <2>2. run' \in RunRecord
    BY <1>2, <2>1 DEF MainTypes, RunRecord
  <2>3. pending.next \in Queries
    BY <2>1 DEF Queries, Sequences
  <2> QED  BY <1>1, <1>2, <2>2, <2>3, AcceptedTypes, WorkerTypesKept, OutsideTypesKept DEF MainTypes
<1>3. CASE UNCHANGED <<run, pending, shared>>
  BY <1>1, <1>3, SharedTypesKept, WorkerTypesKept, OutsideTypesKept DEF MainTypes
<1> QED  BY <1>2, <1>3 DEF Query

\* The main thread's counters and the frame it has taken.
LEMMA RunFields ==
    ASSUME NEW r \in RunRecord, NEW n \in Nat, NEW frame \in Carried
    PROVE  /\ [r EXCEPT !.hold = FALSE] \in RunRecord
           /\ [r EXCEPT !.timeouts = n] \in RunRecord
           /\ [r EXCEPT !.retries = n] \in RunRecord
           /\ [r EXCEPT !.followup = 2] \in RunRecord
           /\ [r EXCEPT !.reports = n, !.frame = frame] \in RunRecord
           /\ [r EXCEPT !.responses = n, !.frame = frame] \in RunRecord
           /\ [r EXCEPT !.unmatched = n, !.frame = frame] \in RunRecord
           /\ [r EXCEPT !.frame = frame, !.handled = n] \in RunRecord
<1>1. \A q \in RunRecord : [q EXCEPT !.frame = frame] \in RunRecord
  BY DEF RunRecord
<1>2. [r EXCEPT !.reports = n] \in RunRecord
  BY DEF RunRecord
<1>3. [r EXCEPT !.responses = n] \in RunRecord
  BY DEF RunRecord
<1>4. [r EXCEPT !.unmatched = n] \in RunRecord
  BY DEF RunRecord
<1>5. \A q \in RunRecord : [q EXCEPT !.handled = n] \in RunRecord
  BY DEF RunRecord
<1>6. [r EXCEPT !.reports = n, !.frame = frame] \in RunRecord
  BY <1>1, <1>2
<1>7. [r EXCEPT !.responses = n, !.frame = frame] \in RunRecord
  BY <1>1, <1>3
<1>8. [r EXCEPT !.unmatched = n, !.frame = frame] \in RunRecord
  BY <1>1, <1>4
<1>9. [r EXCEPT !.frame = frame, !.handled = n] \in RunRecord
  BY <1>1, <1>5
<1>10. [r EXCEPT !.hold = FALSE] \in RunRecord
  BY DEF RunRecord
<1>11. [r EXCEPT !.timeouts = n] \in RunRecord
  BY DEF RunRecord
<1>12. [r EXCEPT !.retries = n] \in RunRecord
  BY DEF RunRecord
<1>13. [r EXCEPT !.followup = 2] \in RunRecord
  BY DEF RunRecord
<1> QED  BY <1>6, <1>7, <1>8, <1>9, <1>10, <1>11, <1>12, <1>13

LEMMA HoldTypes ==
    ASSUME Types, Hold
    PROVE  Types'
<1> USE DEF Types
<1>1. main' \in Positions /\ UNCHANGED <<app, pending, shared, sockets, workers, outside>>
  BY DEF Hold, Positions
<1>2. run' = run \/ run' = [run EXCEPT !.hold = FALSE]
  BY DEF Hold
<1>3. NoFrame \in Carried /\ 0 \in Nat
  BY NoFrameIsNotSent
<1>4. run' \in RunRecord
  BY <1>2, <1>3, RunFields DEF MainTypes
<1> QED  BY <1>1, <1>4, SharedTypesKept, WorkerTypesKept, OutsideTypesKept DEF MainTypes

LEMMA TakeTypes ==
    ASSUME Types, Take
    PROVE  Types'
<1> USE DEF Types
<1>1. UNCHANGED <<app, pending, stop, tx, link, sockets, workers, outside>>
  BY DEF Take
<1>2. main' \in Positions
  BY DEF Take, Positions
<1>3. CASE rx.items # << >>
  <2>1. /\ run' = [run EXCEPT !.frame = Head(rx.items), !.handled = Head(rx.items).serial]
        /\ rx' = [rx EXCEPT !.items = Tail(@)]
    BY <1>3 DEF Take
  <2>2. Head(rx.items) \in Sendable /\ Tail(rx.items) \in Seq(Sendable)
        /\ Len(Tail(rx.items)) = Len(rx.items) - 1
    BY <1>3, TailType DEF SharedTypes, RxQueue
  <2>3. Head(rx.items) \in Carried /\ Head(rx.items).serial \in Nat
    BY <2>2, SentIsCarried DEF Sendable
  <2>4. run' \in RunRecord
    BY <2>1, <2>3, RunFields DEF MainTypes
  <2>5. rx' \in RxQueue /\ rx'.items = Tail(rx.items)
    BY <2>1, <2>2 DEF SharedTypes, RxQueue
  <2>6. Len(rx.items) \in Nat /\ Len(rx.items) <= QueueCapacity
    BY DEF SharedTypes, RxQueue
  <2>7. Len(rx'.items) <= QueueCapacity
    BY <2>2, <2>5, <2>6
  <2>8. SharedTypes'
    BY <1>1, <2>5, <2>7 DEF SharedTypes, sockets
  <2> QED  BY <1>1, <1>2, <2>4, <2>8, WorkerTypesKept, OutsideTypesKept DEF MainTypes
<1>4. CASE rx.items = << >>
  <2>1. UNCHANGED <<run, rx>>
    BY <1>4 DEF Take
  <2>2. SharedTypes'
    BY <1>1, <2>1 DEF SharedTypes, sockets
  <2> QED  BY <1>1, <1>2, <2>1, <2>2, WorkerTypesKept, OutsideTypesKept DEF MainTypes
<1> QED  BY <1>3, <1>4

\* The application after a frame has been handled.
LEMMA AppliedType ==
    ASSUME app \in AppRecord, NEW progress \in 0 .. 100
    PROVE  /\ Applied(progress) \in AppRecord
           /\ Applied(progress).state = app.state
           /\ Applied(progress).session = app.session
           /\ Applied(progress).progress = progress
<1>1. \A q \in AppRecord, n \in Nat :
         [q EXCEPT !.progress = progress, !.notifications = n] \in AppRecord
  BY DEF AppRecord
<1>2. (IF app.progress = progress THEN app.notifications ELSE app.notifications + 1) \in Nat
  BY DEF AppRecord
<1> QED  BY <1>1, <1>2 DEF Applied, AppRecord

\* What handling a frame does to the main thread's part.
LEMMA HandleFacts ==
    ASSUME MainTypes, main = "handle", HandleReport \/ HandleMatched \/ HandleUnmatched
    PROVE  /\ app' \in AppRecord /\ run' \in RunRecord /\ pending' \in PendingRecord
           /\ app'.session = app.session
           /\ run'.frame = NoFrame /\ run'.sync = run.sync /\ run'.followup = run.followup
           /\ run'.handled = run.handled
           /\ pending'.next = pending.next /\ pending'.active \subseteq pending.active
           /\ \/ app'.state = app.state
              \/ /\ app.state = "SYNCING" /\ app'.state = "ONLINE" /\ run.frame.type = "RESPONSE"
                 /\ run.frame.sequence = run.sync /\ Matches(run.frame) # {}
                 /\ pending'.active = pending.active \ Matches(run.frame)
           /\ app.state = "SYNCING" /\ (\A p \in pending.active : p.sequence = run.sync) =>
                 app' = app \/ app'.state = "ONLINE"
<1>1. /\ app \in AppRecord /\ run \in RunRecord /\ pending \in PendingRecord
      /\ run.frame \in Carried
  BY DEF MainTypes, RunRecord
<1>2. run.frame.progress \in 0 .. 100
  BY <1>1 DEF Carried, Sendable, NoFrame, Frame
<1>3. NoFrame \in Carried
  BY NoFrameIsNotSent
<1>4. CASE HandleReport
  <2>1. /\ run' = [run EXCEPT !.reports = @ + 1, !.frame = NoFrame] /\ pending' = pending
        /\ (app.state = "ONLINE" /\ app' = Applied(run.frame.progress)) \/ app' = app
    BY <1>4 DEF HandleReport, AfterReport
  <2>2. run.reports + 1 \in Nat
    BY <1>1 DEF RunRecord
  <2>3. run' \in RunRecord
    BY <1>1, <1>3, <2>1, <2>2, RunFields
  <2> QED  BY <1>1, <1>2, <2>1, <2>3, AppliedType DEF RunRecord
<1>5. CASE HandleMatched
  <2>1. /\ run.frame.type = "RESPONSE" /\ Matches(run.frame) # {}
        /\ run' = [run EXCEPT !.responses = @ + 1, !.frame = NoFrame]
        /\ pending' = [pending EXCEPT !.active = @ \ Matches(run.frame)]
        /\ app' = [Applied(run.frame.progress) EXCEPT
                     !.state = IF @ = "SYNCING" /\ run.frame.sequence = run.sync
                               THEN "ONLINE" ELSE @]
    BY <1>5 DEF HandleMatched
  <2>2. run.responses + 1 \in Nat
    BY <1>1 DEF RunRecord
  <2>3. run' \in RunRecord
    BY <1>1, <1>3, <2>1, <2>2, RunFields
  <2>4. pending' \in PendingRecord
    BY <1>1, <2>1 DEF PendingRecord
  <2>5. app' \in AppRecord /\ app'.session = app.session
        /\ app'.state = IF app.state = "SYNCING" /\ run.frame.sequence = run.sync
                        THEN "ONLINE" ELSE app.state
    <3> DEFINE applied == Applied(run.frame.progress)
               onward == IF app.state = "SYNCING" /\ run.frame.sequence = run.sync
                         THEN "ONLINE" ELSE app.state
    <3>1. applied \in AppRecord /\ applied.state = app.state /\ applied.session = app.session
      BY <1>1, <1>2, AppliedType
    <3>2. app' = [applied EXCEPT !.state = onward]
      BY <2>1, <3>1
    <3>3. onward \in {"OFFLINE", "SYNCING", "ONLINE"}
      BY <1>1 DEF AppRecord
    <3> HIDE DEF applied, onward
    <3>4. app' \in AppRecord /\ app'.session = app.session /\ app'.state = onward
      BY <3>1, <3>2, <3>3 DEF AppRecord
    <3> QED  BY <3>4 DEF onward
  <2>6. /\ run'.frame = NoFrame /\ run'.sync = run.sync /\ run'.followup = run.followup
        /\ run'.handled = run.handled
    BY <1>1, <2>1 DEF RunRecord
  <2>7. pending'.next = pending.next /\ pending'.active = pending.active \ Matches(run.frame)
    BY <1>1, <2>1 DEF PendingRecord
  <2>8. CASE app.state = "SYNCING" /\ run.frame.sequence = run.sync
    BY <2>1, <2>3, <2>4, <2>5, <2>6, <2>7, <2>8
  <2>9. CASE ~(app.state = "SYNCING" /\ run.frame.sequence = run.sync)
    <3>1. app'.state = app.state
      BY <2>5, <2>9
    <3>2. \E p \in pending.active : p.sequence = run.frame.sequence
      BY <2>1 DEF Matches
    <3>3. ~(app.state = "SYNCING" /\ \A p \in pending.active : p.sequence = run.sync)
      BY <2>9, <3>2
    <3> QED  BY <2>3, <2>4, <2>5, <2>6, <2>7, <3>1, <3>3
  <2> QED  BY <2>8, <2>9
<1>6. CASE HandleUnmatched
  <2>1. /\ run' = [run EXCEPT !.unmatched = @ + 1, !.frame = NoFrame]
        /\ UNCHANGED <<app, pending>>
    BY <1>6 DEF HandleUnmatched
  <2>2. run.unmatched + 1 \in Nat
    BY <1>1 DEF RunRecord
  <2>3. run' \in RunRecord
    BY <1>1, <1>3, <2>1, <2>2, RunFields
  <2> QED  BY <1>1, <2>1, <2>3 DEF RunRecord
<1> QED  BY <1>4, <1>5, <1>6

LEMMA HandleTypes ==
    ASSUME Types, Handle
    PROVE  Types'
<1> USE DEF Types
<1>1. main' \in Positions /\ UNCHANGED <<shared, sockets, workers, outside>>
  BY DEF Handle, Positions
<1>2. app' \in AppRecord /\ run' \in RunRecord /\ pending' \in PendingRecord
  BY HandleFacts DEF Handle, MainTypes
<1> QED  BY <1>1, <1>2, SharedTypesKept, WorkerTypesKept, OutsideTypesKept DEF MainTypes

\* What an overdue request leads to: given up, repeated, or nothing at all.
LEMMA OverdueFacts ==
    ASSUME MainTypes, SharedTypes, UNCHANGED sockets, NEW p \in pending.active, Overdue(p)
    PROVE  /\ run' \in RunRecord /\ pending' \in PendingRecord /\ SharedTypes'
           /\ main' \in {"judge", "finish"}
           /\ run'.frame = run.frame /\ run'.sync = run.sync /\ run'.followup = run.followup
           /\ run'.handled = run.handled
           /\ pending'.next = pending.next
           /\ \/ pending'.active \subseteq pending.active
              \/ \E q : q.sequence = p.sequence /\ pending'.active = (pending.active \ {p}) \cup {q}
           /\ rx' = rx \/ (stop'.stopping /\ rx'.items = rx.items)
           /\ UNCHANGED <<stop, link>> \/ \E failed \in BOOLEAN : StopRuntime(failed)
<1>1. /\ run \in RunRecord /\ pending \in PendingRecord /\ p \in Requests
  BY DEF MainTypes, PendingRecord
<1>2. CASE /\ pending' = [pending EXCEPT !.active = @ \ {p}]
           /\ run' = [run EXCEPT !.timeouts = @ + 1]
           /\ main' = "judge" /\ UNCHANGED shared
  <2>1. NoFrame \in Carried /\ run.timeouts + 1 \in Nat
    BY <1>1, NoFrameIsNotSent DEF RunRecord
  <2>2. run' \in RunRecord
    BY <1>1, <1>2, <2>1, RunFields
  <2>3. pending' \in PendingRecord /\ pending'.next = pending.next
        /\ pending'.active \subseteq pending.active
    BY <1>1, <1>2 DEF PendingRecord
  <2>4. run'.frame = run.frame /\ run'.sync = run.sync /\ run'.followup = run.followup
        /\ run'.handled = run.handled
    BY <1>1, <1>2 DEF RunRecord
  <2> QED  BY <1>2, <2>2, <2>3, <2>4, SharedTypesKept DEF shared
<1>3. CASE /\ p.retries < MaxRetries /\ Len(tx.items) < QueueCapacity
           /\ tx' = [tx EXCEPT !.items = Append(@, p.sequence)]
           /\ pending' = [pending EXCEPT !.active = (@ \ {p}) \cup {[p EXCEPT !.retries = @ + 1]}]
           /\ run' = [run EXCEPT !.retries = @ + 1]
           /\ main' = "judge" /\ UNCHANGED <<stop, rx, link>>
  <2>1. NoFrame \in Carried /\ run.retries + 1 \in Nat
    BY <1>1, NoFrameIsNotSent DEF RunRecord
  <2>2. run' \in RunRecord
    BY <1>1, <1>3, <2>1, RunFields
  <2>3. run'.frame = run.frame /\ run'.sync = run.sync /\ run'.followup = run.followup
        /\ run'.handled = run.handled
    BY <1>1, <1>3 DEF RunRecord
  <2> DEFINE q == [p EXCEPT !.retries = @ + 1]
  <2>4. q \in Requests /\ q.sequence = p.sequence /\ p.sequence \in Queries
    BY <1>1, <1>3 DEF Requests, Queries
  <2>5. pending' = [pending EXCEPT !.active = (@ \ {p}) \cup {q}]
    BY <1>3
  <2> HIDE DEF q
  <2>6. pending' \in PendingRecord /\ pending'.next = pending.next
        /\ pending'.active = (pending.active \ {p}) \cup {q}
    BY <1>1, <2>4, <2>5 DEF PendingRecord
  <2>7. tx.items \in Seq(Queries) /\ Len(tx.items) \in Nat
    BY DEF SharedTypes, TxQueue
  <2>8. Append(tx.items, p.sequence) \in Seq(Queries)
        /\ Len(Append(tx.items, p.sequence)) = Len(tx.items) + 1
    BY <2>4, <2>7, AppendType
  <2>9. tx' \in TxQueue /\ tx'.items = Append(tx.items, p.sequence)
    BY <1>3, <2>8 DEF SharedTypes, TxQueue
  <2>10. Len(tx'.items) <= QueueCapacity
    BY <1>3, <2>7, <2>8, <2>9
  <2>11. SharedTypes'
    BY <1>3, <2>9, <2>10 DEF SharedTypes, sockets
  <2> QED  BY <1>3, <2>2, <2>3, <2>4, <2>6, <2>11
<1>4. CASE main' = "judge" /\ UNCHANGED <<run, pending, shared>>
  BY <1>1, <1>4, SharedTypesKept DEF shared
<1>5. CASE StopRuntime(TRUE) /\ main' = "finish" /\ UNCHANGED <<run, pending>>
  <2>1. SharedTypes' /\ rx'.items = rx.items /\ stop'.stopping
    BY <1>5, SharedTypesStopped, StopRuntimeFacts
  <2> QED  BY <1>1, <1>5, <2>1
<1> QED  BY <1>2, <1>3, <1>4, <1>5 DEF Overdue

LEMMA ProcessTypes ==
    ASSUME Types, Process
    PROVE  Types'
<1> USE DEF Types
<1>1. UNCHANGED <<app, sockets, workers, outside>>
  BY DEF Process
<1>2. CASE main' = "judge" /\ UNCHANGED <<run, pending, shared>>
  <2>1. MainTypes'
    BY <1>1, <1>2 DEF MainTypes, Positions
  <2> QED  BY <1>1, <1>2, <2>1, SharedTypesKept, WorkerTypesKept, OutsideTypesKept
<1>3. CASE \E p \in pending.active : Overdue(p)
  <2>1. PICK p \in pending.active : Overdue(p)
    BY <1>3
  <2>2. run' \in RunRecord /\ pending' \in PendingRecord /\ SharedTypes'
        /\ main' \in {"judge", "finish"}
    BY <1>1, <2>1, OverdueFacts
  <2>3. MainTypes'
    BY <1>1, <2>2 DEF MainTypes, Positions
  <2> QED  BY <1>1, <2>2, <2>3, WorkerTypesKept, OutsideTypesKept
<1> QED  BY <1>2, <1>3 DEF Process

\* The second query carries the number 2.
LEMMA FollowUpNumber ==
    ASSUME RequestsOK, main = "follow", app.state = "ONLINE", run.followup = 0
    PROVE  pending.next = 2
BY DEF RequestsOK, Between, Ended, Before

LEMMA FollowUpTypes ==
    ASSUME Types, RequestsOK, FollowUp
    PROVE  Types'
<1> USE DEF Types
<1>1. /\ main' \in Positions /\ main = "follow"
      /\ UNCHANGED <<app, sockets, workers, outside>>
  BY DEF FollowUp, Positions
<1>2. CASE /\ app.state = "ONLINE" /\ run.followup = 0 /\ RequestAccepted
           /\ run' = [run EXCEPT !.followup = pending.next]
  <2>1. pending.next = 2
    BY <1>1, <1>2, FollowUpNumber
  <2>2. pending.next \in Queries /\ NoFrame \in Carried /\ 0 \in Nat
    BY <2>1, NoFrameIsNotSent DEF Queries, Sequences
  <2>3. run' \in RunRecord
    BY <1>2, <2>1, <2>2, RunFields DEF MainTypes
  <2> QED  BY <1>1, <1>2, <2>2, <2>3, AcceptedTypes, WorkerTypesKept, OutsideTypesKept
           DEF MainTypes
<1>3. CASE UNCHANGED <<run, pending>> /\ (UNCHANGED shared \/ StopRuntime(TRUE))
  <2>1. MainTypes'
    BY <1>1, <1>3 DEF MainTypes
  <2> QED  BY <1>1, <1>3, <2>1, SharedTypesStopped, WorkerTypesKept, OutsideTypesKept
<1> QED  BY <1>2, <1>3 DEF FollowUp

LEMMA FinishTypes ==
    ASSUME Types, Finish
    PROVE  Types'
<1> USE DEF Types
<1>1. /\ StopRuntime(FALSE) /\ main' \in Positions
      /\ app' = [app EXCEPT !.state = "OFFLINE"]
      /\ UNCHANGED <<run, pending, sockets, workers, outside>>
  BY DEF Finish, Positions
<1>2. app' \in AppRecord
  BY <1>1 DEF MainTypes, AppRecord
<1>3. MainTypes'
  BY <1>1, <1>2 DEF MainTypes
<1> QED  BY <1>1, <1>3, SharedTypesStopped, WorkerTypesKept, OutsideTypesKept

\* Between two connections and at the end only the main thread's place, the
\* session and the exit status change, and the manager is emptied.
LEMMA PauseFacts ==
    ASSUME MainTypes, OutsideTypes, SessionOK, Join \/ Delay \/ Return \/ ConnectInterrupted
    PROVE  /\ UNCHANGED <<app, run, shared, sockets, workers>> /\ OutsideTypes' /\ MainTypes'
           /\ pending' = pending \/ pending' = [next |-> 1, active |-> {}]
<1>1. CASE Join
  <2>1. /\ UNCHANGED <<app, run, shared, sockets, workers, mode, session, late, interrupted>>
        /\ pending' = [next |-> 1, active |-> {}]
    BY <1>1 DEF Join
  <2>2. main' \in {"return", "delay"} /\ status' \in {0, 1, status}
    BY <1>1 DEF Join
  <2>3. pending' \in PendingRecord
    BY <2>1 DEF PendingRecord
  <2> QED  BY <2>1, <2>2, <2>3 DEF MainTypes, OutsideTypes, Positions
<1>2. CASE Delay
  <2>1. /\ UNCHANGED <<app, run, pending, shared, sockets, workers, mode, late, interrupted>>
        /\ main' \in Positions /\ status' \in {0, status} /\ session' \in {session, session + 1}
    BY <1>2 DEF Delay, Positions
  <2>2. session' \in 1 .. MaxReconnects + 1
    BY <1>2, <2>1 DEF Delay, OutsideTypes, SessionOK
  <2> QED  BY <2>1, <2>2 DEF MainTypes, OutsideTypes
<1>3. CASE Return \/ ConnectInterrupted
  <2>1. /\ UNCHANGED <<app, run, pending, shared, sockets, workers, mode, session, late, interrupted>>
        /\ main' \in Positions /\ status' \in {0, 128, status}
    BY <1>3 DEF Return, ConnectInterrupted, Positions
  <2> QED  BY <2>1 DEF MainTypes, OutsideTypes
<1> QED  BY <1>1, <1>2, <1>3

LEMMA MainStepTypes ==
    ASSUME Types, SessionOK, RequestsOK, MainStep
    PROVE  Types'
<1>1. CASE Turn
  BY <1>1, TurnTypes
<1>2. CASE Join \/ Delay \/ Return \/ ConnectInterrupted
  BY <1>2, PauseFacts, SharedTypesKept, WorkerTypesKept DEF Types
<1> QED  BY <1>1, <1>2, ConnectTypes, StartTypes, QueryTypes, HoldTypes, TakeTypes, HandleTypes,
            ProcessTypes, FollowUpTypes, FinishTypes DEF MainStep, Turn

\* The clock, a signal, and the state after exit.
Aside == LimitPasses \/ Signal \/ Exited \/ UNCHANGED vars

LEMMA AsideFacts ==
    ASSUME Aside
    PROVE  /\ UNCHANGED <<mode, session, app, main, run, pending, shared, sockets, workers, status>>
           /\ late' \in {TRUE, late} /\ interrupted' \in {TRUE, interrupted}
BY DEF Aside, LimitPasses, Signal, Exited, vars, shared, sockets, workers

LEMMA TypesStep ==
    ASSUME Types, SessionOK, RequestsOK, [Next]_vars
    PROVE  Types'
<1>1. CASE Aside
  <2>1. OutsideTypes'
    BY <1>1, AsideFacts DEF Types, OutsideTypes
  <2> QED  BY <1>1, <2>1, AsideFacts, MainTypesKept, SharedTypesKept, WorkerTypesKept DEF Types
<1> QED  BY <1>1, MainStepTypes, TxTypes, RxTypes, PeerTypes DEF Next, Aside

-------------------------------------------------------------------------------
(* The connection's state. *)

\* What the main thread does between two decisions to finish.
Work == Turn \/ Hold \/ Take \/ Handle \/ Process \/ FollowUp

LEMMA WorkFacts ==
    ASSUME Types, Work
    PROVE  /\ main \in Running /\ main' \in Running /\ UNCHANGED <<sockets, workers, outside>>
           /\ app'.session = app.session
           /\ app'.state = app.state \/ (app.state = "SYNCING" /\ app'.state = "ONLINE")
           /\ UNCHANGED <<stop, link>> \/ \E failed \in BOOLEAN : StopRuntime(failed)
<1> USE DEF Running, Positions, Between, Ended, Before
<1>1. CASE Turn
  BY <1>1, TurnFacts DEF shared
<1>2. CASE Hold
  BY <1>2 DEF Hold, shared
<1>3. CASE Take
  BY <1>3 DEF Take
<1>4. CASE Handle
  <2>1. /\ main = "handle" /\ main' \in {"scan", "finish"}
        /\ UNCHANGED <<shared, sockets, workers, outside>>
        /\ UNCHANGED <<app, run, pending>> \/ HandleReport \/ HandleMatched \/ HandleUnmatched
    BY <1>4 DEF Handle
  <2>2. /\ app'.session = app.session
        /\ app'.state = app.state \/ (app.state = "SYNCING" /\ app'.state = "ONLINE")
    BY <2>1, HandleFacts DEF Types
  <2> QED  BY <2>1, <2>2 DEF shared
<1>5. CASE Process
  <2>1. main = "process" /\ UNCHANGED <<app, sockets, workers, outside>>
    BY <1>5 DEF Process
  <2>2. main' \in {"judge", "finish"}
        /\ (UNCHANGED <<stop, link>> \/ \E failed \in BOOLEAN : StopRuntime(failed))
    BY <1>5, <2>1, OverdueFacts DEF Process, Types, shared
  <2> QED  BY <2>1, <2>2
<1>6. CASE FollowUp
  BY <1>6 DEF FollowUp, RequestAccepted, shared
<1> QED  BY <1>1, <1>2, <1>3, <1>4, <1>5, <1>6 DEF Work

\* A worker that moves has been started and is not done.
LEMMA WorkerFacts ==
    ASSUME TxStep \/ RxStep \/ PeerStep
    PROVE  ~WorkersAreDone /\ UNCHANGED <<app, main, run, pending, outside>>
BY DEF TxStep, TxTest, TxPop, TxSend, RxStep, RxTest, RxReceive, RxKeep, RxPush,
       PeerStep, PeerTest, PeerReceive, PeerAnswer, WorkersAreDone

LEMMA MainCases ==
    ASSUME MainStep
    PROVE  \/ Connect \/ Start \/ Query \/ Work \/ Finish
           \/ Join \/ Delay \/ Return \/ ConnectInterrupted
BY DEF MainStep, Work, Turn

LEMMA SessionInit == Init => SessionOK
BY DEF Init, InitialApplication, SessionOK, Between, Ended, Before, WorkersAreDone

LEMMA SessionStep ==
    ASSUME Types, SessionOK, [Next]_vars
    PROVE  SessionOK'
<1> USE DEF Between, Ended, Before
<1>1. session \in Nat /\ app.session \in Nat /\ app \in AppRecord
  BY DEF Types, MainTypes, OutsideTypes, AppRecord
<1>2. CASE TxStep \/ RxStep \/ PeerStep
  <2>1. main \notin Ended \cup {"start"} /\ UNCHANGED <<app, main, session>>
    BY <1>2, WorkerFacts DEF SessionOK, outside
  <2> QED  BY <2>1 DEF SessionOK
<1>3. CASE Aside
  BY <1>3, AsideFacts DEF SessionOK, WorkersAreDone, workers
<1>4. CASE Work
  <2>1. /\ main \in Running /\ main' \in Running /\ app'.session = app.session
        /\ app'.state = app.state \/ (app.state = "SYNCING" /\ app'.state = "ONLINE")
        /\ session' = session
    BY <1>4, WorkFacts DEF outside
  <2> QED  BY <2>1 DEF SessionOK, Running
<1>5. CASE Connect
  <2>1. main = "connect" /\ app.session = session - 1 /\ WorkersAreDone /\ app.state = "OFFLINE"
    BY <1>5 DEF Connect, SessionOK
  <2>2. session' = session
    BY <1>5 DEF Connect
  <2>3. CASE main' = "start"
    <3>1. app' = [app EXCEPT !.state = "SYNCING", !.session = session]
      BY <1>5, <2>3 DEF Connect
    <3>2. app'.state = "SYNCING" /\ app'.session = session
      BY <1>1, <3>1 DEF AppRecord
    <3>3. /\ txThread' = txThread
          /\ rxThread' = [rxThread EXCEPT !.frame = NoFrame, !.timedOut = FALSE]
          /\ peer' = [peer EXCEPT !.requests = 0, !.script = <<>>, !.sent = 0, !.reports = 0,
                                  !.answered = {}, !.broke = FALSE]
      BY <1>5, <2>3 DEF Connect
    <3>4. WorkersAreDone'
      BY <2>1, <3>3 DEF WorkersAreDone, Types, WorkerTypes, RxRecord, PeerRecord
    <3> QED  BY <2>2, <2>3, <3>2, <3>4 DEF SessionOK
  <2>4. CASE main' = "return"
    <3>1. UNCHANGED <<app, workers>>
      BY <1>5, <2>4 DEF Connect
    <3> QED  BY <2>1, <2>2, <2>4, <3>1 DEF SessionOK, WorkersAreDone, workers
  <2> QED  BY <1>5, <2>3, <2>4 DEF Connect
<1>6. CASE Start
  <2>1. main = "start" /\ main' \in {"query", "finish"} /\ UNCHANGED <<app, session>>
    BY <1>6 DEF Start, outside
  <2> QED  BY <2>1 DEF SessionOK
<1>7. CASE Query
  <2>1. main = "query" /\ main' = "loop" /\ UNCHANGED <<app, session>>
    BY <1>7 DEF Query, outside
  <2> QED  BY <2>1 DEF SessionOK
<1>8. CASE Finish
  <2>1. /\ main = "finish" /\ main' = "join" /\ session' = session
        /\ app' = [app EXCEPT !.state = "OFFLINE"]
    BY <1>8 DEF Finish, outside
  <2>2. app'.state = "OFFLINE" /\ app'.session = app.session
    BY <1>1, <2>1 DEF AppRecord
  <2> QED  BY <2>1, <2>2 DEF SessionOK
<1>9. CASE Join
  <2>1. main = "join" /\ WorkersAreDone /\ UNCHANGED <<app, session, workers>>
    BY <1>9 DEF Join
  <2>2. main' = "return" \/ (main' = "delay" /\ session <= MaxReconnects)
    BY <1>1, <1>9 DEF Join, AttemptsExhausted
  <2>3. WorkersAreDone'
    BY <2>1 DEF WorkersAreDone, workers
  <2> QED  BY <1>1, <2>1, <2>2, <2>3 DEF SessionOK
<1>10. CASE Delay
  <2>1. main = "delay" /\ UNCHANGED <<app, workers>>
    BY <1>10 DEF Delay
  <2>2. \/ main' = "return" /\ session' = session
        \/ main' = "connect" /\ session' = session + 1
    BY <1>10 DEF Delay
  <2>3. WorkersAreDone'
    BY <2>1 DEF SessionOK, WorkersAreDone, workers
  <2> QED  BY <1>1, <2>1, <2>2, <2>3 DEF SessionOK
<1>11. CASE Return \/ ConnectInterrupted
  <2>1. /\ main \in {"connect", "return"} /\ main' \in {"return", "exit"}
        /\ UNCHANGED <<app, session, workers>>
    BY <1>11 DEF Return, ConnectInterrupted
  <2>2. WorkersAreDone'
    BY <2>1 DEF SessionOK, WorkersAreDone, workers
  <2> QED  BY <1>1, <2>1, <2>2 DEF SessionOK
<1> QED  BY <1>2, <1>3, <1>4, <1>5, <1>6, <1>7, <1>8, <1>9, <1>10, <1>11, MainCases DEF Next, Aside

-------------------------------------------------------------------------------
(* Why a connection ends. *)

LEMMA ReasonInit == Init => ReasonOK
BY DEF Init, ReasonOK, Ended

\* A stop by whoever does not blame the transport keeps the reasons straight.
LEMMA ReasonStopped ==
    ASSUME Types, ReasonOK, main \notin Ended, main' \notin Ended, peer'.broke = peer.broke,
           UNCHANGED <<stop, link>> \/ \E failed \in BOOLEAN : StopRuntime(failed)
    PROVE  ReasonOK'
<1>1. CASE UNCHANGED <<stop, link>>
  BY <1>1 DEF ReasonOK, Ended
<1>2. CASE \E failed \in BOOLEAN : StopRuntime(failed)
  <2>1. PICK failed \in BOOLEAN : StopRuntime(failed)
    BY <1>2
  <2>2. /\ stop'.stopping
        /\ \/ stop.stopping /\ UNCHANGED shared
           \/ stop'.kind # "TRANSPORT" /\ link' = "down"
    BY <2>1, StopRuntimeFacts DEF Types
  <2> QED  BY <2>2 DEF ReasonOK, Ended, shared
<1> QED  BY <1>1, <1>2

\* A thread that blames the transport is late, or right.
LEMMA ReasonTransport ==
    ASSUME Types, ReasonOK, main \notin Ended, main' \notin Ended, peer'.broke = peer.broke,
           link # "up", TransportFailed
    PROVE  ReasonOK'
<1>1. link \in Links
  BY DEF Types, SharedTypes
<1>2. /\ stop'.stopping
      /\ \/ stop.stopping /\ UNCHANGED shared
         \/ ~stop.stopping /\ link' = "down"
  BY TransportFacts DEF Types
<1>3. CASE stop.stopping /\ UNCHANGED shared
  BY <1>3 DEF ReasonOK, Ended, shared
<1>4. CASE ~stop.stopping /\ link' = "down"
  <2>1. peer.broke
    BY <1>1, <1>4 DEF ReasonOK, Links
  <2> QED  BY <1>2, <1>4, <2>1 DEF ReasonOK, Ended
<1> QED  BY <1>2, <1>3, <1>4

LEMMA ReasonStep ==
    ASSUME Types, SessionOK, ReasonOK, [Next]_vars
    PROVE  ReasonOK'
<1>1. ASSUME TxStep \/ RxStep \/ PeerStep
      PROVE  main \notin Ended /\ main' \notin Ended
  BY <1>1, WorkerFacts DEF SessionOK
<1>2. CASE TxStep \/ RxStep
  <2>1. peer' = peer
    BY <1>2 DEF TxStep, TxTest, TxPop, TxSend, RxStep, RxTest, RxReceive, RxKeep, RxPush
  <2>2. UNCHANGED <<stop, link>> \/ (link # "up" /\ TransportFailed)
    BY <1>2 DEF TxStep, TxTest, TxPop, TxSend, RxStep, RxTest, RxReceive, RxKeep, RxPush, shared
  <2> QED  BY <1>1, <1>2, <2>1, <2>2, ReasonStopped, ReasonTransport
<1>3. CASE PeerStep
  <2>1. CASE PeerAnswer /\ \E state \in {"cut", "hung"} : PeerEnds(state)
    <3>1. link' \in {"cut", "hung"} /\ stop' = stop /\ peer'.broke
      BY <2>1 DEF PeerEnds, Types, WorkerTypes, PeerRecord
    <3> QED  BY <1>1, <1>3, <3>1 DEF ReasonOK, Ended
  <2>2. CASE PeerAnswer /\ stop.stopping /\ PeerEnds("down")
    <3>1. link' = "down" /\ stop' = stop /\ peer'.broke
      BY <2>2 DEF PeerEnds, Types, WorkerTypes, PeerRecord
    <3> QED  BY <1>1, <1>3, <2>2, <3>1 DEF ReasonOK, Ended
  <2>3. CASE /\ UNCHANGED shared \/ (link # "up" /\ TransportFailed)
             /\ peer'.broke = peer.broke
    BY <1>1, <1>3, <2>3, ReasonStopped, ReasonTransport DEF shared
  <2>4. PeerTest \/ PeerReceive =>
           /\ UNCHANGED shared \/ (link # "up" /\ TransportFailed)
           /\ peer'.broke = peer.broke
    BY DEF PeerTest, PeerReceive, Types, WorkerTypes, PeerRecord
  <2>5. PeerAnswer =>
           \/ \E state \in {"cut", "hung"} : PeerEnds(state)
           \/ stop.stopping /\ PeerEnds("down")
           \/ UNCHANGED shared /\ peer'.broke = peer.broke
    BY DEF PeerAnswer, PeerSends, Types, WorkerTypes, PeerRecord
  <2> QED  BY <1>3, <2>1, <2>2, <2>3, <2>4, <2>5 DEF PeerStep
<1>4. CASE Aside
  BY <1>4, AsideFacts DEF ReasonOK, shared, workers
<1>5. CASE Work
  <2>1. /\ main \in Running /\ main' \in Running /\ peer' = peer
        /\ UNCHANGED <<stop, link>> \/ \E failed \in BOOLEAN : StopRuntime(failed)
    BY <1>5, WorkFacts DEF workers
  <2> QED  BY <2>1, ReasonStopped DEF Running, Between
<1>6. CASE Connect
  BY <1>6 DEF Connect, ReasonOK, Ended, shared, workers
<1>7. CASE Start
  <2>1. /\ main = "start" /\ main' \in {"query", "finish"}
        /\ UNCHANGED shared \/ StopRuntime(TRUE)
    BY <1>7 DEF Start
  <2>2. peer'.broke = peer.broke
    BY <1>7 DEF Start, Types, WorkerTypes, PeerRecord
  <2> QED  BY <2>1, <2>2, ReasonStopped DEF Ended, shared
<1>8. CASE Query
  <2>1. main = "query" /\ main' = "loop" /\ UNCHANGED <<stop, link, peer>>
    BY <1>8 DEF Query, RequestAccepted, workers, shared
  <2> QED  BY <2>1, ReasonStopped DEF Ended
<1>9. CASE Finish
  <2>1. main = "finish" /\ main' = "join" /\ StopRuntime(FALSE) /\ peer' = peer
    BY <1>9 DEF Finish, workers
  <2> QED  BY <2>1, ReasonStopped DEF Ended
<1>10. CASE Join
  <2>1. UNCHANGED <<stop, link, peer>> /\ main' \in {"return", "delay"}
        /\ (main' = "delay" => stop.kind = "TRANSPORT")
    BY <1>10 DEF Join, shared, workers
  <2> QED  BY <2>1 DEF ReasonOK, Ended
<1>11. CASE Delay \/ Return \/ ConnectInterrupted
  <2>1. /\ UNCHANGED <<stop, link, peer>> /\ main' \in Ended /\ main' # "delay"
        /\ main' = "connect" => main = "delay"
    BY <1>11 DEF Delay, Return, ConnectInterrupted, shared, workers, Ended
  <2> QED  BY <2>1 DEF ReasonOK, Ended
<1> QED  BY <1>2, <1>3, <1>4, <1>5, <1>6, <1>7, <1>8, <1>9, <1>10, <1>11, MainCases DEF Next, Aside

-------------------------------------------------------------------------------
(* The requests in flight. *)

LEMMA RequestsInit == Init => RequestsOK
BY DEF Init, InitialApplication, RequestsOK, Between, Ended, Before

LEMMA RequestsKept ==
    ASSUME RequestsOK, UNCHANGED <<app, run, pending>>, main \in Running, main' \in Running
    PROVE  RequestsOK'
BY DEF RequestsOK, Running, Between, Ended, Before

LEMMA RequestsHandle ==
    ASSUME Types, SessionOK, RequestsOK, Handle
    PROVE  RequestsOK'
<1> USE DEF Between, Ended, Before
<1>1. main = "handle" /\ main' \in {"scan", "finish"}
  BY DEF Handle
<1>2. CASE UNCHANGED <<app, run, pending>>
  BY <1>1, <1>2, RequestsKept DEF Running, Positions
<1>3. CASE HandleReport \/ HandleMatched \/ HandleUnmatched
  <2>1. /\ run'.sync = run.sync /\ run'.followup = run.followup
        /\ pending'.next = pending.next /\ pending'.active \subseteq pending.active
        /\ \/ app'.state = app.state
           \/ /\ app.state = "SYNCING" /\ app'.state = "ONLINE"
              /\ run.frame.sequence = run.sync /\ Matches(run.frame) # {}
              /\ pending'.active = pending.active \ Matches(run.frame)
    BY <1>1, <1>3, HandleFacts DEF Types
  <2>2. \A p, q \in pending'.active : p = q
    BY <2>1 DEF RequestsOK
  <2>3. pending'.next = IF run'.followup = 2 THEN 3 ELSE IF run'.sync = 1 THEN 2 ELSE 1
    BY <1>1, <2>1 DEF RequestsOK
  <2>4. CASE app'.state = app.state
    BY <1>1, <2>1, <2>2, <2>3, <2>4 DEF RequestsOK
  <2>5. CASE /\ app.state = "SYNCING" /\ app'.state = "ONLINE"
             /\ run.frame.sequence = run.sync /\ Matches(run.frame) # {}
             /\ pending'.active = pending.active \ Matches(run.frame)
    <3>1. PICK p \in pending.active : p.sequence = run.sync
      BY <2>5 DEF Matches
    <3>2. run.sync \in {0, 1} /\ p.sequence \in Sequences \ {0}
      BY <3>1 DEF Types, MainTypes, RunRecord, PendingRecord, Requests
    <3>3. run'.sync = 1
      BY <2>1, <3>1, <3>2
    <3>4. \A q \in pending.active : q.sequence = run.sync
      BY <2>5 DEF RequestsOK
    <3>5. pending'.active = {}
      BY <2>5, <3>4 DEF Matches
    <3> QED  BY <1>1, <2>2, <2>3, <2>5, <3>3, <3>5 DEF RequestsOK
  <2> QED  BY <2>1, <2>4, <2>5
<1> QED  BY <1>2, <1>3 DEF Handle

LEMMA RequestsProcess ==
    ASSUME Types, SessionOK, RequestsOK, Process
    PROVE  RequestsOK'
<1> USE DEF Between, Ended, Before
<1>1. main = "process" /\ app' = app /\ UNCHANGED sockets
  BY DEF Process
<1>2. CASE main' = "judge" /\ UNCHANGED <<run, pending>>
  BY <1>1, <1>2, RequestsKept DEF Running, Positions
<1>3. CASE \E p \in pending.active : Overdue(p)
  <2>1. PICK p \in pending.active : Overdue(p)
    BY <1>3
  <2>2. /\ main' \in {"judge", "finish"}
        /\ run'.sync = run.sync /\ run'.followup = run.followup
        /\ pending'.next = pending.next
        /\ \/ pending'.active \subseteq pending.active
           \/ \E q : q.sequence = p.sequence /\ pending'.active = (pending.active \ {p}) \cup {q}
    BY <1>1, <2>1, OverdueFacts DEF Types
  <2>3. pending'.next = IF run'.followup = 2 THEN 3 ELSE IF run'.sync = 1 THEN 2 ELSE 1
    BY <1>1, <2>2 DEF RequestsOK
  <2>4. ~(app.state = "ONLINE" /\ run.followup = 0)
    BY <2>1 DEF RequestsOK
  <2>5. CASE pending'.active \subseteq pending.active
    BY <1>1, <2>2, <2>3, <2>4, <2>5 DEF RequestsOK
  <2>6. CASE \E q : q.sequence = p.sequence /\ pending'.active = (pending.active \ {p}) \cup {q}
    <3>1. PICK q : q.sequence = p.sequence /\ pending'.active = (pending.active \ {p}) \cup {q}
      BY <2>6
    <3>2. pending'.active = {q}
      BY <2>1, <3>1 DEF RequestsOK
    <3>3. app.state = "SYNCING" => q.sequence = run.sync
      BY <2>1, <3>1 DEF RequestsOK
    <3> QED  BY <1>1, <2>2, <2>3, <2>4, <3>2, <3>3 DEF RequestsOK
  <2> QED  BY <2>2, <2>5, <2>6
<1> QED  BY <1>2, <1>3 DEF Process

LEMMA RequestsFollowUp ==
    ASSUME Types, RequestsOK, FollowUp
    PROVE  RequestsOK'
<1> USE DEF Between, Ended, Before
<1>1. main = "follow" /\ main' \in {"settle", "loop", "finish"} /\ app' = app
  BY DEF FollowUp
<1>2. CASE UNCHANGED <<run, pending>>
  BY <1>1, <1>2, RequestsKept DEF Running, Positions
<1>3. CASE /\ app.state = "ONLINE" /\ run.followup = 0 /\ RequestAccepted
           /\ run' = [run EXCEPT !.followup = pending.next]
  <2>1. pending.next = 2 /\ pending.active = {}
    BY <1>1, <1>3, FollowUpNumber DEF RequestsOK
  <2>2. /\ pending' = [next |-> pending.next + 1,
                       active |-> pending.active \cup {[sequence |-> pending.next, retries |-> 0]}]
    BY <1>3 DEF RequestAccepted
  <2>3. pending'.next = 3 /\ pending'.active = {[sequence |-> 2, retries |-> 0]}
    BY <2>1, <2>2
  <2>4. run'.followup = 2 /\ run'.sync = run.sync
    BY <1>3, <2>1 DEF Types, MainTypes, RunRecord
  <2> QED  BY <1>1, <1>3, <2>3, <2>4 DEF RequestsOK
<1> QED  BY <1>2, <1>3 DEF FollowUp

LEMMA RequestsStep ==
    ASSUME Types, SessionOK, RequestsOK, [Next]_vars
    PROVE  RequestsOK'
<1> USE DEF Between, Ended, Before
<1>1. CASE TxStep \/ RxStep \/ PeerStep \/ Aside
  <2>1. UNCHANGED <<app, main, run, pending>>
    BY <1>1, WorkerFacts, AsideFacts
  <2> QED  BY <2>1 DEF RequestsOK
<1>2. CASE Turn
  BY <1>2, TurnFacts, RequestsKept
<1>3. CASE Hold
  <2>1. main = "hold" /\ main' \in {"scan", "finish", "take"} /\ UNCHANGED <<app, pending>>
    BY <1>3 DEF Hold
  <2>2. run'.sync = run.sync /\ run'.followup = run.followup
    BY <1>3 DEF Hold, Types, MainTypes, RunRecord
  <2> QED  BY <2>1, <2>2 DEF RequestsOK
<1>4. CASE Take
  <2>1. main = "take" /\ main' \in {"handle", "scan", "finish"} /\ UNCHANGED <<app, pending>>
    BY <1>4 DEF Take
  <2>2. run'.sync = run.sync /\ run'.followup = run.followup
    BY <1>4 DEF Take, Types, MainTypes, RunRecord
  <2> QED  BY <2>1, <2>2 DEF RequestsOK
<1>5. CASE Connect
  <2>1. CASE main' = "start"
    <3>1. pending' = [next |-> 1, active |-> {}] /\ run'.sync = 0 /\ run'.followup = 0
      BY <1>5, <2>1 DEF Connect
    <3>2. app'.state = "SYNCING"
      BY <1>5, <2>1 DEF Connect, Types, MainTypes, AppRecord
    <3> QED  BY <2>1, <3>1, <3>2 DEF RequestsOK
  <2>2. CASE main' = "return"
    BY <1>5, <2>2 DEF Connect, RequestsOK
  <2> QED  BY <1>5, <2>1, <2>2 DEF Connect
<1>6. CASE Start
  <2>1. main = "start" /\ main' \in {"query", "finish"} /\ UNCHANGED <<app, run, pending>>
    BY <1>6 DEF Start
  <2> QED  BY <2>1 DEF RequestsOK
<1>7. CASE Query
  <2>1. main = "query" /\ main' = "loop" /\ app' = app
    BY <1>7 DEF Query
  <2>2. pending.next = 1 /\ pending.active = {} /\ run.sync = 0 /\ run.followup = 0
    BY <2>1 DEF RequestsOK
  <2>3. app.state = "SYNCING"
    BY <2>1 DEF SessionOK
  <2>4. CASE UNCHANGED <<run, pending>>
    BY <2>1, <2>2, <2>3, <2>4 DEF RequestsOK
  <2>5. CASE RequestAccepted /\ run' = [run EXCEPT !.sync = pending.next]
    <3>1. run'.sync = 1 /\ run'.followup = 0
      BY <2>2, <2>5 DEF Types, MainTypes, RunRecord
    <3>2. pending' = [next |-> pending.next + 1,
                      active |-> pending.active \cup {[sequence |-> pending.next, retries |-> 0]}]
      BY <2>5 DEF RequestAccepted
    <3>3. pending'.next = 2 /\ pending'.active = {[sequence |-> 1, retries |-> 0]}
      BY <2>2, <3>2
    <3>4. \A p \in pending'.active : p.sequence = 1
      BY <3>3
    <3> QED  BY <2>1, <2>3, <3>1, <3>3, <3>4 DEF RequestsOK
  <2> QED  BY <1>7, <2>4, <2>5 DEF Query
<1>8. CASE Finish
  <2>1. main' = "join" /\ UNCHANGED <<run, pending>> /\ app' = [app EXCEPT !.state = "OFFLINE"]
    BY <1>8 DEF Finish
  <2>2. app'.state = "OFFLINE"
    BY <2>1 DEF Types, MainTypes, AppRecord
  <2> QED  BY <2>1, <2>2 DEF RequestsOK
<1>9. CASE Join \/ Delay \/ Return \/ ConnectInterrupted
  <2>1. main \in Between /\ main' \in Between
    BY <1>9 DEF Join, Delay, Return, ConnectInterrupted
  <2>2. /\ UNCHANGED <<app, run>>
        /\ pending' = pending \/ pending' = [next |-> 1, active |-> {}]
    BY <1>9, PauseFacts DEF Types
  <2>3. app.state = "OFFLINE"
    BY <2>1 DEF SessionOK
  <2> QED  BY <2>1, <2>2, <2>3 DEF RequestsOK
<1> QED  BY <1>1, <1>2, <1>3, <1>4, <1>5, <1>6, <1>7, <1>8, <1>9, MainCases, RequestsHandle,
            RequestsProcess, RequestsFollowUp DEF Next, Aside, Work

-------------------------------------------------------------------------------
(* The frames on their way. *)

\* Steps that move no frame towards the main thread, send none and handle none.
Quiet ==
    /\ rx'.items = rx.items /\ toHost' = toHost /\ rxThread' = rxThread
    /\ peer'.sent = peer.sent /\ peer'.answered = peer.answered
    /\ run'.frame = run.frame /\ run'.handled = run.handled
    /\ stop.stopping => stop'.stopping
    /\ app'.state = "ONLINE" => app.state = "ONLINE" /\ run'.sync = run.sync
    /\ main' = "start" => main = "start"

Stopped == \E failed \in BOOLEAN : StopRuntime(failed)

LEMMA QuietShared ==
    ASSUME Types, UNCHANGED <<stop, rx>> \/ UNCHANGED shared \/ TransportFailed \/ Stopped
    PROVE  rx'.items = rx.items /\ (stop.stopping => stop'.stopping)
BY StopRuntimeFacts, TransportFacts DEF Types, Stopped, shared

LEMMA QuietWorker ==
    ASSUME Types, TxStep \/ PeerTest \/ PeerReceive
    PROVE  Quiet
<1>1. UNCHANGED <<app, main, run, pending>>
  BY WorkerFacts DEF PeerStep
<1>2. toHost' = toHost /\ rxThread' = rxThread
  BY DEF TxStep, TxTest, TxPop, TxSend, PeerTest, PeerReceive, sockets
<1>3. UNCHANGED <<stop, rx>> \/ UNCHANGED shared \/ TransportFailed \/ Stopped
  BY DEF TxStep, TxTest, TxPop, TxSend, PeerTest, PeerReceive
<1>4. peer'.sent = peer.sent /\ peer'.answered = peer.answered
  BY DEF TxStep, TxTest, TxPop, TxSend, PeerTest, PeerReceive, Types, WorkerTypes, PeerRecord
<1> QED  BY <1>1, <1>2, <1>3, <1>4, QuietShared DEF Quiet

LEMMA QuietMain ==
    ASSUME Types, SessionOK,
           \/ Aside \/ Turn \/ Hold \/ Process \/ FollowUp \/ Query \/ Finish
           \/ Join \/ Delay \/ Return \/ ConnectInterrupted \/ (Connect /\ main' = "return")
    PROVE  Quiet
<1> USE DEF Running, Positions, Between, Ended, Before
<1>1. UNCHANGED <<sockets, workers>>
  BY AsideFacts, TurnFacts DEF Hold, Process, FollowUp, Query, Finish,
     Join, Delay, Return, ConnectInterrupted, Connect, workers
<1>2. CASE Aside \/ Turn
  <2>1. UNCHANGED <<app, run>> /\ (UNCHANGED shared \/ Stopped)
    BY <1>2, AsideFacts, TurnFacts DEF Stopped
  <2>2. main' = "start" => main = "start"
    BY <1>2, AsideFacts, TurnFacts
  <2> QED  BY <1>1, <2>1, <2>2, QuietShared DEF Quiet, sockets, workers
<1>3. CASE Hold
  <2>1. UNCHANGED <<app, shared>> /\ main' # "start"
    BY <1>3 DEF Hold
  <2>2. run'.frame = run.frame /\ run'.handled = run.handled /\ run'.sync = run.sync
    BY <1>3 DEF Hold, Types, MainTypes, RunRecord
  <2> QED  BY <1>1, <2>1, <2>2, QuietShared DEF Quiet, sockets, workers
<1>4. CASE Process
  <2>1. app' = app
    BY <1>4 DEF Process
  <2>2. CASE main' = "judge" /\ UNCHANGED <<run, shared>>
    BY <1>1, <2>1, <2>2, QuietShared DEF Quiet, sockets, workers
  <2>3. CASE \E p \in pending.active : Overdue(p)
    <3>1. /\ main' \in {"judge", "finish"}
          /\ run'.frame = run.frame /\ run'.handled = run.handled /\ run'.sync = run.sync
          /\ rx' = rx \/ (stop'.stopping /\ rx'.items = rx.items)
          /\ UNCHANGED <<stop, link>> \/ Stopped
      BY <1>1, <2>3, OverdueFacts DEF Types, Stopped
    <3>2. stop.stopping => stop'.stopping
      BY <3>1, StopRuntimeFacts DEF Stopped, Types
    <3> QED  BY <1>1, <2>1, <3>1, <3>2 DEF Quiet, sockets, workers
  <2> QED  BY <1>4, <2>2, <2>3 DEF Process
<1>5. CASE FollowUp
  <2>1. app' = app /\ main' # "start"
    BY <1>5 DEF FollowUp
  <2>2. run'.frame = run.frame /\ run'.handled = run.handled /\ run'.sync = run.sync
    BY <1>5 DEF FollowUp, Types, MainTypes, RunRecord
  <2>3. UNCHANGED <<stop, rx>> \/ UNCHANGED shared \/ Stopped
    BY <1>5 DEF FollowUp, RequestAccepted, Stopped
  <2> QED  BY <1>1, <2>1, <2>2, <2>3, QuietShared DEF Quiet, sockets, workers
<1>6. CASE Query
  <2>1. main = "query" /\ app' = app /\ main' # "start"
    BY <1>6 DEF Query
  <2>2. run'.frame = run.frame /\ run'.handled = run.handled
    BY <1>6 DEF Query, Types, MainTypes, RunRecord
  <2>3. UNCHANGED <<stop, rx>> \/ UNCHANGED shared
    BY <1>6 DEF Query, RequestAccepted
  <2>4. app.state = "SYNCING"
    BY <2>1 DEF SessionOK
  <2> QED  BY <1>1, <2>1, <2>2, <2>3, <2>4, QuietShared DEF Quiet, sockets, workers
<1>7. CASE Finish
  <2>1. run' = run /\ main' # "start" /\ Stopped /\ app' = [app EXCEPT !.state = "OFFLINE"]
    BY <1>7 DEF Finish, Stopped
  <2>2. app'.state # "ONLINE"
    BY <2>1 DEF Types, MainTypes, AppRecord
  <2> QED  BY <1>1, <2>1, <2>2, QuietShared DEF Quiet, sockets, workers
<1>8. CASE \/ Join \/ Delay \/ Return \/ ConnectInterrupted \/ (Connect /\ main' = "return")
  <2>1. UNCHANGED <<app, run, shared>> /\ main' # "start"
    BY <1>8 DEF Join, Delay, Return, ConnectInterrupted, Connect
  <2> QED  BY <1>1, <2>1, QuietShared DEF Quiet, sockets, workers
<1> QED  BY <1>2, <1>3, <1>4, <1>5, <1>6, <1>7, <1>8

LEMMA StepCases ==
    ASSUME Types, SessionOK, [Next]_vars
    PROVE  \/ Quiet \/ Start \/ (Connect /\ main' = "start") \/ Take \/ Handle
           \/ RxStep \/ PeerAnswer
<1>1. Connect => main' \in {"start", "return"}
  BY DEF Connect
<1> QED  BY <1>1, QuietWorker, QuietMain, MainCases DEF Next, Aside, Work, PeerStep

LEMMA TailElements ==
    ASSUME NEW S, NEW s \in Seq(S), s # << >>
    PROVE  /\ 1 \in DOMAIN s /\ Head(s) = s[1]
           /\ \A i \in DOMAIN Tail(s) : i \in Nat /\ i + 1 \in DOMAIN s /\ Tail(s)[i] = s[i + 1]
OBVIOUS

LEMMA AppendElements ==
    ASSUME NEW S, NEW s \in Seq(S), NEW e \in S
    PROVE  \A i \in DOMAIN Append(s, e) :
              \/ i \in DOMAIN s /\ Append(s, e)[i] = s[i]
              \/ i = Len(s) + 1 /\ Append(s, e)[i] = e
OBVIOUS

LEMMA NumberedFrame ==
    ASSUME NEW frame \in Sendable, NEW n \in Nat
    PROVE  LET numbered == [frame EXCEPT !.serial = n]
           IN  /\ numbered \in Sendable /\ numbered.serial = n
               /\ numbered.type = frame.type /\ numbered.sequence = frame.sequence
BY DEF Sendable

LEMMA FramesAreSendable ==
    ASSUME SharedTypes
    PROVE  rx.items \in Seq(Sendable) /\ toHost \in Seq(Sendable)
BY DEF SharedTypes, RxQueue

-------------------------------------------------------------------------------
(* Replies are genuine. *)

LEMMA RepliesInit == Init => RepliesOK
BY DEF Init, InitialApplication, RepliesOK, Genuine, NoFrame, Frame

LEMMA RepliesStep ==
    ASSUME Types, SessionOK, RequestsOK, RepliesOK, [Next]_vars
    PROVE  RepliesOK'
<1>1. CASE Quiet
  BY <1>1 DEF Quiet, RepliesOK, Genuine
<1>2. CASE Start
  <2>1. UNCHANGED <<app, run, toHost>> /\ (UNCHANGED shared \/ Stopped)
    BY <1>2 DEF Start, sockets, Stopped
  <2>2. rx'.items = rx.items
    BY <2>1, QuietShared
  <2>3. rxThread'.frame = rxThread.frame
    BY <1>2 DEF Start, Types, WorkerTypes, RxRecord
  <2>4. peer'.answered = peer.answered
    BY <1>2 DEF Start, Types, WorkerTypes, PeerRecord
  <2> QED  BY <2>1, <2>2, <2>3, <2>4 DEF RepliesOK, Genuine
<1>3. CASE Connect /\ main' = "start"
  <2>1. /\ rx' = [open |-> TRUE, items |-> << >>] /\ toHost' = << >>
        /\ rxThread' = [rxThread EXCEPT !.frame = NoFrame, !.timedOut = FALSE]
        /\ run'.frame = NoFrame
        /\ app' = [app EXCEPT !.state = "SYNCING", !.session = session]
    BY <1>3 DEF Connect, ReceivedAtStart
  <2>2. app'.state = "SYNCING" /\ rxThread'.frame = NoFrame
    BY <2>1 DEF Types, MainTypes, WorkerTypes, AppRecord, RxRecord
  <2>3. NoFrame.type # "RESPONSE"
    BY DEF NoFrame, Frame
  <2> QED  BY <2>1, <2>2, <2>3 DEF RepliesOK, Genuine
<1>4. CASE Take
  <2>1. UNCHANGED <<app, toHost, rxThread, peer>>
    BY <1>4 DEF Take, sockets, workers
  <2>2. CASE rx.items = << >>
    BY <1>4, <2>1, <2>2 DEF Take, RepliesOK, Genuine
  <2>3. CASE rx.items # << >>
    <3>1. /\ run' = [run EXCEPT !.frame = Head(rx.items), !.handled = Head(rx.items).serial]
          /\ rx' = [rx EXCEPT !.items = Tail(@)]
      BY <1>4, <2>3 DEF Take
    <3>2. run'.frame = Head(rx.items) /\ run'.sync = run.sync
      BY <3>1 DEF Types, MainTypes, RunRecord
    <3>3. rx'.items = Tail(rx.items)
      BY <3>1 DEF Types, SharedTypes, RxQueue
    <3>4. /\ 1 \in DOMAIN rx.items /\ Head(rx.items) = rx.items[1]
          /\ \A i \in DOMAIN Tail(rx.items) :
                i + 1 \in DOMAIN rx.items /\ Tail(rx.items)[i] = rx.items[i + 1]
      BY <2>3, FramesAreSendable, TailElements DEF Types
    <3>5. Genuine(run.frame)'
      BY <2>1, <3>2, <3>4 DEF RepliesOK, Genuine
    <3>6. \A i \in DOMAIN rx'.items : Genuine(rx'.items[i])
      BY <3>3, <3>4 DEF RepliesOK
    <3> QED  BY <2>1, <3>2, <3>5, <3>6 DEF RepliesOK, Genuine
  <2> QED  BY <2>2, <2>3
<1>5. CASE Handle
  <2>1. main = "handle" /\ UNCHANGED <<rx, toHost, rxThread, peer>>
    BY <1>5 DEF Handle, shared, sockets, workers
  <2>2. CASE UNCHANGED <<app, run>>
    BY <2>1, <2>2 DEF RepliesOK, Genuine
  <2>3. CASE HandleReport \/ HandleMatched \/ HandleUnmatched
    <3>1. /\ run'.frame = NoFrame /\ run'.sync = run.sync
          /\ \/ app'.state = app.state
             \/ /\ run.frame.type = "RESPONSE" /\ run.frame.sequence = run.sync
      BY <2>1, <2>3, HandleFacts DEF Types
    <3>2. app'.state = "ONLINE" => run.sync \in peer.answered
      BY <3>1 DEF RepliesOK, Genuine
    <3>3. NoFrame.type # "RESPONSE"
      BY DEF NoFrame, Frame
    <3> QED  BY <2>1, <3>1, <3>2, <3>3 DEF RepliesOK, Genuine
  <2> QED  BY <1>5, <2>2, <2>3 DEF Handle
<1>6. CASE RxStep
  <2>1. UNCHANGED <<app, run, peer>>
    BY <1>6 DEF RxStep, RxTest, RxReceive, RxKeep, RxPush
  <2>2. CASE RxTest \/ RxKeep
    <3>1. rx' = rx /\ toHost' = toHost
      BY <2>2 DEF RxTest, RxKeep, shared, sockets
    <3>2. rxThread'.frame = rxThread.frame
      BY <2>2 DEF RxTest, RxKeep, Types, WorkerTypes, RxRecord
    <3> QED  BY <2>1, <3>1, <3>2 DEF RepliesOK, Genuine
  <2>3. CASE RxReceive
    <3>1. CASE toHost # << >>
      <4>1. /\ rxThread' = [rxThread EXCEPT !.pc = "keep", !.frame = Head(toHost)]
            /\ toHost' = Tail(toHost) /\ rx' = rx
        BY <2>3, <3>1 DEF RxReceive, shared
      <4>2. /\ 1 \in DOMAIN toHost /\ Head(toHost) = toHost[1]
            /\ \A i \in DOMAIN Tail(toHost) : i + 1 \in DOMAIN toHost /\ Tail(toHost)[i] = toHost[i + 1]
        BY <3>1, FramesAreSendable, TailElements DEF Types
      <4>3. rxThread'.frame = toHost[1]
        BY <4>1, <4>2 DEF Types, WorkerTypes, RxRecord
      <4>4. \A i \in DOMAIN toHost' : Genuine(toHost'[i])
        BY <4>1, <4>2 DEF RepliesOK
      <4>5. Genuine(toHost[1])
        BY <4>2 DEF RepliesOK
      <4> QED  BY <2>1, <4>1, <4>3, <4>4, <4>5 DEF RepliesOK, Genuine
    <3>2. CASE toHost = << >>
      <4>1. rxThread' = [rxThread EXCEPT !.pc = "done"] /\ toHost' = toHost /\ TransportFailed
        BY <2>3, <3>2 DEF RxReceive
      <4>2. rx'.items = rx.items
        BY <4>1, QuietShared
      <4>3. rxThread'.frame = rxThread.frame
        BY <4>1 DEF Types, WorkerTypes, RxRecord
      <4> QED  BY <2>1, <4>1, <4>2, <4>3 DEF RepliesOK, Genuine
    <3> QED  BY <3>1, <3>2
  <2>4. CASE RxPush
    <3>1. toHost' = toHost
      BY <2>4 DEF RxPush, sockets
    <3>2. CASE rx' = rx
      <4>1. rxThread'.frame = rxThread.frame \/ rxThread'.frame = NoFrame
        BY <2>4 DEF RxPush, Types, WorkerTypes, RxRecord
      <4>2. NoFrame.type # "RESPONSE"
        BY DEF NoFrame, Frame
      <4> QED  BY <2>1, <3>1, <3>2, <4>1, <4>2 DEF RepliesOK, Genuine
    <3>3. CASE /\ rx' = [rx EXCEPT !.items = Append(@, rxThread.frame)]
               /\ rxThread' = [rxThread EXCEPT !.pc = "test", !.frame = NoFrame]
      <4>1. rx'.items = Append(rx.items, rxThread.frame)
        BY <3>3 DEF Types, SharedTypes, RxQueue
      <4>2. rxThread'.frame = NoFrame
        BY <3>3 DEF Types, WorkerTypes, RxRecord
      <4>3. rxThread.frame \in Sendable
        BY <2>4 DEF RxPush, Types, WorkerTypes, RxRecord, Carried
      <4>4. \A i \in DOMAIN rx'.items :
               \/ i \in DOMAIN rx.items /\ rx'.items[i] = rx.items[i]
               \/ rx'.items[i] = rxThread.frame
        BY <4>1, <4>3, FramesAreSendable, AppendElements DEF Types
      <4>5. \A i \in DOMAIN rx'.items : Genuine(rx'.items[i])
        BY <4>4 DEF RepliesOK
      <4>6. NoFrame.type # "RESPONSE"
        BY DEF NoFrame, Frame
      <4> QED  BY <2>1, <3>1, <4>2, <4>5, <4>6 DEF RepliesOK, Genuine
    <3> QED  BY <2>4, <3>2, <3>3 DEF RxPush
  <2> QED  BY <1>6, <2>2, <2>3, <2>4 DEF RxStep
<1>7. CASE PeerAnswer
  <2>1. UNCHANGED <<app, run, rxThread>>
    BY <1>7 DEF PeerAnswer
  <2>2. rx' = rx
    BY <1>7 DEF PeerAnswer, PeerSends, PeerEnds, shared
  <2>3. CASE toHost' = toHost /\ peer'.answered = peer.answered
    BY <2>1, <2>2, <2>3 DEF RepliesOK, Genuine
  <2>4. CASE /\ peer.script # << >> /\ Head(peer.script) \notin {Cut, Hang}
             /\ PeerSends(Head(peer.script))
    <3> DEFINE frame == Head(peer.script)
               numbered == [frame EXCEPT !.serial = peer.sent + 1]
    <3>1. frame \in Sendable
      BY <2>4, TailType DEF Types, WorkerTypes, PeerRecord, Steps
    <3>2. numbered \in Sendable /\ numbered.type = frame.type /\ numbered.sequence = frame.sequence
      <4>1. peer.sent + 1 \in Nat
        BY DEF Types, WorkerTypes, PeerRecord
      <4> QED  BY <3>1, <4>1, NumberedFrame
    <3>3. /\ toHost' = Append(toHost, numbered)
          /\ peer' = [peer EXCEPT !.script = Tail(@), !.sent = @ + 1,
                         !.reports = IF frame.type = "REPORT" THEN @ + 1 ELSE @,
                         !.answered = IF frame.type = "RESPONSE" THEN @ \cup {frame.sequence} ELSE @]
      BY <2>4 DEF PeerSends
    <3> HIDE DEF frame, numbered
    <3>4. peer'.answered = IF frame.type = "RESPONSE" THEN peer.answered \cup {frame.sequence}
                           ELSE peer.answered
      BY <3>3 DEF Types, WorkerTypes, PeerRecord
    <3>5. \A i \in DOMAIN toHost' :
             \/ i \in DOMAIN toHost /\ toHost'[i] = toHost[i]
             \/ toHost'[i] = numbered
      BY <3>2, <3>3, FramesAreSendable, AppendElements DEF Types
    <3>6. numbered.type = "RESPONSE" => numbered.sequence \in peer'.answered
      BY <3>2, <3>4
    <3>7. peer.answered \subseteq peer'.answered
      BY <3>4
    <3>8. \A i \in DOMAIN toHost' :
             toHost'[i].type = "RESPONSE" => toHost'[i].sequence \in peer'.answered
      BY <3>5, <3>6, <3>7 DEF RepliesOK, Genuine
    <3> QED  BY <2>1, <2>2, <3>7, <3>8 DEF RepliesOK, Genuine
  <2>5. \/ toHost' = toHost /\ peer'.answered = peer.answered
        \/ /\ peer.script # << >> /\ Head(peer.script) \notin {Cut, Hang}
           /\ PeerSends(Head(peer.script))
    BY <1>7 DEF PeerAnswer, PeerEnds, Types, WorkerTypes, PeerRecord
  <2> QED  BY <2>3, <2>4, <2>5
<1> QED  BY <1>1, <1>2, <1>3, <1>4, <1>5, <1>6, <1>7, StepCases

-------------------------------------------------------------------------------
(* Nothing is lost on the way. *)

LEMMA SerialsInit == Init => SerialsOK
BY DEF Init, SerialsOK, Held

\* The frames that a step leaves where they are.
LEMMA SerialsKept ==
    ASSUME SerialsOK, rx'.items = rx.items, toHost' = toHost, rxThread'.frame = rxThread.frame,
           peer'.sent = peer.sent, run'.handled = run.handled, stop.stopping => stop'.stopping,
           \/ rxThread'.pc = rxThread.pc /\ (main' = "start" => main = "start")
           \/ rxThread'.pc \notin {"test", "recv"} /\ main' # "start"
           \/ main = "start" \/ rxThread.pc = "test"
    PROVE  SerialsOK'
BY DEF SerialsOK, Held

LEMMA SerialsStep ==
    ASSUME Types, SessionOK, SerialsOK, [Next]_vars
    PROVE  SerialsOK'
<1> DEFINE length == Len(rx.items)
           inSocket == Len(toHost)
<1>1. /\ length \in Nat /\ inSocket \in Nat /\ peer.sent \in Nat /\ run.handled \in Nat
      /\ Held \in {0, 1}
  BY DEF Types, SharedTypes, RxQueue, WorkerTypes, MainTypes, PeerRecord, RunRecord, Held
<1>2. CASE Quiet
  BY <1>2, SerialsKept DEF Quiet
<1>3. CASE Start
  <2>1. main = "start" /\ UNCHANGED <<run, toHost>> /\ (UNCHANGED shared \/ Stopped)
    BY <1>3 DEF Start, sockets, Stopped
  <2>2. rx'.items = rx.items /\ (stop.stopping => stop'.stopping)
    BY <2>1, QuietShared
  <2>3. rxThread'.frame = rxThread.frame
    BY <1>3 DEF Start, Types, WorkerTypes, RxRecord
  <2>4. peer'.sent = peer.sent
    BY <1>3 DEF Start, Types, WorkerTypes, PeerRecord
  <2> QED  BY <2>1, <2>2, <2>3, <2>4, SerialsKept
<1>4. CASE Connect /\ main' = "start"
  <2>1. /\ rx' = [open |-> TRUE, items |-> << >>] /\ toHost' = << >>
        /\ rxThread' = [rxThread EXCEPT !.frame = NoFrame, !.timedOut = FALSE]
        /\ run'.handled = 0
        /\ peer' = [peer EXCEPT !.requests = 0, !.script = <<>>, !.sent = 0, !.reports = 0,
                                !.answered = {}, !.broke = FALSE]
    BY <1>4 DEF Connect, ReceivedAtStart
  <2>2. rxThread'.frame = NoFrame /\ peer'.sent = 0
    BY <2>1 DEF Types, WorkerTypes, RxRecord, PeerRecord
  <2> QED  BY <2>1, <2>2 DEF SerialsOK, Held
<1>5. CASE Take
  <2>1. UNCHANGED <<stop, toHost, rxThread, peer>> /\ main = "take" /\ main' # "start"
    BY <1>5 DEF Take, sockets, workers
  <2>2. CASE rx.items = << >>
    <3>1. UNCHANGED <<run, rx>>
      BY <1>5, <2>2 DEF Take
    <3> QED  BY <2>1, <3>1, SerialsKept
  <2>3. CASE rx.items # << >> /\ ~stop.stopping
    <3>1. /\ run' = [run EXCEPT !.frame = Head(rx.items), !.handled = Head(rx.items).serial]
          /\ rx' = [rx EXCEPT !.items = Tail(@)]
      BY <1>5, <2>3 DEF Take
    <3>2. rx'.items = Tail(rx.items)
      BY <3>1 DEF Types, SharedTypes, RxQueue
    <3>3. /\ 1 \in DOMAIN rx.items /\ Head(rx.items) = rx.items[1]
          /\ \A i \in DOMAIN Tail(rx.items) :
                i \in Nat /\ i + 1 \in DOMAIN rx.items /\ Tail(rx.items)[i] = rx.items[i + 1]
      BY <2>3, FramesAreSendable, TailElements DEF Types
    <3>4. Len(rx'.items) = length - 1
      BY <2>3, <3>2, FramesAreSendable, TailType DEF Types
    <3>5. run'.handled = run.handled + 1
      BY <2>3, <3>1, <3>3 DEF SerialsOK, Types, MainTypes, RunRecord
    <3>6. \A i \in DOMAIN rx'.items : rx'.items[i].serial = run'.handled + i
      <4>1. SUFFICES ASSUME NEW i \in DOMAIN Tail(rx.items)
                     PROVE  Tail(rx.items)[i].serial = run'.handled + i
        BY <3>2
      <4>2. Tail(rx.items)[i].serial = run.handled + (i + 1) /\ i \in Nat
        BY <2>3, <3>3 DEF SerialsOK
      <4> QED  BY <1>1, <3>5, <4>2
    <3>7. Held' = Held
      BY <2>1 DEF Held
    <3> DEFINE left == Len(rx'.items)
               handled == run'.handled
    <3>8. left = length - 1 /\ handled = run.handled + 1
      BY <3>4, <3>5
    <3> HIDE DEF length, inSocket, left, handled
    <3>9. left + Held + inSocket = peer.sent - handled
      BY <1>1, <2>3, <3>8 DEF SerialsOK, length, inSocket
    <3>10. handled + left = run.handled + length
      BY <1>1, <3>8
    <3>11. left \in Int /\ handled \in Nat
      BY <1>1, <3>8
    <3>12. Held = 1 => rxThread.frame.serial = handled + left + 1
      BY <2>3, <3>10 DEF SerialsOK, length
    <3>13. \A i \in DOMAIN toHost : toHost[i].serial = handled + left + Held + i
      BY <2>3, <3>10 DEF SerialsOK, length
    <3> QED  BY <2>1, <2>3, <3>6, <3>7, <3>9, <3>12, <3>13 DEF SerialsOK, left, handled, inSocket
  <2>4. CASE stop.stopping
    BY <2>1, <2>4 DEF SerialsOK
  <2> QED  BY <2>2, <2>3, <2>4
<1>6. CASE Handle
  <2>1. /\ main = "handle" /\ main' \in {"scan", "finish"}
        /\ UNCHANGED <<stop, rx, toHost, rxThread, peer>>
    BY <1>6 DEF Handle, shared, sockets, workers
  <2>2. run'.handled = run.handled
    BY <1>6, <2>1, HandleFacts DEF Handle, Types
  <2> QED  BY <2>1, <2>2, SerialsKept
<1>7. CASE RxStep
  <2>1. UNCHANGED <<main, run, peer>>
    BY <1>7 DEF RxStep, RxTest, RxReceive, RxKeep, RxPush
  <2>2. rxThread.pc # "done" /\ main # "start"
    <3>1. rxThread.pc # "done"
      BY <1>7 DEF RxStep, RxTest, RxReceive, RxKeep, RxPush
    <3> QED  BY <3>1 DEF SessionOK, WorkersAreDone
  <2>3. CASE RxTest \/ RxKeep
    <3>1. UNCHANGED <<stop, rx, toHost>>
      BY <2>3 DEF RxTest, RxKeep, shared, sockets
    <3>2. /\ rxThread'.frame = rxThread.frame
          /\ rxThread'.pc \notin {"test", "recv"} \/ rxThread.pc = "test"
      BY <2>3 DEF RxTest, RxKeep, Types, WorkerTypes, RxRecord
    <3> QED  BY <2>1, <2>2, <3>1, <3>2, SerialsKept
  <2>4. CASE RxReceive /\ toHost = << >>
    <3>1. stop'.stopping
      BY <2>4, TransportFacts DEF RxReceive, Types
    <3> QED  BY <3>1 DEF SerialsOK
  <2>5. CASE RxReceive /\ toHost # << >> /\ ~stop.stopping
    <3>1. /\ rxThread' = [rxThread EXCEPT !.pc = "keep", !.frame = Head(toHost)]
          /\ toHost' = Tail(toHost) /\ UNCHANGED <<stop, rx>> /\ rxThread.pc = "recv"
      BY <2>5 DEF RxReceive, shared
    <3>2. /\ 1 \in DOMAIN toHost /\ Head(toHost) = toHost[1]
          /\ \A i \in DOMAIN Tail(toHost) :
                i \in Nat /\ i + 1 \in DOMAIN toHost /\ Tail(toHost)[i] = toHost[i + 1]
      BY <2>5, FramesAreSendable, TailElements DEF Types
    <3>3. rxThread'.frame = toHost[1] /\ rxThread'.pc = "keep"
      BY <3>1, <3>2 DEF Types, WorkerTypes, RxRecord
    <3>4. toHost[1] # NoFrame
      BY <3>2, FramesAreSendable, SentIsCarried DEF Types
    <3>5. Held' = 1 /\ Held = 0
      BY <2>5, <3>1, <3>3, <3>4 DEF Held, SerialsOK
    <3>6. Len(toHost') = inSocket - 1
      BY <2>5, <3>1, FramesAreSendable, TailType DEF Types
    <3>7. rxThread'.frame.serial = run.handled + length + 1
      BY <1>1, <2>5, <3>2, <3>3, <3>5 DEF SerialsOK
    <3>8. \A i \in DOMAIN toHost' : toHost'[i].serial = run.handled + length + 1 + i
      <4>1. SUFFICES ASSUME NEW i \in DOMAIN Tail(toHost)
                     PROVE  Tail(toHost)[i].serial = run.handled + length + 1 + i
        BY <3>1
      <4>2. i \in Nat /\ Tail(toHost)[i].serial = run.handled + length + 0 + (i + 1)
        BY <2>5, <3>2, <3>5 DEF SerialsOK
      <4> HIDE DEF length
      <4> QED  BY <1>1, <4>2
    <3> HIDE DEF inSocket
    <3>9. length + 1 + Len(toHost') = peer.sent - run.handled
      BY <1>1, <2>5, <3>5, <3>6 DEF SerialsOK, inSocket
    <3> QED  BY <2>1, <2>2, <2>5, <3>1, <3>3, <3>5, <3>7, <3>8, <3>9 DEF SerialsOK
  <2>6. CASE RxPush
    <3>1. UNCHANGED <<stop, toHost>>
      BY <2>6 DEF RxPush, sockets
    <3>2. CASE /\ rx' = rx
               /\ \/ rxThread' = [rxThread EXCEPT !.pc = "done"]
                  \/ rxThread' = [rxThread EXCEPT !.pc = "keep", !.timedOut = TRUE]
      <4>1. rxThread'.frame = rxThread.frame /\ rxThread'.pc \notin {"test", "recv"}
        BY <3>2 DEF Types, WorkerTypes, RxRecord
      <4> QED  BY <2>1, <2>2, <3>1, <3>2, <4>1, SerialsKept
    <3>3. CASE /\ rx' = [rx EXCEPT !.items = Append(@, rxThread.frame)]
               /\ rxThread' = [rxThread EXCEPT !.pc = "test", !.frame = NoFrame]
               /\ ~stop.stopping
      <4>1. rx'.items = Append(rx.items, rxThread.frame)
        BY <3>3 DEF Types, SharedTypes, RxQueue
      <4>2. rxThread'.frame = NoFrame
        BY <3>3 DEF Types, WorkerTypes, RxRecord
      <4>3. rxThread.frame \in Sendable /\ rxThread.frame # NoFrame
        BY <2>6 DEF RxPush, Types, WorkerTypes, RxRecord, Carried
      <4>4. Held = 1 /\ Held' = 0
        BY <4>2, <4>3 DEF Held
      <4>5. Len(rx'.items) = length + 1
        BY <4>1, <4>3, FramesAreSendable, AppendType DEF Types
      <4>6. \A i \in DOMAIN rx'.items :
               \/ i \in DOMAIN rx.items /\ rx'.items[i] = rx.items[i]
               \/ i = length + 1 /\ rx'.items[i] = rxThread.frame
        BY <4>1, <4>3, FramesAreSendable, AppendElements DEF Types
      <4>7. rxThread.frame.serial = run.handled + length + 1
        BY <3>3, <4>4 DEF SerialsOK
      <4> HIDE DEF length
      <4>8. \A i \in DOMAIN rx'.items : rx'.items[i].serial = run.handled + i
        <5>1. SUFFICES ASSUME NEW i \in DOMAIN rx'.items
                       PROVE  rx'.items[i].serial = run.handled + i
          OBVIOUS
        <5>2. CASE i \in DOMAIN rx.items /\ rx'.items[i] = rx.items[i]
          BY <3>3, <5>2 DEF SerialsOK
        <5>3. CASE i = length + 1 /\ rx'.items[i] = rxThread.frame
          BY <1>1, <4>7, <5>3
        <5> QED  BY <4>6, <5>2, <5>3
      <4>9. Len(rx'.items) + 0 + inSocket = peer.sent - run.handled
        BY <1>1, <3>3, <4>4, <4>5 DEF SerialsOK, length
      <4>10. \A i \in DOMAIN toHost : toHost[i].serial = run.handled + Len(rx'.items) + 0 + i
        <5>1. SUFFICES ASSUME NEW i \in DOMAIN toHost
                       PROVE  toHost[i].serial = run.handled + Len(rx'.items) + 0 + i
          OBVIOUS
        <5>2. toHost[i].serial = run.handled + length + 1 + i
          BY <3>3, <4>4 DEF SerialsOK, length
        <5>3. i \in Nat
          BY FramesAreSendable DEF Types
        <5> DEFINE left == Len(rx'.items)
        <5>4. left = length + 1 /\ length \in Nat
          BY <1>1, <4>5
        <5> HIDE DEF left, inSocket
        <5>5. run.handled + length + 1 + i = run.handled + left + 0 + i
          BY <1>1, <5>3, <5>4
        <5> QED  BY <5>2, <5>5 DEF left
      <4> QED  BY <2>1, <3>1, <3>3, <4>4, <4>8, <4>9, <4>10 DEF SerialsOK
    <3>4. CASE stop.stopping
      BY <3>1, <3>4 DEF SerialsOK
    <3> QED  BY <2>6, <3>2, <3>3, <3>4 DEF RxPush, AfterTimeout
  <2>7. CASE RxReceive /\ toHost # << >> /\ stop.stopping
    <3>1. stop' = stop
      BY <2>7 DEF RxReceive, shared
    <3> QED  BY <2>7, <3>1 DEF SerialsOK
  <2> QED  BY <1>7, <2>3, <2>4, <2>5, <2>6, <2>7 DEF RxStep
<1>8. CASE PeerAnswer
  <2>1. UNCHANGED <<app, main, run, rxThread>>
    BY <1>8 DEF PeerAnswer
  <2>2. UNCHANGED <<stop, rx>>
    BY <1>8 DEF PeerAnswer, PeerSends, PeerEnds, shared
  <2>3. CASE toHost' = toHost /\ peer'.sent = peer.sent
    BY <2>1, <2>2, <2>3, SerialsKept
  <2>4. CASE /\ peer.script # << >> /\ Head(peer.script) \notin {Cut, Hang}
             /\ PeerSends(Head(peer.script)) /\ ~stop.stopping
    <3> DEFINE frame == Head(peer.script)
               numbered == [frame EXCEPT !.serial = peer.sent + 1]
    <3>1. frame \in Sendable
      BY <2>4, TailType DEF Types, WorkerTypes, PeerRecord, Steps
    <3>2. numbered \in Sendable /\ numbered.serial = peer.sent + 1
      <4>1. peer.sent + 1 \in Nat
        BY <1>1
      <4> QED  BY <3>1, <4>1, NumberedFrame
    <3>3. /\ toHost' = Append(toHost, numbered)
          /\ peer' = [peer EXCEPT !.script = Tail(@), !.sent = @ + 1,
                         !.reports = IF frame.type = "REPORT" THEN @ + 1 ELSE @,
                         !.answered = IF frame.type = "RESPONSE" THEN @ \cup {frame.sequence} ELSE @]
      BY <2>4 DEF PeerSends
    <3> HIDE DEF frame, numbered
    <3>4. peer'.sent = peer.sent + 1
      BY <3>3 DEF Types, WorkerTypes, PeerRecord
    <3>5. \A i \in DOMAIN toHost' :
             \/ i \in DOMAIN toHost /\ toHost'[i] = toHost[i]
             \/ i = inSocket + 1 /\ toHost'[i] = numbered
      BY <3>2, <3>3, FramesAreSendable, AppendElements DEF Types
    <3>6. Len(toHost') = inSocket + 1
      BY <3>2, <3>3, FramesAreSendable, AppendType DEF Types
    <3>7. length + Held + inSocket = peer.sent - run.handled
      BY <2>4 DEF SerialsOK
    <3>8. Held' = Held
      BY <2>1 DEF Held
    <3>9. \A i \in DOMAIN toHost' : toHost'[i].serial = run.handled + length + Held + i
      <4>1. SUFFICES ASSUME NEW i \in DOMAIN toHost'
                     PROVE  toHost'[i].serial = run.handled + length + Held + i
        OBVIOUS
      <4>2. CASE i \in DOMAIN toHost /\ toHost'[i] = toHost[i]
        BY <2>4, <4>2 DEF SerialsOK
      <4>3. CASE i = inSocket + 1 /\ toHost'[i] = numbered
        <5> HIDE DEF length, inSocket
        <5>1. run.handled + length + Held + (inSocket + 1) = peer.sent + 1
          BY <1>1, <3>7
        <5>2. toHost'[i].serial = peer.sent + 1
          BY <3>2, <4>3
        <5> QED  BY <4>3, <5>1, <5>2
      <4> QED  BY <3>5, <4>2, <4>3
    <3>10. length + Held + Len(toHost') = peer'.sent - run.handled
      <4> HIDE DEF length, inSocket
      <4> QED  BY <1>1, <3>4, <3>6, <3>7
    <3> QED  BY <2>1, <2>2, <2>4, <3>8, <3>9, <3>10 DEF SerialsOK
  <2>5. CASE stop.stopping
    BY <2>2, <2>5 DEF SerialsOK
  <2>6. \/ toHost' = toHost /\ peer'.sent = peer.sent
        \/ /\ peer.script # << >> /\ Head(peer.script) \notin {Cut, Hang}
           /\ PeerSends(Head(peer.script))
    BY <1>8 DEF PeerAnswer, PeerEnds, Types, WorkerTypes, PeerRecord
  <2> QED  BY <2>3, <2>4, <2>5, <2>6
<1> QED  BY <1>2, <1>3, <1>4, <1>5, <1>6, <1>7, <1>8, StepCases

-------------------------------------------------------------------------------
(* The invariant and what follows from it. *)

LEMMA InitSafe == Init => IInv
BY InitTypes, SessionInit, ReasonInit, RequestsInit, RepliesInit, SerialsInit DEF IInv

LEMMA StepSafe == IInv /\ [Next]_vars => IInv'
BY TypesStep, SessionStep, ReasonStep, RequestsStep, RepliesStep, SerialsStep DEF IInv

LEMMA CarriedFrames == Carried \subseteq Frames
<1>1. NoFrame \in Frames
  BY DEF NoFrame, Frame, Frames, Sequences
<1>2. Sendable \subseteq Frames
  BY DEF Sendable, Frames
<1> QED  BY <1>1, <1>2 DEF Carried

LEMMA Typed == IInv => TypeOK
<1> SUFFICES ASSUME IInv PROVE TypeOK
  OBVIOUS
<1> USE DEF IInv, Types
<1>1. /\ mode \in Modes /\ session \in 1 .. MaxReconnects + 1
      /\ late \in BOOLEAN /\ interrupted \in BOOLEAN /\ status \in {-1, 0, 1, 128}
  BY DEF OutsideTypes
<1>2. /\ app.state \in {"OFFLINE", "SYNCING", "ONLINE"} /\ app.session \in Nat
      /\ app.progress \in 0 .. 100 /\ app.notifications \in Nat
  BY DEF MainTypes, AppRecord
<1>3. app.session \in 0 .. session
  <2>1. main \in Positions
    BY DEF MainTypes
  <2>2. app.session \in {session - 1, session}
    BY <2>1 DEF SessionOK, Ended, Positions
  <2> QED  BY <1>1, <1>2, <2>2
<1>4. main \in Positions
  BY DEF MainTypes
<1>5. run.sync \in Sequences /\ run.followup \in Sequences /\ run.frame \in Frames
  BY CarriedFrames DEF MainTypes, RunRecord, Sequences
<1>6. pending.next \in 1 .. 3 /\ pending.active \in SUBSET Requests
  BY DEF MainTypes, PendingRecord
<1>7. Cardinality(pending.active) <= 1
  <2>1. CASE pending.active = {}
    BY <2>1, FS_EmptySet
  <2>2. CASE pending.active # {}
    <3>1. PICK p \in pending.active : TRUE
      BY <2>2
    <3>2. pending.active = {p}
      BY <3>1 DEF RequestsOK
    <3> QED  BY <3>2, FS_Singleton
  <2> QED  BY <2>1, <2>2
<1>8. stop \in [stopping : BOOLEAN, failed : BOOLEAN, kind : {"NONE", "INTERNAL", "TRANSPORT"}]
  BY DEF SharedTypes, StopRecord, Kinds
<1>9. \A S, T : S \subseteq T => Seq(S) \subseteq Seq(T)
  OBVIOUS
<1>10. Sendable \subseteq Frames
  BY CarriedFrames DEF Carried
<1>11. /\ rx.items \in Seq(Frames) /\ toHost \in Seq(Frames)
  BY <1>9, <1>10, FramesAreSendable
<1>12. /\ tx.items \in Seq(Sequences \ {0}) /\ toPeer \in Seq(Sequences \ {0})
       /\ Len(tx.items) <= QueueCapacity /\ Len(rx.items) <= QueueCapacity
       /\ Len(toPeer) <= SocketCapacity /\ Len(toHost) <= SocketCapacity
       /\ link \in {"up", "cut", "hung", "down"}
  BY DEF SharedTypes, TxQueue, Queries, Links
<1> QED  BY <1>1, <1>2, <1>3, <1>4, <1>5, <1>6, <1>7, <1>8, <1>11, <1>12 DEF TypeOK

LEMMA Confirmed == IInv => OnlineIsConfirmed
<1> SUFFICES ASSUME IInv, app.state = "ONLINE" PROVE app.session = session /\ run.sync \in peer.answered
  BY DEF OnlineIsConfirmed
<1>1. main \notin Between
  BY DEF IInv, SessionOK
<1> QED  BY <1>1 DEF IInv, SessionOK, RepliesOK, Between

LEMMA Broken == IInv => ReconnectsOnlyAfterBreak
BY DEF IInv, ReasonOK, ReconnectsOnlyAfterBreak

\* Two sequences and an optional element between them, put together.
LEMMA Joined ==
    ASSUME NEW S, NEW s \in Seq(S), NEW t \in Seq(S), NEW e \in S
    PROVE  /\ Len(s \o << >> \o t) = Len(s) + 0 + Len(t)
           /\ Len(s \o <<e>> \o t) = Len(s) + 1 + Len(t)
           /\ \A i \in DOMAIN (s \o << >> \o t) :
                 \/ i \in DOMAIN s /\ (s \o << >> \o t)[i] = s[i]
                 \/ i - Len(s) \in DOMAIN t /\ (s \o << >> \o t)[i] = t[i - Len(s)]
           /\ \A i \in DOMAIN (s \o <<e>> \o t) :
                 \/ i \in DOMAIN s /\ (s \o <<e>> \o t)[i] = s[i]
                 \/ i = Len(s) + 1 /\ (s \o <<e>> \o t)[i] = e
                 \/ i - Len(s) - 1 \in DOMAIN t /\ (s \o <<e>> \o t)[i] = t[i - Len(s) - 1]
OBVIOUS

LEMMA NothingLost == IInv => BackpressureLosesNothing
<1> SUFFICES ASSUME IInv, ~stop.stopping
             PROVE  /\ Len(OnTheWay) = peer.sent - run.handled
                    /\ \A i \in DOMAIN OnTheWay : OnTheWay[i].serial = run.handled + i
  BY DEF BackpressureLosesNothing
<1> DEFINE s == rx.items
           t == toHost
           e == rxThread.frame
           n == Len(s)
           h == run.handled
<1>1. s \in Seq(Sendable) /\ t \in Seq(Sendable) /\ e \in Carried /\ h \in Nat
  BY FramesAreSendable DEF IInv, Types, WorkerTypes, RxRecord, MainTypes, RunRecord
<1>2. /\ n + Held + Len(t) = peer.sent - h
      /\ \A i \in DOMAIN s : s[i].serial = h + i
      /\ Held = 1 => e.serial = h + n + 1
      /\ \A i \in DOMAIN t : t[i].serial = h + n + Held + i
  BY DEF IInv, SerialsOK
<1>3. n \in Nat /\ DOMAIN s \subseteq Nat /\ DOMAIN t \subseteq Nat
  BY <1>1
<1>4. CASE e = NoFrame
  <2>1. OnTheWay = s \o << >> \o t /\ Held = 0
    BY <1>4 DEF OnTheWay, InHand, Held
  <2>3. \A frame \in Sendable :
           /\ Len(s \o << >> \o t) = n + 0 + Len(t)
           /\ \A i \in DOMAIN (s \o << >> \o t) :
                 \/ i \in DOMAIN s /\ (s \o << >> \o t)[i] = s[i]
                 \/ i - n \in DOMAIN t /\ (s \o << >> \o t)[i] = t[i - n]
    BY <1>1, Joined
  <2>4. Report(0) \in Sendable
    BY DEF Report, Frame, Sendable, Sequences
  <2>5. \A i \in DOMAIN OnTheWay : i \in Nat
    BY <1>1, <2>1
  <2> HIDE DEF s, t, e, n, h
  <2>6. ASSUME NEW i \in DOMAIN OnTheWay
        PROVE  OnTheWay[i].serial = h + i
    <3>1. CASE i \in DOMAIN s /\ OnTheWay[i] = s[i]
      BY <1>2, <3>1
    <3>2. CASE i - n \in DOMAIN t /\ OnTheWay[i] = t[i - n]
      <4>1. OnTheWay[i].serial = h + n + 0 + (i - n)
        BY <1>2, <2>1, <3>2
      <4> QED  BY <1>1, <1>3, <2>5, <4>1
    <3> QED  BY <2>1, <2>3, <2>4, <3>1, <3>2
  <2>7. Len(OnTheWay) = peer.sent - h
    BY <1>2, <2>1, <2>3, <2>4
  <2> QED  BY <2>6, <2>7 DEF h
<1>5. CASE e # NoFrame
  <2>1. OnTheWay = s \o <<e>> \o t /\ Held = 1 /\ e \in Sendable
    BY <1>1, <1>5 DEF OnTheWay, InHand, Held, Carried
  <2>2. /\ Len(s \o <<e>> \o t) = n + 1 + Len(t)
        /\ \A i \in DOMAIN (s \o <<e>> \o t) :
              \/ i \in DOMAIN s /\ (s \o <<e>> \o t)[i] = s[i]
              \/ i = n + 1 /\ (s \o <<e>> \o t)[i] = e
              \/ i - n - 1 \in DOMAIN t /\ (s \o <<e>> \o t)[i] = t[i - n - 1]
    BY <1>1, <2>1, Joined
  <2>3. \A i \in DOMAIN OnTheWay : i \in Nat
    BY <1>1, <2>1
  <2> HIDE DEF s, t, e, n, h
  <2>4. ASSUME NEW i \in DOMAIN OnTheWay
        PROVE  OnTheWay[i].serial = h + i
    <3>1. CASE i \in DOMAIN s /\ OnTheWay[i] = s[i]
      BY <1>2, <3>1
    <3>2. CASE i = n + 1 /\ OnTheWay[i] = e
      BY <1>1, <1>2, <1>3, <2>1, <3>2
    <3>3. CASE i - n - 1 \in DOMAIN t /\ OnTheWay[i] = t[i - n - 1]
      <4>1. OnTheWay[i].serial = h + n + 1 + (i - n - 1)
        BY <1>2, <2>1, <3>3
      <4> QED  BY <1>1, <1>3, <2>3, <4>1
    <3> QED  BY <2>1, <2>2, <3>1, <3>2, <3>3
  <2>5. Len(OnTheWay) = peer.sent - h
    BY <1>2, <2>1, <2>2
  <2> QED  BY <2>4, <2>5 DEF h
<1> QED  BY <1>4, <1>5

LEMMA InvariantSafe == Spec => []IInv
BY InitSafe, StepSafe, PTL DEF Spec

\* The variables keep their types for any sizes and limits.
THEOREM TypeCorrect == Spec => []TypeOK
BY InvariantSafe, Typed, PTL

\* Online is confirmed by the device of this very connection.
THEOREM ConfirmationSafe == Spec => []OnlineIsConfirmed
BY InvariantSafe, Confirmed, PTL

\* A connection is repeated only after the device broke the last one.
THEOREM ReconnectSafe == Spec => []ReconnectsOnlyAfterBreak
BY InvariantSafe, Broken, PTL

\* Until somebody stops, no frame is lost, added or reordered between the device
\* and the main thread, for any sizes of the queues and of the socket.
THEOREM Safety == Spec => []BackpressureLosesNothing
BY InvariantSafe, NothingLost, PTL

-------------------------------------------------------------------------------
(* The connection as promised. *)

LEMMA InitRefines == Init => Announced!Init
BY DEF Init, InitialApplication, Announced!Init

LEMMA StepRefines ==
    ASSUME IInv, [Next]_vars
    PROVE  [Announced!Next]_Announced!vars
<1> USE DEF Announced!Next, Announced!vars
<1>1. app \in AppRecord /\ session \in 1 .. MaxReconnects + 1
  BY DEF IInv, Types, MainTypes, OutsideTypes
<1>2. CASE app' = app
  BY <1>2
<1>3. CASE Connect
  <2>1. CASE main' = "start"
    <3>1. app.state = "OFFLINE" /\ app.session = session - 1
      BY <1>3 DEF Connect, IInv, SessionOK, Between, Ended
    <3>2. app' = [app EXCEPT !.state = "SYNCING", !.session = session]
      BY <1>3, <2>1 DEF Connect
    <3>3. app'.state = "SYNCING" /\ app'.session = session /\ app'.progress = app.progress
      BY <1>1, <3>2 DEF AppRecord
    <3>4. app.session < MaxReconnects + 1 /\ session = app.session + 1
      BY <1>1, <3>1
    <3> QED  BY <3>1, <3>3, <3>4 DEF Announced!Connect
  <2>2. CASE main' = "return"
    BY <1>2, <1>3, <2>2 DEF Connect
  <2> QED  BY <1>3, <2>1, <2>2 DEF Connect
<1>4. CASE Finish
  <2>1. app' = [app EXCEPT !.state = "OFFLINE"] /\ main = "finish"
    BY <1>4 DEF Finish
  <2>2. app'.state = "OFFLINE" /\ app'.session = app.session /\ app'.progress = app.progress
    BY <1>1, <2>1 DEF AppRecord
  <2>3. app.state # "OFFLINE"
    BY <2>1 DEF IInv, SessionOK, Between, Ended
  <2> QED  BY <2>2, <2>3 DEF Announced!Disconnect
<1>5. CASE Handle /\ app' # app
  <2>1. main = "handle" /\ (HandleReport \/ HandleMatched \/ HandleUnmatched)
    BY <1>5 DEF Handle
  <2>2. /\ app' \in AppRecord /\ app'.session = app.session
        /\ \/ app'.state = app.state
           \/ app.state = "SYNCING" /\ app'.state = "ONLINE"
        /\ app.state = "SYNCING" /\ (\A p \in pending.active : p.sequence = run.sync) =>
              app' = app \/ app'.state = "ONLINE"
    BY <2>1, HandleFacts DEF IInv, Types
  <2>3. app'.progress \in 0 .. 100
    BY <2>2 DEF AppRecord
  <2>4. app.state # "OFFLINE"
    BY <2>1 DEF IInv, SessionOK, Between, Ended
  <2>5. CASE app.state = "SYNCING"
    <3>1. app'.state = "ONLINE"
      BY <1>5, <2>2, <2>5 DEF IInv, RequestsOK
    <3> QED  BY <2>2, <2>3, <2>5, <3>1 DEF Announced!Confirm
  <2>6. CASE app.state = "ONLINE"
    BY <2>2, <2>3, <2>6 DEF Announced!Refresh
  <2> QED  BY <1>1, <2>4, <2>5, <2>6 DEF AppRecord
<1>6. app' = app \/ Connect \/ Finish \/ Handle
  BY WorkerFacts, AsideFacts, MainCases, TurnFacts, PauseFacts
     DEF Next, Aside, Work, Start, Query, Hold, Take, Process, FollowUp, IInv, Types
<1> QED  BY <1>2, <1>3, <1>4, <1>5, <1>6

\* Whatever the device, the threads and the clock do, the user interface sees a
\* connection that is synchronised, confirmed and given up in this order, and a
\* snapshot that changes only when confirmed or online.
THEOREM Refinement == Spec => ImplementsConnection
BY InvariantSafe, InitRefines, StepRefines, PTL DEF Spec, ImplementsConnection, Announced!Spec

-------------------------------------------------------------------------------
(* What a scenario lets the main thread see.  The frames of a connection, on *)
(* their way or still in the device's script, each with the number it has or *)
(* will have.                                                                *)

Elements(s) == {s[i] : i \in DOMAIN s}
Numbered(script, n) == {[script[i] EXCEPT !.serial = n + i] : i \in DOMAIN script}
Ahead == Numbered(peer.script, peer.sent)
Afoot ==
    Elements(rx.items) \cup Elements(toHost) \cup Ahead
        \cup ({rxThread.frame, run.frame} \ {NoFrame})

LEMMA NoElements == Elements(<< >>) = {} /\ \A n : Numbered(<< >>, n) = {}
BY DEF Elements, Numbered

LEMMA ElementsTail ==
    ASSUME NEW S, NEW s \in Seq(S), s # << >>
    PROVE  Head(s) \in Elements(s) /\ Elements(Tail(s)) \subseteq Elements(s)
<1>1. /\ 1 \in DOMAIN s /\ Head(s) = s[1]
      /\ \A i \in DOMAIN Tail(s) : i + 1 \in DOMAIN s /\ Tail(s)[i] = s[i + 1]
  BY TailElements
<1> QED  BY <1>1 DEF Elements

LEMMA ElementsAppend ==
    ASSUME NEW S, NEW s \in Seq(S), NEW e \in S
    PROVE  Elements(Append(s, e)) \subseteq Elements(s) \cup {e}
<1>1. \A i \in DOMAIN Append(s, e) :
         \/ i \in DOMAIN s /\ Append(s, e)[i] = s[i]
         \/ Append(s, e)[i] = e
  BY AppendElements
<1> QED  BY <1>1 DEF Elements

LEMMA NumberedTail ==
    ASSUME NEW s \in Seq(Steps), s # << >>, NEW n \in Nat
    PROVE  /\ [Head(s) EXCEPT !.serial = n + 1] \in Numbered(s, n)
           /\ Numbered(Tail(s), n + 1) \subseteq Numbered(s, n)
<1>1. /\ 1 \in DOMAIN s /\ Head(s) = s[1]
      /\ \A i \in DOMAIN Tail(s) : i \in Nat /\ i + 1 \in DOMAIN s /\ Tail(s)[i] = s[i + 1]
  BY TailElements
<1>2. ASSUME NEW i \in DOMAIN Tail(s)
      PROVE  [Tail(s)[i] EXCEPT !.serial = n + 1 + i] \in Numbered(s, n)
  <2> DEFINE j == i + 1
  <2>1. j \in DOMAIN s /\ Tail(s)[i] = s[j] /\ n + 1 + i = n + j
    BY <1>1
  <2> HIDE DEF j
  <2>2. [s[j] EXCEPT !.serial = n + j] \in Numbered(s, n)
    BY <2>1 DEF Numbered
  <2> QED  BY <2>1, <2>2
<1>3. [s[1] EXCEPT !.serial = n + 1] \in Numbered(s, n)
  BY <1>1 DEF Numbered
<1> QED  BY <1>1, <1>2, <1>3 DEF Numbered

\* The types of what is afoot.
LEMMA AfootTypes ==
    ASSUME Types
    PROVE  /\ Elements(rx.items) \subseteq Sendable /\ Elements(toHost) \subseteq Sendable
           /\ {rxThread.frame, run.frame} \ {NoFrame} \subseteq Sendable
           /\ \A f \in Afoot : f.serial \in Nat
<1>1. rx.items \in Seq(Sendable) /\ toHost \in Seq(Sendable)
  BY FramesAreSendable DEF Types
<1>2. Elements(rx.items) \subseteq Sendable /\ Elements(toHost) \subseteq Sendable
  BY <1>1 DEF Elements
<1>3. {rxThread.frame, run.frame} \ {NoFrame} \subseteq Sendable
  BY DEF Types, WorkerTypes, RxRecord, MainTypes, RunRecord, Carried
<1>4. \A f \in Sendable : f.serial \in Nat
  BY DEF Sendable
<1>5. ASSUME NEW f \in Ahead PROVE f.serial \in Nat
  <2>1. peer.script \in Seq(Steps) /\ peer.sent \in Nat
    BY DEF Types, WorkerTypes, PeerRecord
  <2>2. PICK i \in DOMAIN peer.script : f = [peer.script[i] EXCEPT !.serial = peer.sent + i]
    BY <1>5 DEF Ahead, Numbered
  <2>3. i \in Nat /\ peer.script[i] \in Steps
    BY <2>1, <2>2
  <2>4. \A step \in Steps, n \in Nat : [step EXCEPT !.serial = n].serial = n
    BY DEF Steps, Sendable, Cut, Hang, Frame
  <2> QED  BY <2>1, <2>2, <2>3, <2>4
<1> QED  BY <1>2, <1>3, <1>4, <1>5 DEF Afoot

\* A step that begins no connection leaves the scenario alone, takes no stop back,
\* and keeps the device's script unless the device itself reads or writes it.
LEMMA Onward ==
    ASSUME Types, SessionOK, [Next]_vars, ~(Connect /\ main' = "start")
    PROVE  /\ mode' = mode /\ (stop.stopping => stop'.stopping)
           /\ ~PeerReceive /\ ~PeerAnswer =>
                 /\ peer'.script = peer.script /\ peer'.sent = peer.sent
                 /\ peer'.requests = peer.requests
<1>1. mode' = mode
  BY AsideFacts, WorkFacts, MainCases DEF Next, Aside, TxStep, TxTest, TxPop, TxSend,
     RxStep, RxTest, RxReceive, RxKeep, RxPush, PeerStep, PeerTest, PeerReceive, PeerAnswer,
     Connect, Start, Query, Finish, Join, Delay, Return, ConnectInterrupted, outside
<1>2. stop.stopping => stop'.stopping
  <2>1. Start => UNCHANGED shared \/ Stopped
    BY DEF Start, Stopped
  <2>2. Take \/ Handle => UNCHANGED stop
    BY DEF Take, Handle, shared
  <2>3. RxStep => UNCHANGED shared \/ TransportFailed \/ UNCHANGED stop
    BY DEF RxStep, RxTest, RxReceive, RxKeep, RxPush
  <2>4. PeerAnswer => UNCHANGED stop
    BY DEF PeerAnswer, PeerSends, PeerEnds, shared
  <2>5. Quiet => (stop.stopping => stop'.stopping)
    BY DEF Quiet
  <2> QED  BY <2>1, <2>2, <2>3, <2>4, <2>5, StepCases, StopRuntimeFacts, TransportFacts
           DEF Types, Stopped, shared
<1>3. ASSUME ~PeerReceive, ~PeerAnswer
      PROVE  /\ peer'.script = peer.script /\ peer'.sent = peer.sent
             /\ peer'.requests = peer.requests
  <2>1. CASE PeerTest \/ Start
    BY <2>1 DEF PeerTest, Start, Types, WorkerTypes, PeerRecord
  <2>2. CASE TxStep \/ RxStep
    BY <2>2 DEF TxStep, TxTest, TxPop, TxSend, RxStep, RxTest, RxReceive, RxKeep, RxPush
  <2>3. CASE Aside \/ Work
    BY <2>3, AsideFacts, WorkFacts DEF workers
  <2>4. CASE Connect \/ Query \/ Finish \/ Join \/ Delay \/ Return \/ ConnectInterrupted
    BY <2>4 DEF Connect, Query, Finish, Join, Delay, Return, ConnectInterrupted, workers
  <2> QED  BY <1>3, <2>1, <2>2, <2>3, <2>4, MainCases DEF Next, Aside, PeerStep
<1> QED  BY <1>1, <1>2, <1>3

\* Only the handling of a frame changes what has been shown and counted.
LEMMA Undisturbed ==
    ASSUME Types, [Next]_vars, ~Handle, ~(Connect /\ main' = "start")
    PROVE  /\ app'.session = app.session /\ app'.progress = app.progress
           /\ app'.notifications = app.notifications /\ app'.state \in {app.state, "OFFLINE"}
           /\ run'.responses = run.responses /\ run'.reports = run.reports
           /\ run'.unmatched = run.unmatched
<1>1. CASE TxStep \/ RxStep \/ PeerStep \/ Aside
  BY <1>1, WorkerFacts, AsideFacts
<1>2. CASE Turn
  BY <1>2, TurnFacts
<1>3. CASE Hold \/ Take \/ FollowUp \/ Query
  <2>1. app' = app
    BY <1>3 DEF Hold, Take, FollowUp, Query
  <2>2. /\ run'.responses = run.responses /\ run'.reports = run.reports
        /\ run'.unmatched = run.unmatched
    BY <1>3 DEF Hold, Take, FollowUp, Query, Types, MainTypes, RunRecord
  <2> QED  BY <2>1, <2>2
<1>4. CASE Process
  <2>1. app' = app
    BY <1>4 DEF Process
  <2>2. /\ run'.responses = run.responses /\ run'.reports = run.reports
        /\ run'.unmatched = run.unmatched
    BY <1>4 DEF Process, Overdue, Types, MainTypes, RunRecord
  <2> QED  BY <2>1, <2>2
<1>5. CASE Finish
  BY <1>5 DEF Finish, Types, MainTypes, AppRecord
<1>6. CASE Start \/ Join \/ Delay \/ Return \/ ConnectInterrupted \/ Connect
  BY <1>6 DEF Start, Join, Delay, Return, ConnectInterrupted, Connect
<1> QED  BY <1>1, <1>2, <1>3, <1>4, <1>5, <1>6, MainCases DEF Next, Aside, Work

\* What is afoot stays or goes, except when the device has read a query.
LEMMA AfootReceive ==
    ASSUME Types, SessionOK, PeerReceive
    PROVE  Afoot' \subseteq Afoot \cup Ahead'
<1>1. /\ rx'.items = rx.items /\ toHost' = toHost /\ rxThread' = rxThread
      /\ run'.frame = run.frame
  BY QuietWorker DEF Quiet
<1> QED  BY <1>1 DEF Afoot

LEMMA AfootConnect ==
    ASSUME Types, Connect, main' = "start"
    PROVE  Afoot' = {}
<1>1. /\ rx' = [open |-> TRUE, items |-> << >>] /\ toHost' = << >>
      /\ rxThread' = [rxThread EXCEPT !.frame = NoFrame, !.timedOut = FALSE]
      /\ run'.frame = NoFrame
      /\ peer' = [peer EXCEPT !.requests = 0, !.script = <<>>, !.sent = 0, !.reports = 0,
                              !.answered = {}, !.broke = FALSE]
  BY DEF Connect, ReceivedAtStart
<1>2. peer'.script = << >> /\ rxThread'.frame = NoFrame /\ rx'.items = << >>
  BY <1>1 DEF Types, WorkerTypes, PeerRecord, RxRecord
<1> QED  BY <1>1, <1>2, NoElements DEF Afoot, Ahead

LEMMA AfootStep ==
    ASSUME Types, SessionOK, [Next]_vars, ~PeerReceive
    PROVE  Afoot' \subseteq Afoot
<1>1. rx.items \in Seq(Sendable) /\ toHost \in Seq(Sendable)
  BY FramesAreSendable DEF Types
<1>2. CASE Connect /\ main' = "start"
  BY <1>2, AfootConnect
<1>3. CASE PeerAnswer
  <2>1. rx'.items = rx.items /\ rxThread' = rxThread /\ run' = run
    BY <1>3 DEF PeerAnswer, PeerSends, PeerEnds, shared
  <2>2. CASE /\ peer.script # << >> /\ Head(peer.script) \notin {Cut, Hang}
             /\ PeerSends(Head(peer.script))
    <3> DEFINE frame == Head(peer.script)
               numbered == [frame EXCEPT !.serial = peer.sent + 1]
    <3>1. peer.script \in Seq(Steps) /\ peer.sent \in Nat
      BY DEF Types, WorkerTypes, PeerRecord
    <3>2. numbered \in Ahead /\ Numbered(Tail(peer.script), peer.sent + 1) \subseteq Ahead
      BY <2>2, <3>1, NumberedTail DEF Ahead
    <3>3. /\ toHost' = Append(toHost, numbered)
          /\ peer' = [peer EXCEPT !.script = Tail(@), !.sent = @ + 1,
                         !.reports = IF frame.type = "REPORT" THEN @ + 1 ELSE @,
                         !.answered = IF frame.type = "RESPONSE" THEN @ \cup {frame.sequence} ELSE @]
      BY <2>2 DEF PeerSends
    <3>4. numbered \in Sendable
      <4>1. frame \in Sendable
        BY <2>2, <3>1, TailType DEF Steps
      <4>2. peer.sent + 1 \in Nat
        BY <3>1
      <4> QED  BY <4>1, <4>2, NumberedFrame
    <3> HIDE DEF numbered, frame
    <3>5. peer'.script = Tail(peer.script) /\ peer'.sent = peer.sent + 1
      BY <3>3 DEF Types, WorkerTypes, PeerRecord
    <3>6. Elements(toHost') \subseteq Elements(toHost) \cup {numbered}
      BY <1>1, <3>3, <3>4, ElementsAppend
    <3> QED  BY <2>1, <3>2, <3>5, <3>6 DEF Afoot, Ahead
  <2>3. CASE toHost' = toHost /\ peer'.script = peer.script /\ peer'.sent = peer.sent
    BY <2>1, <2>3 DEF Afoot, Ahead
  <2> QED  BY <1>3, <2>2, <2>3 DEF PeerAnswer, PeerEnds, Types, WorkerTypes, PeerRecord
<1>4. CASE ~PeerAnswer /\ ~(Connect /\ main' = "start")
  <2>1. Ahead' = Ahead
    BY <1>4, Onward DEF Ahead
  <2>2. CASE Quiet
    BY <2>1, <2>2 DEF Quiet, Afoot
  <2>3. CASE Start
    <3>1. UNCHANGED <<run, toHost>> /\ (UNCHANGED shared \/ Stopped)
      BY <2>3 DEF Start, sockets, Stopped
    <3>2. rx'.items = rx.items
      BY <3>1, QuietShared
    <3>3. rxThread'.frame = rxThread.frame
      BY <2>3 DEF Start, Types, WorkerTypes, RxRecord
    <3> QED  BY <2>1, <3>1, <3>2, <3>3 DEF Afoot
  <2>4. CASE Take
    <3>1. toHost' = toHost /\ rxThread' = rxThread
      BY <2>4 DEF Take, sockets, workers
    <3>2. CASE rx.items = << >>
      BY <2>1, <2>4, <3>1, <3>2 DEF Take, Afoot
    <3>3. CASE rx.items # << >>
      <4>1. /\ run' = [run EXCEPT !.frame = Head(rx.items), !.handled = Head(rx.items).serial]
            /\ rx' = [rx EXCEPT !.items = Tail(@)]
        BY <2>4, <3>3 DEF Take
      <4>2. run'.frame = Head(rx.items) /\ rx'.items = Tail(rx.items)
        BY <4>1 DEF Types, MainTypes, RunRecord, SharedTypes, RxQueue
      <4>3. Head(rx.items) \in Elements(rx.items) /\ Elements(rx'.items) \subseteq Elements(rx.items)
        BY <1>1, <3>3, <4>2, ElementsTail
      <4> QED  BY <2>1, <3>1, <4>2, <4>3 DEF Afoot
    <3> QED  BY <3>2, <3>3
  <2>5. CASE Handle
    <3>1. UNCHANGED <<rx, toHost, rxThread>> /\ main = "handle"
      BY <2>5 DEF Handle, shared, sockets, workers
    <3>2. run' = run \/ run'.frame = NoFrame
      BY <2>5, <3>1, HandleFacts DEF Handle, Types
    <3> QED  BY <2>1, <3>1, <3>2 DEF Afoot
  <2>6. CASE RxTest \/ RxKeep
    <3>1. rx' = rx /\ toHost' = toHost /\ run' = run
      BY <2>6 DEF RxTest, RxKeep, shared, sockets
    <3>2. rxThread'.frame = rxThread.frame
      BY <2>6 DEF RxTest, RxKeep, Types, WorkerTypes, RxRecord
    <3> QED  BY <2>1, <3>1, <3>2 DEF Afoot
  <2>7. CASE RxReceive
    <3>1. run' = run
      BY <2>7 DEF RxReceive
    <3>2. CASE toHost # << >>
      <4>1. /\ rxThread' = [rxThread EXCEPT !.pc = "keep", !.frame = Head(toHost)]
            /\ toHost' = Tail(toHost) /\ rx' = rx
        BY <2>7, <3>2 DEF RxReceive, shared
      <4>2. rxThread'.frame = Head(toHost)
        BY <4>1 DEF Types, WorkerTypes, RxRecord
      <4>3. Head(toHost) \in Elements(toHost) /\ Elements(toHost') \subseteq Elements(toHost)
        BY <1>1, <3>2, <4>1, ElementsTail
      <4> QED  BY <2>1, <3>1, <4>1, <4>2, <4>3 DEF Afoot
    <3>3. CASE toHost = << >>
      <4>1. rxThread' = [rxThread EXCEPT !.pc = "done"] /\ toHost' = toHost /\ TransportFailed
        BY <2>7, <3>3 DEF RxReceive
      <4>2. rx'.items = rx.items
        BY <4>1, QuietShared
      <4>3. rxThread'.frame = rxThread.frame
        BY <4>1 DEF Types, WorkerTypes, RxRecord
      <4> QED  BY <2>1, <3>1, <4>1, <4>2, <4>3 DEF Afoot
    <3> QED  BY <3>2, <3>3
  <2>8. CASE RxPush
    <3>1. toHost' = toHost /\ run' = run
      BY <2>8 DEF RxPush, sockets
    <3>2. CASE rx' = rx
      <4>1. rxThread'.frame = rxThread.frame \/ rxThread'.frame = NoFrame
        BY <2>8 DEF RxPush, Types, WorkerTypes, RxRecord
      <4> QED  BY <2>1, <3>1, <3>2, <4>1 DEF Afoot
    <3>3. CASE /\ rx' = [rx EXCEPT !.items = Append(@, rxThread.frame)]
               /\ rxThread' = [rxThread EXCEPT !.pc = "test", !.frame = NoFrame]
      <4>1. rx'.items = Append(rx.items, rxThread.frame)
        BY <3>3 DEF Types, SharedTypes, RxQueue
      <4>2. rxThread'.frame = NoFrame
        BY <3>3 DEF Types, WorkerTypes, RxRecord
      <4>3. rxThread.frame \in Sendable /\ rxThread.frame # NoFrame
        BY <2>8 DEF RxPush, Types, WorkerTypes, RxRecord, Carried
      <4>4. Elements(rx'.items) \subseteq Elements(rx.items) \cup {rxThread.frame}
        BY <1>1, <4>1, <4>3, ElementsAppend
      <4> QED  BY <2>1, <3>1, <4>2, <4>3, <4>4 DEF Afoot
    <3> QED  BY <2>8, <3>2, <3>3 DEF RxPush
  <2> QED  BY <1>4, <2>2, <2>3, <2>4, <2>5, <2>6, <2>7, <2>8, StepCases DEF RxStep
<1> QED  BY <1>2, <1>3, <1>4

\* The device and its scripts: a script has been sent before the next query is
\* read, the first one of a connection that is held back is the burst, and the first
\* one of a stream is a single reply at most.
DeviceOK ==
    /\ peer.pc \in {"test", "recv"} => peer.script = << >>
    /\ peer.requests = 0 => peer.sent = 0 /\ peer.script = << >>
    /\ peer.answered # {} => peer.sent > 0
    /\ main = "start" => peer.requests = 0
    /\ mode \in Holding /\ peer.requests > 0 => peer.sent + Len(peer.script) > Burst
    /\ mode = "stream" /\ peer.requests = 1 => peer.sent + Len(peer.script) <= 1

\* How many frames precede the device's first reply that the host may wait for.
Prelude == IF mode \in Holding THEN Burst ELSE 1

Plain == {"normal", "retry", "idle"} \cup Holding
Resuming == {"reconnect", "reconnect-timeout"}

\* What a reply says, in every scenario but the stream: 40, and after a break 80
\* or a reply to a query that is not asked again.
Reply(f) ==
    \/ mode \in Plain /\ f.progress = 40
    \/ mode \in Resuming /\ app.session = 1 /\ f.progress = 40
    \/ mode \in Resuming /\ app.session > 1 /\ f.sequence = 2
    \/ mode = "reconnect" /\ app.session > 1 /\ f.progress = 80

\* Reports come first, before anything can be confirmed.
Expected(f) ==
    /\ f.serial >= 1
    /\ f.type = "REPORT" => f.serial <= Prelude
    /\ f.type = "RESPONSE" => f.serial >= Prelude /\ Reply(f)

FramesOK == mode # "stream" /\ ~stop.stopping => \A f \in Afoot : Expected(f)

LEMMA PreludeType == Prelude \in 1 .. 100
BY DEF Prelude

LEMMA NumberedFields ==
    ASSUME NEW type, NEW sequence, NEW progress, NEW n
    PROVE  LET f == [Frame(type, sequence, progress) EXCEPT !.serial = n]
           IN  f.type = type /\ f.sequence = sequence /\ f.progress = progress /\ f.serial = n
BY DEF Frame

LEMMA NumberedAppend ==
    ASSUME NEW S, NEW s \in Seq(S), NEW e \in S, NEW n \in Nat, NEW f \in Numbered(Append(s, e), n)
    PROVE  f \in Numbered(s, n) \/ f = [e EXCEPT !.serial = n + Len(s) + 1]
<1>1. PICK i \in DOMAIN Append(s, e) : f = [Append(s, e)[i] EXCEPT !.serial = n + i]
  BY DEF Numbered
<1>2. \/ i \in DOMAIN s /\ Append(s, e)[i] = s[i]
      \/ i = Len(s) + 1 /\ Append(s, e)[i] = e
  BY AppendElements
<1>3. CASE i = Len(s) + 1 /\ Append(s, e)[i] = e
  <2>1. Len(s) \in Nat
    OBVIOUS
  <2>2. n + i = n + Len(s) + 1
    BY <1>3, <2>1
  <2> QED  BY <1>1, <1>3, <2>2
<1> QED  BY <1>1, <1>2, <1>3 DEF Numbered

\* The scripts, one shape at a time.
LEMMA EndingScript ==
    ASSUME NEW step \in {Cut, Hang}, NEW n \in Nat, NEW f \in Numbered(<<step>>, n)
    PROVE  Expected(f)
<1>1. f = [step EXCEPT !.serial = n + 1]
  BY DEF Numbered
<1>2. f.serial = n + 1 /\ f.type \in {"CUT", "HANG"}
  BY <1>1, NumberedFields DEF Cut, Hang
<1> QED  BY <1>2 DEF Expected

LEMMA EarlyScript ==
    ASSUME mode \in Resuming, app.session > 1,
           NEW f \in Numbered(<<Report(99), Response(2, 99)>>, 0)
    PROVE  Expected(f)
<1>1. f = [Report(99) EXCEPT !.serial = 1] \/ f = [Response(2, 99) EXCEPT !.serial = 2]
  BY DEF Numbered
<1>2. Prelude = 1
  BY DEF Prelude, Resuming, Holding
<1>3. CASE f = [Report(99) EXCEPT !.serial = 1]
  <2>1. f.serial = 1 /\ f.type = "REPORT"
    BY <1>3, NumberedFields DEF Report
  <2> QED  BY <1>2, <2>1 DEF Expected
<1>4. CASE f = [Response(2, 99) EXCEPT !.serial = 2]
  <2>1. f.serial = 2 /\ f.type = "RESPONSE" /\ f.sequence = 2
    BY <1>4, NumberedFields DEF Response
  <2> QED  BY <1>2, <2>1 DEF Expected, Reply
<1> QED  BY <1>1, <1>3, <1>4

LEMMA BurstScript ==
    ASSUME mode \in Holding, NEW f \in Numbered([i \in 1 .. Burst |-> Report(i)], 0)
    PROVE  Expected(f)
<1>1. PICK i \in 1 .. Burst : f = [Report(i) EXCEPT !.serial = 0 + i]
  BY DEF Numbered
<1>2. f.serial = i /\ f.type = "REPORT"
  BY <1>1, NumberedFields DEF Report
<1> QED  BY <1>2 DEF Expected, Prelude

LEMMA LastReply ==
    ASSUME NEW sequence, NEW progress, NEW n \in Nat, n >= Prelude,
           NEW f, f = [Response(sequence, progress) EXCEPT !.serial = n], Reply(f)
    PROVE  Expected(f)
<1>1. f.serial = n /\ f.type = "RESPONSE"
  BY NumberedFields DEF Response
<1> QED  BY <1>1, PreludeType DEF Expected

LEMMA ScriptExpected ==
    ASSUME mode \in AllModes, mode # "stream", session \in Nat \ {0}, app.session = session,
           NEW sequence \in Queries, NEW n \in Nat \ {0}, NEW sent \in Nat,
           n = 1 => sent = 0, mode \in Holding /\ n > 1 => sent > Burst,
           NEW script \in Scripts(sequence, n), NEW f \in Numbered(script, sent)
    PROVE  Expected(f)
<1> DEFINE early == IF n = 1 THEN <<Report(99), Response(2, 99)>> ELSE << >>
           burst == IF mode \in Holding /\ n = 1 THEN [i \in 1 .. Burst |-> Report(i)] ELSE << >>
<1>1. \A p, q, k : LET g == [Response(q, p) EXCEPT !.serial = k]
                   IN  g.sequence = q /\ g.progress = p
  BY NumberedFields DEF Response
<1>2. sequence \in Sequences /\ sequence \in {1, 2}
  BY DEF Queries, Sequences
<1>3. \/ script \in {<<Hang>>, <<Cut>>}
      \/ script = << >>
      \/ mode \in Resuming /\ session > 1 /\ script = early
      \/ mode = "reconnect" /\ session > 1 /\ script = Append(early, Response(sequence, 80))
      \/ /\ mode \in Plain \/ (mode \in Resuming /\ session = 1)
         /\ script = Append(burst, Response(sequence, 40))
  <2>1. CASE mode \in {"disconnect", "timeout"}
    BY <2>1 DEF Scripts
  <2>2. CASE mode = "reconnect-exhausted"
    BY <2>2 DEF Scripts
  <2>3. CASE mode \in {"normal", "retry", "idle"}
    BY <2>3 DEF Scripts, Plain, Reconnecting
  <2>4. CASE mode \in Holding
    BY <2>4 DEF Scripts, Plain, Reconnecting, Holding
  <2>5. CASE mode \in Resuming /\ session = 1
    BY <2>5 DEF Scripts, Resuming, Reconnecting, Holding
  <2>6. CASE mode \in Resuming /\ session > 1
    BY <2>6 DEF Scripts, Resuming, Reconnecting, Holding
  <2>7. session = 1 \/ session > 1
    OBVIOUS
  <2>8. \/ mode \in {"disconnect", "timeout"} \/ mode = "reconnect-exhausted"
        \/ mode \in {"normal", "retry", "idle"} \/ mode \in Holding \/ mode \in Resuming
    BY DEF AllModes, Holding, Resuming
  <2> HIDE DEF early, burst
  <2> QED  BY <2>1, <2>2, <2>3, <2>4, <2>5, <2>6, <2>7, <2>8
<1>4. early \in Seq(Steps) /\ burst \in Seq(Steps)
  <2>1. Report(99) \in Steps /\ \A i \in 1 .. Burst : Report(i) \in Steps
    BY ReportType
  <2>2. Response(2, 99) \in Steps
    BY ResponseType DEF Sequences
  <2> QED  BY <2>1, <2>2
<1>5. \A p \in 0 .. 100 : Response(sequence, p) \in Steps
  BY <1>2, ResponseType
<1>6. CASE script \in {<<Hang>>, <<Cut>>}
  BY <1>6, EndingScript
<1>7. CASE script = << >>
  BY <1>7, NoElements
<1>8. ASSUME mode \in Resuming, session > 1, NEW g \in Numbered(early, sent) PROVE Expected(g)
  <2>1. (n = 1 /\ sent = 0) \/ early = << >>
    OBVIOUS
  <2> QED  BY <1>8, <2>1, EarlyScript, NoElements
<1>9. CASE mode \in Resuming /\ session > 1 /\ script = early
  BY <1>8, <1>9
<1>10. CASE mode = "reconnect" /\ session > 1 /\ script = Append(early, Response(sequence, 80))
  <2>1. CASE f \in Numbered(early, sent)
    BY <1>8, <1>10, <2>1 DEF Resuming
  <2>2. CASE f = [Response(sequence, 80) EXCEPT !.serial = sent + Len(early) + 1]
    <3>1. f.progress = 80
      BY <1>1, <2>2
    <3>2. sent + Len(early) + 1 \in Nat /\ sent + Len(early) + 1 >= 1
      BY <1>4
    <3>3. Prelude = 1
      BY <1>10 DEF Prelude, Holding
    <3> HIDE DEF early
    <3> QED  BY <1>10, <2>2, <3>1, <3>2, <3>3, LastReply DEF Reply
  <2> HIDE DEF early
  <2>3. early \in Seq(Steps) /\ Response(sequence, 80) \in Steps
        /\ f \in Numbered(Append(early, Response(sequence, 80)), sent)
    BY <1>4, <1>5, <1>10
  <2> QED  BY <2>1, <2>2, <2>3, NumberedAppend
<1>11. CASE /\ mode \in Plain \/ (mode \in Resuming /\ session = 1)
            /\ script = Append(burst, Response(sequence, 40))
  <2>1. CASE f \in Numbered(burst, sent)
    BY <2>1, BurstScript, NoElements
  <2>2. CASE f = [Response(sequence, 40) EXCEPT !.serial = sent + Len(burst) + 1]
    <3>1. f.progress = 40
      BY <1>1, <2>2
    <3>2. Len(burst) \in Nat /\ (mode \in Holding /\ n = 1 => Len(burst) = Burst)
      BY <1>4
    <3>3. sent + Len(burst) + 1 \in Nat /\ sent + Len(burst) + 1 >= Prelude
      BY <3>2 DEF Prelude
    <3> HIDE DEF burst
    <3> QED  BY <1>11, <2>2, <3>1, <3>3, LastReply DEF Reply
  <2> HIDE DEF burst
  <2>3. burst \in Seq(Steps) /\ Response(sequence, 40) \in Steps
        /\ f \in Numbered(Append(burst, Response(sequence, 40)), sent)
    BY <1>4, <1>5, <1>11
  <2> QED  BY <2>1, <2>2, <2>3, NumberedAppend
<1> QED  BY <1>3, <1>6, <1>7, <1>9, <1>10, <1>11

LEMMA ScriptLengths ==
    ASSUME NEW sequence \in Queries, NEW script \in Scripts(sequence, 1)
    PROVE  /\ mode \in Holding => Len(script) > Burst
           /\ mode = "stream" => Len(script) <= 1
<1> DEFINE burst == [i \in 1 .. Burst |-> Report(i)]
<1>1. sequence \in Sequences
  BY DEF Queries
<1>2. Response(sequence, 40) \in Steps /\ \A i \in 1 .. Burst : Report(i) \in Steps
  BY <1>1, ReportType, ResponseType
<1>3. burst \in Seq(Steps) /\ Len(burst) = Burst
  BY <1>2
<1>4. ASSUME mode \in Holding PROVE Len(script) > Burst
  <2>1. script = Append(burst, Response(sequence, 40))
    BY <1>4 DEF Scripts, Holding, Reconnecting
  <2> HIDE DEF burst
  <2>2. Len(script) = Len(burst) + 1
    BY <1>2, <1>3, <2>1
  <2> QED  BY <1>3, <2>2
<1>5. ASSUME mode = "stream" PROVE Len(script) <= 1
  <2>1. script = << >> \/ script = Append(<< >>, Response(sequence, 40))
    BY <1>5 DEF Scripts, Holding, Reconnecting
  <2> QED  BY <1>2, <2>1
<1> QED  BY <1>4, <1>5

\* What the device does with a query and with its script.
LEMMA ReceiveFacts ==
    ASSUME Types, PeerReceive
    PROVE  \/ /\ peer'.pc = "done" /\ peer'.requests = peer.requests /\ peer'.script = peer.script
              /\ peer'.sent = peer.sent /\ peer'.answered = peer.answered
           \/ /\ toPeer # << >> /\ Head(toPeer) \in Queries
              /\ peer'.script \in Scripts(Head(toPeer), peer.requests + 1)
              /\ peer'.pc = "answer" /\ peer'.requests = peer.requests + 1
              /\ peer'.sent = peer.sent /\ peer'.answered = peer.answered
<1>1. peer \in PeerRecord /\ toPeer \in Seq(Queries)
  BY DEF Types, WorkerTypes, SharedTypes
<1>2. CASE toPeer # << >>
  <2>1. PICK script \in Scripts(Head(toPeer), peer.requests + 1) :
           peer' = [peer EXCEPT !.pc = "answer", !.requests = @ + 1, !.script = script]
    BY <1>2 DEF PeerReceive
  <2> QED  BY <1>1, <1>2, <2>1, TailType DEF PeerRecord
<1>3. CASE peer' = [peer EXCEPT !.pc = "done"]
  BY <1>1, <1>3 DEF PeerRecord
<1> QED  BY <1>2, <1>3 DEF PeerReceive

LEMMA AnswerFacts ==
    ASSUME Types, PeerAnswer
    PROVE  /\ peer'.requests = peer.requests
           /\ \/ /\ peer'.pc = "done" \/ (peer'.pc = "test" /\ peer.script = << >>)
                 /\ peer'.script = peer.script /\ peer'.sent = peer.sent
                 /\ peer'.answered = peer.answered
              \/ /\ peer.script # << >> /\ peer'.pc = peer.pc /\ peer'.sent = peer.sent + 1
                 /\ peer'.script = Tail(peer.script)
<1>1. peer \in PeerRecord
  BY DEF Types, WorkerTypes
<1>2. CASE peer.script = << >> /\ peer' = [peer EXCEPT !.pc = "test"]
  BY <1>1, <1>2 DEF PeerRecord
<1>3. CASE \/ peer' = [peer EXCEPT !.pc = "done"]
           \/ peer' = [peer EXCEPT !.pc = "done", !.broke = TRUE]
  BY <1>1, <1>3 DEF PeerRecord
<1>4. CASE peer.script # << >> /\ PeerSends(Head(peer.script))
  <2>1. PICK reports, answered :
           peer' = [peer EXCEPT !.script = Tail(@), !.sent = @ + 1,
                                !.reports = reports, !.answered = answered]
    BY <1>4 DEF PeerSends
  <2> QED  BY <1>1, <1>4, <2>1 DEF PeerRecord
<1> QED  BY <1>2, <1>3, <1>4 DEF PeerAnswer, PeerEnds

LEMMA DeviceInit == Init => DeviceOK
BY DEF Init, DeviceOK, Holding

LEMMA DeviceStep ==
    ASSUME Types, SessionOK, DeviceOK, [Next]_vars
    PROVE  DeviceOK'
<1>1. peer.script \in Seq(Steps) /\ peer.sent \in Nat /\ peer.requests \in Nat
  BY DEF Types, WorkerTypes, PeerRecord
<1>2. CASE Connect /\ main' = "start"
  <2>1. peer' = [peer EXCEPT !.requests = 0, !.script = <<>>, !.sent = 0, !.reports = 0,
                             !.answered = {}, !.broke = FALSE]
    BY <1>2 DEF Connect
  <2>2. peer.pc = "done"
    BY <1>2 DEF Connect, SessionOK, Ended, WorkersAreDone
  <2>3. /\ peer'.requests = 0 /\ peer'.script = << >> /\ peer'.sent = 0 /\ peer'.answered = {}
        /\ peer'.pc = "done"
    BY <2>1, <2>2 DEF Types, WorkerTypes, PeerRecord
  <2> QED  BY <2>3 DEF DeviceOK
<1>3. CASE PeerReceive
  <2>1. mode' = mode /\ main' = main /\ main # "start" /\ peer.pc = "recv"
    BY <1>3, WorkerFacts DEF PeerStep, outside, PeerReceive, SessionOK
  <2>2. CASE /\ peer'.pc = "done" /\ peer'.requests = peer.requests /\ peer'.script = peer.script
             /\ peer'.sent = peer.sent /\ peer'.answered = peer.answered
    BY <2>1, <2>2 DEF DeviceOK
  <2>3. CASE /\ toPeer # << >> /\ Head(toPeer) \in Queries
             /\ peer'.script \in Scripts(Head(toPeer), peer.requests + 1)
             /\ peer'.pc = "answer" /\ peer'.requests = peer.requests + 1
             /\ peer'.sent = peer.sent /\ peer'.answered = peer.answered
    <3>1. peer'.script \in Seq(Steps)
      <4>1. peer.requests + 1 \in Nat
        BY <1>1
      <4> QED  BY <2>3, <4>1, ScriptsType
    <3>2. Len(peer'.script) \in Nat /\ Len(peer.script) = 0
      BY <2>1, <3>1 DEF DeviceOK
    <3>3. CASE peer.requests = 0
      <4>1. /\ mode \in Holding => Len(peer'.script) > Burst
            /\ mode = "stream" => Len(peer'.script) <= 1
        BY <2>3, <3>3, ScriptLengths
      <4>2. peer'.requests = 1 /\ peer'.sent = 0
        BY <2>3, <3>3 DEF DeviceOK
      <4> QED  BY <2>1, <2>3, <3>2, <4>1, <4>2 DEF DeviceOK
    <3>4. CASE peer.requests # 0
      <4>1. peer'.requests > 1
        BY <1>1, <2>3, <3>4
      <4>2. mode \in Holding => peer.sent + Len(peer.script) > Burst
        BY <1>1, <3>4 DEF DeviceOK
      <4>3. mode \in Holding => peer'.sent + Len(peer'.script) > Burst
        BY <1>1, <2>3, <3>2, <4>2
      <4> QED  BY <2>1, <2>3, <4>1, <4>3 DEF DeviceOK
    <3> QED  BY <3>3, <3>4
  <2> QED  BY <1>3, <2>2, <2>3, ReceiveFacts
<1>4. CASE PeerAnswer
  <2>1. mode' = mode /\ main' = main /\ main # "start" /\ peer.pc = "answer"
    BY <1>4, WorkerFacts DEF PeerStep, outside, PeerAnswer, SessionOK
  <2>2. peer'.requests = peer.requests
    BY <1>4, AnswerFacts
  <2>3. CASE /\ peer'.pc = "done" \/ (peer'.pc = "test" /\ peer.script = << >>)
             /\ peer'.script = peer.script /\ peer'.sent = peer.sent
             /\ peer'.answered = peer.answered
    BY <2>1, <2>2, <2>3 DEF DeviceOK
  <2>4. CASE /\ peer.script # << >> /\ peer'.pc = peer.pc /\ peer'.sent = peer.sent + 1
             /\ peer'.script = Tail(peer.script)
    <3>1. Len(peer'.script) = Len(peer.script) - 1 /\ Len(peer.script) \in Nat
      BY <1>1, <2>4, TailType
    <3>2. peer'.sent + Len(peer'.script) = peer.sent + Len(peer.script) /\ peer'.sent > 0
      BY <1>1, <2>4, <3>1
    <3> QED  BY <2>1, <2>2, <2>4, <3>2 DEF DeviceOK
  <2> QED  BY <1>4, <2>3, <2>4, AnswerFacts
<1>5. CASE ~PeerReceive /\ ~PeerAnswer /\ ~(Connect /\ main' = "start")
  <2>1. /\ mode' = mode /\ peer'.script = peer.script /\ peer'.sent = peer.sent
        /\ peer'.requests = peer.requests
    BY <1>5, Onward
  <2>2. CASE PeerTest
    <3>1. main' = main /\ peer' = [peer EXCEPT !.pc = IF stop.stopping THEN "done" ELSE "recv"]
          /\ peer.pc = "test"
      BY <2>2 DEF PeerTest
    <3>2. peer'.answered = peer.answered
      BY <3>1 DEF Types, WorkerTypes, PeerRecord
    <3> QED  BY <2>1, <3>1, <3>2 DEF DeviceOK
  <2>3. CASE Start
    <3>1. main = "start" /\ main' # "start"
      BY <2>3 DEF Start
    <3>2. peer'.answered = peer.answered
      BY <2>3 DEF Start, Types, WorkerTypes, PeerRecord
    <3> QED  BY <2>1, <3>1, <3>2 DEF DeviceOK
  <2>4. CASE TxStep \/ RxStep \/ Aside
    <3>1. main' = main /\ peer' = peer
      BY <2>4, WorkerFacts, AsideFacts DEF workers, TxStep, TxTest, TxPop, TxSend,
         RxStep, RxTest, RxReceive, RxKeep, RxPush
    <3> QED  BY <2>1, <3>1 DEF DeviceOK
  <2>5. CASE Work
    <3>1. main' # "start" /\ peer' = peer
      BY <2>5, WorkFacts DEF workers, Running, Before
    <3> QED  BY <2>1, <3>1 DEF DeviceOK
  <2>6. CASE Connect \/ Query \/ Finish \/ Join \/ Delay \/ Return \/ ConnectInterrupted
    <3>1. main' # "start" /\ peer' = peer
      BY <1>5, <2>6 DEF Connect, Query, Finish, Join, Delay, Return, ConnectInterrupted, workers
    <3> QED  BY <2>1, <3>1 DEF DeviceOK
  <2> QED  BY <1>5, <2>2, <2>3, <2>4, <2>5, <2>6, MainCases DEF Next, Aside, PeerStep
<1> QED  BY <1>2, <1>3, <1>4, <1>5

LEMMA FramesInit == Init => FramesOK
<1> SUFFICES ASSUME Init PROVE Afoot = {}
  BY DEF FramesOK
<1>1. rx.items = << >> /\ toHost = << >> /\ peer.script = << >>
      /\ rxThread.frame = NoFrame /\ run.frame = NoFrame
  BY DEF Init
<1> QED  BY <1>1, NoElements DEF Afoot, Ahead

LEMMA SessionKept ==
    ASSUME Types, [Next]_vars, ~(Connect /\ main' = "start")
    PROVE  app'.session = app.session
<1>1. Handle => app'.session = app.session
  BY HandleFacts DEF Handle, Types
<1> QED  BY <1>1, Undisturbed

LEMMA FramesStep ==
    ASSUME Types, SessionOK, DeviceOK, FramesOK, [Next]_vars
    PROVE  FramesOK'
<1> SUFFICES ASSUME mode' # "stream", ~stop'.stopping, NEW f \in Afoot' PROVE Expected(f)'
  BY DEF FramesOK
<1>1. CASE Connect /\ main' = "start"
  BY <1>1, AfootConnect
<1>2. CASE ~(Connect /\ main' = "start")
  <2>1. mode' = mode /\ ~stop.stopping /\ app'.session = app.session
    BY <1>2, Onward, SessionKept
  <2>2. Expected(f)' <=> Expected(f)
    BY <2>1 DEF Expected, Reply, Prelude
  <2>3. CASE f \in Afoot
    BY <2>1, <2>2, <2>3 DEF FramesOK
  <2>4. CASE PeerReceive /\ f \in Ahead' /\ f \notin Afoot
    <3>1. /\ toPeer # << >> /\ Head(toPeer) \in Queries
          /\ peer'.script \in Scripts(Head(toPeer), peer.requests + 1)
          /\ peer'.sent = peer.sent
      BY <2>4, ReceiveFacts DEF Afoot, Ahead
    <3>2. peer.sent \in Nat /\ peer.requests \in Nat /\ peer.requests + 1 \in Nat \ {0}
      BY DEF Types, WorkerTypes, PeerRecord
    <3>3. peer.requests + 1 = 1 => peer.sent = 0
      BY <3>2 DEF DeviceOK
    <3>4. mode \in Holding /\ peer.requests + 1 > 1 => peer.sent > Burst
      <4>1. peer.pc = "recv"
        BY <2>4 DEF PeerReceive
      <4>2. Len(peer.script) = 0
        BY <4>1 DEF DeviceOK
      <4> QED  BY <3>2, <4>2 DEF DeviceOK
    <3>5. mode \in AllModes /\ session \in Nat \ {0}
      BY DEF Types, OutsideTypes
    <3>6. app.session = session
      <4>1. main \notin Ended
        BY <2>4, WorkerFacts DEF PeerStep, SessionOK
      <4> QED  BY <4>1 DEF SessionOK
    <3>7. f \in Numbered(peer'.script, peer.sent)
      BY <2>4, <3>1 DEF Ahead
    <3>8. Expected(f)
      BY <2>1, <3>1, <3>2, <3>3, <3>4, <3>5, <3>6, <3>7, ScriptExpected
    <3> QED  BY <2>2, <3>8
  <2> QED  BY <2>3, <2>4, AfootReceive, AfootStep
<1> QED  BY <1>1, <1>2

-------------------------------------------------------------------------------
(* Nothing stale is shown. *)

\* How many frames the main thread has done with, and when it has one in hand.
\* Once the connection is confirmed the reports of its beginning are behind it.
Handled == IF run.frame = NoFrame THEN run.handled ELSE run.handled - 1
HandOK ==
    ~stop.stopping =>
        /\ run.frame # NoFrame => main = "handle" /\ run.frame.serial = run.handled
        /\ app.state = "ONLINE" /\ mode # "stream" => Handled >= Prelude

\* A second query is sent on the first connection only.
OnceOK ==
    /\ app.session > 1 => run.followup = 0
    /\ main = "follow" /\ mode # "stream" => app.session = 1 /\ mode \in Reconnecting
    /\ main = "delay" => mode \in Reconnecting
    /\ mode \notin Reconnecting => session = 1

\* What a connection has shown after its first matched reply.
Shown ==
    \/ mode \in Plain /\ app.progress = 40
    \/ mode \in Resuming /\ app.session = 1 /\ app.progress = 40
    \/ mode = "reconnect" /\ app.session > 1 /\ app.progress = 80
ShownOK == mode # "stream" /\ run.responses # 0 => Shown

ScriptsOK ==
    /\ DeviceOK /\ FramesOK /\ HandOK /\ OnceOK /\ ShownOK
    /\ StaleSnapshotsNeverShow

LEMMA TakeFacts ==
    ASSUME Types, SerialsOK, Take, run'.frame # run.frame \/ run'.handled # run.handled
    PROVE  /\ main' = "handle" /\ rx.items # << >> /\ run'.frame = Head(rx.items)
           /\ run'.frame # NoFrame /\ run'.frame.serial = run'.handled
           /\ ~stop.stopping => run'.handled = run.handled + 1
<1>1. /\ rx.items # << >> /\ main' = "handle"
      /\ run' = [run EXCEPT !.frame = Head(rx.items), !.handled = Head(rx.items).serial]
  BY DEF Take
<1>2. run'.frame = Head(rx.items) /\ run'.handled = Head(rx.items).serial
  BY <1>1 DEF Types, MainTypes, RunRecord
<1>3. rx.items \in Seq(Sendable)
  BY FramesAreSendable DEF Types
<1>4. Head(rx.items) \in Sendable /\ 1 \in DOMAIN rx.items /\ Head(rx.items) = rx.items[1]
  BY <1>1, <1>3, TailType, TailElements
<1>5. ~stop.stopping => rx.items[1].serial = run.handled + 1
  BY <1>4 DEF SerialsOK
<1> QED  BY <1>1, <1>2, <1>4, <1>5, SentIsCarried

\* A step that takes no frame, handles none and begins no connection.
LEMMA HandKept ==
    ASSUME Types, [Next]_vars, ~Take, ~Handle, ~(Connect /\ main' = "start")
    PROVE  /\ run'.frame = run.frame /\ run'.handled = run.handled
           /\ main = "handle" => main' = "handle"
<1>1. CASE TxStep \/ RxStep \/ PeerStep \/ Aside
  BY <1>1, WorkerFacts, AsideFacts
<1>2. CASE Turn
  BY <1>2, TurnFacts DEF Turn, Loop, Scan, Judge, Settle
<1>3. CASE Hold \/ FollowUp \/ Query
  BY <1>3 DEF Hold, FollowUp, Query, Types, MainTypes, RunRecord
<1>4. CASE Process
  BY <1>4 DEF Process, Overdue, Types, MainTypes, RunRecord
<1>5. CASE Start \/ Finish \/ Join \/ Delay \/ Return \/ ConnectInterrupted \/ Connect
  BY <1>5 DEF Start, Finish, Join, Delay, Return, ConnectInterrupted, Connect
<1> QED  BY <1>1, <1>2, <1>3, <1>4, <1>5, MainCases DEF Next, Aside, Work

LEMMA HandInit == Init => HandOK
BY DEF Init, InitialApplication, HandOK

\* The frame in hand is one of those expected.
LEMMA HandExpected ==
    ASSUME FramesOK, mode # "stream", ~stop.stopping, run.frame # NoFrame
    PROVE  Expected(run.frame)
BY DEF FramesOK, Afoot

LEMMA HandStep ==
    ASSUME Types, SessionOK, SerialsOK, FramesOK, HandOK, [Next]_vars
    PROVE  HandOK'
<1> SUFFICES ASSUME ~stop'.stopping
             PROVE  /\ run'.frame # NoFrame => main' = "handle" /\ run'.frame.serial = run'.handled
                    /\ app'.state = "ONLINE" /\ mode' # "stream" => Handled' >= Prelude'
  BY DEF HandOK
<1>1. run.handled \in Nat /\ run'.handled \in Nat
  <2>1. run.handled \in Nat
    BY DEF Types, MainTypes, RunRecord
  <2>2. rx.items # << >> => Head(rx.items).serial \in Nat
    <3>1. rx.items # << >> => Head(rx.items) \in Sendable
      BY FramesAreSendable, TailType DEF Types
    <3> QED  BY <3>1 DEF Sendable
  <2>3. Take => run'.handled \in Nat
    BY <2>1, <2>2 DEF Take, Types, MainTypes, RunRecord
  <2>4. Handle => run'.handled = run.handled
    BY HandleFacts DEF Handle, Types
  <2>5. Connect /\ main' = "start" => run'.handled = 0
    BY DEF Connect
  <2> QED  BY <2>1, <2>3, <2>4, <2>5, HandKept
<1>2. CASE Connect /\ main' = "start"
  <2>1. run'.frame = NoFrame
    BY <1>2 DEF Connect
  <2>2. app'.state # "ONLINE"
    BY <1>2 DEF Connect, Types, MainTypes, AppRecord
  <2> QED  BY <2>1, <2>2
<1>3. CASE ~(Connect /\ main' = "start")
  <2>1. mode' = mode /\ ~stop.stopping /\ Prelude' = Prelude
    BY <1>3, Onward DEF Prelude
  <2>2. CASE Take
    <3>1. app' = app /\ main = "take" /\ main # "handle"
      BY <2>2 DEF Take
    <3>2. run.frame = NoFrame
      BY <2>1, <3>1 DEF HandOK
    <3>3. CASE run'.frame = run.frame /\ run'.handled = run.handled
      BY <2>1, <3>1, <3>2, <3>3 DEF HandOK, Handled
    <3>4. CASE run'.frame # run.frame \/ run'.handled # run.handled
      <4>1. /\ main' = "handle" /\ run'.frame # NoFrame /\ run'.frame.serial = run'.handled
            /\ run'.handled = run.handled + 1
        BY <2>1, <2>2, <3>4, TakeFacts
      <4>2. Handled' = Handled
        BY <1>1, <3>2, <4>1 DEF Handled
      <4> QED  BY <2>1, <3>1, <4>1, <4>2 DEF HandOK
    <3> QED  BY <3>3, <3>4
  <2>3. CASE Handle
    <3>1. HandleReport \/ HandleMatched \/ HandleUnmatched
      BY <2>1, <2>3 DEF Handle
    <3>2. main = "handle"
      BY <2>3 DEF Handle
    <3>3. /\ run'.frame = NoFrame /\ run'.handled = run.handled
          /\ \/ app'.state = app.state
             \/ app.state = "SYNCING" /\ app'.state = "ONLINE" /\ run.frame.type = "RESPONSE"
      BY <2>1, <2>3, <3>2, HandleFacts DEF Handle, Types
    <3>4. ASSUME app'.state = "ONLINE", mode # "stream" PROVE Handled' >= Prelude
      <4>1. Handled' = run.handled
        BY <3>3 DEF Handled
      <4>2. CASE app'.state = app.state
        <5>1. Handled >= Prelude
          BY <2>1, <3>4, <4>2 DEF HandOK
        <5>2. Prelude \in Nat
          BY PreludeType
        <5> QED  BY <1>1, <4>1, <5>1, <5>2 DEF Handled
      <4>3. CASE run.frame.type = "RESPONSE"
        <5>1. run.frame # NoFrame
          BY <4>3 DEF NoFrame, Frame
        <5>2. Expected(run.frame) /\ run.frame.serial = run.handled
          BY <2>1, <3>4, <5>1, HandExpected DEF HandOK
        <5> QED  BY <4>1, <4>3, <5>2 DEF Expected
      <4> QED  BY <3>3, <4>2, <4>3
    <3> QED  BY <2>1, <3>3, <3>4
  <2>4. CASE ~Take /\ ~Handle
    <3>1. /\ run'.frame = run.frame /\ run'.handled = run.handled
          /\ main = "handle" => main' = "handle"
      BY <1>3, <2>4, HandKept
    <3>2. app'.state \in {app.state, "OFFLINE"}
      BY <1>3, <2>4, Undisturbed
    <3> QED  BY <2>1, <3>1, <3>2 DEF HandOK, Handled
  <2> QED  BY <2>2, <2>3, <2>4
<1> QED  BY <1>2, <1>3

LEMMA OnceInit == Init => OnceOK
BY DEF Init, InitialApplication, OnceOK

\* Only FollowUp sends the second query, and only Judge leads to it.
LEMMA FollowUpKept ==
    ASSUME Types, SessionOK, [Next]_vars, ~FollowUp, ~(Connect /\ main' = "start")
    PROVE  /\ run'.followup = run.followup
           /\ main' = "follow" /\ main # "follow" => Judge
           /\ main' = "delay" /\ main # "delay" => Join
           /\ session' = session \/ Delay
<1>1. CASE TxStep \/ RxStep \/ PeerStep \/ Aside
  BY <1>1, WorkerFacts, AsideFacts DEF outside
<1>2. CASE Turn
  <2>1. run' = run /\ session' = session /\ main' \in Running
    BY <1>2, TurnFacts DEF outside
  <2>2. main' = "follow" => Judge
    BY <1>2 DEF Turn, Loop, Scan, Settle
  <2> QED  BY <2>1, <2>2 DEF Running, Between, Ended
<1>3. CASE Hold \/ Take \/ Query
  BY <1>3 DEF Hold, Take, Query, Types, MainTypes, RunRecord, outside
<1>4. CASE Handle
  BY <1>4, HandleFacts DEF Handle, Types, outside
<1>5. CASE Process
  BY <1>5 DEF Process, Overdue, Types, MainTypes, RunRecord, outside
<1>6. CASE Start \/ Finish \/ Join \/ Delay \/ Return \/ ConnectInterrupted \/ Connect
  BY <1>6 DEF Start, Finish, Join, Delay, Return, ConnectInterrupted, Connect, outside
<1> QED  BY <1>1, <1>2, <1>3, <1>4, <1>5, <1>6, MainCases DEF Next, Aside, Work

LEMMA OnceStep ==
    ASSUME Types, SessionOK, OnceOK, [Next]_vars
    PROVE  OnceOK'
<1>1. CASE Connect /\ main' = "start"
  BY <1>1 DEF Connect, OnceOK
<1>2. CASE FollowUp
  <2>1. /\ main = "follow" /\ main' \in {"settle", "loop", "finish"} /\ app' = app
        /\ mode' = mode /\ session' = session
    BY <1>2 DEF FollowUp, outside
  <2>2. app.session = session
    BY <2>1 DEF SessionOK, Ended
  <2>3. app.session <= 1
    BY <2>1, <2>2 DEF OnceOK, Reconnecting
  <2>4. ~(app.session > 1)
    BY <2>3 DEF Types, MainTypes, AppRecord
  <2> QED  BY <2>1, <2>4 DEF OnceOK
<1>3. CASE ~FollowUp /\ ~(Connect /\ main' = "start")
  <2>1. /\ run'.followup = run.followup /\ app'.session = app.session /\ mode' = mode
        /\ main' = "follow" /\ main # "follow" => Judge
        /\ main' = "delay" /\ main # "delay" => Join
        /\ session' = session \/ Delay
    BY <1>3, FollowUpKept, SessionKept, Onward
  <2>2. ASSUME Judge, main' = "follow", mode # "stream"
        PROVE  app.session = 1 /\ mode \in Reconnecting
    <3>1. session = 1 /\ mode \in Reconnecting /\ main = "judge"
      BY <2>2 DEF Judge, Follows
    <3> QED  BY <3>1 DEF SessionOK, Ended
  <2>3. Join /\ main' = "delay" => mode \in Reconnecting
    BY DEF Join
  <2>4. Delay => mode \in Reconnecting
    BY DEF Delay, OnceOK
  <2> QED  BY <2>1, <2>2, <2>3, <2>4 DEF OnceOK
<1> QED  BY <1>1, <1>2, <1>3

\* A reply that ends a request in flight is not the one sent for no request.
LEMMA MatchedFacts ==
    ASSUME Types, SessionOK, RequestsOK, OnceOK, FramesOK, HandOK, main = "handle",
           ~stop.stopping, mode # "stream", HandleMatched
    PROVE  /\ app'.progress = run.frame.progress /\ app'.session = app.session
           /\ \/ mode \in Plain /\ run.frame.progress = 40
              \/ mode \in Resuming /\ app.session = 1 /\ run.frame.progress = 40
              \/ mode = "reconnect" /\ app.session > 1 /\ run.frame.progress = 80
<1>1. /\ run.frame.type = "RESPONSE" /\ Matches(run.frame) # {}
      /\ app' = [Applied(run.frame.progress) EXCEPT
                   !.state = IF @ = "SYNCING" /\ run.frame.sequence = run.sync THEN "ONLINE" ELSE @]
  BY DEF HandleMatched
<1>2. app \in AppRecord /\ run.frame \in Carried
  BY DEF Types, MainTypes, RunRecord
<1>3. run.frame.progress \in 0 .. 100
  BY <1>2 DEF Carried, Sendable, NoFrame, Frame
<1>4. app'.progress = run.frame.progress /\ app'.session = app.session
  <2> DEFINE applied == Applied(run.frame.progress)
             onward == IF applied.state = "SYNCING" /\ run.frame.sequence = run.sync
                       THEN "ONLINE" ELSE applied.state
  <2>1. /\ applied \in AppRecord /\ applied.session = app.session
        /\ applied.progress = run.frame.progress
    BY <1>2, <1>3, AppliedType
  <2>2. app' = [applied EXCEPT !.state = onward]
    BY <1>1
  <2> HIDE DEF applied, onward
  <2> QED  BY <2>1, <2>2 DEF AppRecord
<1>5. run.frame # NoFrame
  BY <1>1 DEF NoFrame, Frame
<1>6. Reply(run.frame)
  BY <1>1, <1>5, HandExpected DEF Expected
<1>7. ASSUME app.session > 1, run.frame.sequence = 2 PROVE FALSE
  <2>1. run.followup = 0
    BY <1>7 DEF OnceOK
  <2>2. PICK p \in pending.active : p.sequence = 2
    BY <1>1, <1>7 DEF Matches
  <2>3. app.state = "SYNCING"
    BY <1>2, <2>1, <2>2 DEF RequestsOK, SessionOK, Between, Ended, AppRecord
  <2>4. run.sync = 2
    BY <2>2, <2>3 DEF RequestsOK
  <2> QED  BY <2>4 DEF Types, MainTypes, RunRecord
<1> QED  BY <1>4, <1>6, <1>7 DEF Reply

\* A report shows nothing: those that come are ignored, for they come first.
LEMMA ReportIgnored ==
    ASSUME Types, FramesOK, HandOK, ~stop.stopping, mode # "stream", HandleReport
    PROVE  app' = app
<1>1. run.frame.type = "REPORT" /\ app' = AfterReport
  BY DEF HandleReport
<1>2. run.frame # NoFrame
  BY <1>1 DEF NoFrame, Frame
<1>3. run.frame.serial = run.handled /\ run.handled <= Prelude
  BY <1>1, <1>2, HandExpected DEF HandOK, Expected
<1>4. run.handled \in Nat /\ Prelude \in Nat
  BY PreludeType DEF Types, MainTypes, RunRecord
<1>5. app.state # "ONLINE"
  BY <1>2, <1>3, <1>4 DEF HandOK, Handled
<1> QED  BY <1>1, <1>5 DEF AfterReport

LEMMA ShownInit == Init => ShownOK /\ StaleSnapshotsNeverShow
BY DEF Init, InitialApplication, ShownOK, StaleSnapshotsNeverShow

LEMMA ShownStep ==
    ASSUME Types, SessionOK, RequestsOK, FramesOK, HandOK, OnceOK, ShownOK,
           StaleSnapshotsNeverShow, [Next]_vars
    PROVE  ShownOK' /\ StaleSnapshotsNeverShow'
<1>1. session \in Nat /\ (session' = session \/ session' = session + 1)
  <2>1. session \in Nat
    BY DEF Types, OutsideTypes
  <2>2. FollowUp \/ (Connect /\ main' = "start") => session' = session
    BY DEF FollowUp, Connect, outside
  <2>3. Delay => session' = session \/ session' = session + 1
    BY DEF Delay
  <2> QED  BY <2>1, <2>2, <2>3, FollowUpKept
<1>2. CASE Connect /\ main' = "start"
  <2>1. run'.responses = 0 /\ mode' = mode /\ session' = session
    BY <1>2 DEF Connect
  <2>2. app'.progress = app.progress
    BY <1>2 DEF Connect, Types, MainTypes, AppRecord
  <2> QED  BY <2>1, <2>2 DEF ShownOK, StaleSnapshotsNeverShow
<1>3. CASE Handle
  <2>1. mode' = mode /\ session' = session /\ main = "handle"
    BY <1>3 DEF Handle, outside
  <2>2. app.session = session
    BY <2>1 DEF SessionOK, Ended
  <2>3. CASE UNCHANGED <<app, run>>
    BY <2>1, <2>3 DEF ShownOK, Shown, StaleSnapshotsNeverShow
  <2>4. CASE ~stop.stopping /\ HandleReport
    <3>1. run'.responses = run.responses
      BY <2>4 DEF HandleReport, Types, MainTypes, RunRecord
    <3>2. mode # "stream" => app' = app
      BY <2>4, ReportIgnored
    <3> QED  BY <2>1, <3>1, <3>2 DEF ShownOK, Shown, StaleSnapshotsNeverShow, Reconnecting
  <2>5. CASE ~stop.stopping /\ HandleMatched
    <3>1. mode # "stream" => Shown'
      BY <2>1, <2>5, MatchedFacts DEF Shown
    <3>2. app'.session = app.session
      BY <2>1, <2>5, HandleFacts DEF Types
    <3> QED  BY <2>1, <2>2, <3>1, <3>2
             DEF ShownOK, Shown, StaleSnapshotsNeverShow, Reconnecting, Plain, Resuming, Holding
  <2>6. CASE HandleUnmatched
    <3>1. app' = app /\ run'.responses = run.responses
      BY <2>6 DEF HandleUnmatched, Types, MainTypes, RunRecord
    <3> QED  BY <2>1, <3>1 DEF ShownOK, Shown, StaleSnapshotsNeverShow
  <2> QED  BY <1>3, <2>3, <2>4, <2>5, <2>6 DEF Handle
<1>4. CASE ~Handle /\ ~(Connect /\ main' = "start")
  <2>1. /\ app'.session = app.session /\ app'.progress = app.progress
        /\ run'.responses = run.responses /\ mode' = mode
    BY <1>4, Undisturbed, Onward
  <2> QED  BY <1>1, <2>1 DEF ShownOK, Shown, StaleSnapshotsNeverShow
<1> QED  BY <1>2, <1>3, <1>4

LEMMA ScriptsInit == Init => ScriptsOK
BY DeviceInit, FramesInit, HandInit, OnceInit, ShownInit DEF ScriptsOK

LEMMA ScriptsStep == IInv /\ ScriptsOK /\ [Next]_vars => ScriptsOK'
BY DeviceStep, FramesStep, HandStep, OnceStep, ShownStep DEF IInv, ScriptsOK

LEMMA ScriptsSafe == Spec => []ScriptsOK
BY InvariantSafe, ScriptsInit, ScriptsStep, PTL DEF Spec

\* Across reconnections the program never shows a snapshot that was not confirmed,
\* however the frames of the device and the second query overtake each other.
THEOREM StaleSafe == Spec => []StaleSnapshotsNeverShow
<1>1. ScriptsOK => StaleSnapshotsNeverShow
  BY DEF ScriptsOK
<1> QED  BY <1>1, ScriptsSafe, PTL

-------------------------------------------------------------------------------
(* Success is earned. *)

\* Until the main thread itself ends the connection, a stop is a failure; the
\* queues are open as long as nobody has stopped.
StopOK ==
    /\ stop.kind # "NONE" => stop.failed
    /\ stop.failed => stop.stopping
    /\ main \notin Between /\ stop.stopping => stop.failed
    /\ main \notin Ended => (rx.open <=> ~stop.stopping) /\ (tx.open <=> ~stop.stopping)
    /\ main = "start" => ~stop.stopping
    /\ main = "join" => stop.stopping

LEMMA StopInit == Init => StopOK
BY DEF Init, StopOK, Ended, Between

\* A stop for a reason, and the last one, which has none.
LEMMA FailingStop ==
    ASSUME Types, StopOK, main \notin Ended, StopRuntime(TRUE) \/ TransportFailed
    PROVE  /\ stop'.kind # "NONE" => stop'.failed
           /\ stop'.stopping
           /\ main \notin Between => stop'.failed
           /\ (rx'.open <=> ~stop'.stopping) /\ (tx'.open <=> ~stop'.stopping)
<1>1. PICK kind : Stop(TRUE, kind)
  BY DEF StopRuntime, TransportFailed
<1>2. CASE stop.stopping /\ UNCHANGED shared
  BY <1>2 DEF StopOK, shared
<1>3. CASE /\ stop' = [stopping |-> TRUE, failed |-> TRUE, kind |-> kind]
           /\ tx' = [tx EXCEPT !.open = FALSE] /\ rx' = [rx EXCEPT !.open = FALSE]
  BY <1>3 DEF Types, SharedTypes, TxQueue, RxQueue
<1> QED  BY <1>1, <1>2, <1>3 DEF Stop

LEMMA LastStop ==
    ASSUME Types, StopOK, main \notin Ended, StopRuntime(FALSE)
    PROVE  /\ stop'.kind # "NONE" => stop'.failed
           /\ stop'.failed => stop'.stopping
           /\ stop'.stopping /\ stop'.failed = stop.failed
           /\ (rx'.open <=> ~stop'.stopping) /\ (tx'.open <=> ~stop'.stopping)
<1>1. CASE stop.stopping /\ UNCHANGED shared
  BY <1>1 DEF StopOK, shared
<1>2. CASE /\ ~stop.stopping /\ stop' = [stopping |-> TRUE, failed |-> FALSE, kind |-> "NONE"]
           /\ tx' = [tx EXCEPT !.open = FALSE] /\ rx' = [rx EXCEPT !.open = FALSE]
  BY <1>2 DEF StopOK, Types, SharedTypes, TxQueue, RxQueue, StopRecord
<1> QED  BY <1>1, <1>2 DEF StopRuntime, Stop

\* Who stops the connection.
OpenKept == stop' = stop /\ rx'.open = rx.open /\ tx'.open = tx.open

LEMMA StopCases ==
    ASSUME Types, SessionOK, [Next]_vars, ~(Connect /\ main' = "start")
    PROVE  \/ OpenKept
           \/ main \notin Between /\ StopRuntime(TRUE)
           \/ main \notin Ended \cup {"start"} /\ main' = main /\ TransportFailed
           \/ Finish
<1>1. CASE TxStep \/ RxStep \/ PeerStep
  <2>1. main' = main /\ main \notin Ended \cup {"start"}
    BY <1>1, WorkerFacts DEF SessionOK
  <2>2. OpenKept \/ TransportFailed
    BY <1>1 DEF TxStep, TxTest, TxPop, TxSend, RxStep, RxTest, RxReceive, RxKeep, RxPush,
       PeerStep, PeerTest, PeerReceive, PeerAnswer, PeerSends, PeerEnds, OpenKept, shared,
       Types, SharedTypes, TxQueue, RxQueue
  <2> QED  BY <2>1, <2>2
<1>2. CASE Aside
  BY <1>2, AsideFacts DEF OpenKept, shared
<1>3. CASE Turn
  BY <1>3, TurnFacts DEF OpenKept, shared, Running
<1>4. CASE Hold \/ Take \/ Handle \/ Query
  BY <1>4 DEF Hold, Take, Handle, Query, RequestAccepted, OpenKept, shared,
     Types, SharedTypes, TxQueue, RxQueue
<1>5. CASE Process
  <2>1. main \notin Between
    BY <1>5 DEF Process, Between, Ended
  <2>2. OpenKept \/ StopRuntime(TRUE)
    BY <1>5 DEF Process, Overdue, OpenKept, shared, Types, SharedTypes, TxQueue
  <2> QED  BY <2>1, <2>2
<1>6. CASE FollowUp
  <2>1. main \notin Between
    BY <1>6 DEF FollowUp, Between, Ended
  <2>2. OpenKept \/ StopRuntime(TRUE)
    BY <1>6 DEF FollowUp, RequestAccepted, OpenKept, shared, Types, SharedTypes, TxQueue
  <2> QED  BY <2>1, <2>2
<1>7. CASE Start
  BY <1>7 DEF Start, OpenKept, shared, Between, Ended
<1>8. CASE Connect \/ Join \/ Delay \/ Return \/ ConnectInterrupted
  BY <1>8 DEF Connect, Join, Delay, Return, ConnectInterrupted, OpenKept, shared
<1> QED  BY <1>1, <1>2, <1>3, <1>4, <1>5, <1>6, <1>7, <1>8, MainCases DEF Next, Aside, Work

\* Where the main thread can go.
LEMMA MainMoves ==
    ASSUME Types, SessionOK, [Next]_vars, ~(Connect /\ main' = "start")
    PROVE  /\ main' = "start" => main = "start"
           /\ main \in Between => main' \in Between
           /\ main \in Ended => main' \in Ended
           /\ main \notin Ended => main' \notin Ended \/ main = "join"
           /\ main \notin Between /\ main' \in Between => Finish
<1>1. CASE TxStep \/ RxStep \/ PeerStep \/ Aside
  BY <1>1, WorkerFacts, AsideFacts
<1>2. CASE Work
  BY <1>2, WorkFacts DEF Running, Between, Ended, Before
<1>3. CASE Start \/ Query \/ Finish \/ Join \/ Delay \/ Return \/ ConnectInterrupted \/ Connect
  BY <1>3 DEF Start, Query, Finish, Join, Delay, Return, ConnectInterrupted, Connect, Between, Ended
<1> QED  BY <1>1, <1>2, <1>3, MainCases DEF Next, Aside

\* Nobody stops a connection before its threads run.
LEMMA StartStays ==
    ASSUME Types, SessionOK, [Next]_vars, ~(Connect /\ main' = "start"), main' = "start"
    PROVE  UNCHANGED shared
<1>1. ~Start
  BY DEF Start
<1>2. main = "start"
  BY MainMoves
<1>3. ~TxStep /\ ~RxStep /\ ~PeerStep
  BY <1>2, WorkerFacts DEF SessionOK
<1>4. ~Work
  BY <1>2, WorkFacts DEF Running, Before
<1>5. Aside => UNCHANGED shared
  BY AsideFacts
<1> QED  BY <1>1, <1>2, <1>3, <1>4, <1>5, MainCases
         DEF Next, Aside, Connect, Query, Finish, Join, Delay, Return, ConnectInterrupted

LEMMA StopStep ==
    ASSUME Types, SessionOK, StopOK, [Next]_vars
    PROVE  StopOK'
<1>1. CASE Connect /\ main' = "start"
  <2>1. /\ stop' = [stopping |-> FALSE, failed |-> FALSE, kind |-> "NONE"]
        /\ tx' = [open |-> TRUE, items |-> <<>>] /\ rx' = [open |-> TRUE, items |-> ReceivedAtStart]
    BY <1>1 DEF Connect
  <2> QED  BY <1>1, <2>1 DEF StopOK
<1>2. CASE ~(Connect /\ main' = "start")
  <2>1. /\ main' = "start" => main = "start"
        /\ main \in Between => main' \in Between
        /\ main \in Ended => main' \in Ended
        /\ main \notin Ended => main' \notin Ended \/ main = "join"
        /\ main \notin Between /\ main' \in Between => Finish
    BY <1>2, MainMoves
  <2>2. CASE OpenKept /\ ~Finish
    BY <2>1, <2>2 DEF StopOK, OpenKept, Between, Ended
  <2>3. CASE Finish
    <3>1. main = "finish" /\ main' = "join" /\ StopRuntime(FALSE)
      BY <2>3 DEF Finish
    <3>2. main \notin Ended
      BY <3>1 DEF Ended
    <3> QED  BY <3>1, <3>2, LastStop DEF StopOK, Between, Ended
  <2>4. CASE main \notin Between /\ StopRuntime(TRUE) /\ ~Finish
    <3>1. main \notin Ended /\ main' \notin Between
      BY <2>1, <2>4 DEF Between
    <3>2. stop'.stopping /\ (main = "start" => ~stop.stopping)
      BY <2>4, StopRuntimeFacts DEF StopOK, Types
    <3>3. main' = "start" => UNCHANGED shared
      BY <2>1, <3>1, <1>2, StartStays
    <3>4. main' # "start"
      BY <2>1, <3>2, <3>3 DEF shared
    <3>5. main' # "join"
      BY <3>1 DEF Between
    <3> QED  BY <2>4, <3>1, <3>4, <3>5, FailingStop DEF StopOK
  <2>5. CASE main \notin Ended \cup {"start"} /\ main' = main /\ TransportFailed
    BY <2>5, FailingStop DEF StopOK
  <2> QED  BY <1>2, <2>2, <2>3, <2>4, <2>5, StopCases
<1> QED  BY <1>1, <1>2

\* Consumption is held back until the receiver has waited in vain, and a connection
\* that is stopped while it is held back never takes a frame.
HoldOK ==
    main \notin Ended =>
        /\ mode = "stop-full" => run.hold /\ main \notin {"take", "handle"} /\ run.responses = 0
        /\ mode = "rx-full" => run.hold \/ rxThread.timedOut
        /\ main \in {"take", "handle"} \/ run.responses # 0 => ~run.hold
        /\ main = "settle" => mode = "stream"

LEMMA HoldInit == Init => HoldOK
BY DEF Init, HoldOK, Ended

LEMMA TimedOutKept ==
    ASSUME Types, [Next]_vars, ~(Connect /\ main' = "start"), rxThread.timedOut
    PROVE  rxThread'.timedOut
<1>1. rxThread \in RxRecord
  BY DEF Types, WorkerTypes
<1>2. CASE RxStep
  BY <1>1, <1>2 DEF RxStep, RxTest, RxReceive, RxKeep, RxPush, RxRecord
<1>3. CASE Start
  BY <1>1, <1>3 DEF Start, RxRecord
<1>4. CASE TxStep \/ PeerStep
  BY <1>4 DEF TxStep, TxTest, TxPop, TxSend, PeerStep, PeerTest, PeerReceive, PeerAnswer
<1>5. CASE Aside \/ Work
  BY <1>5, AsideFacts, WorkFacts DEF workers
<1>6. CASE Connect \/ Query \/ Finish \/ Join \/ Delay \/ Return \/ ConnectInterrupted
  BY <1>6 DEF Connect, Query, Finish, Join, Delay, Return, ConnectInterrupted, workers
<1> QED  BY <1>2, <1>3, <1>4, <1>5, <1>6, MainCases DEF Next, Aside

\* What the other steps leave of the decision to hold back, and where they lead.
LEMMA HoldKept ==
    ASSUME Types, [Next]_vars, ~Hold, ~Handle, ~(Connect /\ main' = "start")
    PROVE  /\ run'.hold = run.hold
           /\ main' = "take" => main = "take" \/ Loop
           /\ main' = "handle" => main = "handle" \/ Take
           /\ main' = "settle" => main = "settle" \/ FollowUp
<1>1. CASE TxStep \/ RxStep \/ PeerStep \/ Aside
  BY <1>1, WorkerFacts, AsideFacts
<1>2. CASE Turn
  <2>1. run' = run
    BY <1>2, TurnFacts
  <2> QED  BY <1>2, <2>1 DEF Turn, Loop, Scan, Judge, Settle
<1>3. CASE Take \/ Query \/ FollowUp
  BY <1>3 DEF Take, Query, FollowUp, Types, MainTypes, RunRecord
<1>4. CASE Process
  BY <1>4 DEF Process, Overdue, Types, MainTypes, RunRecord
<1>5. CASE Start \/ Finish \/ Join \/ Delay \/ Return \/ ConnectInterrupted \/ Connect
  BY <1>5 DEF Start, Finish, Join, Delay, Return, ConnectInterrupted, Connect
<1> QED  BY <1>1, <1>2, <1>3, <1>4, <1>5, MainCases DEF Next, Aside, Work

LEMMA HoldStep ==
    ASSUME Types, SessionOK, HoldOK, [Next]_vars
    PROVE  HoldOK'
<1> SUFFICES ASSUME main' \notin Ended
             PROVE  /\ mode' = "stop-full" =>
                          run'.hold /\ main' \notin {"take", "handle"} /\ run'.responses = 0
                    /\ mode' = "rx-full" => run'.hold \/ rxThread'.timedOut
                    /\ main' \in {"take", "handle"} \/ run'.responses # 0 => ~run'.hold
                    /\ main' = "settle" => mode' = "stream"
  BY DEF HoldOK
<1>1. CASE Connect /\ main' = "start"
  <2>1. run'.responses = 0 /\ run'.hold = (mode \in Holding) /\ mode' = mode
    BY <1>1 DEF Connect
  <2> QED  BY <1>1, <2>1 DEF Holding
<1>2. CASE ~(Connect /\ main' = "start")
  <2>1. main \notin Ended /\ mode' = mode /\ (rxThread.timedOut => rxThread'.timedOut)
    BY <1>2, MainMoves, Onward, TimedOutKept
  <2>2. CASE Hold
    <3>1. main = "hold" /\ main' \in {"scan", "finish", "take"} /\ run'.responses = run.responses
      BY <2>2 DEF Hold, Types, MainTypes, RunRecord
    <3>2. CASE run' = run /\ main' # "take"
      BY <2>1, <3>1, <3>2 DEF HoldOK
    <3>3. CASE rxThread.timedOut /\ mode = "rx-full" /\ run' = [run EXCEPT !.hold = FALSE]
      <4>1. ~run'.hold
        BY <3>3 DEF Types, MainTypes, RunRecord
      <4> QED  BY <2>1, <3>1, <3>3, <4>1
    <3> QED  BY <2>2, <3>2, <3>3 DEF Hold
  <2>3. CASE Handle
    <3>1. main = "handle" /\ main' \in {"scan", "finish"}
      BY <2>3 DEF Handle
    <3>2. run'.hold = run.hold
      BY <2>3 DEF Handle, HandleReport, HandleMatched, HandleUnmatched, Types, MainTypes, RunRecord
    <3> QED  BY <2>1, <3>1, <3>2 DEF HoldOK
  <2>4. CASE ~Hold /\ ~Handle
    <3>1. /\ run'.hold = run.hold /\ run'.responses = run.responses
          /\ main' = "take" => main = "take" \/ Loop
          /\ main' = "handle" => main = "handle" \/ Take
          /\ main' = "settle" => main = "settle" \/ FollowUp
      BY <1>2, <2>4, HoldKept, Undisturbed
    <3>2. Loop /\ main' = "take" => ~run.hold
      BY DEF Loop
    <3>3. Take => main = "take"
      BY DEF Take
    <3>4. FollowUp /\ main' = "settle" => mode = "stream"
      BY DEF FollowUp
    <3> QED  BY <2>1, <3>1, <3>2, <3>3, <3>4 DEF HoldOK
  <2> QED  BY <2>2, <2>3, <2>4
<1> QED  BY <1>1, <1>2

\* The answers and the time-outs of a connection: one answer confirms it, and the
\* second query ends with an answer or a time-out.
CountsOK ==
    /\ main \in Before => run.timeouts = 0 /\ run.responses = 0
    /\ app.state = "SYNCING" => run.responses = 0 /\ (pending.active # {} => run.timeouts = 0)
    /\ app.state = "ONLINE" /\ run.followup = 0 => run.responses = 1 /\ run.timeouts = 0
    /\ app.state = "ONLINE" /\ run.followup # 0 =>
          /\ run.responses >= 1
          /\ run.responses + run.timeouts = IF pending.active = {} THEN 2 ELSE 1

LEMMA CountsInit == Init => CountsOK
BY DEF Init, InitialApplication, CountsOK, Before

\* A request in flight that is matched or given up was the only one.
LEMMA MatchedCounts ==
    ASSUME Types, RequestsOK, main = "handle", HandleMatched
    PROVE  /\ run'.responses = run.responses + 1 /\ run'.timeouts = run.timeouts
           /\ run'.reports = run.reports
           /\ run'.followup = run.followup /\ pending.active # {} /\ pending'.active = {}
           /\ app'.state = IF app.state = "SYNCING" THEN "ONLINE" ELSE app.state
<1>1. /\ run' = [run EXCEPT !.responses = @ + 1, !.frame = NoFrame]
      /\ Matches(run.frame) # {}
      /\ pending' = [pending EXCEPT !.active = @ \ Matches(run.frame)]
      /\ app' = [Applied(run.frame.progress) EXCEPT
                   !.state = IF @ = "SYNCING" /\ run.frame.sequence = run.sync
                             THEN "ONLINE" ELSE @]
  BY DEF HandleMatched
<1>2. /\ app \in AppRecord /\ run \in RunRecord /\ pending \in PendingRecord
      /\ run.frame \in Carried
  BY DEF Types, MainTypes, RunRecord
<1>3. run.frame.progress \in 0 .. 100
  BY <1>2 DEF Carried, Sendable, NoFrame, Frame
<1>4. PICK p \in pending.active : p.sequence = run.frame.sequence
  BY <1>1 DEF Matches
<1>5. pending.active = {p}
  BY <1>4 DEF RequestsOK
<1>6. pending'.active = {}
  BY <1>1, <1>2, <1>4, <1>5 DEF Matches, PendingRecord
<1>7. app.state = "SYNCING" => run.frame.sequence = run.sync
  BY <1>4 DEF RequestsOK
<1>8. app'.state = IF app.state = "SYNCING" THEN "ONLINE" ELSE app.state
  <2> DEFINE applied == Applied(run.frame.progress)
             onward == IF app.state = "SYNCING" THEN "ONLINE" ELSE app.state
  <2>1. applied \in AppRecord /\ applied.state = app.state
    BY <1>2, <1>3, AppliedType
  <2>2. app' = [applied EXCEPT !.state = onward]
    BY <1>1, <1>7, <2>1
  <2> HIDE DEF applied
  <2> QED  BY <2>1, <2>2 DEF AppRecord
<1> QED  BY <1>1, <1>2, <1>5, <1>6, <1>8 DEF RunRecord

LEMMA OverdueCounts ==
    ASSUME Types, RequestsOK, NEW p \in pending.active, Overdue(p)
    PROVE  /\ run'.responses = run.responses /\ run'.followup = run.followup
           /\ pending.active # {} /\ main' \in {"judge", "finish"}
           /\ \/ run'.timeouts = run.timeouts + 1 /\ pending'.active = {}
              \/ run'.timeouts = run.timeouts /\ pending'.active # {}
<1>1. run \in RunRecord /\ pending \in PendingRecord
  BY DEF Types, MainTypes
<1>2. pending.active = {p}
  BY DEF RequestsOK
<1>3. CASE /\ pending' = [pending EXCEPT !.active = @ \ {p}]
           /\ run' = [run EXCEPT !.timeouts = @ + 1] /\ main' = "judge"
  <2>1. pending'.active = {}
    BY <1>1, <1>2, <1>3 DEF PendingRecord
  <2> QED  BY <1>1, <1>3, <2>1 DEF RunRecord
<1>4. CASE /\ pending' = [pending EXCEPT !.active = (@ \ {p}) \cup {[p EXCEPT !.retries = @ + 1]}]
           /\ run' = [run EXCEPT !.retries = @ + 1] /\ main' = "judge"
  <2>1. pending'.active # {}
    BY <1>1, <1>4 DEF PendingRecord
  <2> QED  BY <1>1, <1>4, <2>1 DEF RunRecord
<1>5. CASE main' \in {"judge", "finish"} /\ UNCHANGED <<run, pending>>
  BY <1>5
<1> QED  BY <1>3, <1>4, <1>5 DEF Overdue

LEMMA CountsStep ==
    ASSUME Types, SessionOK, RequestsOK, CountsOK, [Next]_vars
    PROVE  CountsOK'
<1> USE DEF Between, Ended, Before
<1>1. run.responses \in Nat /\ run.timeouts \in Nat
  BY DEF Types, MainTypes, RunRecord
<1>2. CASE TxStep \/ RxStep \/ PeerStep \/ Aside
  <2>1. UNCHANGED <<app, main, run, pending>>
    BY <1>2, WorkerFacts, AsideFacts
  <2> QED  BY <2>1 DEF CountsOK
<1>3. CASE Turn
  <2>1. UNCHANGED <<app, run, pending>> /\ main' \notin Before
    BY <1>3, TurnFacts DEF Running
  <2> QED  BY <2>1 DEF CountsOK
<1>4. CASE Hold \/ Take
  <2>1. UNCHANGED <<app, pending>> /\ main' \notin Before
    BY <1>4 DEF Hold, Take
  <2>2. /\ run'.responses = run.responses /\ run'.timeouts = run.timeouts
        /\ run'.followup = run.followup
    BY <1>4 DEF Hold, Take, Types, MainTypes, RunRecord
  <2> QED  BY <2>1, <2>2 DEF CountsOK
<1>5. CASE Handle
  <2>1. main = "handle" /\ main' \notin Before
    BY <1>5 DEF Handle
  <2>2. CASE UNCHANGED <<app, run, pending>>
    BY <2>1, <2>2 DEF CountsOK
  <2>3. CASE HandleReport \/ HandleUnmatched
    <3>1. /\ run'.responses = run.responses /\ run'.timeouts = run.timeouts
          /\ run'.followup = run.followup /\ pending' = pending
      BY <2>3 DEF HandleReport, HandleUnmatched, Types, MainTypes, RunRecord
    <3>2. app'.state = app.state
      BY <2>3 DEF HandleReport, HandleUnmatched, AfterReport, Applied, Types, MainTypes, AppRecord
    <3> QED  BY <2>1, <3>1, <3>2 DEF CountsOK
  <2>4. CASE HandleMatched
    <3>1. /\ run'.responses = run.responses + 1 /\ run'.timeouts = run.timeouts
          /\ run'.followup = run.followup /\ pending.active # {} /\ pending'.active = {}
          /\ app'.state = IF app.state = "SYNCING" THEN "ONLINE" ELSE app.state
      BY <2>1, <2>4, MatchedCounts
    <3>2. CASE app.state = "SYNCING"
      <4>1. run'.responses = 1 /\ run'.timeouts = 0 /\ run'.followup = 0
        BY <1>1, <3>1, <3>2 DEF CountsOK, RequestsOK
      <4> QED  BY <2>1, <3>1, <3>2, <4>1 DEF CountsOK
    <3>3. CASE app.state = "ONLINE"
      <4>1. run.followup # 0
        BY <3>1, <3>3 DEF RequestsOK
      <4>2. run.responses >= 1 /\ run.responses + run.timeouts = 1
        BY <3>1, <3>3, <4>1 DEF CountsOK
      <4>3. run'.responses >= 1 /\ run'.responses + run'.timeouts = 2
        BY <1>1, <3>1, <4>2
      <4> QED  BY <2>1, <3>1, <3>3, <4>1, <4>3 DEF CountsOK
    <3>4. app.state \in {"SYNCING", "ONLINE"}
      BY <2>1 DEF SessionOK, Types, MainTypes, AppRecord
    <3> QED  BY <3>2, <3>3, <3>4
  <2> QED  BY <1>5, <2>2, <2>3, <2>4 DEF Handle
<1>6. CASE Process
  <2>1. main = "process" /\ app' = app
    BY <1>6 DEF Process
  <2>2. CASE main' = "judge" /\ UNCHANGED <<run, pending>>
    BY <2>1, <2>2 DEF CountsOK
  <2>3. CASE \E p \in pending.active : Overdue(p)
    <3>1. /\ run'.responses = run.responses /\ run'.followup = run.followup
          /\ pending.active # {} /\ main' \in {"judge", "finish"}
          /\ \/ run'.timeouts = run.timeouts + 1 /\ pending'.active = {}
             \/ run'.timeouts = run.timeouts /\ pending'.active # {}
      BY <2>3, OverdueCounts
    <3>2. app.state = "ONLINE" => run.followup # 0
      BY <3>1 DEF RequestsOK
    <3>3. app.state = "ONLINE" => run.responses >= 1 /\ run.responses + run.timeouts = 1
      BY <3>1, <3>2 DEF CountsOK
    <3>4. app.state = "ONLINE" => run'.responses + run'.timeouts = IF pending'.active = {} THEN 2 ELSE 1
      BY <1>1, <3>1, <3>3
    <3>5. app.state = "SYNCING" => run'.responses = 0 /\ (pending'.active # {} => run'.timeouts = 0)
      BY <3>1 DEF CountsOK
    <3> QED  BY <2>1, <3>1, <3>2, <3>3, <3>4, <3>5 DEF CountsOK
  <2> QED  BY <1>6, <2>2, <2>3 DEF Process
<1>7. CASE FollowUp
  <2>1. main = "follow" /\ main' \notin Before /\ app' = app
    BY <1>7 DEF FollowUp
  <2>2. CASE UNCHANGED <<run, pending>>
    BY <2>1, <2>2 DEF CountsOK
  <2>3. CASE /\ app.state = "ONLINE" /\ run.followup = 0 /\ RequestAccepted
             /\ run' = [run EXCEPT !.followup = pending.next]
    <3>1. pending'.active # {}
      BY <2>3 DEF RequestAccepted
    <3>2. run'.responses = run.responses /\ run'.timeouts = run.timeouts
      BY <2>3 DEF Types, MainTypes, RunRecord
    <3>3. run'.followup # 0
      BY <2>3 DEF Types, MainTypes, RunRecord, PendingRecord
    <3>4. run.responses = 1 /\ run.timeouts = 0
      BY <2>3 DEF CountsOK
    <3> QED  BY <2>1, <2>3, <3>1, <3>2, <3>3, <3>4 DEF CountsOK
  <2> QED  BY <1>7, <2>2, <2>3 DEF FollowUp
<1>8. CASE Query
  <2>1. main = "query" /\ main' \notin Before /\ app' = app
    BY <1>8 DEF Query
  <2>2. run'.responses = run.responses /\ run'.timeouts = run.timeouts
    BY <1>8 DEF Query, Types, MainTypes, RunRecord
  <2>3. app.state = "SYNCING" /\ run.responses = 0 /\ run.timeouts = 0
    BY <2>1 DEF SessionOK, CountsOK
  <2> QED  BY <2>1, <2>2, <2>3 DEF CountsOK
<1>9. CASE Connect /\ main' = "start"
  <2>1. run'.responses = 0 /\ run'.timeouts = 0 /\ pending'.active = {}
    BY <1>9 DEF Connect
  <2>2. app'.state = "SYNCING"
    BY <1>9 DEF Connect, Types, MainTypes, AppRecord
  <2> QED  BY <2>1, <2>2 DEF CountsOK
<1>10. CASE Start
  <2>1. main = "start" /\ UNCHANGED <<app, run, pending>>
    BY <1>10 DEF Start
  <2> QED  BY <2>1 DEF CountsOK
<1>11. CASE Finish \/ Join \/ Delay \/ Return \/ ConnectInterrupted \/ (Connect /\ main' # "start")
  <2>1. main' \in Between
    BY <1>11 DEF Finish, Join, Delay, Return, ConnectInterrupted, Connect
  <2>2. app'.state = "OFFLINE"
    BY <1>11, <2>1, SessionStep DEF SessionOK
  <2> QED  BY <2>1, <2>2 DEF CountsOK
<1> QED  BY <1>2, <1>3, <1>4, <1>5, <1>6, <1>7, <1>8, <1>9, <1>10, <1>11, MainCases DEF Next, Aside, Work

\* The queries on their way to the device: the second one only once it was asked.
Asked ==
    Elements(tx.items) \cup Elements(toPeer)
        \cup (IF txThread.pc = "send" THEN {txThread.sequence} ELSE {})
AskedOK == 2 \in Asked => run.followup = 2

LEMMA AskedInit == Init => AskedOK
BY NoElements DEF Init, AskedOK, Asked

LEMMA AskedConnect ==
    ASSUME SessionOK, Connect, main' = "start"
    PROVE  Asked' = {}
<1>1. /\ tx' = [open |-> TRUE, items |-> << >>] /\ toPeer' = << >> /\ txThread' = txThread
      /\ main = "connect"
  BY DEF Connect
<1>2. txThread.pc = "done"
  BY <1>1 DEF SessionOK, Ended, WorkersAreDone
<1> QED  BY <1>1, <1>2, NoElements DEF Asked

LEMMA AskedAccepted ==
    ASSUME Types, UNCHANGED <<toPeer, txThread>>, NEW q \in Queries,
           tx' = [tx EXCEPT !.items = Append(@, q)]
    PROVE  Asked' \subseteq Asked \cup {q}
<1>1. tx.items \in Seq(Queries) /\ tx'.items = Append(tx.items, q)
  BY DEF Types, SharedTypes, TxQueue
<1>2. Elements(tx'.items) \subseteq Elements(tx.items) \cup {q}
  BY <1>1, ElementsAppend
<1> QED  BY <1>2 DEF Asked

LEMMA AskedKept ==
    ASSUME Types, SessionOK, [Next]_vars, ~Process, ~FollowUp, ~Query
    PROVE  Asked' \subseteq Asked
<1>1. tx.items \in Seq(Queries) /\ toPeer \in Seq(Queries) /\ txThread \in TxRecord
  BY DEF Types, SharedTypes, WorkerTypes, TxQueue
<1>2. UNCHANGED shared \/ TransportFailed \/ Stopped \/ tx' = tx => tx'.items = tx.items
  BY StopRuntimeFacts, TransportFacts DEF Types, Stopped, shared
<1>3. CASE TxTest
  <2>1. /\ UNCHANGED <<shared, toPeer>> /\ txThread'.pc # "send"
    BY <1>1, <1>3 DEF TxTest, TxRecord, sockets
  <2> QED  BY <1>2, <2>1 DEF Asked
<1>4. CASE TxPop
  <2>1. toPeer' = toPeer
    BY <1>4 DEF TxPop, sockets
  <2>2. CASE /\ tx.items # << >> /\ txThread' = [pc |-> "send", sequence |-> Head(tx.items)]
             /\ tx' = [tx EXCEPT !.items = Tail(@)]
    <3>1. tx'.items = Tail(tx.items) /\ txThread'.sequence = Head(tx.items)
      BY <2>2 DEF Types, SharedTypes, TxQueue
    <3>2. Head(tx.items) \in Elements(tx.items) /\ Elements(tx'.items) \subseteq Elements(tx.items)
      BY <1>1, <2>2, <3>1, ElementsTail
    <3> QED  BY <2>1, <3>1, <3>2 DEF Asked
  <2>3. CASE tx' = tx /\ txThread' = [txThread EXCEPT !.pc = "done"]
    <3>1. txThread'.pc # "send"
      BY <1>1, <2>3 DEF TxRecord
    <3> QED  BY <2>1, <2>3, <3>1 DEF Asked
  <2> QED  BY <1>4, <2>2, <2>3 DEF TxPop
<1>5. CASE TxSend
  <2>1. txThread.pc = "send" /\ txThread.sequence \in Queries
    BY <1>5 DEF TxSend, Types, WorkerTypes, TxRecord, Queries
  <2>2. txThread'.pc # "send"
    BY <1>1, <1>5 DEF TxSend, TxRecord
  <2>3. tx'.items = tx.items
    BY <1>2, <1>5 DEF TxSend
  <2>4. toPeer' = toPeer \/ toPeer' = Append(toPeer, txThread.sequence)
    BY <1>5 DEF TxSend
  <2>5. Elements(toPeer') \subseteq Elements(toPeer) \cup {txThread.sequence}
    BY <1>1, <2>1, <2>4, ElementsAppend
  <2> QED  BY <2>1, <2>2, <2>3, <2>5 DEF Asked
<1>6. CASE PeerReceive
  <2>1. txThread' = txThread /\ tx'.items = tx.items
    BY <1>2, <1>6 DEF PeerReceive
  <2>2. toPeer' = toPeer \/ (toPeer # << >> /\ toPeer' = Tail(toPeer))
    BY <1>6 DEF PeerReceive
  <2>3. Elements(toPeer') \subseteq Elements(toPeer)
    BY <1>1, <2>2, ElementsTail
  <2> QED  BY <2>1, <2>3 DEF Asked
<1>7. CASE Start
  <2>1. toPeer' = toPeer /\ tx'.items = tx.items
    BY <1>2, <1>7 DEF Start, sockets, Stopped
  <2>2. txThread'.pc # "send"
    BY <1>1, <1>7 DEF Start, TxRecord
  <2> QED  BY <2>1, <2>2 DEF Asked
<1>8. CASE RxStep \/ PeerTest \/ PeerAnswer
  <2>1. UNCHANGED <<toPeer, txThread>> /\ tx'.items = tx.items
    BY <1>2, <1>8 DEF RxStep, RxTest, RxReceive, RxKeep, RxPush, PeerTest, PeerAnswer,
       PeerSends, PeerEnds, sockets, shared
  <2> QED  BY <2>1 DEF Asked
<1>9. CASE Connect /\ main' = "start"
  BY <1>9, AskedConnect
<1>10. CASE Aside \/ Turn \/ Hold \/ Take \/ Handle
  <2>1. UNCHANGED <<toPeer, txThread>>
    BY <1>10, AsideFacts, WorkFacts DEF Work, sockets, workers
  <2>2. UNCHANGED shared \/ Stopped \/ tx' = tx
    BY <1>10, AsideFacts, TurnFacts DEF Hold, Take, Handle, shared, Stopped
  <2> QED  BY <1>2, <2>1, <2>2 DEF Asked
<1>11. CASE Finish \/ Join \/ Delay \/ Return \/ ConnectInterrupted \/ (Connect /\ main' # "start")
  <2>1. UNCHANGED <<toPeer, txThread>>
    BY <1>11 DEF Finish, Join, Delay, Return, ConnectInterrupted, Connect, sockets, workers
  <2>2. UNCHANGED shared \/ Stopped
    BY <1>11 DEF Finish, Join, Delay, Return, ConnectInterrupted, Connect, Stopped
  <2> QED  BY <1>2, <2>1, <2>2 DEF Asked
<1> QED  BY <1>3, <1>4, <1>5, <1>6, <1>7, <1>8, <1>9, <1>10, <1>11, MainCases
         DEF Next, Aside, Work, TxStep, PeerStep

LEMMA AskedStep ==
    ASSUME Types, SessionOK, RequestsOK, AskedOK, [Next]_vars
    PROVE  AskedOK'
<1>1. CASE Connect /\ main' = "start"
  BY <1>1, AskedConnect DEF AskedOK
<1>2. CASE Query
  <2>1. run'.followup = run.followup /\ UNCHANGED <<toPeer, txThread>> /\ main = "query"
    BY <1>2 DEF Query, sockets, workers, Types, MainTypes, RunRecord
  <2>2. CASE RequestAccepted
    <3>1. pending.next = 1
      BY <2>1 DEF RequestsOK, Before
    <3>2. 1 \in Queries /\ tx' = [tx EXCEPT !.items = Append(@, 1)]
      BY <2>2, <3>1 DEF Queries, Sequences, RequestAccepted
    <3>3. Asked' \subseteq Asked \cup {1}
      BY <2>1, <3>2, AskedAccepted
    <3> QED  BY <2>1, <3>3 DEF AskedOK
  <2>3. CASE UNCHANGED shared
    BY <2>1, <2>3 DEF AskedOK, Asked, shared
  <2> QED  BY <1>2, <2>2, <2>3 DEF Query
<1>3. CASE FollowUp
  <2>1. UNCHANGED <<toPeer, txThread>> /\ main = "follow"
    BY <1>3 DEF FollowUp, sockets, workers
  <2>2. CASE run' = [run EXCEPT !.followup = pending.next] /\ app.state = "ONLINE" /\ run.followup = 0
    <3>1. pending.next = 2
      BY <2>1, <2>2, FollowUpNumber DEF RequestsOK, Between, Ended, Before
    <3>2. run'.followup = 2
      BY <2>2, <3>1 DEF Types, MainTypes, RunRecord
    <3> QED  BY <3>2 DEF AskedOK
  <2>3. CASE run' = run /\ (UNCHANGED shared \/ StopRuntime(TRUE))
    <3>1. tx'.items = tx.items
      BY <2>3, StopRuntimeFacts DEF Types, shared
    <3> QED  BY <2>1, <2>3, <3>1 DEF AskedOK, Asked
  <2> QED  BY <1>3, <2>2, <2>3 DEF FollowUp
<1>4. CASE Process
  <2>1. UNCHANGED <<toPeer, txThread>>
    BY <1>4 DEF Process, sockets, workers
  <2>2. CASE run' = run /\ UNCHANGED shared
    BY <2>1, <2>2 DEF AskedOK, Asked, shared
  <2>3. CASE \E p \in pending.active : Overdue(p)
    <3>1. PICK p \in pending.active : Overdue(p)
      BY <2>3
    <3>2. run'.followup = run.followup
      BY <3>1, OverdueCounts
    <3>3. CASE UNCHANGED shared \/ StopRuntime(TRUE)
      <4>1. tx'.items = tx.items
        BY <3>3, StopRuntimeFacts DEF Types, shared
      <4> QED  BY <2>1, <3>2, <4>1 DEF AskedOK, Asked
    <3>4. CASE tx' = [tx EXCEPT !.items = Append(@, p.sequence)]
      <4>1. p.sequence \in Queries
        BY DEF Types, MainTypes, PendingRecord, Requests, Queries
      <4>2. Asked' \subseteq Asked \cup {p.sequence}
        BY <2>1, <3>4, <4>1, AskedAccepted
      <4>3. ASSUME p.sequence = 2 PROVE run.followup = 2
        <5>1. main = "process"
          BY <1>4 DEF Process
        <5>2. app.state \in {"SYNCING", "ONLINE"}
          BY <5>1 DEF SessionOK, Between, Ended, Types, MainTypes, AppRecord
        <5>3. app.state # "SYNCING"
          <6>1. run.sync # 2
            BY DEF Types, MainTypes, RunRecord
          <6> QED  BY <4>3, <6>1 DEF RequestsOK
        <5>4. run.followup # 0
          BY <5>2, <5>3 DEF RequestsOK
        <5> QED  BY <5>4 DEF Types, MainTypes, RunRecord
      <4> QED  BY <3>2, <4>2, <4>3 DEF AskedOK
    <3> QED  BY <3>1, <3>3, <3>4 DEF Overdue
  <2> QED  BY <1>4, <2>2, <2>3 DEF Process
<1>5. CASE ~Query /\ ~FollowUp /\ ~Process /\ ~(Connect /\ main' = "start")
  <2>1. run'.followup = run.followup
    BY <1>5, FollowUpKept
  <2> QED  BY <1>5, <2>1, AskedKept DEF AskedOK
<1> QED  BY <1>1, <1>2, <1>3, <1>4, <1>5

\* The device numbers the frames of a connection from 1 on.
Total == peer.sent + Len(peer.script)
NumbersOK == \A f \in Afoot : f.serial >= 1 /\ f.serial <= Total

LEMMA NumbersInit == Init => NumbersOK
<1> SUFFICES ASSUME Init PROVE Afoot = {}
  BY DEF NumbersOK
<1>1. /\ rx.items = << >> /\ toHost = << >> /\ peer.script = << >>
      /\ rxThread.frame = NoFrame /\ run.frame = NoFrame
  BY DEF Init
<1> QED  BY <1>1, NoElements DEF Afoot, Ahead

LEMMA AheadNumbers ==
    ASSUME NEW script \in Seq(Steps), NEW n \in Nat, NEW f \in Numbered(script, n)
    PROVE  f.serial >= 1 /\ f.serial <= n + Len(script)
<1>1. PICK i \in DOMAIN script : f = [script[i] EXCEPT !.serial = n + i]
  BY DEF Numbered
<1>2. i \in 1 .. Len(script) /\ Len(script) \in Nat /\ script[i] \in Steps
  OBVIOUS
<1>3. \A step \in Steps, k \in Nat : [step EXCEPT !.serial = k].serial = k
  BY DEF Steps, Sendable, Cut, Hang, Frame
<1>4. f.serial = n + i
  BY <1>1, <1>2, <1>3
<1> QED  BY <1>2, <1>4

\* The numbers given out never decrease.
LEMMA TotalGrows ==
    ASSUME Types, SessionOK, DeviceOK, [Next]_vars, ~(Connect /\ main' = "start")
    PROVE  Total \in Nat /\ Total' \in Nat /\ Total' >= Total
<1>1. peer.script \in Seq(Steps) /\ peer.sent \in Nat /\ peer.requests \in Nat
  BY DEF Types, WorkerTypes, PeerRecord
<1>2. Total \in Nat
  BY <1>1 DEF Total
<1>3. CASE PeerReceive
  <2>1. CASE peer'.script = peer.script /\ peer'.sent = peer.sent
    BY <1>2, <2>1 DEF Total
  <2>2. CASE /\ toPeer # << >> /\ Head(toPeer) \in Queries
             /\ peer'.script \in Scripts(Head(toPeer), peer.requests + 1)
             /\ peer'.sent = peer.sent
    <3>1. peer.script = << >>
      BY <1>3 DEF PeerReceive, DeviceOK
    <3>2. peer.requests + 1 \in Nat
      BY <1>1
    <3>3. peer'.script \in Seq(Steps)
      BY <2>2, <3>2, ScriptsType
    <3>4. Len(peer'.script) \in Nat
      BY <3>3
    <3>5. Total = peer.sent /\ Total' = peer.sent + Len(peer'.script)
      BY <1>1, <2>2, <3>1 DEF Total
    <3> QED  BY <1>1, <3>4, <3>5
  <2> QED  BY <1>3, <2>1, <2>2, ReceiveFacts
<1>4. CASE PeerAnswer
  <2>1. CASE peer'.script = peer.script /\ peer'.sent = peer.sent
    BY <1>2, <2>1 DEF Total
  <2>2. CASE /\ peer.script # << >> /\ peer'.sent = peer.sent + 1
             /\ peer'.script = Tail(peer.script)
    <3>1. Len(peer'.script) = Len(peer.script) - 1 /\ Len(peer.script) \in Nat
      BY <1>1, <2>2, TailType
    <3>2. Total' = Total
      BY <1>1, <2>2, <3>1 DEF Total
    <3> QED  BY <1>2, <3>2
  <2> QED  BY <1>4, <2>1, <2>2, AnswerFacts
<1>5. CASE ~PeerReceive /\ ~PeerAnswer
  <2>1. peer'.script = peer.script /\ peer'.sent = peer.sent
    BY <1>5, Onward
  <2> QED  BY <1>2, <2>1 DEF Total
<1> QED  BY <1>2, <1>3, <1>4, <1>5

LEMMA NumbersStep ==
    ASSUME Types, Types', SessionOK, DeviceOK, NumbersOK, [Next]_vars
    PROVE  NumbersOK'
<1> SUFFICES ASSUME NEW f \in Afoot' PROVE f.serial >= 1 /\ f.serial <= Total'
  BY DEF NumbersOK
<1>1. CASE Connect /\ main' = "start"
  BY <1>1, AfootConnect
<1>2. CASE ~(Connect /\ main' = "start") /\ f \in Afoot
  <2>1. f.serial >= 1 /\ f.serial <= Total /\ f.serial \in Nat
    BY <1>2, AfootTypes DEF NumbersOK
  <2>2. Total \in Nat /\ Total' \in Nat /\ Total' >= Total
    BY <1>2, TotalGrows
  <2> QED  BY <2>1, <2>2
<1>3. CASE PeerReceive /\ f \in Ahead'
  <2>1. peer'.script \in Seq(Steps) /\ peer'.sent \in Nat /\ f \in Numbered(peer'.script, peer'.sent)
    BY <1>3 DEF Types, WorkerTypes, PeerRecord, Ahead
  <2> QED  BY <2>1, AheadNumbers DEF Total
<1> QED  BY <1>1, <1>2, <1>3, AfootReceive, AfootStep

\* The frames of a stream: before the device has read the second query there are
\* only replies that say 40; then, for k reports, they carry the numbers 2 to k + 1
\* and count up from 1, and each is taken as it comes.
NoneStreamed == run.reports = 0 /\ \A f \in Afoot : f.type = "RESPONSE" /\ f.progress = 40
Streamed(k) ==
    /\ run.followup = 2 /\ peer.requests > 1 /\ Total >= k + 2
    /\ Handled <= 1 => run.reports = 0
    /\ Handled \in 1 .. k + 1 => run.reports = Handled - 1
    /\ Handled > k => run.reports = k
    /\ \A f \in Afoot :
          /\ f.serial \in 2 .. k + 1 => f.type = "REPORT" /\ f.progress = (f.serial - 1) % 101
          /\ f.serial \notin 2 .. k + 1 => f.type = "RESPONSE"
Flow == NoneStreamed \/ \E k \in 1 .. StreamReports : Streamed(k)
FlowOK == mode = "stream" /\ ~stop.stopping => Flow

LEMMA FlowInit == Init => FlowOK
<1> SUFFICES ASSUME Init PROVE NoneStreamed
  BY DEF FlowOK, Flow
<1>1. /\ rx.items = << >> /\ toHost = << >> /\ peer.script = << >>
      /\ rxThread.frame = NoFrame /\ run.frame = NoFrame /\ run.reports = 0
  BY DEF Init
<1> QED  BY <1>1, NoElements DEF NoneStreamed, Afoot, Ahead

LEMMA HandledType ==
    ASSUME Types
    PROVE  Handled \in Int /\ run.handled \in Nat /\ Handled <= run.handled
BY DEF Types, MainTypes, RunRecord, Handled

\* Only handling a frame gets the main thread on.
LEMMA HandledKept ==
    ASSUME Types, SerialsOK, HandOK, [Next]_vars, ~stop.stopping, ~Handle,
           ~(Connect /\ main' = "start")
    PROVE  Handled' = Handled
<1>1. CASE Take
  <2>1. run.frame = NoFrame
    BY <1>1 DEF Take, HandOK
  <2>2. CASE run'.frame = run.frame /\ run'.handled = run.handled
    BY <2>2 DEF Handled
  <2>3. CASE run'.frame # run.frame \/ run'.handled # run.handled
    <3>1. run'.frame # NoFrame /\ run'.handled = run.handled + 1
      BY <1>1, <2>3, TakeFacts
    <3> QED  BY <2>1, <3>1, HandledType DEF Handled
  <2> QED  BY <2>2, <2>3
<1>2. CASE ~Take
  BY <1>2, HandKept DEF Handled
<1> QED  BY <1>1, <1>2

\* A step that adds no frame and handles none.
LEMMA FlowKept ==
    ASSUME Types, Flow, Afoot' \subseteq Afoot, run'.reports = run.reports, Handled' = Handled,
           run'.followup = run.followup \/ run.followup # 2,
           peer.requests \in Nat, peer'.requests \in Nat, peer'.requests >= peer.requests,
           Total \in Nat, Total' \in Nat, Total' >= Total
    PROVE  Flow'
<1>1. CASE NoneStreamed
  BY <1>1 DEF NoneStreamed, Flow
<1>2. ASSUME NEW k \in 1 .. StreamReports, Streamed(k) PROVE Streamed(k)'
  <2>1. run'.followup = 2 /\ peer'.requests > 1 /\ Total' >= k + 2
    BY <1>2 DEF Streamed
  <2> QED  BY <1>2, <2>1 DEF Streamed
<1> QED  BY <1>1, <1>2 DEF Flow

\* The frames the device adds for a query of a stream.
StreamScript(k) == Append([i \in 1 .. k |-> Report(i % 101)], Response(2, 99))

LEMMA StreamScripts ==
    ASSUME mode = "stream", NEW q \in Queries, NEW n \in Nat, NEW script \in Scripts(q, n)
    PROVE  \/ script = << >>
           \/ script = Append(<< >>, Response(1, 40))
           \/ /\ q = 2 /\ n = 2
              /\ \E k \in 1 .. StreamReports : script = StreamScript(k)
<1>1. q = 1 \/ q = 2
  BY DEF Queries, Sequences
<1>2. CASE q = 1
  <2>1. script = Append(<< >>, Response(1, 40))
    BY <1>2 DEF Scripts, Holding, Reconnecting
  <2> QED  BY <2>1
<1>3. CASE q = 2 /\ n = 2
  <2>1. Scripts(2, 2) = {StreamScript(k) : k \in 1 .. StreamReports}
    BY <1>3 DEF Scripts, Holding, Reconnecting, StreamScript
  <2>2. script \in {StreamScript(k) : k \in 1 .. StreamReports}
    BY <1>3, <2>1
  <2> QED  BY <1>3, <2>2
<1>4. CASE q = 2 /\ n # 2
  BY <1>4 DEF Scripts, Holding, Reconnecting
<1> QED  BY <1>1, <1>2, <1>3, <1>4

LEMMA SingleReply ==
    ASSUME NEW n \in Nat, NEW f \in Numbered(Append(<< >>, Response(1, 40)), n)
    PROVE  f.type = "RESPONSE" /\ f.progress = 40 /\ f.serial = n + 1
<1> DEFINE reply == Response(1, 40)
           script == << reply >>
<1>1. script \in Seq({reply}) /\ script = Append(<< >>, reply)
  OBVIOUS
<1>2. PICK i \in DOMAIN Append(<< >>, reply) :
         f = [Append(<< >>, reply)[i] EXCEPT !.serial = n + i]
  BY DEF Numbered
<1>3. i = 1 /\ Append(<< >>, reply)[i] = reply
  BY <1>2
<1>4. f = [Response(1, 40) EXCEPT !.serial = n + 1]
  BY <1>2, <1>3
<1> QED  BY <1>4, NumberedFields DEF Response

LEMMA StreamReportsType ==
    ASSUME NEW k \in Nat
    PROVE  /\ [i \in 1 .. k |-> Report(i % 101)] \in Seq(Steps)
           /\ Len([i \in 1 .. k |-> Report(i % 101)]) = k
           /\ Response(2, 99) \in Steps
<1>1. \A i \in 1 .. k : Report(i % 101) \in Steps
  <2>1. \A i \in 1 .. k : i % 101 \in 0 .. 100
    OBVIOUS
  <2> QED  BY <2>1, ReportType
<1>2. Response(2, 99) \in Steps
  BY ResponseType DEF Sequences
<1> QED  BY <1>1, <1>2

LEMMA StreamScriptLength ==
    ASSUME NEW k \in Nat
    PROVE  Len(StreamScript(k)) = k + 1
<1> DEFINE reports == [i \in 1 .. k |-> Report(i % 101)]
<1>1. reports \in Seq(Steps) /\ Len(reports) = k /\ Response(2, 99) \in Steps
  BY StreamReportsType
<1>2. StreamScript(k) = Append(reports, Response(2, 99))
  BY DEF StreamScript
<1> HIDE DEF reports
<1> QED  BY <1>1, <1>2, AppendType

LEMMA ReportsScript ==
    ASSUME NEW k \in Nat \ {0},
           NEW f \in Numbered(StreamScript(k), 1)
    PROVE  /\ f.serial \in 2 .. k + 1 => f.type = "REPORT" /\ f.progress = (f.serial - 1) % 101
           /\ f.serial \notin 2 .. k + 1 => f.type = "RESPONSE"
<1> DEFINE reports == [i \in 1 .. k |-> Report(i % 101)]
<1>3. reports \in Seq(Steps) /\ Len(reports) = k /\ Response(2, 99) \in Steps
  BY StreamReportsType
<1>4. ASSUME f \in Numbered(reports, 1)
      PROVE  /\ f.serial \in 2 .. k + 1 /\ f.type = "REPORT" /\ f.progress = (f.serial - 1) % 101
  <2>1. PICK i \in 1 .. k : f = [Report(i % 101) EXCEPT !.serial = 1 + i]
    BY <1>4 DEF Numbered
  <2>2. f.type = "REPORT" /\ f.progress = i % 101 /\ f.serial = 1 + i
    BY <2>1, NumberedFields DEF Report
  <2>3. (1 + i) - 1 = i /\ 1 + i \in 2 .. k + 1
    OBVIOUS
  <2> QED  BY <2>2, <2>3
<1>5. ASSUME f = [Response(2, 99) EXCEPT !.serial = 1 + k + 1]
      PROVE  f.type = "RESPONSE" /\ f.serial \notin 2 .. k + 1
  <2>1. f.type = "RESPONSE" /\ f.serial = 1 + k + 1
    BY <1>5, NumberedFields DEF Response
  <2> QED  BY <2>1
<1>6. f \in Numbered(Append(reports, Response(2, 99)), 1)
  BY DEF StreamScript
<1> HIDE DEF reports
<1>7. f \in Numbered(reports, 1) \/ f = [Response(2, 99) EXCEPT !.serial = 1 + Len(reports) + 1]
  BY <1>3, <1>6, NumberedAppend
<1> QED  BY <1>3, <1>4, <1>5, <1>7

\* The second query reaches a device that has sent the one reply and no more.
LEMMA SecondQuery ==
    ASSUME Types, SessionOK, RequestsOK, RepliesOK, DeviceOK, StopOK, AskedOK, mode = "stream",
           ~stop.stopping, PeerReceive, toPeer # << >>, Head(toPeer) = 2, peer.requests = 1
    PROVE  run.followup = 2 /\ peer.sent = 1
<1>1. peer.sent \in Nat /\ peer.script \in Seq(Steps) /\ toPeer \in Seq(Queries)
  BY DEF Types, WorkerTypes, PeerRecord, SharedTypes
<1>2. run.followup = 2
  BY <1>1, ElementsTail DEF AskedOK, Asked
<1>3. main \notin Between
  <2>1. main \notin Ended
    BY WorkerFacts DEF PeerStep, SessionOK
  <2>2. main # "join"
    BY DEF StopOK
  <2> QED  BY <2>1, <2>2 DEF Between
<1>4. app.state = "ONLINE"
  BY <1>2, <1>3 DEF SessionOK, RequestsOK, Types, MainTypes, AppRecord
<1>5. peer.sent > 0
  BY <1>4 DEF RepliesOK, DeviceOK
<1>6. peer.script = << >>
  BY DEF PeerReceive, DeviceOK
<1>7. peer.sent + Len(peer.script) <= 1 /\ Len(peer.script) = 0
  BY <1>6 DEF DeviceOK
<1> QED  BY <1>1, <1>2, <1>5, <1>7

LEMMA FlowReceive ==
    ASSUME Types, Types', SessionOK, RequestsOK, RepliesOK, SerialsOK, DeviceOK, StopOK, AskedOK,
           NumbersOK, Flow, [Next]_vars, mode = "stream", ~stop.stopping, PeerReceive
    PROVE  Flow'
<1>1. /\ peer.sent \in Nat /\ peer.script \in Seq(Steps) /\ peer.requests \in Nat
      /\ peer'.requests \in Nat
  BY DEF Types, WorkerTypes, PeerRecord
<1>2. run' = run /\ Handled' = Handled
  BY WorkerFacts DEF PeerStep, Handled
<1>3. ~(Connect /\ main' = "start")
  <2>1. main \notin Ended
    BY WorkerFacts DEF PeerStep, SessionOK
  <2> QED  BY <2>1 DEF Connect, Ended
<1>4. Total \in Nat /\ Total' \in Nat /\ Total' >= Total
  BY <1>3, TotalGrows
<1>5. peer.script = << >> /\ Len(peer.script) = 0
  BY DEF PeerReceive, DeviceOK
<1>6. Total = peer.sent
  BY <1>1, <1>5 DEF Total
<1>7. CASE peer'.requests = peer.requests /\ peer'.script = peer.script /\ peer'.sent = peer.sent
  <2>1. Afoot' \subseteq Afoot
    BY <1>5, <1>7, AfootReceive, NoElements DEF Ahead
  <2> QED  BY <1>1, <1>2, <1>4, <1>7, <2>1, FlowKept
<1>8. CASE /\ toPeer # << >> /\ Head(toPeer) \in Queries
           /\ peer'.script \in Scripts(Head(toPeer), peer.requests + 1)
           /\ peer'.requests = peer.requests + 1 /\ peer'.sent = peer.sent
  <2>1. Ahead' = Numbered(peer'.script, peer.sent)
    BY <1>8 DEF Ahead
  <2>2. peer'.requests >= peer.requests /\ peer.requests + 1 \in Nat
    BY <1>1, <1>8
  <2>3. CASE peer'.script = << >>
    <3>1. Afoot' \subseteq Afoot
      BY <2>1, <2>3, AfootReceive, NoElements
    <3> QED  BY <1>1, <1>2, <1>4, <2>2, <3>1, FlowKept
  <2>4. CASE peer'.script = Append(<< >>, Response(1, 40))
    <3>1. \A f \in Ahead' : f.type = "RESPONSE" /\ f.progress = 40 /\ f.serial = Total + 1
      BY <1>1, <1>6, <2>1, <2>4, SingleReply
    <3>2. Afoot' \subseteq Afoot \cup Ahead'
      BY AfootReceive
    <3>3. CASE NoneStreamed
      BY <1>2, <3>1, <3>2, <3>3 DEF NoneStreamed, Flow
    <3>4. ASSUME NEW k \in 1 .. StreamReports, Streamed(k) PROVE Streamed(k)'
      <4>1. peer'.requests > 1 /\ Total' >= k + 2 /\ Total >= k + 2
        BY <1>1, <1>4, <2>2, <3>4 DEF Streamed
      <4>2. \A f \in Ahead' : f.type = "RESPONSE" /\ f.serial \notin 2 .. k + 1
        BY <1>4, <3>1, <4>1
      <4>3. \A f \in Afoot' :
              /\ f.serial \in 2 .. k + 1 => f.type = "REPORT" /\ f.progress = (f.serial - 1) % 101
              /\ f.serial \notin 2 .. k + 1 => f.type = "RESPONSE"
        BY <3>2, <3>4, <4>2 DEF Streamed
      <4> QED  BY <1>2, <3>4, <4>1, <4>3 DEF Streamed
    <3> QED  BY <3>3, <3>4 DEF Flow
  <2>5. CASE /\ Head(toPeer) = 2 /\ peer.requests + 1 = 2
             /\ \E k \in 1 .. StreamReports : peer'.script = StreamScript(k)
    <3>1. PICK k \in 1 .. StreamReports : peer'.script = StreamScript(k)
      BY <2>5
    <3>2. peer.requests = 1 /\ k \in Nat \ {0}
      BY <1>1, <2>5
    <3>3. run.followup = 2 /\ peer.sent = 1
      BY <1>8, <2>5, <3>2, SecondQuery
    <3>4. NoneStreamed
      BY <3>2 DEF Flow, Streamed
    <3>5. \A f \in Ahead' :
             /\ f.serial \in 2 .. k + 1 => f.type = "REPORT" /\ f.progress = (f.serial - 1) % 101
             /\ f.serial \notin 2 .. k + 1 => f.type = "RESPONSE"
      BY <2>1, <3>1, <3>2, <3>3, ReportsScript
    <3>6. \A f \in Afoot : f.serial \notin 2 .. k + 1 /\ f.type = "RESPONSE"
      BY <1>6, <3>2, <3>3, <3>4, AfootTypes DEF NumbersOK, NoneStreamed
    <3>7. Handled <= 1
      <4>1. Len(rx.items) + Held + Len(toHost) = peer.sent - run.handled
        BY DEF SerialsOK
      <4>2. Len(rx.items) \in Nat /\ Len(toHost) \in Nat /\ Held \in Nat
        BY FramesAreSendable DEF Types, Held
      <4>3. Handled \in Int /\ run.handled \in Nat /\ Handled <= run.handled
        BY HandledType
      <4> QED  BY <3>3, <4>1, <4>2, <4>3
    <3>8. Len(peer'.script) = k + 1
      BY <3>1, <3>2, StreamScriptLength
    <3>9. Total' >= k + 2 /\ peer'.requests > 1
      BY <1>8, <3>2, <3>3, <3>8 DEF Total
    <3>10. run.reports = 0 /\ Handled \in Int
      BY <3>4, HandledType DEF NoneStreamed
    <3>11. \A f \in Afoot' :
             /\ f.serial \in 2 .. k + 1 => f.type = "REPORT" /\ f.progress = (f.serial - 1) % 101
             /\ f.serial \notin 2 .. k + 1 => f.type = "RESPONSE"
      BY <3>5, <3>6, AfootReceive
    <3>12. /\ Handled <= 1 => run.reports = 0
           /\ Handled \in 1 .. k + 1 => run.reports = Handled - 1
           /\ Handled > k => run.reports = k
      BY <3>2, <3>7, <3>10
    <3>13. Streamed(k)'
      BY <1>2, <3>3, <3>9, <3>11, <3>12 DEF Streamed
    <3> QED  BY <3>13 DEF Flow
  <2> QED  BY <1>8, <2>2, <2>3, <2>4, <2>5, StreamScripts
<1> QED  BY <1>7, <1>8, ReceiveFacts

\* The frame in hand is the next one.
LEMMA FrameInHand ==
    ASSUME Types, HandOK, ~stop.stopping, run.frame # NoFrame
    PROVE  run.frame \in Afoot /\ run.frame.serial = Handled + 1 /\ Handled \in Int
<1>1. run.handled \in Nat
  BY DEF Types, MainTypes, RunRecord
<1> QED  BY <1>1 DEF HandOK, Handled, Afoot

LEMMA FlowHandle ==
    ASSUME Types, SessionOK, DeviceOK, HandOK, NumbersOK, Flow, [Next]_vars, ~stop.stopping,
           main = "handle", HandleReport \/ HandleMatched \/ HandleUnmatched,
           Afoot' \subseteq Afoot, peer' = peer
    PROVE  Flow'
<1>1. /\ run.frame # NoFrame /\ run.frame.type \in {"REPORT", "RESPONSE"}
      /\ run'.reports = IF run.frame.type = "REPORT" THEN run.reports + 1 ELSE run.reports
  <2>1. run.frame.type \in {"REPORT", "RESPONSE"}
    BY DEF HandleReport, HandleMatched, HandleUnmatched
  <2>2. run.frame # NoFrame
    BY <2>1 DEF NoFrame, Frame
  <2>3. run \in RunRecord
    BY DEF Types, MainTypes
  <2>4. HandleReport => run'.reports = run.reports + 1 /\ run.frame.type = "REPORT"
    BY <2>3 DEF HandleReport, RunRecord
  <2>5. HandleMatched \/ HandleUnmatched => run'.reports = run.reports /\ run.frame.type = "RESPONSE"
    BY <2>3 DEF HandleMatched, HandleUnmatched, RunRecord
  <2> QED  BY <2>1, <2>2, <2>4, <2>5
<1>2. run.frame \in Afoot /\ run.frame.serial = Handled + 1 /\ Handled \in Int
  BY <1>1, FrameInHand
<1>3. Handled' = Handled + 1 /\ run'.followup = run.followup
  <2>1. run'.frame = NoFrame /\ run'.handled = run.handled /\ run'.followup = run.followup
    BY HandleFacts DEF Types
  <2> QED  BY <1>1, <2>1, HandledType DEF Handled
<1>4. Handled >= 0
  BY <1>2 DEF NumbersOK
<1>5. Total' = Total
  BY DEF Total
<1>6. CASE NoneStreamed
  <2>1. run'.reports = 0
    BY <1>1, <1>2, <1>6 DEF NoneStreamed
  <2> QED  BY <1>6, <2>1 DEF NoneStreamed, Flow
<1>7. ASSUME NEW k \in 1 .. StreamReports, Streamed(k) PROVE Streamed(k)'
  <2>1. k \in Nat /\ k >= 1
    OBVIOUS
  <2>2. /\ Handled <= 1 => run.reports = 0
        /\ Handled \in 1 .. k + 1 => run.reports = Handled - 1
        /\ Handled > k => run.reports = k
        /\ run.frame.serial \in 2 .. k + 1 => run.frame.type = "REPORT"
        /\ run.frame.serial \notin 2 .. k + 1 => run.frame.type = "RESPONSE"
    BY <1>2, <1>7 DEF Streamed
  <2>3. CASE run.frame.type = "REPORT"
    <3>1. Handled \in 1 .. k
      BY <1>2, <2>1, <2>2, <2>3
    <3>2. run'.reports = Handled
      BY <1>1, <2>1, <2>2, <2>3, <3>1
    <3> QED  BY <1>2, <1>3, <1>5, <1>7, <2>1, <3>1, <3>2 DEF Streamed
  <2>4. CASE run.frame.type = "RESPONSE"
    <3>1. Handled = 0 \/ Handled > k
      BY <1>2, <1>4, <2>1, <2>2, <2>4
    <3>2. run'.reports = run.reports
      BY <1>1, <2>4
    <3>3. /\ Handled + 1 <= 1 => run.reports = 0
          /\ Handled + 1 \in 1 .. k + 1 => run.reports = Handled + 1 - 1
          /\ Handled + 1 > k => run.reports = k
      BY <1>2, <2>1, <2>2, <3>1
    <3>4. /\ Handled' <= 1 => run'.reports = 0
          /\ Handled' \in 1 .. k + 1 => run'.reports = Handled' - 1
          /\ Handled' > k => run'.reports = k
      BY <1>2, <1>3, <2>1, <3>2, <3>3
    <3> QED  BY <1>3, <1>5, <1>7, <3>4 DEF Streamed
  <2> QED  BY <1>1, <2>3, <2>4
<1> QED  BY <1>6, <1>7 DEF Flow

LEMMA FlowStep ==
    ASSUME Types, Types', SessionOK, RequestsOK, RepliesOK, SerialsOK, DeviceOK, HandOK, StopOK,
           AskedOK, NumbersOK, FlowOK, [Next]_vars
    PROVE  FlowOK'
<1> SUFFICES ASSUME mode' = "stream", ~stop'.stopping PROVE Flow'
  BY DEF FlowOK
<1>1. CASE Connect /\ main' = "start"
  <2>1. run'.reports = 0
    BY <1>1 DEF Connect
  <2> QED  BY <1>1, <2>1, AfootConnect DEF Flow, NoneStreamed
<1>2. CASE ~(Connect /\ main' = "start")
  <2>1. mode = "stream" /\ ~stop.stopping /\ Flow
    BY <1>2, Onward DEF FlowOK
  <2>2. CASE PeerReceive
    BY <2>1, <2>2, FlowReceive
  <2>3. CASE Handle
    <3>1. main = "handle" /\ (HandleReport \/ HandleMatched \/ HandleUnmatched) /\ peer' = peer
      BY <2>1, <2>3 DEF Handle, workers
    <3>2. Afoot' \subseteq Afoot
      BY <3>1, AfootStep DEF PeerReceive, Types, WorkerTypes, PeerRecord
    <3> QED  BY <2>1, <3>1, <3>2, FlowHandle
  <2>4. CASE ~PeerReceive /\ ~Handle
    <3>1. Afoot' \subseteq Afoot
      BY <2>4, AfootStep
    <3>2. run'.reports = run.reports /\ Handled' = Handled
      BY <1>2, <2>1, <2>4, Undisturbed, HandledKept
    <3>3. run'.followup = run.followup \/ run.followup # 2
      <4>1. FollowUp => run' = run \/ run.followup = 0
        BY DEF FollowUp
      <4> QED  BY <1>2, <4>1, FollowUpKept
    <3>4. Total \in Nat /\ Total' \in Nat /\ Total' >= Total
      BY <1>2, TotalGrows
    <3>5. peer.requests \in Nat /\ peer'.requests = peer.requests
      <4>1. PeerAnswer => peer'.requests = peer.requests
        BY AnswerFacts
      <4> QED  BY <1>2, <2>4, <4>1, Onward DEF Types, WorkerTypes, PeerRecord
    <3> QED  BY <2>1, <3>1, <3>2, <3>3, <3>4, <3>5, FlowKept
  <2> QED  BY <2>2, <2>3, <2>4
<1> QED  BY <1>1, <1>2

\* What a stream shows: 40 with the confirmation, then every report, each of which
\* is a change, so the user interface is told of each.
DisplayOK ==
    mode = "stream" =>
        /\ app.state = "SYNCING" \/ main = "connect" => app.progress = 0 /\ app.notifications = 0
        /\ app.state = "ONLINE" /\ run.responses = 1 =>
              /\ app.notifications = run.reports + 1
              /\ app.progress = IF run.reports = 0 THEN 40 ELSE run.reports % 101

LEMMA DisplayInit == Init => DisplayOK
BY DEF Init, InitialApplication, DisplayOK

LEMMA AppliedNotifies ==
    ASSUME app \in AppRecord, NEW progress \in 0 .. 100
    PROVE  Applied(progress).notifications =
              IF app.progress = progress THEN app.notifications ELSE app.notifications + 1
BY DEF Applied, AppRecord

\* A report of a stream comes when the connection is confirmed, and is the next.
LEMMA StreamedReport ==
    ASSUME Types, SessionOK, RequestsOK, HandOK, NumbersOK, Flow, ~stop.stopping,
           main = "handle", HandleReport
    PROVE  /\ app.state = "ONLINE" /\ app' = Applied(run.frame.progress)
           /\ run.frame.progress = (run.reports + 1) % 101
           /\ run'.reports = run.reports + 1 /\ run'.responses = run.responses
<1>1. /\ run.frame.type = "REPORT" /\ app' = AfterReport
      /\ run' = [run EXCEPT !.reports = @ + 1, !.frame = NoFrame]
  BY DEF HandleReport
<1>2. run.frame # NoFrame
  BY <1>1 DEF NoFrame, Frame
<1>3. run.frame \in Afoot /\ run.frame.serial = Handled + 1 /\ Handled \in Int
  BY <1>2, FrameInHand
<1>4. ~NoneStreamed
  BY <1>1, <1>3 DEF NoneStreamed
<1>5. PICK k \in 1 .. StreamReports : Streamed(k)
  BY <1>4 DEF Flow
<1>6. run.frame.serial \in 2 .. k + 1 /\ run.frame.progress = (run.frame.serial - 1) % 101
  BY <1>1, <1>3, <1>5 DEF Streamed
<1>7. Handled \in 1 .. k + 1
  BY <1>3, <1>6
<1>8. run.followup = 2 /\ run.reports = Handled - 1
  BY <1>5, <1>7 DEF Streamed
<1>9. run.frame.serial - 1 = run.reports + 1
  BY <1>3, <1>8
<1>10. app.state = "ONLINE"
  BY <1>8 DEF SessionOK, RequestsOK, Between, Ended, Types, MainTypes, AppRecord
<1>11. run'.reports = run.reports + 1 /\ run'.responses = run.responses
  BY <1>1 DEF Types, MainTypes, RunRecord
<1> QED  BY <1>1, <1>6, <1>9, <1>10, <1>11 DEF AfterReport

LEMMA DisplayHandle ==
    ASSUME Types, SessionOK, RequestsOK, CountsOK, HandOK, NumbersOK, Flow, DisplayOK,
           mode = "stream", mode' = mode, ~stop.stopping, main = "handle", main' # "connect",
           HandleReport \/ HandleMatched \/ HandleUnmatched
    PROVE  DisplayOK'
<1>1. /\ app \in AppRecord /\ run \in RunRecord /\ run.frame \in Carried
      /\ run.reports \in Nat /\ run.responses \in Nat
  BY DEF Types, MainTypes, RunRecord
<1>2. run.frame.progress \in 0 .. 100
  BY <1>1 DEF Carried, Sendable, NoFrame, Frame
<1>3. CASE HandleReport
  <2>1. /\ app.state = "ONLINE" /\ app' = Applied(run.frame.progress)
        /\ run.frame.progress = (run.reports + 1) % 101
        /\ run'.reports = run.reports + 1 /\ run'.responses = run.responses
    BY <1>3, StreamedReport
  <2>2. app'.state = "ONLINE" /\ app'.progress = run.frame.progress
    BY <1>1, <1>2, <2>1, AppliedType
  <2>3. ASSUME run.responses = 1
        PROVE  app'.notifications = run.reports + 2 /\ run.reports + 1 # 0
    <3>1. app.notifications = run.reports + 1
      BY <2>1, <2>3 DEF DisplayOK
    <3>2. app.progress = IF run.reports = 0 THEN 40 ELSE run.reports % 101
      BY <2>1, <2>3 DEF DisplayOK
    <3>3. (run.reports + 1) % 101 # run.reports % 101 /\ (0 + 1) % 101 = 1
      BY <1>1
    <3>4. app.progress # run.frame.progress
      BY <2>1, <3>2, <3>3
    <3>5. app'.notifications = app.notifications + 1
      BY <1>1, <1>2, <2>1, <3>4, AppliedNotifies
    <3> QED  BY <1>1, <3>1, <3>5
  <2>4. run'.reports + 1 = run.reports + 2
    BY <1>1, <2>1
  <2> QED  BY <2>1, <2>2, <2>3, <2>4 DEF DisplayOK
<1>4. CASE HandleMatched
  <2>1. /\ run'.responses = run.responses + 1 /\ run'.reports = run.reports
        /\ app'.state = IF app.state = "SYNCING" THEN "ONLINE" ELSE app.state
    BY <1>4, MatchedCounts
  <2>2. CASE app.state = "SYNCING"
    <3>1. run.followup = 0
      BY <2>2 DEF RequestsOK
    <3>2. NoneStreamed
      BY <3>1 DEF Flow, Streamed
    <3>3. run.frame # NoFrame
      BY <1>4 DEF HandleMatched, NoFrame, Frame
    <3>4. run.reports = 0 /\ run.frame.progress = 40
      BY <3>2, <3>3, FrameInHand DEF NoneStreamed
    <3>5. app.progress = 0 /\ app.notifications = 0
      BY <2>2 DEF DisplayOK
    <3>6. app'.progress = 40 /\ app'.notifications = 1
      <4> DEFINE applied == Applied(run.frame.progress)
      <4>1. PICK state : app' = [applied EXCEPT !.state = state]
        BY <1>4 DEF HandleMatched
      <4>2. applied \in AppRecord /\ applied.progress = 40 /\ applied.notifications = 1
        BY <1>1, <1>2, <3>4, <3>5, AppliedType, AppliedNotifies
      <4> HIDE DEF applied
      <4> QED  BY <4>1, <4>2 DEF AppRecord
    <3> QED  BY <2>1, <2>2, <3>4, <3>6 DEF DisplayOK
  <2>3. CASE app.state # "SYNCING"
    <3>1. app.state = "ONLINE"
      BY <2>3 DEF SessionOK, Between, Ended, Types, MainTypes, AppRecord
    <3>2. run.responses >= 1
      BY <3>1 DEF CountsOK
    <3>3. run'.responses # 1
      BY <1>1, <2>1, <3>2
    <3> QED  BY <2>1, <2>3, <3>1, <3>3 DEF DisplayOK
  <2> QED  BY <2>2, <2>3
<1>5. CASE HandleUnmatched
  <2>1. app' = app /\ run'.responses = run.responses /\ run'.reports = run.reports
    BY <1>1, <1>5 DEF HandleUnmatched, RunRecord
  <2> QED  BY <2>1 DEF DisplayOK
<1> QED  BY <1>3, <1>4, <1>5

LEMMA ConnectComes ==
    ASSUME [Next]_vars, main' = "connect"
    PROVE  main = "connect" \/ main = "delay"
<1>1. CASE TxStep \/ RxStep \/ PeerStep \/ Aside
  BY <1>1, WorkerFacts, AsideFacts
<1>2. CASE Turn
  BY <1>2, TurnFacts DEF Running, Between, Ended
<1>3. CASE Hold \/ Take \/ Handle \/ FollowUp
  BY <1>3 DEF Hold, Take, Handle, FollowUp
<1>4. CASE Process
  BY <1>4 DEF Process, Overdue
<1>5. CASE \/ Start \/ Query \/ Finish \/ Join \/ Delay \/ Return \/ ConnectInterrupted
           \/ Connect
  BY <1>5 DEF Start, Query, Finish, Join, Delay, Return, ConnectInterrupted, Connect
<1> QED  BY <1>1, <1>2, <1>3, <1>4, <1>5, MainCases DEF Next, Aside, Work

LEMMA DisplayStep ==
    ASSUME Types, SessionOK, RequestsOK, CountsOK, HandOK, OnceOK, NumbersOK, FlowOK, DisplayOK,
           [Next]_vars
    PROVE  DisplayOK'
<1> SUFFICES ASSUME mode' = "stream" PROVE DisplayOK'
  BY DEF DisplayOK
<1>1. CASE Connect /\ main' = "start"
  <2>1. app' = [app EXCEPT !.state = "SYNCING", !.session = session] /\ main = "connect" /\ mode' = mode
    BY <1>1 DEF Connect
  <2>2. /\ app'.state = "SYNCING" /\ app'.progress = app.progress
        /\ app'.notifications = app.notifications
    BY <2>1 DEF Types, MainTypes, AppRecord
  <2> QED  BY <2>1, <2>2 DEF DisplayOK
<1>2. CASE ~(Connect /\ main' = "start")
  <2>1. mode' = mode
    BY <1>2, Onward
  <2>2. CASE Handle
    <3>1. CASE UNCHANGED <<app, run>>
      <4>1. main' # "connect"
        BY <2>2 DEF Handle
      <4> QED  BY <2>1, <3>1, <4>1 DEF DisplayOK
    <3>2. CASE ~stop.stopping /\ (HandleReport \/ HandleMatched \/ HandleUnmatched)
      <4>1. main = "handle" /\ main' # "connect"
        BY <2>2 DEF Handle
      <4> QED  BY <2>1, <3>2, <4>1, DisplayHandle DEF FlowOK
    <3> QED  BY <2>2, <3>1, <3>2 DEF Handle
  <2>3. CASE ~Handle
    <3>1. /\ app'.progress = app.progress /\ app'.notifications = app.notifications
          /\ app'.state \in {app.state, "OFFLINE"}
          /\ run'.responses = run.responses /\ run'.reports = run.reports
      BY <1>2, <2>3, Undisturbed
    <3>2. main' = "connect" => main = "connect"
      BY <2>1, ConnectComes DEF OnceOK, Reconnecting
    <3> QED  BY <2>1, <3>1, <3>2 DEF DisplayOK
  <2> QED  BY <2>2, <2>3
<1> QED  BY <1>1, <1>2

\* What an exit status of 0 stands for; the reports of a stream are compared with
\* those sent when the workers have been joined.
Earned ==
    /\ mode \notin {"disconnect", "reconnect-timeout", "reconnect-exhausted"}
    /\ mode = "timeout" => run.timeouts = 1
    /\ mode = "stop-full" => rxThread.timedOut
    /\ mode \in {"normal", "retry", "rx-full"} => app.progress = 40 /\ run.responses = 1
    /\ mode = "rx-full" => run.reports = Burst /\ rxThread.timedOut
    /\ mode = "stream" => run.timeouts = 1 /\ app.notifications = run.reports + 1
    /\ mode = "reconnect" => session > 1 /\ app.progress = 80
EarnedOK ==
    /\ main \in {"finish", "join"} /\ ~stop.failed /\ ~interrupted => Earned
    /\ (main = "return" /\ ~interrupted) \/ main = "exit" =>
          (status = 0 => Earned /\ (mode = "stream" => run.reports = peer.reports))

LEMMA EarnedInit == Init => EarnedOK
BY DEF Init, EarnedOK

\* The three ways to a success: what the scenario waits for has been seen, ...
LEMMA EarnedByJudge ==
    ASSUME Types, SessionOK, HoldOK, ShownOK, main = "judge", ~Follows, Achieved
    PROVE  Earned
<1>1. main \notin Ended /\ app.session = session
  BY DEF SessionOK, Ended
<1>2. mode # "stream" /\ (mode \in Reconnecting => session # 1)
  BY DEF Follows
<1>3. CASE mode = "timeout"
  BY <1>3 DEF Achieved, Earned
<1>4. CASE mode # "timeout"
  <2>1. run.responses = 1 /\ (mode = "rx-full" => run.reports = Burst)
    BY <1>4 DEF Achieved
  <2>2. mode # "stop-full" /\ (mode = "rx-full" => rxThread.timedOut)
    BY <1>1, <2>1 DEF HoldOK
  <2>3. Shown
    BY <1>2, <2>1 DEF ShownOK
  <2>4. CASE mode \in Plain /\ app.progress = 40
    BY <2>1, <2>2, <2>4 DEF Plain, Holding, Earned
  <2>5. CASE mode \in Resuming /\ app.session = 1
    BY <1>1, <1>2, <2>5 DEF Resuming, Reconnecting
  <2>6. CASE mode = "reconnect" /\ app.session > 1 /\ app.progress = 80
    BY <1>1, <2>6 DEF Earned
  <2> QED  BY <2>3, <2>4, <2>5, <2>6 DEF Shown
<1> QED  BY <1>3, <1>4

\* ... the late reply of a stream has come after a time-out and reports, ...
LEMMA EarnedBySettle ==
    ASSUME Types, SessionOK, RequestsOK, CountsOK, HoldOK, FlowOK, DisplayOK, main = "settle",
           ~stop.stopping, run.timeouts = 1, run.reports # 0
    PROVE  Earned
<1>1. main \notin Between /\ mode = "stream"
  BY DEF HoldOK, Ended, Between
<1>2. PICK k \in 1 .. StreamReports : Streamed(k)
  BY <1>1 DEF FlowOK, Flow, NoneStreamed
<1>3. run.followup = 2
  BY <1>2 DEF Streamed
<1>4. app.state = "ONLINE"
  BY <1>1, <1>3 DEF SessionOK, RequestsOK, Types, MainTypes, AppRecord
<1>5. run.responses \in Nat /\ run.responses >= 1 /\ run.responses + run.timeouts \in {1, 2}
  BY <1>3, <1>4 DEF CountsOK, Types, MainTypes, RunRecord
<1>6. run.responses = 1
  BY <1>5
<1>7. app.notifications = run.reports + 1
  BY <1>1, <1>4, <1>6 DEF DisplayOK
<1> QED  BY <1>1, <1>7 DEF Earned

\* ... or the receiver has waited in vain while consumption was held back.
LEMMA EarnedAtFinish ==
    ASSUME Types, SessionOK, RequestsOK, CountsOK, StopOK, HoldOK, ShownOK, FlowOK, DisplayOK,
           [Next]_vars, ~stop.stopping, ~stop'.stopping, ~interrupted,
           main # "finish", main' = "finish"
    PROVE  Earned /\ UNCHANGED <<mode, session, app, run, rxThread>>
<1>1. ~StopRuntime(TRUE)
  BY StopRuntimeFacts DEF Types
<1>2. ~TxStep /\ ~RxStep /\ ~PeerStep /\ ~Aside
  BY WorkerFacts, AsideFacts
<1>3. ~Start /\ ~FollowUp /\ ~Process
  BY <1>1 DEF Start, FollowUp, Process, Overdue
<1>4. ~Handle /\ ~Scan
  BY DEF Handle, Scan
<1>5. ~Take
  <2>1. Take => rx.open
    BY DEF Take, StopOK, Ended
  <2> QED  BY <2>1 DEF Take
<1>6. ~Connect /\ ~Query /\ ~Finish /\ ~Join /\ ~Delay /\ ~Return /\ ~ConnectInterrupted
  BY DEF Connect, Query, Finish, Join, Delay, Return, ConnectInterrupted
<1>7. CASE Loop
  <2>1. mode = "idle" /\ UNCHANGED <<app, run, workers, outside>>
    BY <1>1, <1>7 DEF Loop
  <2> QED  BY <2>1 DEF Earned, workers, outside
<1>8. CASE Hold
  <2>1. /\ mode = "stop-full" /\ rxThread.timedOut
        /\ UNCHANGED <<app, run, workers, outside>>
    BY <1>8 DEF Hold
  <2> QED  BY <2>1 DEF Earned, workers, outside
<1>9. CASE Judge
  <2>1. main = "judge" /\ ~Follows /\ Achieved /\ UNCHANGED <<app, run, workers, outside>>
    BY <1>1, <1>9 DEF Judge
  <2> QED  BY <2>1, EarnedByJudge DEF workers, outside
<1>10. CASE Settle
  <2>1. /\ main = "settle" /\ run.timeouts = 1 /\ run.reports # 0
        /\ UNCHANGED <<app, run, workers, outside>>
    BY <1>1, <1>10 DEF Settle
  <2> QED  BY <2>1, EarnedBySettle DEF workers, outside
<1> QED  BY <1>2, <1>3, <1>4, <1>5, <1>6, <1>7, <1>8, <1>9, <1>10, MainCases
         DEF Next, Aside, Work, Turn

\* Nobody takes a failure back.
LEMMA FailedKept ==
    ASSUME Types, SessionOK, StopOK, [Next]_vars, ~(Connect /\ main' = "start"), stop.failed
    PROVE  stop'.failed
<1>1. stop.stopping
  BY DEF StopOK
<1>2. StopRuntime(TRUE) \/ StopRuntime(FALSE) \/ TransportFailed => stop' = stop
  BY <1>1 DEF StopRuntime, TransportFailed, Stop, shared
<1>3. Finish => StopRuntime(FALSE)
  BY DEF Finish
<1> QED  BY <1>2, <1>3, StopCases DEF OpenKept

LEMMA InterruptedKept ==
    ASSUME MainStep
    PROVE  interrupted' = interrupted
<1>1. Work \/ Start \/ Query \/ Finish => UNCHANGED outside
  BY TurnFacts DEF Work, Hold, Take, Handle, Process, FollowUp, Start, Query, Finish
<1>2. Connect \/ ConnectInterrupted \/ Join \/ Delay \/ Return => interrupted' = interrupted
  BY DEF Connect, ConnectInterrupted, Join, Delay, Return
<1> QED  BY <1>1, <1>2, MainCases DEF outside

LEMMA EarnedKept ==
    ASSUME Earned, UNCHANGED <<mode, session, run>>, app'.progress = app.progress,
           app'.notifications = app.notifications, rxThread.timedOut => rxThread'.timedOut
    PROVE  Earned'
BY DEF Earned

LEMMA EarnedStep ==
    ASSUME Types, SessionOK, RequestsOK, CountsOK, StopOK, StopOK', HoldOK, ShownOK, FlowOK,
           DisplayOK, EarnedOK, [Next]_vars
    PROVE  EarnedOK'
<1>1. CASE Connect /\ main' = "start"
  BY <1>1 DEF EarnedOK
<1>2. CASE ~(Connect /\ main' = "start")
  <2>1. /\ (stop.failed => stop'.failed) /\ (stop.stopping => stop'.stopping)
        /\ (rxThread.timedOut => rxThread'.timedOut)
    BY <1>2, FailedKept, Onward, TimedOutKept
  <2>2. CASE TxStep \/ RxStep \/ PeerStep
    <3>1. main' = main /\ main \notin Ended /\ UNCHANGED <<app, run, mode, session, interrupted>>
      BY <2>2, WorkerFacts DEF SessionOK, outside
    <3>2. main = "return" \/ main = "exit" => FALSE
      BY <3>1 DEF Ended
    <3>3. Earned => Earned'
      BY <2>1, <3>1, EarnedKept
    <3> QED  BY <2>1, <3>1, <3>2, <3>3 DEF EarnedOK
  <2>3. CASE Aside
    <3>1. /\ UNCHANGED <<app, run, mode, session, main, workers, shared, status>>
          /\ interrupted' \in {TRUE, interrupted}
      BY <2>3, AsideFacts
    <3>2. Earned => Earned'
      BY <3>1, EarnedKept DEF workers
    <3> QED  BY <3>1, <3>2 DEF EarnedOK, workers, shared
  <2>4. CASE main' = "finish" /\ main # "finish"
    <3>1. ASSUME ~stop'.failed, ~interrupted' PROVE Earned'
      <4>1. ~stop'.stopping /\ ~stop.stopping
        BY <2>1, <2>4, <3>1 DEF StopOK, Between, Ended
      <4>2. ~interrupted
        <5>1. MainStep
          BY <2>4, WorkerFacts, AsideFacts DEF Next, Aside
        <5> QED  BY <3>1, <5>1, InterruptedKept
      <4>3. Earned /\ UNCHANGED <<mode, session, app, run, rxThread>>
        BY <2>4, <4>1, <4>2, EarnedAtFinish
      <4> QED  BY <4>3, EarnedKept
    <3> QED  BY <2>4, <3>1 DEF EarnedOK
  <2>5. CASE Finish
    <3>1. /\ main = "finish" /\ main' = "join" /\ UNCHANGED <<run, workers, outside>>
          /\ StopRuntime(FALSE) /\ app' = [app EXCEPT !.state = "OFFLINE"]
      BY <2>5 DEF Finish
    <3>2. app'.progress = app.progress /\ app'.notifications = app.notifications
      BY <3>1 DEF Types, MainTypes, AppRecord
    <3>3. Earned => Earned'
      BY <3>1, <3>2, EarnedKept DEF workers, outside
    <3> QED  BY <2>1, <3>1, <3>3 DEF EarnedOK, outside
  <2>6. CASE Join
    <3>1. /\ main = "join" /\ main' \in {"return", "delay"}
          /\ UNCHANGED <<mode, session, app, run, workers, interrupted>>
      BY <2>6 DEF Join
    <3>2. Earned => Earned'
      BY <3>1, EarnedKept DEF workers
    <3>3. ASSUME main' = "return", ~interrupted, status' = 0
          PROVE  ~stop.failed /\ (mode = "stream" => run.reports = peer.reports)
      <4>1. ~stop.failed /\ ~Mismatch
        BY <2>6, <3>3 DEF Join
      <4>2. stop.kind = "NONE"
        BY <4>1 DEF StopOK
      <4> QED  BY <3>3, <4>1, <4>2 DEF Mismatch
    <3> QED  BY <3>1, <3>2, <3>3 DEF EarnedOK, workers
  <2>7. CASE Return
    <3>1. /\ main = "return" /\ main' = "exit" /\ status' = IF interrupted THEN 128 ELSE status
          /\ UNCHANGED <<mode, session, app, run, workers, interrupted>>
      BY <2>7 DEF Return
    <3>2. Earned => Earned'
      BY <3>1, EarnedKept DEF workers
    <3> QED  BY <3>1, <3>2 DEF EarnedOK, workers
  <2>8. CASE Delay \/ ConnectInterrupted \/ (Connect /\ main' # "start")
    <3>1. /\ main' \in {"return", "connect"}
          /\ main' = "return" => interrupted' \/ status' = 1
      BY <2>8 DEF Delay, ConnectInterrupted, Connect
    <3> QED  BY <3>1 DEF EarnedOK
  <2>9. CASE (Start \/ Query \/ Work) /\ main' # "finish"
    <3>1. main' \notin {"finish", "join", "return", "exit"}
      BY <2>9, WorkFacts DEF Start, Query, Running, Between, Ended
    <3> QED  BY <3>1 DEF EarnedOK
  <2>10. Start \/ Query \/ Work => main # "finish"
    BY DEF Start, Query, Work, Turn, Loop, Scan, Judge, Settle, Hold, Take, Handle, Process, FollowUp
  <2> QED  BY <1>2, <2>2, <2>3, <2>4, <2>5, <2>6, <2>7, <2>8, <2>9, <2>10, MainCases DEF Next, Aside
<1> QED  BY <1>1, <1>2

\* All of it is inductive together with what the other theorems need.
SuccessOK ==
    /\ StopOK /\ HoldOK /\ CountsOK /\ AskedOK /\ NumbersOK /\ FlowOK /\ DisplayOK /\ EarnedOK

LEMMA SuccessInit == Init => SuccessOK
BY StopInit, HoldInit, CountsInit, AskedInit, NumbersInit, FlowInit, DisplayInit, EarnedInit
   DEF SuccessOK

LEMMA SuccessStep == IInv /\ IInv' /\ ScriptsOK /\ SuccessOK /\ [Next]_vars => SuccessOK'
<1> SUFFICES ASSUME IInv, Types', ScriptsOK, SuccessOK, [Next]_vars PROVE SuccessOK'
  BY DEF IInv
<1>1. StopOK'
  BY StopStep DEF IInv, SuccessOK
<1>2. HoldOK' /\ CountsOK' /\ AskedOK' /\ NumbersOK'
  BY HoldStep, CountsStep, AskedStep, NumbersStep DEF IInv, ScriptsOK, SuccessOK
<1>3. FlowOK' /\ DisplayOK'
  BY FlowStep, DisplayStep DEF IInv, ScriptsOK, SuccessOK
<1>4. EarnedOK'
  BY <1>1, EarnedStep DEF IInv, ScriptsOK, SuccessOK
<1> QED  BY <1>1, <1>2, <1>3, <1>4 DEF SuccessOK

\* In every scenario, whatever fails and whenever, an exit status of 0 means that
\* what the scenario is about has happened.
THEOREM SuccessSafe == Spec => []SuccessIsEarned
<1>1. SuccessOK => SuccessIsEarned
  BY DEF SuccessOK, EarnedOK, Earned, SuccessIsEarned
<1>2. Init /\ [][Next]_vars => []SuccessOK
  BY SuccessInit, SuccessStep, InvariantSafe, ScriptsSafe, PTL DEF Spec
<1> QED  BY <1>1, <1>2, PTL DEF Spec
================================================================================
