-------------------------------- MODULE Runtime --------------------------------
(***************************************************************************)
(* src/examples/linux_runtime/main.c: the host program.  The main thread      *)
(* owns the message manager and the application; a transmitting, a receiving  *)
(* and a simulated device thread work on two frame queues and a socket pair;  *)
(* whoever fails first stops the connection, and the main thread joins the    *)
(* workers and, in the reconnecting modes, starts over.                       *)
(*                                                                            *)
(* The queues do at every step what ClosableFifo promises, the message        *)
(* manager what MessageManager does with one request in flight, and a frame   *)
(* crosses a socket whole: Parser shows that a clean stream is delivered      *)
(* frame by frame, and half a frame is never delivered.  Time is a choice: a  *)
(* bounded wait may end, a reply be overdue and the run limit pass at any      *)
(* moment.  A snapshot is known by its progress, the field that varies.       *)
(***************************************************************************)
EXTENDS Integers, Sequences, FiniteSets

CONSTANTS
    Modes,              \* the scenarios of the command line
    QueueCapacity,      \* QUEUE_CAPACITY
    Burst,              \* REPORT_BURST
    MaxReconnects,      \* MAX_RECONNECTS
    MaxRetries,         \* config.max_retries
    SocketCapacity,     \* bound: frames a socket buffers before send blocks
    StreamReports       \* bound: reports sent within STREAM_DURATION_MS

AllModes == {"normal", "retry", "timeout", "rx-full", "stop-full", "disconnect", "idle",
             "stream", "reconnect", "reconnect-timeout", "reconnect-exhausted"}

ASSUME ModesAssumption == Modes \subseteq AllModes
ASSUME CapacityAssumption == QueueCapacity \in Nat \ {0} /\ SocketCapacity \in Nat \ {0}
\* The burst has to overfill the queue, or the receiver never waits for space; its
\* reports count the progress up, in percent.
ASSUME BurstAssumption == Burst \in 1 .. 100 /\ Burst > QueueCapacity
ASSUME LimitsAssumption == MaxReconnects \in Nat /\ MaxRetries \in Nat /\ StreamReports \in Nat \ {0}

VARIABLES
    mode,       \* runtime_t.mode
    session,    \* number of the connection, local to run_sessions
    app,        \* application_t; session is that of the state announced last
    main,       \* where the main thread is
    run,        \* the part of runtime_t that only the main thread uses
    pending,    \* the manager's requests in flight, and its next sequence
    stop,       \* stopping, failed and failure_kind, under stop_mutex
    tx, rx,     \* the two queues
    toPeer,     \* sequences of the requests in the socket
    toHost,     \* frames in the socket
    link,       \* "up", "cut" (the device ended its half), "hung" (both) or "down"
    txThread, rxThread, peer,
    late,       \* RUN_LIMIT_MS has passed since the connection started
    interrupted,
    status      \* exit status, or -1 while the program runs

vars == <<mode, session, app, main, run, pending, stop, tx, rx, toPeer, toHost, link,
          txThread, rxThread, peer, late, interrupted, status>>
workers == <<txThread, rxThread, peer>>
shared == <<stop, tx, rx, link>>
sockets == <<toPeer, toHost>>
outside == <<mode, session, late, interrupted, status>>

Frame(type, sequence, progress) ==
    [type |-> type, sequence |-> sequence, progress |-> progress, serial |-> 0]
Report(progress) == Frame("REPORT", 0, progress)
Response(sequence, progress) == Frame("RESPONSE", sequence, progress)
NoFrame == Frame("NONE", 0, 0)

Reconnecting == {"reconnect", "reconnect-timeout", "reconnect-exhausted"}
Holding == {"rx-full", "stop-full"}

-------------------------------------------------------------------------------
\* Stopping: queues closed and sockets shut down in one critical section.

\* Mutant: the latest reason wins, not the first.
StopLastReason(failed, kind) ==
    /\ stop' = [stopping |-> TRUE, failed |-> failed, kind |-> kind]
    /\ tx' = [tx EXCEPT !.open = FALSE] /\ rx' = [rx EXCEPT !.open = FALSE]
    /\ link' = "down"

\* Mutant: a failure of the transport overrides the reason given before.
StopForTransport(failed, kind) ==
    /\ stop' = IF stop.stopping /\ kind # "TRANSPORT" THEN stop
               ELSE [stopping |-> TRUE, failed |-> failed, kind |-> kind]
    /\ tx' = [tx EXCEPT !.open = FALSE] /\ rx' = [rx EXCEPT !.open = FALSE]
    /\ link' = "down"

\* stop_with_kind; "failed" when a reason is given.
Stop(failed, kind) ==
    \/ /\ stop.stopping
       /\ UNCHANGED shared
    \/ /\ ~stop.stopping
       /\ stop' = [stopping |-> TRUE, failed |-> failed, kind |-> kind]
       /\ tx' = [tx EXCEPT !.open = FALSE] /\ rx' = [rx EXCEPT !.open = FALSE]
       /\ link' = "down"

StopRuntime(failed) == Stop(failed, IF failed THEN "INTERNAL" ELSE "NONE")
TransportFailed == Stop(TRUE, "TRANSPORT")

-------------------------------------------------------------------------------
\* The workers.

TxTest ==
    /\ txThread.pc = "test"
    /\ txThread' = [txThread EXCEPT !.pc = IF stop.stopping THEN "done" ELSE "pop"]
    /\ UNCHANGED <<app, main, run, pending, shared, sockets, rxThread, peer, outside>>

\* A closed queue is drained before it answers CLOSED.
TxPop ==
    /\ txThread.pc = "pop"
    /\ \/ /\ tx.items # <<>>
          /\ txThread' = [pc |-> "send", sequence |-> Head(tx.items)]
          /\ tx' = [tx EXCEPT !.items = Tail(@)]
       \/ /\ tx.items = <<>> /\ ~tx.open
          /\ txThread' = [txThread EXCEPT !.pc = "done"]
          /\ UNCHANGED tx
    /\ UNCHANGED <<app, main, run, pending, stop, rx, link, sockets, rxThread, peer, outside>>

\* send_frame on the host's socket.  A frame that a stop cuts short is lost.
TxSend ==
    /\ txThread.pc = "send"
    /\ \/ /\ stop.stopping
          /\ txThread' = [txThread EXCEPT !.pc = "done"]
          /\ UNCHANGED <<shared, toPeer>>
       \/ /\ link \in {"hung", "down"}
          /\ txThread' = [txThread EXCEPT !.pc = "done"]
          /\ TransportFailed
          /\ UNCHANGED toPeer
       \/ /\ link \in {"up", "cut"} /\ Len(toPeer) < SocketCapacity
          /\ toPeer' = Append(toPeer, txThread.sequence)
          /\ txThread' = [txThread EXCEPT !.pc = "test"]
          /\ UNCHANGED shared
    /\ UNCHANGED <<app, main, run, pending, toHost, rxThread, peer, outside>>

\* receive_frame: the bytes already received are read before the end of file.
RxTest ==
    /\ rxThread.pc = "test"
    /\ rxThread' = [rxThread EXCEPT !.pc = IF stop.stopping THEN "done" ELSE "recv"]
    /\ UNCHANGED <<app, main, run, pending, shared, sockets, txThread, peer, outside>>

RxReceive ==
    /\ rxThread.pc = "recv"
    /\ \/ /\ toHost # <<>>
          /\ rxThread' = [rxThread EXCEPT !.pc = "keep", !.frame = Head(toHost)]
          /\ toHost' = Tail(toHost)
          /\ UNCHANGED shared
       \/ /\ toHost = <<>> /\ link # "up"
          /\ rxThread' = [rxThread EXCEPT !.pc = "done"]
          /\ TransportFailed
          /\ UNCHANGED toHost
    /\ UNCHANGED <<app, main, run, pending, toPeer, txThread, peer, outside>>

\* The frame is kept while the queue is full, until there is room or a stop.
RxKeep ==
    /\ rxThread.pc = "keep"
    /\ rxThread' = [rxThread EXCEPT !.pc = IF stop.stopping THEN "done" ELSE "push"]
    /\ UNCHANGED <<app, main, run, pending, shared, sockets, txThread, peer, outside>>

\* Mutant: a push that times out gives the frame up.
AfterTimeoutDropsFrame == "test"
AfterTimeout == "keep"

RxPush ==
    /\ rxThread.pc = "push"
    /\ \/ /\ ~rx.open
          /\ rxThread' = [rxThread EXCEPT !.pc = "done"]
          /\ UNCHANGED rx
       \/ /\ rx.open /\ Len(rx.items) < QueueCapacity
          /\ rx' = [rx EXCEPT !.items = Append(@, rxThread.frame)]
          /\ rxThread' = [rxThread EXCEPT !.pc = "test", !.frame = NoFrame]
       \/ /\ rx.open /\ Len(rx.items) = QueueCapacity
          /\ rxThread' = [rxThread EXCEPT !.pc = AfterTimeout, !.timedOut = TRUE]
          /\ UNCHANGED rx
    /\ UNCHANGED <<app, main, run, pending, stop, tx, link, sockets, txThread, peer, outside>>

-------------------------------------------------------------------------------
\* The simulated device answers each query with a script of frames; "cut" and
\* "hang" end the connection.

Cut == Frame("CUT", 0, 0)
Hang == Frame("HANG", 0, 0)

\* The scripts for the n-th query received, which carries "sequence".
Scripts(sequence, n) ==
    LET cuts == \/ mode = "reconnect-exhausted"
                \/ mode \in Reconnecting /\ session = 1 /\ n = 2
        resynchronises == mode \in Reconnecting /\ session > 1 /\ ~cuts
        streams == mode = "stream" /\ sequence # 1
        early == IF n = 1 THEN <<Report(99), Response(2, 99)>> ELSE <<>>
        burst == IF mode \in Holding /\ n = 1 THEN [i \in 1 .. Burst |-> Report(i)] ELSE <<>>
    IN  CASE mode = "disconnect" -> {<<Hang>>}
          [] mode = "timeout" \/ (mode = "retry" /\ n = 1) -> {<<>>}
          [] cuts -> {<<Cut>>}
          [] resynchronises /\ mode = "reconnect-timeout" -> {early}
          [] resynchronises /\ mode = "reconnect" -> {Append(early, Response(sequence, 80))}
          [] streams /\ n = 2 ->
                {Append([i \in 1 .. k |-> Report(i % 101)], Response(sequence, 99)) : k \in 1 .. StreamReports}
          [] streams /\ n # 2 -> {<<>>}
          [] OTHER -> {Append(burst, Response(sequence, 40))}

PeerTest ==
    /\ peer.pc = "test"
    /\ peer' = [peer EXCEPT !.pc = IF stop.stopping THEN "done" ELSE "recv"]
    /\ UNCHANGED <<app, main, run, pending, shared, sockets, txThread, rxThread, outside>>

PeerReceive ==
    /\ peer.pc = "recv"
    /\ \/ /\ toPeer # <<>>
          /\ \E script \in Scripts(Head(toPeer), peer.requests + 1) :
                peer' = [peer EXCEPT !.pc = "answer", !.requests = @ + 1, !.script = script]
          /\ toPeer' = Tail(toPeer)
          /\ UNCHANGED shared
       \/ /\ toPeer = <<>> /\ link = "down"
          /\ peer' = [peer EXCEPT !.pc = "done"]
          /\ TransportFailed
          /\ UNCHANGED toPeer
    /\ UNCHANGED <<app, main, run, pending, toHost, txThread, rxThread, outside>>

\* send_frame on the device's socket; peer.sent numbers what the host must get.
PeerSends(frame) ==
    /\ link = "up" /\ Len(toHost) < SocketCapacity
    /\ toHost' = Append(toHost, [frame EXCEPT !.serial = peer.sent + 1])
    /\ peer' = [peer EXCEPT !.script = Tail(@), !.sent = @ + 1,
                            !.reports = IF frame.type = "REPORT" THEN @ + 1 ELSE @,
                            !.answered = IF frame.type = "RESPONSE" THEN @ \cup {frame.sequence} ELSE @]
    /\ UNCHANGED shared

PeerEnds(state) ==
    /\ link' = state
    /\ peer' = [peer EXCEPT !.pc = "done", !.broke = TRUE]
    /\ UNCHANGED <<stop, tx, rx, toHost>>

\* peer_main after a query, with peer_status, peer_stream and peer_cut_response.
PeerAnswer ==
    /\ peer.pc = "answer"
    /\ \/ /\ peer.script = <<>>
          /\ peer' = [peer EXCEPT !.pc = "test"]
          /\ UNCHANGED <<shared, toHost>>
       \/ /\ peer.script # <<>> /\ Head(peer.script) \notin {Cut, Hang}
          /\ ~stop.stopping
          /\ PeerSends(Head(peer.script))
       \/ /\ peer.script # <<>> /\ Head(peer.script) # Hang
          /\ stop.stopping
          /\ peer' = [peer EXCEPT !.pc = "done"]
          /\ UNCHANGED <<shared, toHost>>
       \/ /\ peer.script = <<Cut>> /\ ~stop.stopping /\ PeerEnds("cut")
       \/ /\ peer.script = <<Hang>> /\ PeerEnds(IF stop.stopping THEN "down" ELSE "hung")
    /\ UNCHANGED <<app, main, run, pending, toPeer, txThread, rxThread, outside>>

-------------------------------------------------------------------------------
\* The main thread: the application and its message manager.

\* A zeroed application_t after appliance_manager_init.
InitialApplication == [state |-> "OFFLINE", session |-> 0, progress |-> 0, notifications |-> 0]

Init ==
    /\ mode \in Modes
    /\ session = 1
    /\ app = InitialApplication
    /\ main = "connect"
    /\ run = [sync |-> 0, followup |-> 0, responses |-> 0, reports |-> 0, timeouts |-> 0,
              unmatched |-> 0, retries |-> 0, hold |-> FALSE, frame |-> NoFrame, handled |-> 0]
    /\ pending = [next |-> 1, active |-> {}]
    /\ stop = [stopping |-> FALSE, failed |-> FALSE, kind |-> "NONE"]
    /\ tx = [open |-> FALSE, items |-> <<>>] /\ rx = [open |-> FALSE, items |-> <<>>]
    /\ toPeer = <<>> /\ toHost = <<>> /\ link = "down"
    /\ txThread = [pc |-> "done", sequence |-> 0]
    /\ rxThread = [pc |-> "done", frame |-> NoFrame, timedOut |-> FALSE]
    /\ peer = [pc |-> "done", requests |-> 0, script |-> <<>>, sent |-> 0, reports |-> 0,
               answered |-> {}, broke |-> FALSE]
    /\ late = FALSE /\ interrupted = FALSE /\ status = -1

\* Mutant: frames received on the old connection are still there.
ReceivedBefore == rx.items
\* What the receive queue of a new connection holds: its storage is emptied.
ReceivedAtStart == <<>>

\* init_runtime and the state it leads to.  A failure of a part releases the
\* others; there is no thread to join yet.
Connect ==
    /\ main = "connect" /\ ~interrupted
    /\ \/ /\ main' = "start"
          /\ app' = [app EXCEPT !.state = "SYNCING", !.session = session]
          /\ run' = [sync |-> 0, followup |-> 0, responses |-> 0, reports |-> 0, timeouts |-> 0,
                     unmatched |-> 0, retries |-> 0, hold |-> mode \in Holding,
                     frame |-> NoFrame, handled |-> 0]
          /\ pending' = [next |-> 1, active |-> {}]
          /\ stop' = [stopping |-> FALSE, failed |-> FALSE, kind |-> "NONE"]
          /\ tx' = [open |-> TRUE, items |-> <<>>]
          /\ rx' = [open |-> TRUE, items |-> ReceivedAtStart]
          /\ link' = "up" /\ toPeer' = <<>> /\ toHost' = <<>>
          /\ rxThread' = [rxThread EXCEPT !.frame = NoFrame, !.timedOut = FALSE]
          /\ peer' = [peer EXCEPT !.requests = 0, !.script = <<>>, !.sent = 0, !.reports = 0,
                                  !.answered = {}, !.broke = FALSE]
          /\ late' = FALSE
          /\ UNCHANGED <<txThread, status>>
       \/ /\ main' = "return" /\ status' = 1
          /\ UNCHANGED <<app, run, pending, shared, sockets, workers, late>>
    /\ UNCHANGED <<mode, session, interrupted>>

ConnectInterrupted ==
    /\ main = "connect" /\ interrupted
    /\ main' = "return" /\ status' = 0
    /\ UNCHANGED <<mode, session, app, run, pending, shared, sockets, workers, late, interrupted>>

\* start_runtime: the threads are created in this order, and a failure stops
\* those already running.
Start ==
    /\ main = "start"
    /\ \E started \in 0 .. 3 :
          /\ txThread' = [txThread EXCEPT !.pc = IF started > 0 THEN "test" ELSE "done"]
          /\ rxThread' = [rxThread EXCEPT !.pc = IF started > 1 THEN "test" ELSE "done"]
          /\ peer' = [peer EXCEPT !.pc = IF started > 2 THEN "test" ELSE "done"]
          /\ \/ /\ started = 3 /\ main' = "query"
                /\ UNCHANGED shared
             \/ /\ started < 3 /\ main' = "finish"
                /\ StopRuntime(TRUE)
    /\ UNCHANGED <<app, run, pending, sockets, outside>>

\* appliance_client_request_status: a request is in flight once the channel,
\* which is asked without waiting, has taken its frame.
RequestAccepted ==
    /\ tx.open /\ Len(tx.items) < QueueCapacity
    /\ tx' = [tx EXCEPT !.items = Append(@, pending.next)]
    /\ pending' = [next |-> pending.next + 1,
                   active |-> pending.active \cup {[sequence |-> pending.next, retries |-> 0]}]
    /\ UNCHANGED <<stop, rx, link>>
RequestRefused == ~tx.open \/ Len(tx.items) = QueueCapacity

\* run_manager up to the loop.  The queue is new, so the query finds room.
Query ==
    /\ main = "query" /\ main' = "loop"
    /\ \/ /\ mode # "idle" /\ RequestAccepted
          /\ run' = [run EXCEPT !.sync = pending.next]
       \/ /\ mode = "idle"
          /\ UNCHANGED <<run, pending, shared>>
    /\ UNCHANGED <<app, sockets, workers, outside>>

\* Mutant: the deadline is looked at only while consumption is held back.
DeadlineWhileHolding == late /\ run.hold
DeadlineExceeded == late

\* The loop's conditions and its deadline.
Loop ==
    /\ main = "loop"
    /\ \/ /\ stop.stopping \/ interrupted
          /\ main' = "finish" /\ UNCHANGED shared
       \/ /\ ~stop.stopping /\ ~interrupted /\ DeadlineExceeded
          /\ StopRuntime(TRUE)
          /\ main' = "finish"
       \/ /\ ~stop.stopping /\ ~interrupted /\ ~DeadlineExceeded
          /\ main' = IF run.hold THEN "hold" ELSE "take"
          /\ UNCHANGED shared
       \/ /\ ~stop.stopping /\ ~interrupted /\ ~DeadlineExceeded /\ mode = "idle"
          /\ main' = "finish" /\ UNCHANGED shared
    /\ UNCHANGED <<app, run, pending, sockets, workers, outside>>

\* Consumption is held back until the receiver has once waited in vain.
Hold ==
    /\ main = "hold"
    /\ \/ /\ ~rxThread.timedOut
          /\ main' = "scan" /\ UNCHANGED run
       \/ /\ rxThread.timedOut /\ mode = "stop-full"
          /\ main' = "finish" /\ UNCHANGED run
       \/ /\ rxThread.timedOut /\ mode = "rx-full"
          /\ main' = "take" /\ run' = [run EXCEPT !.hold = FALSE]
    /\ UNCHANGED <<app, pending, shared, sockets, workers, outside>>

Take ==
    /\ main = "take"
    /\ \/ /\ rx.items # <<>>
          /\ run' = [run EXCEPT !.frame = Head(rx.items), !.handled = Head(rx.items).serial]
          /\ rx' = [rx EXCEPT !.items = Tail(@)]
          /\ main' = "handle"
       \/ /\ rx.items = <<>>
          /\ main' = IF rx.open THEN "scan" ELSE "finish"
          /\ UNCHANGED <<run, rx>>
    /\ UNCHANGED <<app, pending, stop, tx, link, sockets, workers, outside>>

-------------------------------------------------------------------------------
\* comm_message_manager_handle_frame and message_event.

\* Mutant: any reply ends the request in flight.
MatchesAnyRequest(frame) == pending.active
Matches(frame) == {p \in pending.active : p.sequence = frame.sequence}

\* appliance_manager_handle_message_event on a valid snapshot, the only kind the
\* device sends: the user interface is told of a change, and of nothing else.
Applied(progress) ==
    [app EXCEPT !.progress = progress,
                !.notifications = IF app.progress = progress THEN @ ELSE @ + 1]

\* Mutant: a report is applied whatever the state of the connection.
AlwaysApplied == Applied(run.frame.progress)
\* A report that comes before the connection is confirmed is ignored.
AfterReport == IF app.state = "ONLINE" THEN Applied(run.frame.progress) ELSE app

HandleReport ==
    /\ run.frame.type = "REPORT"
    /\ app' = AfterReport
    /\ run' = [run EXCEPT !.reports = @ + 1, !.frame = NoFrame]
    /\ UNCHANGED pending

HandleMatched ==
    /\ run.frame.type = "RESPONSE" /\ Matches(run.frame) # {}
    /\ pending' = [pending EXCEPT !.active = @ \ Matches(run.frame)]
    /\ app' = [Applied(run.frame.progress) EXCEPT
                  !.state = IF @ = "SYNCING" /\ run.frame.sequence = run.sync THEN "ONLINE" ELSE @]
    /\ run' = [run EXCEPT !.responses = @ + 1, !.frame = NoFrame]

HandleUnmatched ==
    /\ run.frame.type = "RESPONSE" /\ Matches(run.frame) = {}
    /\ run' = [run EXCEPT !.unmatched = @ + 1, !.frame = NoFrame]
    /\ UNCHANGED <<app, pending>>

\* A frame popped while the connection is being stopped is not handled.
Handle ==
    /\ main = "handle"
    /\ \/ /\ ~stop.stopping /\ main' = "scan"
          /\ HandleReport \/ HandleMatched \/ HandleUnmatched
       \/ /\ stop.stopping /\ main' = "finish"
          /\ UNCHANGED <<app, run, pending>>
    /\ UNCHANGED <<shared, sockets, workers, outside>>

Scan ==
    /\ main = "scan"
    /\ main' = IF stop.stopping THEN "finish" ELSE "process"
    /\ UNCHANGED <<app, run, pending, shared, sockets, workers, outside>>

\* comm_message_manager_process_timeouts: a request that is overdue is repeated
\* or given up.  A retry that finds no room stays due and is not counted.
Overdue(p) ==
    \/ /\ p.retries >= MaxRetries
       /\ pending' = [pending EXCEPT !.active = @ \ {p}]
       /\ run' = [run EXCEPT !.timeouts = @ + 1]
       /\ main' = "judge" /\ UNCHANGED shared
    \/ /\ p.retries < MaxRetries /\ tx.open /\ Len(tx.items) < QueueCapacity
       /\ tx' = [tx EXCEPT !.items = Append(@, p.sequence)]
       /\ pending' = [pending EXCEPT !.active = (@ \ {p}) \cup {[p EXCEPT !.retries = @ + 1]}]
       /\ run' = [run EXCEPT !.retries = @ + 1]
       /\ main' = "judge" /\ UNCHANGED <<stop, rx, link>>
    \/ /\ p.retries < MaxRetries /\ tx.open /\ Len(tx.items) = QueueCapacity
       /\ main' = "judge" /\ UNCHANGED <<run, pending, shared>>
    \/ /\ p.retries < MaxRetries /\ ~tx.open
       /\ StopRuntime(TRUE)
       /\ main' = "finish" /\ UNCHANGED <<run, pending>>

Process ==
    /\ main = "process"
    /\ \/ main' = "judge" /\ UNCHANGED <<run, pending, shared>>
       \/ \E p \in pending.active : Overdue(p)
    /\ UNCHANGED <<app, sockets, workers, outside>>

-------------------------------------------------------------------------------
\* What the pass through the loop leads to.

TimedOut == run.timeouts # 0 /\ mode \notin {"timeout", "stream"}
Follows == mode = "stream" \/ (mode \in Reconnecting /\ session = 1)
Achieved ==
    IF mode = "timeout" THEN run.timeouts = 1
    ELSE run.responses = 1 /\ (mode = "rx-full" => run.reports = Burst)

Judge ==
    /\ main = "judge"
    /\ \/ /\ TimedOut
          /\ StopRuntime(TRUE)
          /\ main' = "finish"
       \/ /\ ~TimedOut /\ Follows
          /\ main' = "follow" /\ UNCHANGED shared
       \/ /\ ~TimedOut /\ ~Follows
          /\ main' = IF Achieved THEN "finish" ELSE "loop"
          /\ UNCHANGED shared
    /\ UNCHANGED <<app, run, pending, sockets, workers, outside>>

\* The second query, sent once when the connection is confirmed.  If there is
\* no room it is tried again in the next pass.
FollowUp ==
    /\ main = "follow"
    /\ LET wanted == app.state = "ONLINE" /\ run.followup = 0
           onward == main' = IF mode = "stream" THEN "settle" ELSE "loop"
       IN  \/ /\ wanted /\ RequestAccepted
              /\ run' = [run EXCEPT !.followup = pending.next]
              /\ onward
           \/ /\ ~wanted \/ (tx.open /\ RequestRefused)
              /\ onward /\ UNCHANGED <<run, pending, shared>>
           \/ /\ wanted /\ ~tx.open
              /\ StopRuntime(TRUE)
              /\ main' = "finish" /\ UNCHANGED <<run, pending>>
    /\ UNCHANGED <<app, sockets, workers, outside>>

\* The late reply ends the stream, which has to have exercised a timeout.
Settle ==
    /\ main = "settle"
    /\ \/ /\ run.unmatched = 0
          /\ main' = "loop" /\ UNCHANGED shared
       \/ /\ run.unmatched # 0 /\ (run.timeouts # 1 \/ run.reports = 0)
          /\ StopRuntime(TRUE)
          /\ main' = "finish"
       \/ /\ run.unmatched # 0 /\ run.timeouts = 1 /\ run.reports # 0
          /\ main' = "finish" /\ UNCHANGED shared
    /\ UNCHANGED <<app, run, pending, sockets, workers, outside>>

\* The end of run_manager, which also run_sessions reaches on every path.
Finish ==
    /\ main = "finish"
    /\ StopRuntime(FALSE)
    /\ app' = [app EXCEPT !.state = "OFFLINE"]
    /\ main' = "join"
    /\ UNCHANGED <<run, pending, sockets, workers, outside>>

WorkersAreDone == txThread.pc = "done" /\ rxThread.pc = "done" /\ peer.pc = "done"

\* A stream that lost a report, or repeated other than once, has failed.
Mismatch ==
    /\ mode = "stream" /\ ~interrupted /\ stop.kind = "NONE"
    /\ run.reports # peer.reports \/ run.retries # 1

\* Mutant: one connection too many.
AttemptsExhaustedTooLate == session > MaxReconnects + 1
AttemptsExhausted == session > MaxReconnects

\* join_runtime, cancel_pending and destroy_runtime, then the decision: only a
\* failure of the transport is followed by another connection.
Join ==
    /\ main = "join" /\ WorkersAreDone
    /\ pending' = [next |-> 1, active |-> {}]
    /\ LET again == ~interrupted /\ mode \in Reconnecting /\ stop.kind = "TRANSPORT"
       IN  \/ /\ ~again
              /\ main' = "return" /\ status' = IF stop.failed \/ Mismatch THEN 1 ELSE 0
           \/ /\ again /\ AttemptsExhausted
              /\ main' = "return" /\ status' = 1
           \/ /\ again /\ ~AttemptsExhausted
              /\ main' = "delay" /\ UNCHANGED status
    /\ UNCHANGED <<mode, session, app, run, shared, sockets, workers, late, interrupted>>

\* reconnect_delay, cut short by a signal.
Delay ==
    /\ main = "delay"
    /\ \/ /\ interrupted
          /\ main' = "return" /\ status' = 0 /\ UNCHANGED session
       \/ /\ ~interrupted
          /\ main' = "connect" /\ session' = session + 1 /\ UNCHANGED status
    /\ UNCHANGED <<mode, app, run, pending, shared, sockets, workers, late, interrupted>>

\* main: 128 stands for 128 plus the number of the signal.
Return ==
    /\ main = "return"
    /\ main' = "exit" /\ status' = IF interrupted THEN 128 ELSE status
    /\ UNCHANGED <<mode, session, app, run, pending, shared, sockets, workers, late, interrupted>>

\* The clock, the signal handler, and the state after exit.
LimitPasses ==
    /\ ~late /\ main \notin {"connect", "join", "delay", "return", "exit"}
    /\ late' = TRUE
    /\ UNCHANGED <<mode, session, app, main, run, pending, shared, sockets, workers, interrupted, status>>

Signal ==
    /\ ~interrupted /\ main # "exit"
    /\ interrupted' = TRUE
    /\ UNCHANGED <<mode, session, app, main, run, pending, shared, sockets, workers, late, status>>

Exited == main = "exit" /\ UNCHANGED vars

-------------------------------------------------------------------------------
MainStep ==
    \/ Connect \/ ConnectInterrupted \/ Start \/ Query \/ Loop \/ Hold \/ Take \/ Handle \/ Scan
    \/ Process \/ Judge \/ FollowUp \/ Settle \/ Finish \/ Join \/ Delay \/ Return
TxStep == TxTest \/ TxPop \/ TxSend
RxStep == RxTest \/ RxReceive \/ RxKeep \/ RxPush
PeerStep == PeerTest \/ PeerReceive \/ PeerAnswer

Next == MainStep \/ TxStep \/ RxStep \/ PeerStep \/ LimitPasses \/ Signal \/ Exited
Spec == Init /\ [][Next]_vars

\* The scheduler runs every thread that can run, and time goes on.
Fairness ==
    /\ WF_vars(MainStep) /\ WF_vars(TxStep) /\ WF_vars(RxStep) /\ WF_vars(PeerStep)
    /\ WF_vars(LimitPasses)
FairSpec == Spec /\ Fairness

-------------------------------------------------------------------------------
Positions == {"connect", "start", "query", "loop", "hold", "take", "handle", "scan", "process",
              "judge", "follow", "settle", "finish", "join", "delay", "return", "exit"}
Sequences == 0 .. 2
Frames == [type : {"NONE", "REPORT", "RESPONSE"}, sequence : Sequences, progress : 0 .. 100, serial : Nat]
Requests == [sequence : Sequences \ {0}, retries : 0 .. MaxRetries]

\* Every variable keeps to its type; the queues and sockets to their sizes, the
\* snapshot to what a device can report, and one request is in flight at most
\* (main.c:549 provides room for four).
TypeOK ==
    /\ mode \in Modes /\ session \in 1 .. MaxReconnects + 1
    /\ app.state \in {"OFFLINE", "SYNCING", "ONLINE"} /\ app.session \in 0 .. session
    /\ app.progress \in 0 .. 100 /\ app.notifications \in Nat
    /\ main \in Positions
    /\ run.sync \in Sequences /\ run.followup \in Sequences /\ run.frame \in Frames
    /\ pending.next \in 1 .. 3 /\ pending.active \in SUBSET Requests
    /\ Cardinality(pending.active) <= 1
    /\ stop \in [stopping : BOOLEAN, failed : BOOLEAN, kind : {"NONE", "INTERNAL", "TRANSPORT"}]
    /\ tx.items \in Seq(Sequences \ {0}) /\ Len(tx.items) <= QueueCapacity
    /\ rx.items \in Seq(Frames) /\ Len(rx.items) <= QueueCapacity
    /\ toHost \in Seq(Frames) /\ Len(toHost) <= SocketCapacity
    /\ toPeer \in Seq(Sequences \ {0}) /\ Len(toPeer) <= SocketCapacity
    /\ link \in {"up", "cut", "hung", "down"}
    /\ late \in BOOLEAN /\ interrupted \in BOOLEAN /\ status \in {-1, 0, 1, 128}

InHand == IF rxThread.frame = NoFrame THEN <<>> ELSE <<rxThread.frame>>
OnTheWay == rx.items \o InHand \o toHost

\* Back pressure loses nothing (main.c:302-327): until somebody stops the
\* connection, the frames between the device and the main thread are exactly
\* those sent and not yet taken, in order, whoever waits for whom.
BackpressureLosesNothing ==
    ~stop.stopping =>
        /\ Len(OnTheWay) = peer.sent - run.handled
        /\ \A i \in DOMAIN OnTheWay : OnTheWay[i].serial = run.handled + i

\* Online means that the device of this very connection has answered the query
\* that this connection sent (main.c:516-519, 758): a reply left over from an
\* earlier one, where the sequences were the same, does not count.
OnlineIsConfirmed ==
    app.state = "ONLINE" =>
        /\ app.session = session
        /\ run.sync \in peer.answered

\* While it reconnects, the program shows 40, then 80, and never 99 (README.md:
\* 157-158 of the example): that comes in a report before the connection is
\* confirmed, in a reply to nothing in flight and in a reply cut in half.
StaleSnapshotsNeverShow ==
    mode \in Reconnecting =>
        \/ app.progress \in {0, 40}
        \/ app.progress = 80 /\ session > 1 /\ mode = "reconnect"

\* An exit status of 0 means what the scenario is about has happened: no stop
\* of a worker for another reason is taken for success (main.c:124-135, 789).
SuccessIsEarned ==
    main = "exit" /\ status = 0 =>
        /\ mode \notin {"disconnect", "reconnect-timeout", "reconnect-exhausted"}
        /\ mode = "timeout" => run.timeouts = 1
        /\ mode = "stop-full" => rxThread.timedOut
        /\ mode \in {"normal", "retry", "rx-full"} => app.progress = 40 /\ run.responses = 1
        /\ mode = "rx-full" => run.reports = Burst /\ rxThread.timedOut
        /\ mode = "stream" => /\ run.reports = peer.reports /\ run.timeouts = 1
                               /\ app.notifications = run.reports + 1
        /\ mode = "reconnect" => session > 1 /\ app.progress = 80

\* Another connection is made only after the device broke the previous one: the
\* end of file that a stop itself causes is no failure of the transport
\* (main.c:139-140), whichever thread meets it first.
ReconnectsOnlyAfterBreak == main = "connect" /\ session > 1 => peer.broke

\* README.md:103-105 of the example: when the resynchronisation times out the
\* program exits, "a reconnection must not mask it".
ResyncTimeoutIsFinal == main = "connect" /\ session > 2 => run.timeouts = 0

\* Whatever fails and whenever, the workers are released, joined and the
\* program exits (main.c:574-581): no thread is left waiting for another.
ProgramEnds == <>(main = "exit")

\* The connection as the user interface is promised to see it.
Announced == INSTANCE Connection
    WITH Snapshots <- 0 .. 100, MaxSessions <- MaxReconnects + 1,
         state <- app.state, session <- app.session, snapshot <- app.progress
ImplementsConnection == Announced!Spec
===============================================================================
