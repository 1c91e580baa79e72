# communication_framework in TLA+

`communication_framework` is a small C library for request/response traffic
between a controller and a device over a byte stream. This directory models it
module by module, checks the models with TLC on small instances, and proves the
most important facts with TLAPS for every value of the constants.

Paths below are relative to the repository root (`src/` in the paths of
`PROJECT.json` is that root).

## 1. Inventory

| component | source | state | operations | modelled |
|---|---|---|---|---|
| frame queue core | `src/comm_frame_queue.c` | ring of frame slots, read/write index, used; caller-owned counters | init, reset, push, pop, (with_stats), stats_reset | yes |
| thread-safe queue | `ports/linux/comm_frame_queue_pthread.c` | core + mutex + `not_empty`/`not_full`, closed, counters | init, destroy, push, pop, close, get/reset_stats | yes, see 6 |
| frame channel | `src/comm_frame_channel.c`, pthread adapter | three function pointers | bind, push, pop, close | results only |
| message manager | `src/comm_message_manager.c` | pending slots, sequence cursor, counters | init, reset, send_request/response/report/error, handle_frame, process_timeouts, stats | yes |
| byte ring buffer | `src/comm_ringbuffer.c` | array of bytes, read/write index, used | init, reset, write, read, peek, discard | yes |
| stream parser | `src/comm_parser.c` | none of its own, works on a ring buffer; caller-owned counters | next, next_with_stats, stats_reset | yes |
| codec | `src/comm_codec.c` | none | encode, decode, CRC | yes, as operators |
| appliance manager and client | `examples/appliance_manager/` | the business model | init, handle_message_event, request_status | as the runtime uses it |
| Linux runtime | `examples/linux_runtime/main.c` | three worker threads, TX and RX queues, stop state, sessions | run, stop, join, reconnect | yes, see 6 |

How they interact. A *receiving* thread reads bytes into a ring buffer, the
parser takes frames out of it, and the thread pushes them into the RX queue. The
*manager task* (the main thread) pops the RX queue and calls the message
manager, whose synchronous callback updates the appliance model; it also pushes
requests, retries and replies into the TX queue. A *sending* thread pops the TX
queue, encodes and writes. The two queues are the only state threads share,
apart from a stop flag under its own mutex. The message manager has no lock and
must not be re-entered from its callback.

What makes each part correct, and what is hard to test:

* *Queue core*: equal indices mean full or empty; the ring must be a FIFO across
  wraps; counters sampled only at calls must still add up.
* *Thread-safe queue*: one signal per operation and two condition variables must
  not strand a waiter; deadlines race with arrivals; close must release everybody
  and still deliver what is queued; a failed step of init must leave nothing; a
  failed signal or unlock reports an error although the operation took effect.
* *Message manager*: two requests must never share a sequence number, although
  the numbers wrap and some are in use; reply, retry and timeout race over one
  slot and a request must end once; one refused retransmission must not hold up
  the others.
* *Ring buffer*: reads and writes are copied in two parts where they reach the
  end of the array.
* *Parser and codec*: after a false header or a bad check sum only one byte may be
  dropped; bytes of an unfinished frame must stay; the ring must never fill up with
  bytes that can neither become a frame nor be dropped.
* *Runtime*: several threads stop a connection for different reasons at once and
  the first decides whether there is another; a frame kept by the receiving thread
  while the queue is full must neither be lost nor keep anybody from ending; the
  main thread joins threads that may be blocked in four kinds of call; nothing of
  an old connection may reach the new one, whose requests carry the same numbers.

## 2. Modules

| module | role |
|---|---|
| `FrameQueueCore` | the ring as operators on a queue record: `AdvanceIndex`, `StateIsValid`, `Pushed`, `Popped`, `Front`, `Contents`, the saturating `Increment` |
| `BoundedFifo` | abstract: a sequence of at most `Capacity` frames |
| `FrameQueue` | the single-task queue with optional statistics |
| `FrameQueueCoreProofs`, `FrameQueueProofs` | lemmas about the ring, proofs about `FrameQueue` |
| `ClosableFifo` | abstract: each call takes effect at one instant on a FIFO that can be closed |
| `PthreadFrameQueue` | the shared queue |
| `PthreadFrameQueueProofs` | proofs about `PthreadFrameQueue` |
| `RequestLedger` | abstract: open requests, without slots and sequence numbers |
| `MessageManager` | the message manager |
| `MessageManagerProofs`, `MessageLedgerProofs` | proofs about `MessageManager`, and that it implements `RequestLedger` |
| `ByteStream` | abstract: a sequence of at most `Capacity` bytes, written and read in pieces |
| `RingBuffer`, `RingBufferProofs` | the byte ring, and proofs about it |
| `CheckSum` | the CRC, for bytes of any width |
| `Codec` | encoding and decoding of a frame, over any check sum |
| `Parser`, `ParserProofs` | a line, the byte ring and the parser, and proofs about them |
| `Connection` | abstract: what the user interface is promised to see of the connection |
| `Runtime`, `RuntimeProofs` | the host program, and proofs about it |
| `MCFrameQueue`, `MCPthreadFrameQueue`, `MCMessageManager`, `MCRingBuffer`, `MCParser`, `MCRuntime` | instances for TLC |

Definitions whose comment begins with "Mutant" are wrong on purpose: they state
a plausible bug in the definition below them and no action uses them. Checking
with one of them in place of the right definition shows that the property it is
paired with in `PROJECT.json` really depends on the code.

### FrameQueue

`queue` is `comm_frame_queue_t` (`configured` stands for a storage pointer and a
capacity), `stats` the caller's counters, `reply` what the last call returned.
A call is one action per outcome (`PushOk`, `PushFull`, ...), since one task owns
the queue; `counting` says whether it passed a stats object. `account` and
`highWater` are history variables: `account.carry` is the part of the depth the
counters do not explain, and the books are closed by a call made without stats or
by a counter that saturates, so the properties say nothing then. The null checks
of arguments have no state and are left out in every module.

### PthreadFrameQueue

Everything is read and written under one mutex, so the code between two
acquisitions of it is one action; the mutex itself is not a variable. A thread is
`idle`, `locking` (it has called and wants the mutex), `waiting` on the condition
variable of its operation, `woken` (signalled or spuriously, wants the mutex) or
`timedout` (the wait ended by the deadline, wants the mutex). Between being woken
and getting the mutex other threads may barge in.

`expired[t]` says that the absolute deadline of the call has passed: it is
computed once per call, so a later wait of the same call ends at once.
`DeadlinePasses` may happen anywhere in a call with a deadline. System calls
listed in the constant `Faults` may fail at any time; a failed unlock changes the
result and is taken to have released the mutex. The bodies of push and pop are
`PushWaits`, `PushWontWait`, `PushTimesOut`, `PushFindsClosed`, `PushCommits` and
their counterparts. `init` is one action for success and one for the failure of
any of its steps, with the table of what the failing branch destroys. A thread
destroys and initialises only when nobody is inside, which the header demands.

`TimeoutMayConsumeSignal` says whether a wait that timed out may absorb a signal.
POSIX permits it; glibc, for which the port is built, passes the signal on. The
passing safety and liveness runs assume glibc's behaviour.

### MessageManager

One task owns the manager and the callback does not re-enter it, so each call is
one action, by outcome. `pending` keeps what the code leaves in a released slot.
A frame's content is reduced to the number of the request (`request`), a history
that names requests in the order sent. The transmit channel is external: it
accepts or refuses each push (`ChannelResults` are the manager's own results,
after `map_channel_result`). The peer may answer with any sequence number at any
time, so late, lost, duplicated and made-up replies are all covered.
`ProcessTimeouts` is the whole scan: a slot's fate depends only on the slot and
on the answer to its own push (`pushed`), so it is stated slot by slot; events
of one scan form a set. `clock` is the caller's monotonic clock, which stops at
`MaxTime` (`UINT64_MAX`), where deadlines saturate. `sequenceOf` is a history.
Payload sizes and null arguments are left out.

### RingBuffer

`ring` is `comm_ringbuffer_t` with the contents of its array, `reply` the result and
the bytes the last call delivered. One action per call and outcome; the two copies
of a write and of a peek are the two cases of the array in `Written` and `Peeked`,
split by `FirstPart`. A caller may ask
for any offset and length up to `MaxLength`, too long ones included.

### Codec, CheckSum, Parser

A frame has a kind (the code's version and type, both of which the decoder
checks) and a payload; the sequence number of the header, copied like the payload,
is left out, so the header has two sync bytes, the kind and the length. Bytes are numbers below `Base`, so that the high and low
halves of the 16-bit fields, the sync bytes and the range of the check sum keep
their roles with small bytes. `Codec` takes the check sum as a constant operator:
the proofs use only that it fits its two bytes; the run uses `CheckSum`, which is
the code's bitwise loop.

`Parser` puts encoded frames onto a `wire` that may lose bytes or add some, reads
pieces of it into the ring and calls the parser. The ring is what `RingBuffer`
is shown to implement, a sequence: `stream` is every byte that entered it,
`consumed` how many have left. `Verdict(s, p)` is one turn of the parser's loop with
the byte at `p` in front: garbage, oversized, refused by the decoder, a frame, or
not enough data. A call is one action, for the ring and the parser belong to one
thread: it drops bytes one at a time up to the first place whose verdict ends the
loop (`Skips`), and returns there (`NeedMoreData`, `FrameReady`). `sent`, `delivered`,
`starts` and `account` are histories.

### Runtime

Four threads, each with a program counter: `main` (the manager task, which is also
the one that connects, joins and reconnects), `txThread`, `rxThread` and `peer`, the
device the program simulates. They share the two queues, the two directions of
the socket pair (`toPeer`, `toHost`, `link`) and the stop record. Every call on
a queue, on a socket or of the stop is a step of its own; what a thread does
between two of them touches nothing shared. In particular the tests of the stop
flag at the head of each loop are steps, so a stop may come between the test and
the call that follows.

`Stop` is `stop_with_kind`, one step because it is one critical section of the
stop mutex: the first reason stays, the queues close, the socket goes down.
The queues do what `ClosableFifo` promises, which `PthreadFrameQueue` is shown to
implement; the message manager is reduced to what it does with one request in
flight; a frame crosses the socket whole, which `Parser` justifies, and one cut
short by a stop or by the device is never delivered. Time is a choice: a
bounded wait may end at any moment, a reply may be overdue whenever the timeouts
are looked at, `late` may be set once per connection. `Scripts` are the answers of
the device for each scenario (`mode`), in the order it gives them. A signal may
come at any time, any of the three threads may fail to start, and `init_runtime`
may fail.

`run` holds what only the main thread uses (counters of the test scenario, the
number of the synchronising and of the second query, the frame it has just taken).
`serial`, `peer.sent` and `run.handled` number the frames of a connection and are
histories, as are `peer.answered` and `peer.broke`.

## 3. Runs

| run | instance | shows |
|---|---|---|
| `frame_queue` | 3 slots, 2 frames, counters saturate at 4 | `ImplementsFifo` (refines `BoundedFifo`), `ConfiguredIsValid`, `CountersExplainDepth`, `PeakIsHighWater` |
| `pthread_safety` | 2 producers, 2 consumers, 2 slots, 2 frames; init, lock, wait and unlock may fail | `ImplementsClosableFifo`, `NoStrandedWaiter`, `AllObjectsOrNone`, `CoreStaysValid` |
| `pthread_stats` | 2+2 threads, 1 slot, 5 calls; wait, signal and broadcast may fail | `CountersExplainDepth`, `EncountersCoverTimeouts` |
| `pthread_liveness` | 1 producer, 2 consumers, 1 slot, no faults | `CloseReleasesAll`, `DeadlineIsHonoured` |
| `pthread_timeout` | 1+1 threads | violated: `TimeoutMeansBlocked` (finding) |
| `pthread_signal` | 1+2 threads, `TimeoutMayConsumeSignal` | violated: `NoStrandedWaiter` (finding) |
| `manager_safety` | 2 slots, sequences 1..3, window 2, 1 retry, clock 0..4, 4 requests | `ImplementsLedger` (refines `RequestLedger`), `InitialisedStateIsValid`, `ReuseIsDistant`, `EveryRequestEnds` |
| `manager_stats` | 3 slots but 2 sequences, 3 requests, 4 counted calls | `CountersExplainPending` |
| `ring_buffer` | 2 bytes, array of 4, lengths and offsets 0..5 | `ImplementsByteStream` (refines `ByteStream`), `ConfiguredIsValid` |
| `parser` | bytes of 2 bits, payload of at most 1, ring of 8, reads of at most 3, 2 frames, 1 fault, counters saturate at 6 | `LeftmostFramesDelivered`, `NeverStuck`, `CleanLineIsLossless`, `OnlyEncodingsAccepted`, `CountersExplainBytes` |
| `runtime` | all 11 scenarios, queues and sockets of 1 frame, burst of 3, 2 reconnects, 1 retry, at most 2 stream reports | `ImplementsConnection` (refines `Connection`), `ProgramEnds`, `BackpressureLosesNothing`, `OnlineIsConfirmed`, `StaleSnapshotsNeverShow`, `SuccessIsEarned`, `ReconnectsOnlyAfterBreak` |
| `runtime_mask` | scenario `reconnect-exhausted`, queues and sockets of 2 frames | violated: `ResyncTimeoutIsFinal` (finding) |

Bounds, and why they are enough. Three slots are the fewest in which an index can
wrap while the ring is neither empty nor full. Two threads on each side let one
barge in between a signal and the thread it woke; two slots let two signals be on
the way at once. `MaxCalls` bounds the calls counted by statistics: five make a
timeout, a reset and a later timeout of calls that straddle it. Three sequence
numbers and four requests make the numbers wrap past one still in use; more slots
than numbers make them run out. `MaxTime` is small enough that deadlines saturate
and large enough for a request to use up its retries before that. `MaxCount` only
has to be reached. In an array of four, requests of up to five meet every position
of the wrap and every refusal. Two frames and one fault let a cut frame swallow
the beginning of the next; the ring of 8 is the smallest the parser accepts, so it
fills up as soon as it can. A queue and a socket of one frame make every thread
wait for every other, and a burst of three overfills both; two reconnects are the
fewest in which the last one, one in the middle and the first differ. The code's
queues hold 2 frames, its burst is 16 and it reconnects twice; the proofs cover
every such choice.

Symmetry is used in the safety runs of the queues only (frames, and threads of
one side, are interchangeable), never with liveness.

Fairness. In `pthread_liveness`: a thread that could act once it had the mutex
eventually does (the mutex is handed round), deadlines pass and the wait they end
ends. Nothing is assumed about callers, spurious wake-ups or failures. In
`manager_safety`: the clock advances, and the owner keeps calling
`process_timeouts` (the main loop does so every 10 ms); the channel may refuse any
number of frames but not the retries of one request for ever, which holds because
the sending thread drains the TX queue or the session is stopped. The other
calls have no fairness. In `runtime`: each of the four threads takes its steps as
long as it can (the scheduler runs every runnable thread), and the run limit, read
from the monotonic clock, passes. Nothing is assumed of signals or of the choices
made for time, and `ProgramEnds` holds in every scenario.

Deadlock is checked in every run.

## 4. What the violations show

* `TimeoutMeansBlocked`: `ETIMEDOUT` leads straight to `TIMEOUT`, although the
  thread took the mutex back after others may have made room. The documents say
  the counter counts timeouts because the queue was full.
* `NoStrandedWaiter` under POSIX' licence: a signal consumed by a timed-out wait
  is lost, because that call neither takes the frame nor signals again.

* `ResyncTimeoutIsFinal`: the main thread counts the final timeout of the
  synchronising query (`examples/linux_runtime/main.c` 684), and stops for it
  afterwards (694-697). In between the receiving thread may meet the end of the
  connection and stop first, for the transport; the first reason decides, and the
  program reconnects (811). The example's README (104-105) says that a
  resynchronisation that times out makes the program exit and must not be masked by
  a reconnection. The window is narrow, and the device of the scenario has to break
  the connection in it.

Smaller observations, not made into runs: `make_deadline` saturates so that a
request is not taken to have expired (its comment), yet at the very end of the
clock a request is due the moment it is sent. A pop whose signal fails returns
`SYSTEM_ERROR` with the frame already written, while the header says only a
success writes it.

## 5. Proofs

All proofs are checked by TLAPS without assumptions other than the named ASSUMEs
on constants: capacities, the counter limit, the number of sequences and the
response timeout are positive, `NoFrame` is no frame, threads are finitely many and
none is both a producer and a consumer, `Faults` and `StatsModes` range over
what they name, the parser's ring holds a frame of the greatest size, the check
sum fits two bytes, a burst is larger than the queue and counts up to at most 100
(percent).

`FrameQueueCoreProofs`: lemmas about the ring, used by both queues. A push appends
to `Contents` and a pop removes its head (`PushedContents`, `PoppedContents`). They
rest on `AdvanceIndexInjective` (distinct offsets below the capacity are distinct
slots) and `AdvanceIndexComposes` (advancing twice is advancing by the sum).

`FrameQueueProofs`

* `TypeCorrect`, `Safety`, `CountersSafe`, `PeakSafe`: `Spec => []` of `TypeOK`,
  `ConfiguredIsValid`, `CountersExplainDepth` and `PeakIsHighWater`. Their
  conjunction is inductive: the state check alone is not, because
  `write = AdvanceIndex(read, used)` is preserved only if the indices are in range,
  which it includes; the peak needs the depth.
* `Refinement`: `Spec => ImplementsFifo`.

`PthreadFrameQueueProofs`, for any sets of producers and consumers

* `TypeCorrect` and `Safety`: `Spec => []` of `TypeOK` and `CoreStaysValid`. The
  inductive invariant `IInv` has three parts. `ThreadsOK`: positions and calls match,
  only a call with a deadline expires, and only an expired call is `timedout`.
  `BooksOK`: the types of the statistics. `ObjectOK`: a queue in use is sound; one not
  in use is empty and open, with nobody inside.
* `ObjectsAllOrNone`, `CountersSafe`, `EncountersSafe`: `AllObjectsOrNone`,
  `CountersExplainDepth` and `EncountersCoverTimeouts`. With "the books are open only
  on an initialised queue with statistics" they are inductive relative to `IInv`
  (`BooksBalance`). While the books are open every amount is counted in full; the
  encounters bound the time-outs because a thread that goes to sleep adds one to
  both sides, and one that times out moves from the sleepers to the counter.
* `NoWakeupLost`: `SignalsArrive => (Spec => []NoStrandedWaiter)`, where
  `SignalsArrive` says that signal and broadcast do not fail and that a wait that
  timed out absorbs no signal. `AllServed`, the property for each condition
  variable, is inductive relative to `IInv`. Per step it comes down to three
  facts about the sleepers, the woken and the work left: `ServedMore` (a step
  that adds sleepers or work for neither side), `ServedTaken` (a woken thread
  takes one piece of work), and `ServedSignalled` (one more piece of work, one
  sleeper woken). A thread that barges in and takes work without having been
  woken only leaves more woken threads than work. A thread that goes to sleep
  has found no work.
* `Refinement`: `Spec => ImplementsClosableFifo`, with every fault and with either
  behaviour of signals. The last conjuncts of `ThreadsOK` are what shows that a
  call ended by its deadline was one that had a deadline.

`MessageManagerProofs`. Nothing is assumed about the number of slots, so it covers
more slots than sequence numbers.

* `TypeCorrect` and `Safety`: `Spec => []` of `TypeOK` and
  `InitialisedStateIsValid`. The latter is inductive once the cursor and the slots
  are typed. A new request takes a number no open request has; a retry is counted
  only below the limit; all other steps can only close slots (`StateCheckKept`). The
  numbers stay in `1 .. MaxSequence` because the search, the successor and the wrap
  all do (`AheadType`, `NextSequenceType`).
* `CountersSafe`: `CountersExplainPending`, inductive with "the books are open only
  if there are statistics". A scan ends and retries any number of requests in one
  step, so its balance is one of cardinalities: the slots open before it are those
  still open and, disjointly, those it ended (`ScanBalance`).
* `ReuseSafe`: `ReuseIsDistant`. The property is not inductive: it says nothing of
  where the cursor is. `Spread` adds that each request `k` since the last reset is
  either distant already or on its first lap (`OnFirstLap`): the sequences the
  cursor has passed since `k`, plus the sequences of open requests still in its
  way, are fewer than `PendingCapacity` plus the requests sent since. A send that
  skips sequences pays for each one with a request that no longer is in the way;
  one that the cursor meets on this lap was in its way when the lap began, so at
  most `PendingCapacity - 1` are ever skipped, and closing a request only removes
  it from the way. When the cursor comes back to `k`'s own sequence it has passed
  `MaxSequence - 1`, so more than `MaxSequence - PendingCapacity` requests were sent
  since `k`.

`MessageLedgerProofs`

* `Refinement`: `Spec => ImplementsLedger`. `Numbered`: an active slot holds a request
  that was sent, and no other slot holds the same. So the entry of an open request
  is that of its one slot (`EntryOfSlot`), and each step is reduced to what it does
  to the active slots: `SendOpens`, `ReplyCloses`, `SetUpCloses`. A scan is the hard
  one: what each slot answered to the due request determines which requests ended,
  which were retried and which were refused, and these are the sets the ledger's
  scan chooses (`ScanServesSlots`).

`RingBufferProofs`, for any array and any lengths

* `TypeCorrect` and `Safety`: `Spec => []` of `TypeOK` and `ConfiguredIsValid`.
* `Refinement`: `Spec => ImplementsByteStream`. `WrittenContents`: the two copies of
  a write append to the bytes held; `PeekedContents` and `DiscardedContents`: what
  is read is that part of them, and what stays is the rest.

`ParserProofs`, for any bytes, check sum, payload limit, ring and line

* `TypeCorrect`, `Safety`, `NeverFull`: `Spec => []` of `TypeOK`,
  `LeftmostFramesDelivered` and `NeverStuck`. The verdict on a place depends only on
  the bytes from there to the end of its frame, so it does not change when bytes
  arrive, unless it was "not enough data": places that were passed keep their
  verdict. `NeverStuck` follows from the order of the tests: what waits has a length
  that was checked, so its frame fits the ring.
* `DecodeInvertsEncode`, `EncodeInvertsDecode`: on the frames the encoder takes, the
  codec's two halves are inverse to each other.
* `AcceptedSafe`: `OnlyEncodingsAccepted`, from `LeftmostFramesDelivered` and
  `EncodeInvertsDecode`.
* `CountersSafe`: `CountersExplainBytes`. Inductive with "the bytes accounted for do
  not exceed those consumed" (`Balanced`); a call drops the bytes between two places
  and consumes a frame or nothing.
* `CleanLineSafe`: `CleanLineIsLossless`. On a clean line the bytes received followed by
  those on the wire are the encodings of the frames sent, one after the other
  (`Layout`), and the parser stands where the first frame it has not delivered
  begins (`Lossless`). So the verdict there is that frame, or "not enough data" while
  part of it is still on the wire (`FrameOnLine`), and no byte is dropped.

`RuntimeProofs`, for any scenarios, queues, sockets, bursts, retries and reconnects.
The inductive invariant `IInv` has six parts, each with its step lemma.

* `Types`: the types and sizes. The number of the second query is 2 because of
  `RequestsOK`; the number of connections is bounded because of `SessionOK`.
* `SessionOK`: where the main thread is and the state of the connection match, and
  outside a connection no worker runs. That is why nobody stops a connection while
  it is being set up.
* `ReasonOK`: a socket that is not up was broken by the device or shut down by a
  stop, so a thread that blames the transport is either too late to be heard, or
  right.
* `RequestsOK`: at most one request is in flight, and while the connection is being
  synchronised it is the synchronising query.
* `RepliesOK`: every reply on its way, queued, held or taken, was sent by the
  device of this connection.
* `SerialsOK`: the frames in the queue, in the receiving thread's hand and in the
  socket are numbered consecutively after the last one taken, until a stop.

Two more invariants follow what a scenario's script makes of the frames *afoot*: in
the socket, the queue or a thread's hand, or still in the device's script, each
with the number it has or will have (`Afoot`). Each is inductive relative to `IInv`,
the second also to the first.

* `ScriptsOK`, in every scenario but the stream: reports come first, and replies say
  what the scenario's connection may show (`FramesOK`). So once a connection is
  confirmed, its reports are behind the main thread (`HandOK`), and before that they
  are ignored. The one frame of a reconnection with a wrong snapshot answers the
  second query, which is asked on the first connection only (`OnceOK`), so it is
  matched by nothing. What was shown follows (`ShownOK`).
* `SuccessOK`: before the main thread ends the connection itself, a stop is a failure
  (`StopOK`), so success has three ways. One is that the main thread saw what it
  waited for; `HoldOK` adds that consumption was held back until the receiver's
  push timed out, and `ShownOK` what is displayed. The second is the end of a stream:
  its reports have the numbers `2 .. k + 1` and are counted as they are taken
  (`FlowOK`, `NumbersOK`, `AskedOK`); replies and time-outs add up to the requests that
  ended (`CountsOK`), so the late reply comes after one time-out; each report is a
  change of what is displayed, so each is notified (`DisplayOK`). The third is the
  time-out of a connection that never takes a frame. `EarnedOK` carries what was
  earned to the exit.

Theorems: `TypeCorrect`, `Spec => []TypeOK`; `ConfirmationSafe`, of
`OnlineIsConfirmed` (from `SessionOK` and `RepliesOK`); `ReconnectSafe`, of
`ReconnectsOnlyAfterBreak` (from `ReasonOK`); `Safety`, of `BackpressureLosesNothing`
(from `SerialsOK`); `Refinement`, `Spec => ImplementsConnection`: a reply changes the
displayed snapshot before the connection is online only by confirming it, since
only the synchronising query can be matched then; `StaleSafe`, of
`StaleSnapshotsNeverShow` (from `ScriptsOK`); `SuccessSafe`, of `SuccessIsEarned` (from
`SuccessOK`).

Only model-checked: what the code's CRC computes (a fold over the bytes; the proofs hold
for any check sum that fits its two bytes), and all liveness (fairness is out of the prover's
reach). Every safety invariant and every refinement that a passing run checks is a
theorem. The properties of the runs that find a violation are false with the settings
of those runs; `NoWakeupLost` says under which `NoStrandedWaiter` is true.

## 6. Not modelled

* `comm_frame_queue_pthread_destroy` failing half way (611-621): it leaves
  `initialized` set over destroyed condition variables, and the retry its result
  invites is undefined behaviour.
* A mutex that stays locked because unlock failed.
* `get_stats` in both components: it changes no state.
* The sequence number of a frame on the wire, copied like the payload.
* The validation of a business snapshot, `appliance_manager_reset` and a rejected
  reply: the device the program simulates sends valid snapshots, and nobody resets.
* Failures of `clock_gettime` and `nanosleep`, and of `send` and `recv` while the
  connection is up: they stop the program like the failures that are modelled. Aborts.
* Frames split over several reads in the runtime: the parser's model does that.
* Unit tests and documents, which are read for what they say of the program.

## 7. Plan

1. The appliance manager as a module of its own, if it is used with snapshots that
   may be invalid.
2. A second host program, or another port of the queue, would replace `Runtime` or
   `PthreadFrameQueue` under the same abstract modules.
