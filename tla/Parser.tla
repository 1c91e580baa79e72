-------------------------------- MODULE Parser --------------------------------
(***************************************************************************)
(* src/src/comm_parser.c between a line and its user: frames are encoded    *)
(* onto a line that may lose or add bytes, arrive in pieces in the byte     *)
(* ring of the receiver, and are found again by comm_parser_next.  The ring *)
(* is what RingBuffer is shown to implement, a sequence of bytes: it holds  *)
(* stream[consumed + 1 ..].  Parser and ring belong to one task, so a call  *)
(* is one step.                                                             *)
(***************************************************************************)
EXTENDS Codec, FiniteSets

CONSTANTS
    Capacity,     \* of the byte ring
    ChunkSize,    \* bound: the most bytes one read from the line returns
    MaxCount,     \* value at which the counters saturate: 2^64 - 1
    SentFrames,   \* what senders encode; kinds outside Kinds are another version's
    MaxSent,      \* bound: frames sent
    MaxFaults     \* bound: faults of the line

\* comm_parser_next refuses a smaller ring with RINGBUFFER_TOO_SMALL.
ASSUME CapacityAssumption == Capacity \in Nat /\ Capacity >= MaxEncodedSize
ASSUME MaxCountAssumption == MaxCount \in Nat \ {0}
ASSUME ChunkAssumption == ChunkSize \in Nat
ASSUME SentAssumption == SentFrames \subseteq [kind : Bytes, payload : Payloads(MaxPayload)]
ASSUME BoundAssumption == MaxSent \in Nat /\ MaxFaults \in Nat

VARIABLES
    wire,        \* bytes on their way
    stream,      \* every byte written to the ring so far
    consumed,    \* how many of them have been discarded or delivered
    stats,       \* comm_parser_stats_t
    result,      \* of the last call
    sent,        \* history: the frames put on the line
    delivered,   \* history: the frames returned with FRAME_READY
    starts,      \* history: where in the stream they began
    faults,      \* history: faults of the line
    account      \* history: what the counters should explain

vars == <<wire, stream, consumed, stats, result, sent, delivered, starts, faults, account>>

StatsRecord ==
    [frames_ready : 0 .. MaxCount, discarded_bytes : 0 .. MaxCount,
     oversized_length_candidates : 0 .. MaxCount, decode_errors : 0 .. MaxCount,
     crc_errors : 0 .. MaxCount]
NoStats ==
    [frames_ready |-> 0, discarded_bytes |-> 0, oversized_length_candidates |-> 0,
     decode_errors |-> 0, crc_errors |-> 0]

Buffered == Len(stream) - consumed

-------------------------------------------------------------------------------
\* comm_parser_increment_counter, n times
Increased(counter, n) == IF counter + n > MaxCount THEN MaxCount ELSE counter + n

\* The ring as seen with the byte at p of the stream s at its front.
Rest(s, p) == SubSeq(s, p, Len(s))

\* Mutant: an oversized length waits for its payload.
VerdictTrustsLength(s, p) ==
    LET rest == Rest(s, p)
        available == Len(rest)
    IN  IF rest[1] # Sync0 THEN "GARBAGE"
        ELSE IF available < 2 THEN "PARTIAL"
        ELSE IF rest[2] # Sync1 THEN "GARBAGE"
        ELSE IF available < HeaderSize THEN "PARTIAL"
        ELSE IF available < EncodedSize(rest) THEN "PARTIAL"
        ELSE Decode(SubSeq(rest, 1, EncodedSize(rest)))

\* One turn of the loop of comm_parser_next_internal, with the byte at p of a
\* stream s at the front of the ring: what it makes of a candidate frame there.
Verdict(s, p) ==
    LET rest == Rest(s, p)
        available == Len(rest)
    IN  IF rest[1] # Sync0 THEN "GARBAGE"
        ELSE IF available < 2 THEN "PARTIAL"
        ELSE IF rest[2] # Sync1 THEN "GARBAGE"
        ELSE IF available < HeaderSize THEN "PARTIAL"
        ELSE IF PayloadLength(rest) > MaxPayload THEN "OVERSIZED"
        ELSE IF available < EncodedSize(rest) THEN "PARTIAL"
        ELSE Decode(SubSeq(rest, 1, EncodedSize(rest)))

\* The frame found at p, and how many bytes it takes.
SizeAt(s, p) == EncodedSize(Rest(s, p))
BytesAt(s, p) == SubSeq(Rest(s, p), 1, SizeAt(s, p))
FrameAt(s, p) == Decoded(BytesAt(s, p))

Ends == {"PARTIAL", "OK"}

\* Mutant: a candidate that does not decode is dropped as a whole.
SkipsWholeCandidates(stop) ==
    /\ stop > consumed
    /\ \A p \in consumed + 1 .. stop - 1 :
          \/ Verdict(stream, p) \notin Ends
          \/ \E q \in consumed + 1 .. p - 1 :
                Verdict(stream, q) = "CRC_MISMATCH" /\ p < q + SizeAt(stream, q)

\* The loop drops one byte at a time up to stop, where it ends: at a frame, at
\* the beginning of what may become one, or at the end of the data.
Skips(stop) ==
    /\ stop > consumed
    /\ \A p \in consumed + 1 .. stop - 1 : Verdict(stream, p) \notin Ends

\* Mutant: a candidate that is too long is counted but not its dropped byte.
CountedSkipsOversizedByte(s, stop) ==
    LET Seen(verdicts) ==
            Cardinality({p \in consumed + 1 .. stop - 1 : Verdict(stream, p) \in verdicts})
    IN  [s EXCEPT !.discarded_bytes = Increased(@, stop - 1 - consumed - Seen({"OVERSIZED"})),
                  !.oversized_length_candidates = Increased(@, Seen({"OVERSIZED"})),
                  !.decode_errors = Increased(@, Seen({"INVALID_KIND", "CRC_MISMATCH"})),
                  !.crc_errors = Increased(@, Seen({"CRC_MISMATCH"}))]

\* What a call that drops the bytes before stop adds to the counters.
Counted(s, stop) ==
    LET Seen(verdicts) ==
            Cardinality({p \in consumed + 1 .. stop - 1 : Verdict(stream, p) \in verdicts})
    IN  [s EXCEPT !.discarded_bytes = Increased(@, stop - 1 - consumed),
                  !.oversized_length_candidates = Increased(@, Seen({"OVERSIZED"})),
                  !.decode_errors = Increased(@, Seen({"INVALID_KIND", "CRC_MISMATCH"})),
                  !.crc_errors = Increased(@, Seen({"CRC_MISMATCH"}))]

\* The counters explain the bytes consumed since account.from, as long as every
\* call is a counting one; account.framed of them were in frames.
Accounted(counting, size) ==
    [account EXCEPT !.exact = @ /\ counting, !.framed = @ + size]

-------------------------------------------------------------------------------
Init ==
    /\ wire = << >> /\ stream = << >> /\ consumed = 0
    /\ stats = NoStats /\ result = "NONE"
    /\ sent = << >> /\ delivered = << >> /\ starts = {} /\ faults = 0
    /\ account = [exact |-> TRUE, from |-> 0, framed |-> 0]

\* The line.  A sender encodes a frame onto it ...
Send(frame) ==
    /\ Len(sent) < MaxSent
    /\ wire' = wire \o Encode(frame)
    /\ sent' = Append(sent, frame)
    /\ UNCHANGED <<stream, consumed, stats, result, delivered, starts, faults, account>>

\* ... it loses the next n bytes, or delivers one that nobody sent.
Lose(n) ==
    /\ faults < MaxFaults
    /\ wire' = SubSeq(wire, n + 1, Len(wire))
    /\ faults' = faults + 1
    /\ UNCHANGED <<stream, consumed, stats, result, sent, delivered, starts, account>>

Noise(byte) ==
    /\ faults < MaxFaults
    /\ wire' = <<byte>> \o wire
    /\ faults' = faults + 1
    /\ UNCHANGED <<stream, consumed, stats, result, sent, delivered, starts, account>>

\* Mutant: a read is not cut to the free space of the ring.
ReceiveAnyAmount(n) ==
    /\ n <= Len(wire) /\ n <= ChunkSize
    /\ stream' = stream \o SubSeq(wire, 1, n)
    /\ wire' = SubSeq(wire, n + 1, Len(wire))
    /\ result' = "NONE"
    /\ UNCHANGED <<consumed, stats, sent, delivered, starts, faults, account>>

\* A read from the line is cut to the free space of the ring (receive_frame).
Receive(n) ==
    /\ n <= Len(wire) /\ n <= ChunkSize /\ n <= Capacity - Buffered
    /\ stream' = stream \o SubSeq(wire, 1, n)
    /\ wire' = SubSeq(wire, n + 1, Len(wire))
    /\ result' = "NONE"
    /\ UNCHANGED <<consumed, stats, sent, delivered, starts, faults, account>>

\* comm_parser_next and, counting, comm_parser_next_with_stats, by outcome.
NeedMoreData(stop, counting) ==
    /\ Skips(stop)
    /\ stop <= Len(stream) => Verdict(stream, stop) = "PARTIAL"
    /\ consumed' = stop - 1
    /\ stats' = IF counting THEN Counted(stats, stop) ELSE stats
    /\ account' = Accounted(counting, 0)
    /\ result' = "NEED_MORE_DATA"
    /\ UNCHANGED <<wire, stream, sent, delivered, starts, faults>>

FrameReady(stop, counting) ==
    /\ Skips(stop) /\ stop <= Len(stream) /\ Verdict(stream, stop) = "OK"
    /\ consumed' = stop - 1 + SizeAt(stream, stop)
    /\ stats' = IF counting
                THEN [Counted(stats, stop) EXCEPT !.frames_ready = Increased(@, 1)]
                ELSE stats
    /\ account' = Accounted(counting, SizeAt(stream, stop))
    /\ result' = "FRAME_READY"
    /\ delivered' = Append(delivered, FrameAt(stream, stop))
    /\ starts' = starts \cup {stop}
    /\ UNCHANGED <<wire, stream, sent, faults>>

\* comm_parser_stats_reset
StatsReset ==
    /\ stats' = NoStats
    /\ account' = [exact |-> TRUE, from |-> consumed, framed |-> 0]
    /\ UNCHANGED <<wire, stream, consumed, result, sent, delivered, starts, faults>>

Next ==
    \/ \E frame \in SentFrames : Send(frame)
    \/ \E n \in 1 .. Len(wire) : Lose(n) \/ Receive(n)
    \/ \E byte \in Bytes : Noise(byte)
    \/ \E stop \in consumed + 1 .. Len(stream) + 1, counting \in BOOLEAN :
          NeedMoreData(stop, counting) \/ FrameReady(stop, counting)
    \/ StatsReset

Spec == Init /\ [][Next]_vars

-------------------------------------------------------------------------------
TypeOK ==
    /\ {wire, stream} \subseteq Seq(Bytes)
    /\ consumed \in 0 .. Len(stream) /\ Buffered <= Capacity
    /\ stats \in StatsRecord
    /\ result \in {"NONE", "NEED_MORE_DATA", "FRAME_READY"}
    /\ {sent, delivered} \subseteq Seq([kind : Bytes, payload : Seq(Bytes)])
    /\ starts \subseteq 1 .. consumed
    /\ faults \in Nat
    /\ account \in [exact : BOOLEAN, from : Nat, framed : Nat]

\* Whatever the line did, the parser has delivered exactly the frames found by
\* reading the consumed bytes from the left: a valid frame is lost only inside
\* an earlier one.  Neither how the bytes were cut into reads nor a false
\* header, a bad check sum or a length that is too long swallows a frame.
InsideFrame(p) == \E q \in starts : q < p /\ p < q + SizeAt(stream, q)
LeftmostFramesDelivered ==
    \A p \in 1 .. consumed :
        p \in starts <=> Verdict(stream, p) = "OK" /\ ~InsideFrame(p)

\* A call that finds no frame leaves less than one frame in the ring, so that
\* its reader has room for more (receive_frame would give the session up).
NeverStuck == result = "NEED_MORE_DATA" => Buffered < MaxEncodedSize

\* Over a line without faults every frame arrives, unchanged, once, in order,
\* and nothing is discarded on the way.
CleanLineIsLossless ==
    faults = 0 /\ (\A i \in 1 .. Len(sent) : sent[i].kind \in Kinds) =>
        /\ delivered = SubSeq(sent, 1, Len(delivered)) /\ stats.discarded_bytes = 0
        /\ wire = << >> /\ result = "NEED_MORE_DATA" => delivered = sent

\* No bytes but its encoding are accepted for a frame, and no frame that the
\* codec would refuse to encode is ever returned.
OnlyEncodingsAccepted ==
    \A p \in starts :
        /\ FrameAt(stream, p) \in Frames
        /\ BytesAt(stream, p) = Encode(FrameAt(stream, p))

\* The counters, up to saturation: every consumed byte is discarded or part of
\* a frame; each refused candidate cost one byte; CRC errors are decode errors.
CountersExplainBytes ==
    /\ stats.crc_errors <= stats.decode_errors
    /\ account.exact =>
          /\ stats.discarded_bytes = Increased(0, consumed - account.from - account.framed)
          /\ stats.discarded_bytes < MaxCount =>
                stats.decode_errors + stats.oversized_length_candidates <= stats.discarded_bytes
================================================================================
