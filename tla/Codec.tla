--------------------------------- MODULE Codec ---------------------------------
(***************************************************************************)
(* src/src/comm_codec.c and the layout of include/comm_frame.h: one frame   *)
(* as a sequence of bytes.  The version and the type are one byte of the    *)
(* header, "kind": both are merely accepted or refused.  The sequence       *)
(* number is left out: it is copied like the payload.                       *)
(***************************************************************************)
EXTENDS Integers, Sequences

CONSTANTS
    Base,           \* how many values a byte has: 256
    Sync0, Sync1,   \* the two bytes a frame starts with: 0xAA, 0x55
    Kinds,          \* accepted versions and types
    MaxPayload,     \* COMM_FRAME_MAX_PAYLOAD_SIZE
    Crc(_)          \* the check sum of a sequence of bytes, two bytes wide

Bytes == 0 .. Base - 1
Words == 0 .. Base * Base - 1
Payloads(maximum) == UNION {[1 .. n -> Bytes] : n \in 0 .. maximum}

ASSUME ByteAssumption ==
    Base \in Nat \ {0} /\ Sync0 \in Bytes /\ Sync1 \in Bytes /\ Kinds \subseteq Bytes
\* comm_frame.h refuses a payload limit of zero or beyond the length field.
ASSUME PayloadAssumption == MaxPayload \in Nat \ {0} /\ MaxPayload \in Words

HeaderSize == 5
CheckSize == 2
MinEncodedSize == HeaderSize + CheckSize
MaxEncodedSize == MinEncodedSize + MaxPayload

\* The check sum is a uint16_t, whatever it is taken of.
ASSUME CrcAssumption == \A data \in Payloads(3 + MaxPayload) : Crc(data) \in Words

Frames == [kind : Kinds, payload : Payloads(MaxPayload)]

-------------------------------------------------------------------------------
\* Mutant: the low byte comes first.
WriteU16LittleEndian(value) == <<value % Base, value \div Base>>

\* comm_write_u16_be and comm_read_u16_be
WriteU16(value) == <<value \div Base, value % Base>>
ReadU16(high, low) == high * Base + low

\* comm_codec_encode of a frame that it accepts.  The check sum covers all that
\* lies between the two sync bytes and itself.
Encode(frame) ==
    LET covered == <<frame.kind>> \o WriteU16(Len(frame.payload)) \o frame.payload
    IN  <<Sync0, Sync1>> \o covered \o WriteU16(Crc(covered))

-------------------------------------------------------------------------------
\* The fields of a sequence of bytes that begins with a header.
PayloadLength(input) == ReadU16(input[4], input[5])
EncodedSize(input) == MinEncodedSize + PayloadLength(input)
Covered(input) == SubSeq(input, 3, HeaderSize + PayloadLength(input))
ReceivedCrc(input) == ReadU16(input[Len(input) - 1], input[Len(input)])

\* Mutant: the version and the type are not looked at.
DecodeAnyKind(input) ==
    IF Len(input) < MinEncodedSize THEN "INPUT_TOO_SMALL"
    ELSE IF input[1] # Sync0 \/ input[2] # Sync1 THEN "INVALID_SYNC"
    ELSE IF PayloadLength(input) > MaxPayload THEN "PAYLOAD_TOO_LARGE"
    ELSE IF Len(input) # EncodedSize(input) THEN "LENGTH_MISMATCH"
    ELSE IF ReceivedCrc(input) # Crc(Covered(input)) THEN "CRC_MISMATCH"
    ELSE "OK"

\* The result of comm_codec_decode, whose checks are made in this order.
Decode(input) ==
    IF Len(input) < MinEncodedSize THEN "INPUT_TOO_SMALL"
    ELSE IF input[1] # Sync0 \/ input[2] # Sync1 THEN "INVALID_SYNC"
    ELSE IF input[3] \notin Kinds THEN "INVALID_KIND"
    ELSE IF PayloadLength(input) > MaxPayload THEN "PAYLOAD_TOO_LARGE"
    ELSE IF Len(input) # EncodedSize(input) THEN "LENGTH_MISMATCH"
    ELSE IF ReceivedCrc(input) # Crc(Covered(input)) THEN "CRC_MISMATCH"
    ELSE "OK"

\* The frame it returns with "OK"; with any other result there is none.
Decoded(input) ==
    [kind |-> input[3], payload |-> SubSeq(input, HeaderSize + 1, Len(input) - CheckSize)]
================================================================================
