------------------------------- MODULE CheckSum -------------------------------
(***************************************************************************)
(* The check sum of src/src/comm_codec.c for a byte of any width: the       *)
(* register is two bytes wide, data enters at its top, bit by bit.          *)
(***************************************************************************)
EXTENDS Integers, Sequences, SequencesExt, FiniteSetsExt

CONSTANTS
    ByteBits,       \* bits of a byte: 8
    Polynomial,     \* COMM_FRAME_CRC16_POLYNOMIAL
    InitialCrc      \* COMM_FRAME_CRC16_INITIAL_VALUE

RegisterBits == 2 * ByteBits
ASSUME RegisterAssumption ==
    ByteBits \in Nat \ {0} /\ {Polynomial, InitialCrc} \subseteq 0 .. 2 ^ RegisterBits - 1

Bit(value, i) == (value \div (2 ^ i)) % 2
Xor(a, b) == SumSet({2 ^ i : i \in {j \in 0 .. RegisterBits - 1 : Bit(a, j) # Bit(b, j)}})

\* One turn of the inner loop: the bit that leaves the register at its top
\* decides whether the polynomial is added.
ShiftCrc(crc) ==
    LET shifted == (2 * crc) % (2 ^ RegisterBits)
    IN  IF Bit(crc, RegisterBits - 1) = 1 THEN Xor(shifted, Polynomial) ELSE shifted

\* comm_crc16_ccitt_false; COMM_FRAME_CRC16_XOR_OUT is 0.
Crc16(data) ==
    LET AddByte(crc, byte) ==
            FoldLeft(LAMBDA register, turn : ShiftCrc(register),
                     Xor(crc, byte * 2 ^ (RegisterBits - ByteBits)),
                     [turn \in 1 .. ByteBits |-> turn])
    IN  FoldLeft(AddByte, InitialCrc, data)
================================================================================
