------------------------------ MODULE ByteStream ------------------------------
(***************************************************************************)
(* What the byte ring buffer promises: a sequence of at most Capacity bytes *)
(* that is extended at its end, looked at anywhere and shortened at its     *)
(* front, where a call that asks for too much does nothing at all.          *)
(***************************************************************************)
EXTENDS Integers, Sequences

CONSTANTS Bytes, Capacity, MaxLength

VARIABLES
    usable,   \* has the stream been created
    bytes,    \* what it holds, oldest first
    reply     \* result code and output of the last call

vars == <<usable, bytes, reply>>

Lengths == 0 .. MaxLength
Data == UNION {[1 .. n -> Bytes] : n \in Lengths}
Reply(result, data) == [result |-> result, data |-> data]
Refused(result) == reply' = Reply(result, << >>) /\ UNCHANGED <<usable, bytes>>

Init == usable = FALSE /\ bytes = << >> /\ reply = Reply("NONE", << >>)

Create == usable' = TRUE /\ bytes' = << >> /\ reply' = Reply("OK", << >>)

Write(data) ==
    /\ usable /\ Len(bytes) + Len(data) <= Capacity
    /\ bytes' = bytes \o data
    /\ reply' = Reply("OK", << >>)
    /\ UNCHANGED usable

Peek(offset, length) ==
    /\ usable /\ offset + length <= Len(bytes)
    /\ reply' = Reply("OK", SubSeq(bytes, offset + 1, offset + length))
    /\ UNCHANGED <<usable, bytes>>

Discard(length) ==
    /\ usable /\ length <= Len(bytes)
    /\ bytes' = SubSeq(bytes, length + 1, Len(bytes))
    /\ reply' = Reply("OK", << >>)
    /\ UNCHANGED usable

Read(length) ==
    /\ usable /\ length <= Len(bytes)
    /\ bytes' = SubSeq(bytes, length + 1, Len(bytes))
    /\ reply' = Reply("OK", SubSeq(bytes, 1, length))
    /\ UNCHANGED usable

Refuse ==
    \/ ~usable /\ Refused("INVALID_STATE")
    \/ /\ usable /\ Refused("INSUFFICIENT_SPACE")
       /\ \E n \in Lengths : Len(bytes) + n > Capacity
    \/ /\ usable /\ Refused("INSUFFICIENT_DATA")
       /\ \E m, n \in Lengths : m + n > Len(bytes)

Next ==
    \/ Create
    \/ \E data \in Data : Write(data)
    \/ \E m, n \in Lengths : Peek(m, n)
    \/ \E n \in Lengths : Discard(n) \/ Read(n)
    \/ Refuse

Spec == Init /\ [][Next]_vars
================================================================================
