------------------------------ MODULE BoundedFifo ------------------------------
(***************************************************************************)
(* What the core frame queue promises its caller: a FIFO of at most         *)
(* Capacity frames, which is unusable until it is created, rejects a push   *)
(* when full and a pop when empty, and is otherwise lossless.               *)
(***************************************************************************)
EXTENDS Integers, Sequences

CONSTANTS Frames, NoFrame, Capacity

VARIABLES
    usable,   \* has the queue been created
    items,    \* the frames it holds, oldest first
    reply     \* result code and output frame of the last call

vars == <<usable, items, reply>>

Reply(result) == [result |-> result, frame |-> NoFrame]

Init == usable = FALSE /\ items = << >> /\ reply = Reply("NONE")

Create == usable' = TRUE /\ items' = << >> /\ reply' = Reply("OK")

Clear == usable /\ items' = << >> /\ reply' = Reply("OK") /\ UNCHANGED usable

Push(f) ==
    /\ usable /\ Len(items) < Capacity
    /\ items' = Append(items, f)
    /\ reply' = Reply("OK")
    /\ UNCHANGED usable

Pop ==
    /\ usable /\ items # << >>
    /\ items' = Tail(items)
    /\ reply' = [result |-> "OK", frame |-> Head(items)]
    /\ UNCHANGED usable

\* A call that is refused, or that only looks, leaves the frames alone.
Refuse ==
    /\ \/ ~usable /\ reply' = Reply("INVALID_STATE")
       \/ usable /\ Len(items) = Capacity /\ reply' = Reply("FULL")
       \/ usable /\ items = << >> /\ reply' = Reply("EMPTY")
    /\ UNCHANGED <<usable, items>>

Inspect == usable /\ reply' = Reply("OK") /\ UNCHANGED <<usable, items>>

Next == Create \/ Clear \/ (\E f \in Frames : Push(f)) \/ Pop \/ Refuse \/ Inspect

Spec == Init /\ [][Next]_vars
================================================================================
