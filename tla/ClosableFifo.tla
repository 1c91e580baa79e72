----------------------------- MODULE ClosableFifo -----------------------------
(***************************************************************************)
(* What the blocking frame queue promises the threads that share it: each   *)
(* call takes effect at one instant between its start and its return, on a  *)
(* FIFO of at most Capacity frames.  Closing stops pushes at once and pops  *)
(* once the FIFO has been drained.                                          *)
(***************************************************************************)
EXTENDS Integers, Sequences

CONSTANTS Producers, Consumers, Frames, NoFrame, Capacity

VARIABLES
    usable,    \* has the queue been initialised
    closed,    \* has it been closed
    items,     \* the frames it holds, oldest first
    pending,   \* the call each thread is in, or NoCall
    outcome    \* what the latest step returned to a caller, or NoOutcome

vars == <<usable, closed, items, pending, outcome>>

Threads == Producers \cup Consumers
Waits == {"zero", "finite", "forever"}
NoCall == [op |-> "none", frame |-> NoFrame, wait |-> "zero"]
Outcome(op, result, frame) == [op |-> op, result |-> result, frame |-> frame]
NoOutcome == Outcome("none", "NONE", NoFrame)

Init ==
    /\ usable = FALSE /\ closed = FALSE /\ items = << >>
    /\ pending = [t \in Threads |-> NoCall]
    /\ outcome = NoOutcome

AllIdle == \A t \in Threads : pending[t] = NoCall

Create ==
    /\ ~usable /\ AllIdle
    /\ usable' = TRUE /\ closed' = FALSE /\ items' = << >> /\ outcome' = NoOutcome
    /\ UNCHANGED pending

\* Frames still held when the queue is destroyed are gone.
Destroy ==
    /\ usable /\ AllIdle
    /\ usable' = FALSE /\ closed' = FALSE /\ items' = << >> /\ outcome' = NoOutcome
    /\ UNCHANGED pending

Close ==
    /\ usable
    /\ closed' = TRUE /\ outcome' = NoOutcome
    /\ UNCHANGED <<usable, items, pending>>

Begin(t) ==
    /\ usable /\ pending[t] = NoCall
    /\ \E w \in Waits :
          \/ t \in Consumers /\ pending' = [pending EXCEPT ![t] = [NoCall EXCEPT !.op = "pop", !.wait = w]]
          \/ t \in Producers /\ \E f \in Frames :
                pending' = [pending EXCEPT ![t] = [op |-> "push", frame |-> f, wait |-> w]]
    /\ outcome' = NoOutcome
    /\ UNCHANGED <<usable, closed, items>>

\* A call on an object that is not initialised is refused without waiting.
RefuseUnusable ==
    /\ ~usable
    /\ \E op \in {"push", "pop"} : outcome' = Outcome(op, "INVALID_STATE", NoFrame)
    /\ UNCHANGED <<usable, closed, items, pending>>

Finish(t) == pending' = [pending EXCEPT ![t] = NoCall]

\* A push that reports an error of the system after the frame went in has
\* still delivered it; so has a pop.
Push(t) ==
    /\ pending[t].op = "push" /\ ~closed /\ Len(items) < Capacity
    /\ items' = Append(items, pending[t].frame)
    /\ \E r \in {"OK", "SYSTEM_ERROR"} : outcome' = Outcome("push", r, NoFrame)
    /\ Finish(t)
    /\ UNCHANGED <<usable, closed>>

Pop(t) ==
    /\ pending[t].op = "pop" /\ items # << >>
    /\ items' = Tail(items)
    /\ \E r \in {"OK", "SYSTEM_ERROR"} : outcome' = Outcome("pop", r, Head(items))
    /\ Finish(t)
    /\ UNCHANGED <<usable, closed>>

RefuseClosed(t) ==
    /\ pending[t].op # "none" /\ closed
    /\ pending[t].op = "pop" => items = << >>
    /\ outcome' = Outcome(pending[t].op, "CLOSED", NoFrame)
    /\ Finish(t)
    /\ UNCHANGED <<usable, closed, items>>

\* A caller that did not ask to wait is told of a queue that is full or empty
\* and open at that instant; one that waits with a deadline may be told later.
GiveUp(t) ==
    /\ pending[t].op # "none" /\ pending[t].wait # "forever"
    /\ pending[t].op = "push" => ~closed
    /\ pending[t].op = "pop" => ~closed \/ items # << >>
    /\ pending[t].wait = "zero" =>
          /\ ~closed
          /\ pending[t].op = "push" => Len(items) = Capacity
          /\ pending[t].op = "pop" => items = << >>
    /\ outcome' = Outcome(pending[t].op, "TIMEOUT", NoFrame)
    /\ Finish(t)
    /\ UNCHANGED <<usable, closed, items>>

Fail(t) ==
    /\ pending[t].op # "none"
    /\ outcome' = Outcome(pending[t].op, "SYSTEM_ERROR", NoFrame)
    /\ Finish(t)
    /\ UNCHANGED <<usable, closed, items>>

\* The reply of an earlier step is no longer new.
Settle == outcome' = NoOutcome /\ UNCHANGED <<usable, closed, items, pending>>

Next ==
    \/ Create \/ Destroy \/ Close \/ RefuseUnusable \/ Settle
    \/ \E t \in Threads : Begin(t) \/ Push(t) \/ Pop(t) \/ RefuseClosed(t) \/ GiveUp(t) \/ Fail(t)

Spec == Init /\ [][Next]_vars
================================================================================
