----------------------------- MODULE RequestLedger -----------------------------
(***************************************************************************)
(* What the message manager promises the task that owns it about the        *)
(* requests it sends, without slots, sequence numbers or scans: a request   *)
(* is open from the moment the channel accepted it until it ends, once, by  *)
(* a reply, by a final timeout or by being cancelled.                       *)
(***************************************************************************)
EXTENDS Integers, FiniteSets

CONSTANTS
    PendingCapacity,    \* how many requests may be open at once
    ResponseTimeout,    \* how long each transmission is given
    MaxRetries,         \* transmissions after the first
    MaxTime             \* the end of the clock

VARIABLES
    open,       \* open requests: transmissions made, and end of the window
    issued,     \* number of requests sent since the manager exists
    clock, result, events

vars == <<open, issued, clock, result, events>>

WindowEnd == IF clock + ResponseTimeout > MaxTime THEN MaxTime ELSE clock + ResponseTimeout
Transmitted(n) == [attempts |-> n, until |-> WindowEnd]
Without(ids) == [k \in DOMAIN open \ ids |-> open[k]]
Ended(type, id) == [type |-> type, request |-> id, retries |-> open[id].attempts - 1]

Init == /\ open = [k \in {} |-> Transmitted(0)] /\ issued = 0
        /\ clock \in 0 .. MaxTime /\ result = "NONE" /\ events = {}

Tick == /\ clock < MaxTime /\ clock' = clock + 1
        /\ events' = {} /\ result' = "NONE"
        /\ UNCHANGED <<open, issued>>

Start ==
    /\ Cardinality(DOMAIN open) < PendingCapacity
    /\ issued' = issued + 1
    /\ open' = [k \in DOMAIN open \cup {issued'} |->
                   IF k = issued' THEN Transmitted(1) ELSE open[k]]
    /\ result' = "OK" /\ events' = {}
    /\ UNCHANGED clock

\* A call that changes nothing the ledger keeps: refused, or not about a
\* request of this side.
Other ==
    /\ \/ events' = {}
       \/ \E type \in {"REQUEST_RECEIVED", "REPORT_RECEIVED", "UNMATCHED_REPLY"} :
             events' = {[type |-> type, request |-> 0, retries |-> 0]}
    /\ result' # "NONE"
    /\ UNCHANGED <<open, issued, clock>>

Answer ==
    /\ \E k \in DOMAIN open, type \in {"RESPONSE_RECEIVED", "ERROR_RECEIVED"} :
          /\ open' = Without({k})
          /\ events' = {Ended(type, k)}
    /\ result' = "OK"
    /\ UNCHANGED <<issued, clock>>

\* A pass over the open requests whose window is over.  Those that have used up
\* their transmissions all end; each of the others is transmitted again unless
\* the channel refuses it, and the pass reports OK when none was refused.
ProcessTimeouts ==
    LET due == {k \in DOMAIN open : open[k].until <= clock}
        spent == {k \in due : open[k].attempts > MaxRetries}
    IN  /\ \E accepted \in SUBSET (due \ spent) :
              /\ open' = [k \in DOMAIN open \ spent |->
                             IF k \in accepted THEN Transmitted(open[k].attempts + 1) ELSE open[k]]
              /\ (result' = "OK") = (accepted = due \ spent)
        /\ events' = {Ended("REQUEST_TIMEOUT", k) : k \in spent}
        /\ UNCHANGED <<issued, clock>>

\* Ends what is open without a word to anyone.
Cancel == /\ open' = Without(DOMAIN open)
          /\ result' = "OK" /\ events' = {}
          /\ UNCHANGED <<issued, clock>>

Next == Tick \/ Start \/ Other \/ Answer \/ ProcessTimeouts \/ Cancel

Spec == Init /\ [][Next]_vars
================================================================================
