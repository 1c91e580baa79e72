------------------------------ MODULE Connection ------------------------------
(***************************************************************************)
(* What the example runtime promises the user interface about its           *)
(* connection (src/examples/linux_runtime/README.md, "disconnection,         *)
(* cancellation and resynchronisation"): a connection is offline until it is  *)
(* being synchronised, and online only once the device's state is confirmed; *)
(* the displayed snapshot changes when it is confirmed and while it is online, *)
(* and never in between, whatever arrives.                                    *)
(***************************************************************************)
EXTENDS Naturals

CONSTANTS
    Snapshots,      \* what the device can report
    MaxSessions     \* connections made at most, the first one included

VARIABLES
    state,          \* "OFFLINE", "SYNCING" or "ONLINE"
    session,        \* number of the connection
    snapshot        \* the latest accepted snapshot

vars == <<state, session, snapshot>>

Init == state = "OFFLINE" /\ session = 0 /\ snapshot = 0

Connect ==
    /\ state = "OFFLINE" /\ session < MaxSessions
    /\ state' = "SYNCING" /\ session' = session + 1
    /\ UNCHANGED snapshot

Confirm ==
    /\ state = "SYNCING"
    /\ state' = "ONLINE" /\ snapshot' \in Snapshots
    /\ UNCHANGED session

Refresh ==
    /\ state = "ONLINE"
    /\ snapshot' \in Snapshots
    /\ UNCHANGED <<state, session>>

Disconnect ==
    /\ state # "OFFLINE"
    /\ state' = "OFFLINE"
    /\ UNCHANGED <<session, snapshot>>

Next == Connect \/ Confirm \/ Refresh \/ Disconnect
Spec == Init /\ [][Next]_vars
===============================================================================
