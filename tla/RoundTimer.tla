----------------------------- MODULE RoundTimer -----------------------------
(***************************************************************************)
(* What a replica's round timer promises, seen from outside: it is armed   *)
(* for a round when the replica enters that round through NewRoundEvent,   *)
(* it is never armed for an older round than before, and a timeout is      *)
(* announced for no round but the one the replica is in.                   *)
(*                                                                         *)
(* HotStuff implements it for each of its replicas, taking the ticker's    *)
(* channels and goroutine for one variable; Ticker implements it with      *)
(* every channel, the time.Timer and the goroutines of state/ticker.go.    *)
(***************************************************************************)
EXTENDS Integers

CONSTANT First          \* the round a process starts in

VARIABLES
    current,   \* pacemaker.current
    armed,     \* the latest round the timer was scheduled for
    announced  \* the rounds a timeout message was sent for

vars == <<current, armed, announced>>

Init ==
    /\ current   = First
    /\ armed     = First
    /\ announced = {}

\* A handler advances the round and leaves the timer alone.
Follow ==
    /\ current' > current
    /\ UNCHANGED <<armed, announced>>

\* NewRoundEvent: the timer is armed for the round the replica is in.
Enter ==
    /\ current' >= current
    /\ armed' = current'
    /\ UNCHANGED announced

\* The timer of the round the replica is in has expired.
TimeOut ==
    /\ armed = current
    /\ announced' = announced \cup {armed}
    /\ UNCHANGED <<current, armed>>

\* The process starts again.
Restart ==
    /\ current' = First
    /\ armed'   = First
    /\ UNCHANGED announced

Next == Follow \/ Enter \/ TimeOut \/ Restart

Spec == Init /\ [][Next]_vars
=============================================================================
