------------------------------ MODULE Network -------------------------------
(***************************************************************************)
(* The network HotStuff is built on, by itself: a message that is sent may *)
(* be taken by each of its addressees once, in any order with others, late *)
(* or never.                                                               *)
(***************************************************************************)
EXTENDS Naturals

CONSTANTS
    Process, \* the processes
    Message, \* the messages
    Dest(_)  \* the addressees of a message

VARIABLES
    sent,   \* every message sent so far
    handled \* how often each process has taken each message

Init ==
    /\ sent = {}
    /\ handled = [p \in Process |-> [m \in Message |-> 0]]

Send(m) ==
    /\ sent' = sent \cup {m}
    /\ UNCHANGED handled

Take(p, m) ==
    /\ p \in Dest(m)
    /\ m \in sent
    /\ handled[p][m] = 0
    /\ handled' = [handled EXCEPT ![p][m] = 1]
    /\ UNCHANGED sent

Next ==
    \/ \E m \in Message : Send(m)
    \/ \E p \in Process, m \in Message : Take(p, m)

Spec == Init /\ [][Next]_<<sent, handled>>
=============================================================================
