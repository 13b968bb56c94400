----------------------------- MODULE MCMessages -----------------------------
(***************************************************************************)
(* The constants of the instances of Messages that TLC checks: numbers and *)
(* lengths at the places where a varint gets longer.                       *)
(***************************************************************************)
EXTENDS Messages

Named(n, length) == [i \in 1 .. length |-> n]

\* The id of the configured start block, and random ids of 19 digits.
StartID == Named(108, 17)
RandomIDs == {Named(49, 19), Named(50, 19)}

\* A serialized certificate, with signatures so long that the packet of a proposal of round
\* 1 has the 1024 bytes that recvRoutine reads, and that of round 128 one more.
Justify == Named(123, 740)

ConfiguredHosts == {Named(81, 46)}
Moment  == {1600000000, 1600000001}
Key     == Named(4, 65)

MCQueued ==
    {ProposalMsg(r, id, Justify) : r \in {1, 128}, id \in RandomIDs}
    \cup {VoteMsg(r, StartID, p, StartID, Named(81, 46)) : r \in {127, 300}, p \in {0, 1}}
    \cup {TimeoutMsg(r, p, StartID, 0) : r \in {1, 16384}, p \in {0, 127}}
=============================================================================
