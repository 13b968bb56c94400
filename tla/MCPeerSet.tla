----------------------------- MODULE MCPeerSet ------------------------------
(***************************************************************************)
(* The constants of the instances of PeerSet that TLC checks.              *)
(***************************************************************************)
EXTENDS PeerSet

\* One peer is connected to twice, as when both sides dial, the others once.
OnePeerTwice ==
    LET twice == CHOOSE p \in Peer : TRUE
    IN  [p \in Peer |-> IF p = twice THEN 2 ELSE 1]
=============================================================================
