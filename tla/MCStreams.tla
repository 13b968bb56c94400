----------------------------- MODULE MCStreams ------------------------------
(***************************************************************************)
(* The constants of the instances of Streams that TLC checks.              *)
(***************************************************************************)
EXTENDS Streams

CONSTANTS first, second

\* The bootstrap node is configured with nobody, the others with it.
ThroughFirst == [p \in Process |-> IF p = first THEN {} ELSE {first}]
=============================================================================
