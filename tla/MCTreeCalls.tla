---------------------------- MODULE MCTreeCalls -----------------------------
(***************************************************************************)
(* The constants of the instances of TreeCalls that TLC checks.            *)
(***************************************************************************)
EXTENDS TreeCalls

StartID == <<0, 0>>

\* A timeout node, then a proposal a round, one round with two of them.
SomeProposals == {<<2, 1>>, <<3, 1>>, <<3, 2>>, <<4, 1>>, <<5, 1>>, <<6, 1>>}
SomeTimeouts  == {<<1, 0>>}
=============================================================================
