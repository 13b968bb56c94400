----------------------------- MODULE MCHotStuff -----------------------------
(***************************************************************************)
(* The constants of the instances of HotStuff that TLC checks.             *)
(***************************************************************************)
EXTENDS HotStuffProperties

\* Every validator runs.
EveryReplica == 0 .. N - 1

\* All but validator 0 run: of four, the most that may be down.
AllButOne == 1 .. N - 1
=============================================================================
