--------------------------- MODULE TreeCallsProofs ---------------------------
(***************************************************************************)
(* One replica's block tree under every sequence of calls, on chains of    *)
(* any length: nothing that was committed is given up, nothing is          *)
(* committed before it is four blocks deep, and the keys and the commit    *)
(* pointer that Reset leaves behind are those of the tree it leaves.       *)
(***************************************************************************)
EXTENDS TreeCalls, BlockTreeProofs

-----------------------------------------------------------------------------
(* The inductive invariant.                                                 *)

IInv == TreeInv(tree, Start)

LEMMA InitIInv == Init => IInv
  BY TreeCallsAssumption, NewQCTreeInv DEF Init, IInv

\* Every call keeps the invariant, and the root goes down or stays.
LEMMA NextIInv == IInv /\ [Next]_tree => IInv' /\ Downwards(tree, tree')
  <1> SUFFICES ASSUME IInv, [Next]_tree PROVE IInv' /\ Downwards(tree, tree')
    OBVIOUS
  <1> USE DEF IInv
  <1>1. CASE Propose
    <2>1. PICK id \in Proposals, p \in Live(tree) :
              /\ id \in Nodes(tree) => IsRepeat(tree, id) /\ tree.par[id] = p
              /\ IsRepeat(tree, id) \/ CanInsert(tree, id, p)
              /\ tree' = TreeAfterProposal(tree, id, p)
      BY <1>1 DEF Propose
    <2>2. id \in ID
      BY TreeCallsAssumption
    <2> QED
      BY <2>1, <2>2, ProposalInv
  <1>2. CASE VoteQuorum
    BY <1>2, VoteInv DEF VoteQuorum
  <1>3. CASE TimeoutQuorum
    <2>1. PICK tmo \in Timeouts \ Nodes(tree), p \in Live(tree) :
              /\ CanInsert(tree, tmo, p)
              /\ tree' = ProcessVote(ExecuteNInsert(tree, tmo, p), tmo)
      BY <1>3 DEF TimeoutQuorum
    <2>2. tmo \in ID \ Nodes(tree)
      BY TreeCallsAssumption
    <2> QED
      BY <2>1, <2>2, TimeoutInv
  <1>4. CASE UNCHANGED tree
    BY <1>4 DEF Downwards
  <1> QED
    BY <1>1, <1>2, <1>3, <1>4 DEF Next

\* The tree's chains, keys, commit pointer and root fit each other.
THEOREM TreeInductive == Spec => []IInv
  BY InitIInv, NextIInv, PTL DEF Spec

\* BlockTree.ProcessCommit and BasicTree.Reset: the root goes down, and what has
\* been committed stays so, whatever is proposed, voted for or timed out on.
THEOREM CommitsAreKept == Spec => RootMovesDown
  <1>1. IInv /\ [Next]_tree =>
            [Committed(tree) \subseteq Committed(tree') /\
             (tree'.root # tree.root => tree.root \in tree'.anc[tree'.root])]_tree
    BY NextIInv DEF Downwards
  <1> QED
    BY <1>1, TreeInductive, PTL DEF Spec, RootMovesDown

\* The commit rule of onReceiveProposal: what is committed has a chain of four
\* nodes below it, on trees of any height and with timeout nodes in between.
THEOREM CommitsAreDeep == Spec => []CommitIsFourDeep
  <1>1. IInv => CommitIsFourDeep
    BY DEF IInv, TreeInv, FourBelow, CommitIsFourDeep
  <1> QED
    BY <1>1, TreeInductive, PTL

\* BasicTree.Reset's walk: no node that a search finds has lost its key, and of
\* the branches dropped it leaves leaves only.
THEOREM KeysAreTheTrees == Spec => []KeySetShape
  <1>1. IInv => KeySetShape
    BY DEF IInv, TreeInv, KeysOK, KeySetShape
  <1> QED
    BY <1>1, TreeInductive, PTL

\* BlockTree.redirectHighQCWithoutLock: the commit pointer, which keeps its old
\* value when a chain is short, is never above the root.
THEOREM CommitStaysBelow == Spec => []CommitPointerNotAbove
  <1>1. IInv => CommitPointerNotAbove
    BY DEF IInv, TreeInv, CommitOK, CommitPointerNotAbove
  <1> QED
    BY <1>1, TreeInductive, PTL
=============================================================================
