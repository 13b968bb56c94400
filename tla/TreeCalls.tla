----------------------------- MODULE TreeCalls ------------------------------
(***************************************************************************)
(* One replica's block tree under every sequence of calls its handlers may *)
(* make: an accepted proposal, a quorum of votes and a quorum of timeouts, *)
(* in any order and on any node a search finds.  HotStuff restricts the    *)
(* order to what N replicas can bring about; here the tree faces more of   *)
(* it, and on longer chains: forks, late votes for old nodes, proposals on *)
(* nodes that have been overtaken, and commits after all of these.         *)
(***************************************************************************)
EXTENDS BlockTree

CONSTANTS
    Start,      \* id of the configured start block
    Proposals,  \* bound: the ids of proposals
    Timeouts    \* bound: the ids of timeout nodes

ASSUME TreeCallsAssumption ==
    /\ Start \in ID
    /\ Proposals \subseteq ID /\ Timeouts \subseteq ID
    /\ {Start} \cap (Proposals \cup Timeouts) = {}
    /\ Proposals \cap Timeouts = {}

VARIABLE tree

Init == tree = NewQCTree(Start)

(* onReceiveProposal, for a parent that is in the tree.  An id names one    *)
(* proposal, so a node of that id, if there is one, has that parent.        *)
Propose ==
    \E id \in Proposals, parent \in Live(tree) :
        /\ id \in Nodes(tree) => IsRepeat(tree, id) /\ tree.par[id] = parent
        /\ IsRepeat(tree, id) \/ CanInsert(tree, id, parent)
        /\ tree' = TreeAfterProposal(tree, id, parent)

\* onReceiveVote, from the quorum on.
VoteQuorum == \E id \in Live(tree) : tree' = ProcessVote(tree, id)

\* onReceiveTimeout, from the quorum on.
TimeoutQuorum ==
    \E tmo \in Timeouts \ Nodes(tree), parent \in Live(tree) :
        /\ CanInsert(tree, tmo, parent)
        /\ tree' = ProcessVote(ExecuteNInsert(tree, tmo, parent), tmo)

Next == Propose \/ VoteQuorum \/ TimeoutQuorum

Spec == Init /\ [][Next]_tree

-----------------------------------------------------------------------------
\* A commit is never given up: the root moves only to a node below it, so what
\* was committed before stays committed, whatever branch the high node is on.
RootMovesDown == [][Committed(tree) \subseteq Committed(tree') /\
                    (tree'.root # tree.root => tree.root \in tree'.anc[tree'.root])]_tree

\* Nothing is committed without a chain of four nodes below it: the proposal
\* that commits, its parent and two more.  This is what state.go:256-257 does; the
\* comment at state.go:217 has the node committed that is three above the proposal.
CommitIsFourDeep ==
    tree.root # Start =>
        \E w, x, y, z \in Live(tree) :
            /\ tree.par[w] = x /\ tree.par[x] = y
            /\ tree.par[y] = z /\ tree.par[z] = tree.root

\* The keys that refuse a second insertion cover every node a search finds,
\* and what Reset leaves behind of the dropped branches is their leaves.
KeySetShape ==
    /\ Live(tree) \subseteq tree.keys
    /\ \A x \in tree.keys \ Live(tree), y \in Nodes(tree) : tree.par[y] # x

\* The commit pointer is never left behind above the root: the next commit it
\* allows is the root again, a node below the root, or on a pruned branch.
CommitPointerNotAbove == tree.commit \notin tree.anc[tree.root]
=============================================================================
