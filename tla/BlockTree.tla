----------------------------- MODULE BlockTree -----------------------------
(***************************************************************************)
(* The tree of quorum certificates one replica keeps: BasicTree            *)
(* (state/bt/basic_tree.go) under BlockTree (state/block_tree.go), as      *)
(* operators on a tree value.  Every operation of the code runs under the  *)
(* State mutex, so each is one function from a tree to a tree.             *)
(*                                                                         *)
(* A node is named by its id, a pair <<round, k>>.  The code's ids are     *)
(* byte strings, unique by construction: "tmo_<round>_<index>" for the     *)
(* node a timeout quorum inserts (k = 0), a random number for a proposal   *)
(* (k > 0), and the configured start id.  An id determines its round, so   *)
(* Search's round comparison never decides anything beyond the id.         *)
(*                                                                         *)
(* The heap of Go nodes becomes two functions on every id ever inserted:   *)
(* par, the Parent pointer at insertion, and anc, the chain above it.      *)
(* Reset cuts the Parent pointer of the new root; Up does that cut.        *)
(***************************************************************************)
EXTENDS Integers

CONSTANT NoNode         \* the nil *bt.Node

ID == Nat \X Nat
RoundOf(id) == id[1]

ASSUME NoNodeAssumption == NoNode \notin ID

\* What NewQCTree builds around the configured start block g.
NewQCTree(g) ==
    [ par     |-> [x \in {g} |-> NoNode],
      anc     |-> [x \in {g} |-> {}],
      keys    |-> {g},
      root    |-> g,
      high    |-> g,
      generic |-> g,
      locked  |-> NoNode,
      commit  |-> NoNode ]

Nodes(t) == DOMAIN t.par

IsTree(t) ==
    /\ t \in [ par : {t.par}, anc : {t.anc}, keys : {t.keys}, root : {t.root},
               high : {t.high}, generic : {t.generic}, locked : {t.locked},
               commit : {t.commit} ]
    /\ Nodes(t) \subseteq ID
    /\ t.par \in [Nodes(t) -> Nodes(t) \cup {NoNode}]
    /\ t.anc \in [Nodes(t) -> SUBSET Nodes(t)]
    /\ t.keys \subseteq Nodes(t)
    /\ {t.root, t.high, t.generic} \subseteq Nodes(t)
    /\ {t.locked, t.commit} \subseteq Nodes(t) \cup {NoNode}

\* The nodes the depth-first search of LookUp reaches from t.root.
Live(t) == {x \in Nodes(t) : x = t.root \/ t.root \in t.anc[x]}

\* BlockTree.Search with an id that has its round.
Search(t, x) == x \in Live(t)

\* Mutant: the new root keeps its Parent pointer.
UpPastRoot(t, x) == IF x = NoNode THEN NoNode ELSE t.par[x]

\* n.Parent for a node n of the tree, nil-safe: the root's is nil.
Up(t, x) == IF x \in {t.root, NoNode} THEN NoNode ELSE t.par[x]

\* Mutant: the commit rule stops one generation short.
UpTwo(t, x) == Up(t, Up(t, x))

Up3(t, x) == Up(t, Up(t, Up(t, x)))

-----------------------------------------------------------------------------
(* BasicTree.Insert: a repeated key, an unknown parent and a round that     *)
(* does not grow are three different errors.                                *)
IsRepeat(t, id)        == id \in t.keys
CanInsert(t, id, p)    == /\ ~IsRepeat(t, id)
                          /\ p \in Live(t)
                          /\ RoundOf(p) < RoundOf(id)

\* Mutant: the node goes under the local high node.
InsertUnderHigh(t, id, p) ==
    [t EXCEPT !.par  = [x \in Nodes(t) \cup {id} |-> IF x = id THEN t.high ELSE t.par[x]],
              !.anc  = [x \in Nodes(t) \cup {id} |->
                            IF x = id THEN t.anc[t.high] \cup {t.high} ELSE t.anc[x]],
              !.keys = @ \cup {id}]

Insert(t, id, p) ==
    [t EXCEPT !.par  = [x \in Nodes(t) \cup {id} |-> IF x = id THEN p ELSE t.par[x]],
              !.anc  = [x \in Nodes(t) \cup {id} |->
                            IF x = id THEN t.anc[p] \cup {p} ELSE t.anc[x]],
              !.keys = @ \cup {id}]

(* BasicTree.Reset: the walk from the old root stops at the new one, and    *)
(* it returns at a node without sons before it deletes the key of that node.*)
Below(t, n)   == {x \in Live(t) : x = n \/ n \in t.anc[x]}

\* Mutant: the walk deletes before it compares.
DeletedWithTarget(t, n) ==
    {x \in Live(t) : n \notin t.anc[x] /\ \E y \in Live(t) : t.par[y] = x}

Deleted(t, n) == {x \in Live(t) \ Below(t, n) : \E y \in Live(t) : t.par[y] = x}

Reset(t, n) ==
    [t EXCEPT !.root = n,
              !.keys = IF Up(t, n) = NoNode THEN @ ELSE @ \ Deleted(t, n)]

-----------------------------------------------------------------------------
(* BlockTree.redirectHighQCWithoutLock: high moves to b unless b is older,  *)
(* or another node of the same round; the three ancestors follow when they  *)
(* exist and keep their old value when they do not.                         *)

\* Mutant: an older node replaces the high node.
StaysNever(t, b) == FALSE

Stays(t, b) == \/ RoundOf(t.high) > RoundOf(b)
               \/ RoundOf(t.high) = RoundOf(b) /\ t.high # b

OrElse(x, old) == IF x = NoNode THEN old ELSE x

Redirect(t, b) ==
    IF Stays(t, b) THEN t
    ELSE [t EXCEPT !.high    = b,
                   !.generic = OrElse(Up(t, b), @),
                   !.locked  = OrElse(Up(t, Up(t, b)), @),
                   !.commit  = OrElse(Up3(t, b), @)]

\* Mutant: high moves to the node just inserted.
ExecuteNInsertHighChild(t, id, p) == Redirect(Insert(t, id, p), id)

\* The successful ExecuteNInsert: high moves to the parent of the new node.
ExecuteNInsert(t, id, p) == Redirect(Insert(t, id, p), p)

\* Mutant: the quorum does not move the high node.
ProcessVoteKeepsHigh(t, id) == t

ProcessVote(t, id) == Redirect(t, id)

ProcessCommit(t, key) ==
    IF t.commit # NoNode /\ t.commit = key THEN Reset(t, key) ELSE t

-----------------------------------------------------------------------------
\* What an accepted proposal does to the tree: ExecuteNInsert, where a repeated
\* insertion is no error, and ProcessCommit.
TreeAfterProposal(t, id, pnode) ==
    LET inserted == IF IsRepeat(t, id) THEN t ELSE ExecuteNInsert(t, id, pnode)
    IN  IF Up3(inserted, pnode) = NoNode
          THEN inserted
          ELSE ProcessCommit(inserted, Up3(inserted, pnode))

\* The nodes from the start block down to the root: what has been committed.
Committed(t) == t.anc[t.root] \cup {t.root}
=============================================================================
