--------------------------- MODULE BlockTreeProofs ---------------------------
(***************************************************************************)
(* What the operations of BlockTree preserve and establish, for every      *)
(* tree: the facts the proofs about TreeCalls and HotStuff rest on.        *)
(***************************************************************************)
EXTENDS BlockTree, TLAPS

\* The tree of a starting process is one node.
LEMMA NewQCTreeIsTree ==
    ASSUME NEW g \in ID
    PROVE  /\ IsTree(NewQCTree(g))
           /\ Nodes(NewQCTree(g)) = {g}
           /\ NewQCTree(g).high = g
  BY DEF IsTree, NewQCTree, Nodes

\* A pointer up from a node is a node or nil.
LEMMA UpIsNode ==
    ASSUME NEW t, IsTree(t), NEW x \in Nodes(t) \cup {NoNode}
    PROVE  Up(t, x) \in Nodes(t) \cup {NoNode}
  BY DEF IsTree, Nodes, Up

\* Insert adds one node, under the parent asked for, and moves no pointer.
LEMMA InsertIsTree ==
    ASSUME NEW t, IsTree(t), NEW id \in ID, NEW p \in Nodes(t)
    PROVE  /\ IsTree(Insert(t, id, p))
           /\ Nodes(Insert(t, id, p)) = Nodes(t) \cup {id}
           /\ Insert(t, id, p).par[id] = p
           /\ \A x \in Nodes(t) \ {id} : Insert(t, id, p).par[x] = t.par[x]
           /\ Insert(t, id, p).high = t.high
  <1> DEFINE u == Insert(t, id, p)
  <1>1. /\ u \in [ par : {u.par}, anc : {u.anc}, keys : {u.keys}, root : {u.root},
                   high : {u.high}, generic : {u.generic}, locked : {u.locked},
                   commit : {u.commit} ]
        /\ u.par = [x \in Nodes(t) \cup {id} |-> IF x = id THEN p ELSE t.par[x]]
        /\ u.anc = [x \in Nodes(t) \cup {id} |->
                       IF x = id THEN t.anc[p] \cup {p} ELSE t.anc[x]]
        /\ u.keys = t.keys \cup {id}
        /\ u.root = t.root /\ u.high = t.high /\ u.generic = t.generic
        /\ u.locked = t.locked /\ u.commit = t.commit
    BY DEF IsTree, Insert
  <1> HIDE DEF u
  <1>2. Nodes(u) = Nodes(t) \cup {id}
    BY <1>1 DEF Nodes
  <1>3. u.par \in [Nodes(u) -> Nodes(u) \cup {NoNode}]
    BY <1>1, <1>2 DEF IsTree
  <1>4. u.anc \in [Nodes(u) -> SUBSET Nodes(u)]
    BY <1>1, <1>2 DEF IsTree
  <1>5. IsTree(u)
    BY <1>1, <1>2, <1>3, <1>4 DEF IsTree
  <1>6. QED
    BY <1>1, <1>2, <1>5 DEF u

\* Moving the high node leaves the nodes alone; afterwards high is the node
\* asked for or, unmoved, one of at least its round.
LEMMA RedirectIsTree ==
    ASSUME NEW t, IsTree(t), NEW b \in Nodes(t)
    PROVE  /\ IsTree(Redirect(t, b))
           /\ Redirect(t, b).par = t.par
           /\ Redirect(t, b).high \in {t.high, b}
           /\ RoundOf(Redirect(t, b).high) >= RoundOf(t.high)
           /\ RoundOf(Redirect(t, b).high) >= RoundOf(b)
           /\ RoundOf(b) > RoundOf(t.high) => Redirect(t, b).high = b
  <1>1. /\ Up(t, b) \in Nodes(t) \cup {NoNode}
        /\ Up(t, Up(t, b)) \in Nodes(t) \cup {NoNode}
        /\ Up3(t, b) \in Nodes(t) \cup {NoNode}
    BY UpIsNode DEF Up3
  <1>2. t.high \in ID /\ b \in ID
    BY DEF IsTree
  <1>3. RoundOf(t.high) \in Nat /\ RoundOf(b) \in Nat
    BY <1>2 DEF ID, RoundOf
  <1>4. CASE Stays(t, b)
    BY <1>3, <1>4 DEF Redirect, Stays
  <1>5. CASE ~Stays(t, b)
    <2>1. IsTree(Redirect(t, b))
      BY <1>1, <1>5 DEF Redirect, OrElse, IsTree, Nodes
    <2>2. Redirect(t, b).par = t.par /\ Redirect(t, b).high = b
      BY <1>5 DEF Redirect, IsTree
    <2>3. RoundOf(b) >= RoundOf(t.high)
      BY <1>3, <1>5 DEF Stays
    <2>4. QED
      BY <1>3, <2>1, <2>2, <2>3
  <1>6. QED
    BY <1>4, <1>5

\* Reset moves the root and drops keys; nodes and the high node stay.
LEMMA ResetIsTree ==
    ASSUME NEW t, IsTree(t), NEW n \in Nodes(t)
    PROVE  /\ IsTree(Reset(t, n))
           /\ Reset(t, n).par = t.par
           /\ Reset(t, n).high = t.high
  BY DEF IsTree, Nodes, Reset

LEMMA ProcessCommitIsTree ==
    ASSUME NEW t, IsTree(t), NEW key
    PROVE  /\ IsTree(ProcessCommit(t, key))
           /\ ProcessCommit(t, key).par = t.par
           /\ ProcessCommit(t, key).high = t.high
  <1>1. t.commit # NoNode => t.commit \in Nodes(t)
    BY DEF IsTree
  <1>2. QED
    BY <1>1, ResetIsTree DEF ProcessCommit

\* ExecuteNInsert adds the node, and high moves to its parent or stays at a
\* node of at least the parent's round.
LEMMA ExecuteNInsertIsTree ==
    ASSUME NEW t, IsTree(t), NEW id \in ID, NEW p \in Nodes(t)
    PROVE  LET u == ExecuteNInsert(t, id, p)
           IN  /\ IsTree(u)
               /\ Nodes(u) = Nodes(t) \cup {id}
               /\ u.par[id] = p
               /\ \A x \in Nodes(t) \ {id} : u.par[x] = t.par[x]
               /\ u.high \in {t.high, p}
               /\ RoundOf(u.high) >= RoundOf(t.high)
               /\ RoundOf(u.high) >= RoundOf(p)
               /\ RoundOf(p) > RoundOf(t.high) => u.high = p
  <1> DEFINE v == Insert(t, id, p)
  <1>1. /\ IsTree(v)
        /\ Nodes(v) = Nodes(t) \cup {id}
        /\ v.par[id] = p
        /\ \A x \in Nodes(t) \ {id} : v.par[x] = t.par[x]
        /\ v.high = t.high
    BY InsertIsTree
  <1>2. p \in Nodes(v)
    BY <1>1
  <1> HIDE DEF v
  <1>3. /\ IsTree(Redirect(v, p))
        /\ Redirect(v, p).par = v.par
        /\ Redirect(v, p).high \in {v.high, p}
        /\ RoundOf(Redirect(v, p).high) >= RoundOf(v.high)
        /\ RoundOf(Redirect(v, p).high) >= RoundOf(p)
        /\ RoundOf(p) > RoundOf(v.high) => Redirect(v, p).high = p
    BY <1>1, <1>2, RedirectIsTree
  <1>4. Nodes(Redirect(v, p)) = Nodes(v)
    BY <1>3 DEF Nodes
  <1>5. QED
    BY <1>1, <1>3, <1>4 DEF ExecuteNInsert, v

-----------------------------------------------------------------------------
(* What holds of a tree that starts with the block `start', whatever calls  *)
(* it has seen.                                                             *)

\* The chain above a node is its parent's and the parent, and goes up in
\* rounds that get lower.
ChainsOK(t) ==
    \A x \in Nodes(t) :
        /\ t.anc[x] = IF t.par[x] = NoNode THEN {} ELSE t.anc[t.par[x]] \cup {t.par[x]}
        /\ \A y \in t.anc[x] : RoundOf(y) < RoundOf(x) /\ t.anc[y] \subseteq t.anc[x]

\* The properties of TreeCalls, of a tree t: KeySetShape,
\* CommitPointerNotAbove and, for FourBelow of the root, CommitIsFourDeep.
KeysOK(t) ==
    /\ Live(t) \subseteq t.keys
    /\ \A x \in t.keys \ Live(t), y \in Nodes(t) : t.par[y] # x

CommitOK(t) == t.commit \notin t.anc[t.root]

FourBelow(t, n) ==
    \E w, x, y, z \in Live(t) :
        t.par[w] = x /\ t.par[x] = y /\ t.par[y] = z /\ t.par[z] = n

TreeInv(t, start) ==
    /\ IsTree(t)
    /\ ChainsOK(t)
    /\ KeysOK(t)
    /\ CommitOK(t)
    /\ t.root # start => FourBelow(t, t.root)

-----------------------------------------------------------------------------
(* Chains.                                                                  *)

\* A child of a node a search finds is found, too, and so is what is above it,
\* up to the root; nothing it finds is above the root.
LEMMA LiveChains ==
    ASSUME NEW t, IsTree(t), ChainsOK(t)
    PROVE  /\ t.root \in Live(t)
           /\ Live(t) \subseteq Nodes(t)
           /\ \A x \in Nodes(t) : t.par[x] \in Live(t) => x \in Live(t)
           /\ \A x \in Live(t) \ {t.root} : t.par[x] \in Live(t)
           /\ \A x \in Live(t) : x \notin t.anc[t.root]
  <1>1. t.root \in Nodes(t) /\ NoNode \notin Nodes(t)
    BY NoNodeAssumption DEF IsTree
  <1>2. \A x \in Nodes(t) : RoundOf(x) \in Nat
    BY DEF IsTree, ID, RoundOf
  <1>3. \A x \in Nodes(t) : t.anc[x] \subseteq Nodes(t)
    BY DEF IsTree
  <1>4. \A x \in Nodes(t) : t.par[x] \in Live(t) => x \in Live(t)
    BY <1>1 DEF Live, ChainsOK
  <1>5. \A x \in Live(t) \ {t.root} : t.par[x] \in Live(t)
    <2> SUFFICES ASSUME NEW x \in Nodes(t), t.root \in t.anc[x]
                 PROVE  t.par[x] \in Live(t)
      BY DEF Live
    <2>1. t.par[x] # NoNode /\ t.root \in t.anc[t.par[x]] \cup {t.par[x]}
      BY DEF ChainsOK
    <2>2. t.par[x] \in Nodes(t)
      BY <2>1 DEF IsTree
    <2> QED
      BY <2>1, <2>2 DEF Live
  <1>6. \A x \in Live(t) : x \notin t.anc[t.root]
    <2> SUFFICES ASSUME NEW x \in Nodes(t), x = t.root \/ t.root \in t.anc[x],
                        x \in t.anc[t.root]
                 PROVE  FALSE
      BY DEF Live
    <2>1. RoundOf(x) < RoundOf(t.root)
      BY <1>1 DEF ChainsOK
    <2>2. x = t.root \/ RoundOf(t.root) < RoundOf(x)
      BY DEF ChainsOK
    <2>3. RoundOf(x) \in Nat /\ RoundOf(t.root) \in Nat
      BY <1>1, <1>2
    <2> QED
      BY <2>1, <2>2, <2>3
  <1> QED
    BY <1>1, <1>4, <1>5, <1>6 DEF Live

\* The parent of what a search finds is found, or nil.
LEMMA UpIsLive ==
    ASSUME NEW t, IsTree(t), ChainsOK(t), NEW x \in Live(t) \cup {NoNode}
    PROVE  /\ Up(t, x) \in Live(t) \cup {NoNode}
           /\ Up(t, x) # NoNode => x \in Live(t) /\ t.par[x] = Up(t, x)
  BY LiveChains DEF Up

\* Three generations up are four nodes in a row.
LEMMA Up3IsLive ==
    ASSUME NEW t, IsTree(t), ChainsOK(t), NEW x \in Live(t)
    PROVE  /\ Up3(t, x) \in Live(t) \cup {NoNode}
           /\ Up3(t, x) # NoNode =>
                  \E y, z \in Live(t) :
                      t.par[x] = y /\ t.par[y] = z /\ t.par[z] = Up3(t, x)
  <1>1. Up(t, x) \in Live(t) \cup {NoNode}
    BY UpIsLive
  <1>2. Up(t, Up(t, x)) \in Live(t) \cup {NoNode}
    BY <1>1, UpIsLive
  <1>3. /\ Up3(t, x) \in Live(t) \cup {NoNode}
        /\ Up3(t, x) # NoNode =>
               /\ Up(t, Up(t, x)) \in Live(t)
               /\ t.par[Up(t, Up(t, x))] = Up3(t, x)
    BY <1>2, UpIsLive DEF Up3
  <1>4. NoNode \notin Live(t)
    BY LiveChains, NoNodeAssumption DEF IsTree
  <1>5. Up(t, Up(t, x)) \in Live(t) => Up(t, x) \in Live(t) /\ t.par[Up(t, x)] = Up(t, Up(t, x))
    BY <1>1, <1>4, UpIsLive
  <1>6. Up(t, x) \in Live(t) => t.par[x] = Up(t, x)
    BY <1>4, UpIsLive
  <1> QED
    BY <1>3, <1>5, <1>6

-----------------------------------------------------------------------------
(* The operations.                                                          *)

\* A new node under one that a search finds.
LEMMA InsertInv ==
    ASSUME NEW start, NEW t, TreeInv(t, start), NEW id \in ID \ Nodes(t), NEW p \in Live(t),
           RoundOf(p) < RoundOf(id)
    PROVE  LET u == Insert(t, id, p)
           IN  /\ TreeInv(u, start)
               /\ Live(u) = Live(t) \cup {id}
               /\ u.root = t.root
               /\ u.par[id] = p
               /\ \A x \in Nodes(t) : u.anc[x] = t.anc[x]
  <1> USE DEF TreeInv
  <1> DEFINE u == Insert(t, id, p)
  <1>1. p \in Nodes(t) /\ t.root \in Nodes(t) /\ NoNode \notin Nodes(t) \cup {id}
    BY LiveChains, NoNodeAssumption DEF IsTree
  <1>2. /\ IsTree(u)
        /\ Nodes(u) = Nodes(t) \cup {id}
        /\ u.par[id] = p
        /\ \A x \in Nodes(t) : u.par[x] = t.par[x]
    BY <1>1, InsertIsTree
  <1>3. /\ u.anc[id] = t.anc[p] \cup {p}
        /\ \A x \in Nodes(t) : u.anc[x] = t.anc[x]
        /\ u.keys = t.keys \cup {id}
        /\ u.root = t.root /\ u.commit = t.commit
    BY <1>1 DEF Insert, IsTree
  <1> HIDE DEF u
  <1>4. \A x \in Nodes(t) : /\ t.par[x] \in Nodes(t) \cup {NoNode}
                            /\ t.anc[x] \subseteq Nodes(t)
    BY DEF IsTree
  <1>5. RoundOf(id) \in Nat /\ \A x \in Nodes(t) : RoundOf(x) \in Nat
    BY DEF IsTree, ID, RoundOf
  <1>6. ChainsOK(u)
    <2>1. \A x \in Nodes(t) :
              /\ u.anc[x] = IF u.par[x] = NoNode THEN {} ELSE u.anc[u.par[x]] \cup {u.par[x]}
              /\ \A y \in u.anc[x] : RoundOf(y) < RoundOf(x) /\ u.anc[y] \subseteq u.anc[x]
      <3> SUFFICES ASSUME NEW x \in Nodes(t)
                   PROVE  /\ u.anc[x] = IF u.par[x] = NoNode THEN {}
                                        ELSE u.anc[u.par[x]] \cup {u.par[x]}
                          /\ \A y \in u.anc[x] : /\ RoundOf(y) < RoundOf(x)
                                                /\ u.anc[y] \subseteq u.anc[x]
        OBVIOUS
      <3>1. u.anc[x] = t.anc[x] /\ u.par[x] = t.par[x]
        BY <1>2, <1>3
      <3>2. \A y \in t.anc[x] : u.anc[y] = t.anc[y]
        BY <1>3, <1>4
      <3>3. t.par[x] # NoNode => u.anc[t.par[x]] = t.anc[t.par[x]]
        BY <1>3, <1>4
      <3> QED
        BY <3>1, <3>2, <3>3 DEF ChainsOK
    <2>2. u.anc[id] = IF u.par[id] = NoNode THEN {} ELSE u.anc[u.par[id]] \cup {u.par[id]}
      BY <1>1, <1>2, <1>3
    <2>3. \A y \in u.anc[id] : RoundOf(y) < RoundOf(id) /\ u.anc[y] \subseteq u.anc[id]
      <3> SUFFICES ASSUME NEW y \in t.anc[p] \cup {p}
                   PROVE  RoundOf(y) < RoundOf(id) /\ u.anc[y] \subseteq u.anc[id]
        BY <1>3
      <3>1. y \in Nodes(t) /\ t.anc[y] \subseteq t.anc[p]
        BY <1>1, <1>4 DEF ChainsOK
      <3>2. y = p \/ RoundOf(y) < RoundOf(p)
        BY <1>1 DEF ChainsOK
      <3>3. RoundOf(y) \in Nat /\ RoundOf(p) \in Nat
        BY <1>1, <1>5, <3>1
      <3>4. RoundOf(y) < RoundOf(id)
        BY <1>5, <3>2, <3>3
      <3> QED
        BY <1>3, <3>1, <3>4
    <2> QED
      BY <1>2, <2>1, <2>2, <2>3 DEF ChainsOK
  <1>7. Live(u) = Live(t) \cup {id}
    <2>1. t.root \in u.anc[id]
      BY <1>3 DEF Live
    <2> QED
      BY <1>1, <1>2, <1>3, <2>1 DEF Live
  <1>8. KeysOK(u)
    <2>1. Live(u) \subseteq u.keys
      BY <1>3, <1>7 DEF KeysOK
    <2>2. \A x \in u.keys \ Live(u), y \in Nodes(u) : u.par[y] # x
      BY <1>2, <1>3, <1>7 DEF KeysOK
    <2> QED
      BY <2>1, <2>2 DEF KeysOK
  <1>9. CommitOK(u)
    BY <1>1, <1>3 DEF CommitOK
  <1>10. u.root # start => FourBelow(u, u.root)
    <2> SUFFICES ASSUME t.root # start PROVE FourBelow(u, t.root)
      BY <1>3
    <2>1. FourBelow(t, t.root)
      OBVIOUS
    <2>2. \A x \in Live(t) : x \in Nodes(t)
      BY LiveChains
    <2> QED
      BY <2>1, <2>2, <1>2, <1>7 DEF FourBelow
  <1> QED
    BY <1>2, <1>3, <1>6, <1>7, <1>8, <1>9, <1>10 DEF u

\* Moving the high node moves the commit pointer to a node a search finds.
LEMMA RedirectInv ==
    ASSUME NEW start, NEW t, TreeInv(t, start), NEW b \in Live(t)
    PROVE  LET u == Redirect(t, b)
           IN  /\ TreeInv(u, start)
               /\ u.root = t.root /\ u.par = t.par /\ u.anc = t.anc
               /\ Live(u) = Live(t)
  <1> USE DEF TreeInv
  <1> DEFINE u == Redirect(t, b)
  <1>1. b \in Nodes(t)
    BY LiveChains
  <1>2. IsTree(u) /\ u.par = t.par
    BY <1>1, RedirectIsTree
  <1>3. /\ u.anc = t.anc /\ u.keys = t.keys /\ u.root = t.root
        /\ u.commit \in {t.commit, Up3(t, b)}
        /\ u.commit = Up3(t, b) => Up3(t, b) # NoNode \/ t.commit = NoNode
    BY DEF Redirect, OrElse, IsTree
  <1> HIDE DEF u
  <1>4. Nodes(u) = Nodes(t) /\ Live(u) = Live(t)
    BY <1>2, <1>3 DEF Nodes, Live
  <1>5. ChainsOK(u) /\ KeysOK(u)
    BY <1>2, <1>3, <1>4 DEF ChainsOK, KeysOK
  <1>6. CommitOK(u)
    BY <1>3, Up3IsLive, LiveChains DEF CommitOK
  <1>7. u.root # start => FourBelow(u, u.root)
    BY <1>2, <1>3, <1>4 DEF FourBelow
  <1> QED
    BY <1>2, <1>3, <1>4, <1>5, <1>6, <1>7 DEF u

\* Reset to a node that has four more below it.  Of the branches it drops it
\* forgets the inner nodes, and the keys that stay are leaves.
LEMMA ResetInv ==
    ASSUME NEW start, NEW t, TreeInv(t, start), t.commit \in Live(t), FourBelow(t, t.commit)
    PROVE  LET u == Reset(t, t.commit)
           IN  /\ TreeInv(u, start)
               /\ u.root = t.commit /\ u.anc = t.anc
  <1> USE DEF TreeInv
  <1> DEFINE n == t.commit
             u == Reset(t, n)
  <1>1. n \in Nodes(t) /\ NoNode \notin Nodes(t)
    BY LiveChains, NoNodeAssumption DEF IsTree
  <1>2. IsTree(u) /\ u.par = t.par
    BY <1>1, ResetIsTree
  <1>3. /\ u.anc = t.anc /\ u.root = n /\ u.commit = n
        /\ u.keys = IF Up(t, n) = NoNode THEN t.keys ELSE t.keys \ Deleted(t, n)
    BY DEF Reset, IsTree
  <1> HIDE DEF u
  <1>4. Nodes(u) = Nodes(t)
    BY <1>2 DEF Nodes
  <1>5. ChainsOK(u)
    BY <1>2, <1>3, <1>4 DEF ChainsOK
  <1>6. Live(u) = Below(t, n)
    <2>1. \A x \in Nodes(t) : x = n \/ n \in t.anc[x] => x \in Live(t)
      BY <1>1 DEF Live, ChainsOK
    <2> QED
      BY <1>3, <1>4, <2>1 DEF Live, Below
  <1>7. KeysOK(u)
    <2>1. CASE Up(t, n) = NoNode
      <3>1. n = t.root
        BY <1>1, <2>1, LiveChains DEF Up
      <3>2. Live(u) = Live(t)
        BY <1>3, <1>4, <3>1 DEF Live
      <3> QED
        BY <1>2, <1>3, <1>4, <2>1, <3>2 DEF KeysOK
    <2>2. CASE Up(t, n) # NoNode
      <3>1. u.keys = t.keys \ Deleted(t, n)
        BY <1>3, <2>2
      <3>2. Live(u) \subseteq u.keys
        BY <1>6, <3>1 DEF KeysOK, Below, Deleted
      <3>3. \A x \in u.keys \ Live(u), y \in Nodes(t) : t.par[y] # x
        <4> SUFFICES ASSUME NEW x \in t.keys, x \notin Deleted(t, n), x \notin Below(t, n),
                            NEW y \in Nodes(t), t.par[y] = x
                     PROVE  FALSE
          BY <1>6, <3>1
        <4>1. x \in Live(t)
          BY DEF KeysOK
        <4>2. y \in Live(t)
          BY <4>1, LiveChains
        <4> QED
          BY <4>1, <4>2 DEF Deleted
      <3> QED
        BY <1>2, <1>4, <3>2, <3>3 DEF KeysOK
    <2> QED
      BY <2>1, <2>2
  <1>8. CommitOK(u)
    BY <1>3, <1>5, <1>2, LiveChains DEF CommitOK
  <1>9. FourBelow(u, u.root)
    <2>1. PICK w \in Live(t), x \in Live(t), y \in Live(t), z \in Live(t) :
              t.par[w] = x /\ t.par[x] = y /\ t.par[y] = z /\ t.par[z] = n
      BY DEF FourBelow
    <2>2. /\ w \in Nodes(u) /\ x \in Nodes(u) /\ y \in Nodes(u) /\ z \in Nodes(u)
          /\ n \in Live(u)
      BY <1>2, <1>3, <1>4, <1>5, LiveChains
    <2>3. z \in Live(u)
      BY <1>2, <1>5, <2>1, <2>2, LiveChains
    <2>4. y \in Live(u)
      BY <1>2, <1>5, <2>1, <2>2, <2>3, LiveChains
    <2>5. x \in Live(u)
      BY <1>2, <1>5, <2>1, <2>2, <2>4, LiveChains
    <2>6. w \in Live(u)
      BY <1>2, <1>5, <2>1, <2>2, <2>5, LiveChains
    <2> QED
      BY <1>2, <1>3, <2>1, <2>3, <2>4, <2>5, <2>6 DEF FourBelow
  <1> QED
    BY <1>2, <1>3, <1>5, <1>7, <1>8, <1>9 DEF u

-----------------------------------------------------------------------------
(* The steps.                                                               *)

\* What a call may do to the root: nothing, or take it to a node below it.
Downwards(t, u) ==
    /\ Committed(t) \subseteq Committed(u)
    /\ u.root # t.root => t.root \in u.anc[u.root]

LEMMA NewQCTreeInv ==
    ASSUME NEW g \in ID
    PROVE  TreeInv(NewQCTree(g), g)
  <1> DEFINE t == NewQCTree(g)
  <1>1. IsTree(t) /\ Nodes(t) = {g}
    BY NewQCTreeIsTree
  <1>2. /\ t.root = g /\ t.commit = NoNode /\ t.keys = {g}
        /\ t.par[g] = NoNode /\ t.anc[g] = {}
    BY DEF NewQCTree
  <1>3. g # NoNode
    BY NoNodeAssumption
  <1> HIDE DEF t
  <1>4. Live(t) = {g}
    BY <1>1, <1>2 DEF Live
  <1>5. TreeInv(t, g)
    BY <1>1, <1>2, <1>3, <1>4 DEF TreeInv, ChainsOK, KeysOK, CommitOK
  <1> QED
    BY <1>5 DEF t

\* A proposal commits the node three above its parent, or none.
LEMMA ProposalInv ==
    ASSUME NEW start, NEW t, TreeInv(t, start), NEW id \in ID, NEW p \in Live(t),
           id \in Nodes(t) => IsRepeat(t, id) /\ t.par[id] = p,
           IsRepeat(t, id) \/ CanInsert(t, id, p)
    PROVE  TreeInv(TreeAfterProposal(t, id, p), start) /\ Downwards(t, TreeAfterProposal(t, id, p))
  <1> USE DEF TreeInv
  <1> DEFINE u == IF IsRepeat(t, id) THEN t ELSE ExecuteNInsert(t, id, p)
             n == Up3(u, p)
  <1>1. /\ TreeInv(u, start) /\ Live(t) \subseteq Live(u)
        /\ id \in Nodes(u) /\ u.par[id] = p
        /\ u.root = t.root /\ \A x \in Nodes(t) : u.anc[x] = t.anc[x]
    <2>1. CASE IsRepeat(t, id)
      <3>1. id \in Nodes(t)
        BY <2>1 DEF IsRepeat, IsTree
      <3> QED
        BY <2>1, <3>1
    <2>2. CASE ~IsRepeat(t, id)
      <3> DEFINE v == Insert(t, id, p)
      <3>1. id \in ID \ Nodes(t) /\ RoundOf(p) < RoundOf(id)
        BY <2>2 DEF CanInsert
      <3>2. /\ TreeInv(v, start) /\ Live(v) = Live(t) \cup {id}
            /\ v.root = t.root /\ v.par[id] = p
            /\ \A x \in Nodes(t) : v.anc[x] = t.anc[x]
        BY <3>1, InsertInv
      <3> HIDE DEF v
      <3>3. LET w == Redirect(v, p)
            IN  /\ TreeInv(w, start)
                /\ w.root = v.root /\ w.par = v.par /\ w.anc = v.anc
                /\ Live(w) = Live(v)
        <4>1. TreeInv(v, start) /\ p \in Live(v)
          BY <3>2
        <4> HIDE DEF TreeInv
        <4> QED
          BY <4>1, RedirectInv
      <3>4. u = Redirect(v, p)
        BY <2>2 DEF ExecuteNInsert, v
      <3>5. Live(u) \subseteq Nodes(u)
        BY <3>3, <3>4, LiveChains
      <3> QED
        BY <3>2, <3>3, <3>4, <3>5
    <2> QED
      BY <2>1, <2>2
  <1> HIDE DEF u
  <1>2. TreeAfterProposal(t, id, p) = IF n = NoNode THEN u ELSE ProcessCommit(u, n)
    BY DEF TreeAfterProposal, u
  <1>3. t.root \in Nodes(t)
    BY DEF IsTree
  <1>4. CASE TreeAfterProposal(t, id, p) = u
    BY <1>1, <1>3, <1>4 DEF Downwards, Committed
  <1>5. CASE n # NoNode /\ u.commit = n /\ TreeAfterProposal(t, id, p) = Reset(u, u.commit)
    <2>1. p \in Live(u)
      BY <1>1
    <2>2. /\ n \in Live(u)
          /\ \E y, z \in Live(u) : u.par[p] = y /\ u.par[y] = z /\ u.par[z] = n
      BY <1>1, <1>5, <2>1, Up3IsLive
    <2>3. id \in Live(u)
      BY <1>1, <2>1, LiveChains
    <2>4. FourBelow(u, u.commit)
      BY <1>1, <1>5, <2>1, <2>2, <2>3 DEF FourBelow
    <2> DEFINE v == Reset(u, u.commit)
    <2>5. TreeInv(v, start) /\ v.root = u.commit /\ v.anc = u.anc
      BY <1>1, <1>5, <2>2, <2>4, ResetInv
    <2> HIDE DEF v
    <2>6. n \in Nodes(u) /\ (n = u.root \/ u.root \in u.anc[n])
      BY <2>2 DEF Live
    <2>7. n = u.root \/ Committed(u) \subseteq u.anc[n]
      BY <1>1, <2>6 DEF ChainsOK, Committed
    <2>8. Committed(u) = Committed(t)
      BY <1>1, <1>3 DEF Committed
    <2>9. Downwards(t, v)
      BY <1>1, <1>5, <2>5, <2>6, <2>7, <2>8 DEF Downwards, Committed
    <2> QED
      BY <1>5, <2>5, <2>9 DEF v
  <1> QED
    BY <1>2, <1>4, <1>5 DEF ProcessCommit

\* A quorum of votes leaves the root where it is.
LEMMA VoteInv ==
    ASSUME NEW start, NEW t, TreeInv(t, start), NEW id \in Live(t)
    PROVE  TreeInv(ProcessVote(t, id), start) /\ Downwards(t, ProcessVote(t, id))
  BY RedirectInv DEF ProcessVote, Downwards, Committed

\* So does a quorum of timeouts.
LEMMA TimeoutInv ==
    ASSUME NEW start, NEW t, TreeInv(t, start), NEW tmo \in ID \ Nodes(t), NEW p \in Live(t),
           CanInsert(t, tmo, p)
    PROVE  LET u == ProcessVote(ExecuteNInsert(t, tmo, p), tmo)
           IN  TreeInv(u, start) /\ Downwards(t, u)
  <1> DEFINE v == Insert(t, tmo, p)
             w == Redirect(v, p)
             u == Redirect(w, tmo)
  <1>1. /\ TreeInv(v, start) /\ Live(v) = Live(t) \cup {tmo}
        /\ v.root = t.root /\ \A x \in Nodes(t) : v.anc[x] = t.anc[x]
    BY InsertInv DEF CanInsert
  <1> HIDE DEF v
  <1>2. TreeInv(w, start) /\ w.root = v.root /\ w.anc = v.anc /\ Live(w) = Live(v)
    BY <1>1, RedirectInv
  <1> HIDE DEF w
  <1>3. TreeInv(u, start) /\ u.root = w.root /\ u.anc = w.anc
    BY <1>1, <1>2, RedirectInv
  <1> HIDE DEF u
  <1>4. t.root \in Nodes(t)
    BY DEF TreeInv, IsTree
  <1>5. Downwards(t, u)
    BY <1>1, <1>2, <1>3, <1>4 DEF Downwards, Committed
  <1> QED
    BY <1>3, <1>5 DEF u, w, v, ProcessVote, ExecuteNInsert
===============================================================================
