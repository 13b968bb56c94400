------------------------- MODULE HotStuffProperties -------------------------
(***************************************************************************)
(* What the replicas of HotStuff achieve together, and, in the last        *)
(* section, what comments of the code say they achieve and they do not.    *)
(***************************************************************************)
EXTENDS HotStuff

-----------------------------------------------------------------------------
TypeOK ==
    /\ round \in [Replica -> Nat]
    /\ \A p \in Replica : IsTree(tree[p])
    /\ DOMAIN tree = Replica
    /\ voteSet \in [Replica -> SUBSET (ID \X Replica)]
    /\ timeoutSet \in [Replica -> SUBSET (Nat \X Replica)]
    /\ timer \in [Replica -> Nat]
    /\ sent \subseteq Message
    /\ handled \in [Replica -> SUBSET Message]
    /\ restarts \in 0 .. MaxRestarts

-----------------------------------------------------------------------------
(* What the messages M say of a node, whoever received them.                *)
TwoThirds(S) == 3 * Cardinality(S) > 2 * N

Voters(M, id) ==
    {q \in Replica : \E m \in M : m.type = "vote" /\ m.id = id /\ m.from = q}
TimedOut(M, r) ==
    {q \in Replica : \E m \in M : m.type = "timeout" /\ m.round = r /\ m.from = q}

Certified(M, id) ==
    \/ id = Genesis
    \/ TwoThirds(Voters(M, id))
    \/ id = TmoID(RoundOf(id)) /\ TwoThirds(TimedOut(M, RoundOf(id)))

\* No replica ever takes as its high node, the node it proposes on, one that
\* more than two thirds of the validators neither voted for nor timed out on.
CertifiedHigh == \A p \in Replica : Certified(sent, tree[p].high)

\* Nothing goes on the wire, and nothing enters a tree, on top of a node that
\* is not certified or not of an earlier round.
CertifiedParents ==
    /\ \A p \in Replica : \A x \in Nodes(tree[p]) \ {Genesis} :
           Certified(sent, tree[p].par[x]) /\ RoundOf(tree[p].par[x]) < RoundOf(x)
    /\ \A m \in sent :
           /\ m.type = "proposal" =>
                  Certified(sent, m.justify) /\ RoundOf(m.justify) < RoundOf(m.id)
           /\ m.type = "timeout" =>
                  Certified(sent, m.parent) /\ RoundOf(m.parent) < m.round

\* The pacemaker of no replica runs ahead: a round is entered only when a
\* node of the round before it is certified, a timeout node or one in the tree.
RoundBacked ==
    \A p \in Replica :
        \/ Certified(sent, TmoID(round[p] - 1))
        \/ \E x \in Nodes(tree[p]) : RoundOf(x) = round[p] - 1 /\ Certified(sent, x)

\* A replica's high node is of the round before its own, unless the timeout
\* quorum that took it there could not be inserted.
HighFollowsRound ==
    \A p \in Replica :
        \/ RoundOf(tree[p].high) = round[p] - 1
        \/ /\ RoundOf(tree[p].high) < round[p] - 1
           /\ TwoThirds(TimeoutsOf(timeoutSet[p], round[p] - 1))
           /\ TmoID(round[p] - 1) \notin Nodes(tree[p])

\* No quorum a replica has counted is left lying: its round is past it.
QuorumsActedOn ==
    \A p \in Replica :
        /\ \A v \in voteSet[p] :
               TwoThirds(VotesFor(voteSet[p], v[1])) =>
                   RoundOf(v[1]) < round[p] /\ RoundOf(v[1]) <= RoundOf(tree[p].high)
        /\ \A o \in timeoutSet[p] :
               TwoThirds(TimeoutsOf(timeoutSet[p], o[1])) => o[1] < round[p]

\* A block, as opposed to a timeout node, hangs from the same parent in every
\* tree that has it.
TreesAgreeOnBlocks ==
    \A p, q \in Replica : \A x \in Nodes(tree[p]) \cap Nodes(tree[q]) :
        x # TmoID(RoundOf(x)) => tree[p].par[x] = tree[q].par[x]

\* A replica never goes back: its round and the round of its high node only
\* grow, but for a restart.
AllForward ==
    \A p \in Replica :
        \/ round'[p] >= round[p] /\ RoundOf(tree'[p].high) >= RoundOf(tree[p].high)
        \/ restarts' # restarts
NeverBack == [][AllForward]_vars

\* A replica's timer is the one RoundTimer specifies: armed for a round when the
\* replica enters it, never for an older round, and every timeout message sent
\* is for the round its sender is in.
Announced(p) ==
    {m.round : m \in {n \in sent : n.type = "timeout" /\ n.from = p}}
Timer(p) == INSTANCE RoundTimer
                WITH First <- StartingRound, current <- round[p],
                     armed <- timer[p], announced <- Announced(p)
TimersKept ==
    /\ \A p \in Replica : Timer(p)!Init
    /\ [][\A p \in Replica : [Timer(p)!Next]_(Timer(p)!vars)]_vars

\* A replica's tree sees the calls TreeCalls makes, each on the nodes it makes
\* it on, from the start block on and again from there after a restart: what
\* TreeCalls promises of one tree holds of every replica's.
Blocks == (0 .. MaxRound) \X (1 .. MaxProposals)
TimeoutNodes == {TmoID(r) : r \in 0 .. MaxRound} \ {Genesis}
Calls(p) == INSTANCE TreeCalls
                WITH Start <- Genesis, Proposals <- Blocks, Timeouts <- TimeoutNodes,
                     tree <- tree[p]
Restarted(p) == restarts' # restarts /\ tree'[p] = NewQCTree(Genesis)
TreesKept ==
    /\ \A p \in Replica : Calls(p)!Init
    /\ [][\A p \in Replica : tree'[p] = tree[p] \/ Calls(p)!Next \/ Restarted(p)]_vars

\* When all running replicas meet in a round with their timers armed for it,
\* one of them gets out of it: the proposal is voted through, or it times out.
SynchronizedRoundEnds ==
    \A r \in TimerRounds \cap 0 .. MaxRound - 1 :
        (\A p \in Running : round[p] = r /\ timer[p] = r)
            ~> (\E p \in Running : round[p] > r)

-----------------------------------------------------------------------------
(* The invariant behind the proofs: what the properties above rest on.      *)

\* Whoever is counted as a voter has voted, or has timed out.
CountsBacked ==
    \A p \in Replica :
        /\ \A v \in voteSet[p] : v[2] \in Voters(sent, v[1])
        /\ \A o \in timeoutSet[p] : o[2] \in TimedOut(sent, o[1])

\* An id names one proposal and no timeout node, and a block sits in a tree
\* where its proposal put it.
BlocksAreProposals ==
    /\ \A m, n \in sent :
           m.type = "proposal" /\ n.type = "proposal" /\ m.id = n.id =>
               m.justify = n.justify
    /\ \A m \in sent : m.type = "proposal" => m.id # TmoID(RoundOf(m.id))
    /\ \A p \in Replica : \A x \in Nodes(tree[p]) :
           \/ x = TmoID(RoundOf(x))
           \/ \E m \in sent :
                  m.type = "proposal" /\ m.id = x /\ m.justify = tree[p].par[x]

\* A replica has left the round of every timeout node, and of every parent,
\* in its tree, where only the start block has no parent.
TreesBehindRound ==
    \A p \in Replica : \A x \in Nodes(tree[p]) :
        /\ x = TmoID(RoundOf(x)) => RoundOf(x) < round[p]
        /\ x # Genesis => /\ tree[p].par[x] \in Nodes(tree[p])
                          /\ RoundOf(tree[p].par[x]) < round[p]

IInv ==
    /\ TypeOK
    /\ CountsBacked
    /\ BlocksAreProposals
    /\ TreesBehindRound
    /\ CertifiedHigh
    /\ CertifiedParents
    /\ HighFollowsRound
    /\ QuorumsActedOn

-----------------------------------------------------------------------------
(* What comments in the source say, and the code does not do.               *)

\* state.go:38-39: blocks are committed upon reaching agreement.  So of two
\* committed roots one is an ancestor of the other.
Agreement ==
    \A p, q \in Replica :
        tree[p].root \in Committed(tree[q]) \/ tree[q].root \in Committed(tree[p])

\* state.go:354: localTimeout handles the wait for a proposal and the wait for
\* votes.  So replicas that are all in one round do not stay in it for ever.
RoundEnds ==
    \A r \in TimerRounds \cap 0 .. MaxRound - 1 :
        (\A p \in Running : round[p] = r) ~> (\E p \in Running : round[p] > r)
=============================================================================
