----------------------------- MODULE HotStuff ------------------------------
(***************************************************************************)
(* The consensus core: N replicas, each a State (state/state.go) with its  *)
(* pacemaker, safety rules, vote and timeout sets and block tree, joined   *)
(* by an asynchronous network.                                             *)
(*                                                                         *)
(* One action is one handler run by receiveRoutine, to its last side       *)
(* effect: the State mutex and the single receiving goroutine make         *)
(* handlers atomic.  A handler queues what it sends on senderQueue and     *)
(* schedule later signs it, copies it to the replica's own peerMsgQueue    *)
(* and gives it to the switch; a message is in `sent' from the moment it   *)
(* is queued and may be handled by each addressee at any later time, once, *)
(* in any order (conn.go starts a goroutine per packet), or never.         *)
(*                                                                         *)
(* The timeout index is left out: every index starts from the configured   *)
(* StartTimeoutIdx, which nothing increments, and DefaultElection ignores  *)
(* it.  latestRound, latestID and the parent a vote names are written and  *)
(* never read.  Signatures are produced but not consulted by any handler.  *)
(***************************************************************************)
EXTENDS BlockTree, FiniteSets

CONSTANTS
    N,            \* number of validators, numbered in their configured order
    Running,      \* the validators whose process runs; the others are down
    StartRound,   \* round of the configured start block
    MaxRound,     \* bound: no replica enters a round above it
    MaxProposals, \* bound: ids a round can use up
    TimerRounds,  \* bound: the rounds whose timer may expire
    MaxRestarts   \* bound: process restarts in a behaviour

ASSUME ConstantsAssumption ==
    /\ N \in Nat \ {0}
    /\ StartRound \in Nat
    /\ MaxRound \in Nat
    /\ MaxProposals \in Nat
    /\ TimerRounds \subseteq Nat
    /\ MaxRestarts \in Nat

Replica == 0 .. N - 1

ASSUME RunningAssumption == Running \subseteq Replica

\* Mutant: off by one on the length of the validator list.
LeaderPastEnd(r) == r % (N + 1)

\* DefaultElection.Leader: the validator list, round robin.
Leader(r) == r % N

\* Mutant: two thirds are enough.
HasTwoThirdsExactly(S) == Cardinality(S) >= (N * 2) \div 3

\* The test both sets make, on Go's integer arithmetic: lens > len * 2 / 3.
HasTwoThirdsAny(S) == Cardinality(S) > (N * 2) \div 3

HotstuffChaindStep == 3

Genesis  == <<StartRound, 0>>
TmoID(r) == <<r, 0>>

VARIABLES
    round,      \* pacemaker.current
    tree,       \* tree
    voteSet,    \* voteSet.roundVoteSets, as <<id, sender>> pairs
    timeoutSet, \* timeoutSet.timeoutSets, as <<round, sender>> pairs
    timer,      \* the Round of the ticker's timeoutInfo
    sent,       \* every message queued for sending so far
    handled,    \* the messages each replica has taken from peerMsgQueue
    restarts    \* restarts so far

replicaVars == <<round, tree, voteSet, timeoutSet, timer>>
vars == <<replicaVars, sent, handled, restarts>>

-----------------------------------------------------------------------------
ProposalMsg == [type : {"proposal"}, id : ID, justify : ID, from : Replica]
VoteMsg     == [type : {"vote"}, id : ID, from : Replica, to : Replica]
TimeoutMsg  == [type : {"timeout"}, round : Nat, parent : ID, from : Replica]
Message     == ProposalMsg \cup VoteMsg \cup TimeoutMsg

Proposal(id, justify, p) ==
    [type |-> "proposal", id |-> id, justify |-> justify, from |-> p]
Vote(id, p, q) == [type |-> "vote", id |-> id, from |-> p, to |-> q]
Timeout(r, parent, p) ==
    [type |-> "timeout", round |-> r, parent |-> parent, from |-> p]

\* schedule: broadcasts reach every replica, its sender through its own
\* queue; a vote reaches the next leader and, again by that queue, its sender.
Dest(m) == IF m.type = "vote" THEN {m.from, m.to} ELSE Replica

Pending(p, type) ==
    {m \in sent : m.type = type /\ p \in Dest(m) /\ m \notin handled[p]}

Handle(p, m) == handled' = [handled EXCEPT ![p] = @ \cup {m}]

-----------------------------------------------------------------------------
\* DefaultTimeoutTicker ignores a tick for a round older than its own.
ScheduleTimeout(p, r) == timer' = [timer EXCEPT ![p] = IF r < @ THEN @ ELSE r]

\* Mutant: the round of the QC itself instead of the one after it.
AdvanceRoundToQC(current, r) == IF r > current THEN r ELSE current

\* DefaultPacemaker.AdvanceRound and ProcessTimeoutRound on a QC of round r.
AdvanceRound(current, r) == IF r + 1 > current THEN r + 1 ELSE current

\* GetNextID: an id no proposal has used, the k-th of its round.
UsedIDs == {m.id : m \in {n \in sent : n.type = "proposal"}}
FreshIDs(r) ==
    {<<r, k>> : k \in {j \in 1 .. MaxProposals :
                          /\ <<r, j>> \notin UsedIDs
                          /\ \A i \in 1 .. j - 1 : <<r, i>> \in UsedIDs}}

\* NewRoundEvent of replica p, now in round r with tree t: it restarts the
\* timer and, as the leader, proposes a block on its high node.
NewRoundEvent(p, r, t) ==
    /\ r <= MaxRound
    /\ ScheduleTimeout(p, r)
    /\ IF Leader(r) = p
         THEN \E id \in FreshIDs(r) : sent' = sent \cup {Proposal(id, t.high, p)}
         ELSE sent' = sent

-----------------------------------------------------------------------------
(* The state a process starts in: NewState, the default components, and     *)
(* Start, which arms the first round timer.                                 *)
StartingRound == StartRound + 1

Init ==
    /\ round      = [p \in Replica |-> StartingRound]
    /\ tree       = [p \in Replica |-> NewQCTree(Genesis)]
    /\ voteSet    = [p \in Replica |-> {}]
    /\ timeoutSet = [p \in Replica |-> {}]
    /\ timer      = [p \in Replica |-> StartingRound]
    /\ sent       = {}
    /\ handled    = [p \in Replica |-> {}]
    /\ restarts   = 0

\* Mutant: the pacemaker survives the restart.
RestartKeepsRound(p) ==
    /\ restarts < MaxRestarts
    /\ restarts'   = restarts + 1
    /\ tree'       = [tree EXCEPT ![p] = NewQCTree(Genesis)]
    /\ voteSet'    = [voteSet EXCEPT ![p] = {}]
    /\ timeoutSet' = [timeoutSet EXCEPT ![p] = {}]
    /\ UNCHANGED <<round, timer, sent, handled>>

\* Mutant: the process starts on the node it was on.
RestartOnHigh(p) ==
    /\ restarts < MaxRestarts
    /\ restarts'   = restarts + 1
    /\ round'      = [round EXCEPT ![p] = RoundOf(tree[p].high) + 1]
    /\ tree'       = [tree EXCEPT ![p] = NewQCTree(@.high)]
    /\ voteSet'    = [voteSet EXCEPT ![p] = {}]
    /\ timeoutSet' = [timeoutSet EXCEPT ![p] = {}]
    /\ timer'      = [timer EXCEPT ![p] = RoundOf(tree[p].high) + 1]
    /\ UNCHANGED <<sent, handled>>

\* The process dies and is started again: nothing is persisted (the WAL is a
\* TODO), so the replica is back at the configuration.  Its own queued copies
\* are lost; a timeout it had counted may come again, as every expiry of the
\* sender's timer sent one more copy.
Restart(p) ==
    /\ restarts < MaxRestarts
    /\ restarts'   = restarts + 1
    /\ round'      = [round EXCEPT ![p] = StartingRound]
    /\ tree'       = [tree EXCEPT ![p] = NewQCTree(Genesis)]
    /\ voteSet'    = [voteSet EXCEPT ![p] = {}]
    /\ timeoutSet' = [timeoutSet EXCEPT ![p] = {}]
    /\ timer'      = [timer EXCEPT ![p] = StartingRound]
    /\ handled'    = [handled EXCEPT ![p] =
           {m \in @ : m.type # "timeout"} \cup {m \in sent : m.from = p}]
    /\ UNCHANGED sent

-----------------------------------------------------------------------------
(* onReceiveProposal.  DefaultSafetyRules.CheckProposal asks for the parent *)
(* in the tree, the round's leader as sender, and for a known id the same   *)
(* parent; it asks nothing of the round.                                    *)
CheckProposal(p, m) ==
    /\ Search(tree[p], m.justify)
    /\ Leader(RoundOf(m.id)) = m.from
    /\ Search(tree[p], m.id) => Up(tree[p], m.id) = m.justify

RejectProposal(p) ==
    \E m \in Pending(p, "proposal") :
        /\ ~CheckProposal(p, m)
        /\ Handle(p, m)
        /\ UNCHANGED <<replicaVars, sent, restarts>>

AcceptProposal(p) ==
    \E m \in Pending(p, "proposal") :
        LET r == AdvanceRound(round[p], RoundOf(m.justify))
            stored == IsRepeat(tree[p], m.id) \/ CanInsert(tree[p], m.id, m.justify)
        IN  /\ CheckProposal(p, m)
            /\ r <= MaxRound
            /\ Handle(p, m)
            /\ round' = [round EXCEPT ![p] = r]
            /\ IF stored
                 THEN /\ tree' = [tree EXCEPT ![p] = TreeAfterProposal(@, m.id, m.justify)]
                      /\ sent' = sent \cup {Vote(m.id, p, Leader(r + 1))}
                 ELSE UNCHANGED <<tree, sent>>
            /\ UNCHANGED <<voteSet, timeoutSet, timer, restarts>>

-----------------------------------------------------------------------------
(* onReceiveVote.  DefaultSafetyRules.CheckVote wants the voted node in the *)
(* tree; a vote that outruns its proposal is lost.                          *)
CheckVote(p, m) == Search(tree[p], m.id)

RejectVote(p) ==
    \E m \in Pending(p, "vote") :
        /\ ~CheckVote(p, m)
        /\ Handle(p, m)
        /\ UNCHANGED <<replicaVars, sent, restarts>>

VotesFor(votes, id) == {q \in Replica : <<id, q>> \in votes}

CollectVote(p) ==
    \E m \in Pending(p, "vote") :
        LET votes == voteSet[p] \cup {<<m.id, m.from>>}
        IN  /\ CheckVote(p, m)
            /\ ~HasTwoThirdsAny(VotesFor(votes, m.id))
            /\ Handle(p, m)
            /\ voteSet' = [voteSet EXCEPT ![p] = votes]
            /\ UNCHANGED <<round, tree, timeoutSet, timer, sent, restarts>>

\* VoteSet.reset, on a quorum of round r, forgets the rounds up to r - 3.
KeptVotes(votes, r) == {v \in votes : RoundOf(v[1]) > r - HotstuffChaindStep}

\* Every vote from the 2f+1-th on: the old votes go, high moves, the round
\* advances and NewRoundEvent follows, each time.
VoteQuorum(p) ==
    \E m \in Pending(p, "vote") :
        LET votes == voteSet[p] \cup {<<m.id, m.from>>}
            r == AdvanceRound(round[p], RoundOf(m.id))
            t == ProcessVote(tree[p], m.id)
        IN  /\ CheckVote(p, m)
            /\ HasTwoThirdsAny(VotesFor(votes, m.id))
            /\ Handle(p, m)
            /\ voteSet' = [voteSet EXCEPT ![p] = KeptVotes(votes, RoundOf(m.id))]
            /\ tree' = [tree EXCEPT ![p] = t]
            /\ round' = [round EXCEPT ![p] = r]
            /\ NewRoundEvent(p, r, t)
            /\ UNCHANGED <<timeoutSet, restarts>>

-----------------------------------------------------------------------------
\* Mutant: timeouts of a round that is over are let through.
CheckTimeoutOfAny(p, r) == TRUE

\* DefaultSafetyRules.CheckTimeout: the round is not over.
CheckTimeout(p, r) == round[p] <= r

\* Mutant: a tick for the current round is taken for a stale one.
LocalTimeoutTooStrict(p) == /\ round[p] < timer[p]
                            /\ sent' = sent \cup {Timeout(timer[p], tree[p].high, p)}
                            /\ UNCHANGED <<replicaVars, handled, restarts>>

(* localTimeout with the ticker's timeoutInfo: unless the round is over, a  *)
(* timeout message on the high node, and the timer again.  A copy changes   *)
(* nothing where its sender is counted, so only the replica itself may have *)
(* to take it a second time, when it sent the first before a restart.       *)
LocalTimeout(p) ==
    LET m == Timeout(timer[p], tree[p].high, p)
    IN  /\ CheckTimeout(p, timer[p])
        /\ timer[p] \in TimerRounds
        /\ sent' = sent \cup {m}
        /\ handled' = [handled EXCEPT ![p] =
               IF <<timer[p], p>> \in timeoutSet[p] THEN @ ELSE @ \ {m}]
        /\ ScheduleTimeout(p, timer[p])
        /\ UNCHANGED <<round, tree, voteSet, timeoutSet, restarts>>

(* onReceiveTimeout.  A stale message changes nothing, and stays stale as   *)
(* long as the process lives, so it is simply not handled.                  *)
TimeoutsOf(timeouts, r) == {q \in Replica : <<r, q>> \in timeouts}

CollectTimeout(p) ==
    \E m \in Pending(p, "timeout") :
        LET timeouts == timeoutSet[p] \cup {<<m.round, m.from>>}
        IN  /\ CheckTimeout(p, m.round)
            /\ ~HasTwoThirdsAny(TimeoutsOf(timeouts, m.round))
            /\ Handle(p, m)
            /\ timeoutSet' = [timeoutSet EXCEPT ![p] = timeouts]
            /\ UNCHANGED <<round, tree, voteSet, timer, sent, restarts>>

\* The quorum is there: the round advances, the timeout node goes under the
\* parent named by the message that completed it, and becomes high.
TimeoutQuorum(p) ==
    \E m \in Pending(p, "timeout") :
        LET timeouts == timeoutSet[p] \cup {<<m.round, m.from>>}
            r   == AdvanceRound(round[p], m.round)
            tmo == TmoID(m.round)
            t   == ProcessVote(ExecuteNInsert(tree[p], tmo, m.parent), tmo)
        IN  /\ CheckTimeout(p, m.round)
            /\ HasTwoThirdsAny(TimeoutsOf(timeouts, m.round))
            /\ CanInsert(tree[p], tmo, m.parent)
            /\ Handle(p, m)
            /\ timeoutSet' = [timeoutSet EXCEPT ![p] = timeouts]
            /\ round' = [round EXCEPT ![p] = r]
            /\ tree' = [tree EXCEPT ![p] = t]
            /\ NewRoundEvent(p, r, t)
            /\ UNCHANGED <<voteSet, restarts>>

\* The quorum is there and the insert fails (an orphan, in practice): the
\* pacemaker has advanced already and NewRoundEvent is never reached.
TimeoutQuorumInsertFails(p) ==
    \E m \in Pending(p, "timeout") :
        LET timeouts == timeoutSet[p] \cup {<<m.round, m.from>>}
            r == AdvanceRound(round[p], m.round)
        IN  /\ CheckTimeout(p, m.round)
            /\ HasTwoThirdsAny(TimeoutsOf(timeouts, m.round))
            /\ ~CanInsert(tree[p], TmoID(m.round), m.parent)
            /\ r <= MaxRound
            /\ Handle(p, m)
            /\ timeoutSet' = [timeoutSet EXCEPT ![p] = timeouts]
            /\ round' = [round EXCEPT ![p] = r]
            /\ UNCHANGED <<tree, voteSet, timer, sent, restarts>>

-----------------------------------------------------------------------------
\* One pass of receiveRoutine with a message from peerMsgQueue.
Receive(p) ==
    \/ RejectProposal(p)
    \/ AcceptProposal(p)
    \/ RejectVote(p)
    \/ CollectVote(p)
    \/ VoteQuorum(p)
    \/ CollectTimeout(p)
    \/ TimeoutQuorum(p)
    \/ TimeoutQuorumInsertFails(p)

Next == \E p \in Running : Receive(p) \/ LocalTimeout(p) \/ Restart(p)

Spec == Init /\ [][Next]_vars

\* Go's select serves every channel that stays ready, and the timer expires;
\* over a network that loses nothing, every message is taken in the end.
Fairness == \A p \in Running : WF_vars(Receive(p)) /\ WF_vars(LocalTimeout(p))

FairSpec == Spec /\ Fairness
=============================================================================
