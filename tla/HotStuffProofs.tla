--------------------------- MODULE HotStuffProofs ---------------------------
(***************************************************************************)
(* The inductive invariant of HotStuff, for any number of validators, any  *)
(* subset of them running, and any bounds.                                 *)
(*                                                                         *)
(* Everything IInv says of one replica is LocalInv of that replica's part  *)
(* of the state.  The proof of a handler has three parts: the handler      *)
(* preserves LocalInv on the messages sent before it (one lemma each);     *)
(* what it sends preserves MessageInv; and more messages never falsify     *)
(* LocalInv of any replica (LocalInvMonotone).                             *)
(*                                                                         *)
(* The last two sections show that each replica is a RoundTimer, and that  *)
(* its tree sees only the calls of TreeCalls.                              *)
(***************************************************************************)
EXTENDS HotStuffProperties, BlockTreeProofs, FiniteSetTheorems

-----------------------------------------------------------------------------
(* Thresholds.                                                              *)

LEMMA ReplicaFinite == IsFiniteSet(Replica)
  <1>1. 0 \in Int /\ N - 1 \in Int
    BY ConstantsAssumption
  <1>2. QED
    BY <1>1, FS_Interval DEF Replica

LEMMA CardinalityIsNat ==
    ASSUME NEW S \in SUBSET Replica
    PROVE  Cardinality(S) \in Nat
  BY ReplicaFinite, FS_Subset, FS_CardinalityType

\* set.go:75 and set.go:177: the test on truncated integers is the exact one.
THEOREM ThresholdIsExact ==
    ASSUME NEW S \in SUBSET Replica
    PROVE  HasTwoThirdsAny(S) <=> TwoThirds(S)
  <1>1. Cardinality(S) \in Nat /\ N \in Nat
    BY CardinalityIsNat, ConstantsAssumption
  <1>2. QED
    BY <1>1 DEF HasTwoThirdsAny, TwoThirds

LEMMA TwoThirdsMonotone ==
    ASSUME NEW S \in SUBSET Replica, NEW T \in SUBSET Replica,
           S \subseteq T, TwoThirds(S)
    PROVE  TwoThirds(T)
  <1>1. IsFiniteSet(T)
    BY ReplicaFinite, FS_Subset
  <1>2. Cardinality(S) \in Nat /\ Cardinality(T) \in Nat
    BY CardinalityIsNat
  <1>3. Cardinality(S) <= Cardinality(T)
    BY <1>1, FS_Subset
  <1>4. QED
    BY <1>2, <1>3, ConstantsAssumption DEF TwoThirds

\* A certificate is never lost.
LEMMA CertifiedMonotone ==
    ASSUME NEW M, NEW M2, M \subseteq M2, NEW id, Certified(M, id)
    PROVE  Certified(M2, id)
  <1>1. /\ Voters(M, id) \in SUBSET Replica /\ Voters(M2, id) \in SUBSET Replica
        /\ Voters(M, id) \subseteq Voters(M2, id)
    BY DEF Voters
  <1>2. /\ TimedOut(M, RoundOf(id)) \in SUBSET Replica
        /\ TimedOut(M2, RoundOf(id)) \in SUBSET Replica
        /\ TimedOut(M, RoundOf(id)) \subseteq TimedOut(M2, RoundOf(id))
    BY DEF TimedOut
  <1>3. QED
    BY <1>1, <1>2, TwoThirdsMonotone DEF Certified

-----------------------------------------------------------------------------
(* What IInv says of one replica with round r, tree t, votes vs and         *)
(* timeouts ts, when M are the messages sent.                               *)
LocalType(r, t, vs, ts) ==
    /\ r \in Nat
    /\ IsTree(t)
    /\ vs \subseteq ID \X Replica
    /\ ts \subseteq Nat \X Replica

LocalCounts(M, vs, ts) ==
    /\ \A v \in vs : v[2] \in Voters(M, v[1])
    /\ \A o \in ts : o[2] \in TimedOut(M, o[1])

LocalBlocks(M, t) ==
    \A x \in Nodes(t) :
        \/ x = TmoID(RoundOf(x))
        \/ \E m \in M : m.type = "proposal" /\ m.id = x /\ m.justify = t.par[x]

LocalBehind(r, t) ==
    \A x \in Nodes(t) :
        /\ x = TmoID(RoundOf(x)) => RoundOf(x) < r
        /\ x # Genesis => t.par[x] \in Nodes(t) /\ RoundOf(t.par[x]) < r

LocalParents(M, t) ==
    \A x \in Nodes(t) \ {Genesis} :
        Certified(M, t.par[x]) /\ RoundOf(t.par[x]) < RoundOf(x)

LocalFollows(r, t, ts) ==
    \/ RoundOf(t.high) = r - 1
    \/ /\ RoundOf(t.high) < r - 1
       /\ TwoThirds(TimeoutsOf(ts, r - 1))
       /\ TmoID(r - 1) \notin Nodes(t)

LocalVotes(r, t, vs) ==
    \A v \in vs :
        TwoThirds(VotesFor(vs, v[1])) =>
            RoundOf(v[1]) < r /\ RoundOf(v[1]) <= RoundOf(t.high)

LocalTimeouts(r, ts) ==
    \A o \in ts : TwoThirds(TimeoutsOf(ts, o[1])) => o[1] < r

\* All but LocalBehind, which an insertion breaks until the round follows.
LocalInvButBehind(M, r, t, vs, ts) ==
    /\ LocalType(r, t, vs, ts)
    /\ LocalCounts(M, vs, ts)
    /\ LocalBlocks(M, t)
    /\ LocalParents(M, t)
    /\ Certified(M, t.high)
    /\ LocalFollows(r, t, ts)
    /\ LocalVotes(r, t, vs)
    /\ LocalTimeouts(r, ts)

LocalInv(M, r, t, vs, ts) ==
    LocalInvButBehind(M, r, t, vs, ts) /\ LocalBehind(r, t)

(* What it says of the messages themselves.                                 *)
MessageInv(M) ==
    /\ M \subseteq Message
    /\ \A m, n \in M :
           m.type = "proposal" /\ n.type = "proposal" /\ m.id = n.id =>
               m.justify = n.justify
    /\ \A m \in M :
           /\ m.type = "proposal" =>
                  /\ m.id # TmoID(RoundOf(m.id))
                  /\ Certified(M, m.justify) /\ RoundOf(m.justify) < RoundOf(m.id)
           /\ m.type = "timeout" =>
                  Certified(M, m.parent) /\ RoundOf(m.parent) < m.round

\* TypeOK, less what LocalType says.
ShapeOK ==
    /\ DOMAIN tree = Replica
    /\ round \in [Replica -> Nat]
    /\ voteSet \in [Replica -> SUBSET (ID \X Replica)]
    /\ timeoutSet \in [Replica -> SUBSET (Nat \X Replica)]
    /\ timer \in [Replica -> Nat]
    /\ handled \in [Replica -> SUBSET Message]
    /\ restarts \in 0 .. MaxRestarts

LEMMA InvIsLocal ==
    IInv <=> /\ ShapeOK
             /\ MessageInv(sent)
             /\ \A p \in Replica :
                    LocalInv(sent, round[p], tree[p], voteSet[p], timeoutSet[p])
  BY DEF IInv, TypeOK, CountsBacked, BlocksAreProposals, TreesBehindRound,
         CertifiedHigh, CertifiedParents, HighFollowsRound, QuorumsActedOn,
         ShapeOK, MessageInv, LocalInv, LocalInvButBehind, LocalType,
         LocalCounts, LocalBlocks,
         LocalBehind, LocalParents, LocalFollows, LocalVotes, LocalTimeouts

\* More messages never falsify what holds of a replica.
LEMMA LocalInvMonotone ==
    ASSUME NEW M, NEW M2, M \subseteq M2, NEW r, NEW t, NEW vs, NEW ts,
           LocalInv(M, r, t, vs, ts)
    PROVE  LocalInv(M2, r, t, vs, ts)
  <1>1. LocalCounts(M2, vs, ts)
    BY DEF LocalInv, LocalInvButBehind, LocalCounts, Voters, TimedOut
  <1>2. LocalBlocks(M2, t)
    BY DEF LocalInv, LocalInvButBehind, LocalBlocks
  <1>3. LocalParents(M2, t) /\ Certified(M2, t.high)
    BY CertifiedMonotone DEF LocalInv, LocalInvButBehind, LocalParents
  <1>4. QED
    BY <1>1, <1>2, <1>3 DEF LocalInv, LocalInvButBehind

-----------------------------------------------------------------------------
(* What each handler does to the replica that runs it.                      *)

LEMMA AdvanceRoundFacts ==
    ASSUME NEW r \in Nat, NEW k \in Nat
    PROVE  /\ AdvanceRound(r, k) \in Nat
           /\ AdvanceRound(r, k) >= r
           /\ AdvanceRound(r, k) > k
           /\ AdvanceRound(r, k) # r => AdvanceRound(r, k) = k + 1
  BY DEF AdvanceRound

LEMMA NodesAreIDs ==
    ASSUME NEW t, IsTree(t)
    PROVE  /\ \A x \in Nodes(t) : x \in ID /\ RoundOf(x) \in Nat
           /\ t.high \in Nodes(t)
           /\ Live(t) \subseteq Nodes(t)
  BY DEF IsTree, ID, RoundOf, Live

LEMMA TmoIDFacts ==
    ASSUME NEW r \in Nat
    PROVE  TmoID(r) \in ID /\ RoundOf(TmoID(r)) = r
  BY DEF TmoID, ID, RoundOf

\* Counted quorums are certificates.
LEMMA VotesCertify ==
    ASSUME NEW M, NEW id, NEW vs, \A v \in vs : v[2] \in Voters(M, v[1]),
           HasTwoThirdsAny(VotesFor(vs, id))
    PROVE  Certified(M, id)
  <1>1. /\ VotesFor(vs, id) \in SUBSET Replica /\ Voters(M, id) \in SUBSET Replica
        /\ VotesFor(vs, id) \subseteq Voters(M, id)
    BY DEF VotesFor, Voters
  <1>2. QED
    BY <1>1, ThresholdIsExact, TwoThirdsMonotone DEF Certified

LEMMA TimeoutsCertify ==
    ASSUME NEW M, NEW r \in Nat, NEW ts, \A o \in ts : o[2] \in TimedOut(M, o[1]),
           HasTwoThirdsAny(TimeoutsOf(ts, r))
    PROVE  Certified(M, TmoID(r))
  <1>1. /\ TimeoutsOf(ts, r) \in SUBSET Replica /\ TimedOut(M, r) \in SUBSET Replica
        /\ TimeoutsOf(ts, r) \subseteq TimedOut(M, r)
    BY DEF TimeoutsOf, TimedOut
  <1>2. QED
    BY <1>1, ThresholdIsExact, TwoThirdsMonotone, TmoIDFacts DEF Certified

\* What counting one more vote for id makes of the votes vs.
CountedVote(M, vs, votes, id) ==
    /\ votes \subseteq ID \X Replica
    /\ \A v \in votes : v[2] \in Voters(M, v[1])
    /\ \A v \in votes :
           v[1] # id => v \in vs /\ VotesFor(votes, v[1]) = VotesFor(vs, v[1])

LEMMA CountVote ==
    ASSUME NEW M, NEW r, NEW t, NEW vs, NEW ts, LocalInv(M, r, t, vs, ts),
           NEW id \in ID, NEW q \in Voters(M, id)
    PROVE  CountedVote(M, vs, vs \cup {<<id, q>>}, id)
  <1>1. q \in Replica
    BY DEF Voters
  <1>2. QED
    BY <1>1 DEF LocalInv, LocalInvButBehind, LocalType, LocalCounts, VotesFor,
                CountedVote

LEMMA CollectVoteLocal ==
    ASSUME NEW M, NEW r, NEW t, NEW vs, NEW ts, LocalInv(M, r, t, vs, ts),
           NEW id \in ID, NEW q \in Voters(M, id),
           ~HasTwoThirdsAny(VotesFor(vs \cup {<<id, q>>}, id))
    PROVE  LocalInv(M, r, t, vs \cup {<<id, q>>}, ts)
  <1> DEFINE votes == vs \cup {<<id, q>>}
  <1>1. CountedVote(M, vs, votes, id)
    BY CountVote
  <1>2. ~TwoThirds(VotesFor(votes, id))
    BY ThresholdIsExact DEF VotesFor
  <1> HIDE DEF votes
  <1>3. LocalVotes(r, t, votes)
    BY <1>1, <1>2 DEF LocalInv, LocalInvButBehind, LocalVotes, CountedVote
  <1>4. LocalInv(M, r, t, votes, ts)
    BY <1>1, <1>3 DEF LocalInv, LocalInvButBehind, LocalType, LocalCounts,
                      CountedVote
  <1>5. QED
    BY <1>4 DEF votes

\* High moves to a certified node of the tree and the round past it.
LEMMA MoveHigh ==
    ASSUME NEW M, NEW r, NEW t, NEW vs, NEW ts, LocalInvButBehind(M, r, t, vs, ts),
           NEW b \in Nodes(t), Certified(M, b),
           LocalBehind(AdvanceRound(r, RoundOf(b)), t)
    PROVE  LET r2 == AdvanceRound(r, RoundOf(b))
               u  == Redirect(t, b)
           IN  /\ LocalInv(M, r2, u, vs, ts)
               /\ RoundOf(b) < r2 /\ RoundOf(b) <= RoundOf(u.high)
               /\ r <= r2 /\ RoundOf(t.high) <= RoundOf(u.high)
  <1> DEFINE r2 == AdvanceRound(r, RoundOf(b))
             u  == Redirect(t, b)
  <1>1. IsTree(t) /\ r \in Nat
    BY DEF LocalInvButBehind, LocalType
  <1>2. /\ \A x \in Nodes(t) : RoundOf(x) \in Nat
        /\ t.high \in Nodes(t)
    BY <1>1, NodesAreIDs
  <1>3. /\ r2 \in Nat /\ r2 >= r /\ r2 > RoundOf(b)
        /\ r2 # r => r2 = RoundOf(b) + 1
    BY <1>1, <1>2, AdvanceRoundFacts
  <1>4. /\ IsTree(u) /\ u.par = t.par /\ Nodes(u) = Nodes(t)
        /\ u.high \in {t.high, b}
        /\ RoundOf(u.high) >= RoundOf(t.high)
        /\ RoundOf(u.high) >= RoundOf(b)
        /\ RoundOf(b) > RoundOf(t.high) => u.high = b
    BY <1>1, RedirectIsTree DEF Nodes
  <1>5. LocalBehind(r2, t)
    OBVIOUS
  <1> HIDE DEF r2, u
  <1>6. LocalType(r2, u, vs, ts) /\ LocalBlocks(M, u) /\ LocalParents(M, u)
    BY <1>3, <1>4 DEF LocalInvButBehind, LocalType, LocalBlocks, LocalParents
  <1>7. LocalBehind(r2, u)
    BY <1>4, <1>5 DEF LocalBehind
  <1>8. Certified(M, u.high)
    BY <1>4 DEF LocalInvButBehind
  <1>9. LocalFollows(r2, u, ts)
    <2>1. CASE r2 = r
      BY <2>1, <1>1, <1>2, <1>3, <1>4 DEF LocalInvButBehind, LocalFollows
    <2>2. CASE r2 # r
      <3>1. RoundOf(t.high) < r
        BY <1>1, <1>2 DEF LocalInvButBehind, LocalFollows
      <3>2. RoundOf(b) > RoundOf(t.high)
        BY <2>2, <3>1, <1>1, <1>2, <1>3
      <3>3. QED
        BY <2>2, <3>2, <1>2, <1>3, <1>4 DEF LocalFollows
    <2>3. QED
      BY <2>1, <2>2
  <1>10. LocalVotes(r2, u, vs)
    <2> SUFFICES ASSUME NEW v \in vs, TwoThirds(VotesFor(vs, v[1]))
                 PROVE  RoundOf(v[1]) < r2 /\ RoundOf(v[1]) <= RoundOf(u.high)
      BY DEF LocalVotes
    <2>1. v[1] \in ID /\ RoundOf(v[1]) \in Nat
      BY DEF LocalInvButBehind, LocalType, ID, RoundOf
    <2>2. RoundOf(v[1]) < r /\ RoundOf(v[1]) <= RoundOf(t.high)
      BY DEF LocalInvButBehind, LocalVotes
    <2>3. QED
      BY <2>1, <2>2, <1>1, <1>2, <1>3, <1>4
  <1>11. LocalTimeouts(r2, ts)
    <2> SUFFICES ASSUME NEW o \in ts, TwoThirds(TimeoutsOf(ts, o[1]))
                 PROVE  o[1] < r2
      BY DEF LocalTimeouts
    <2>1. o[1] \in Nat /\ o[1] < r
      BY DEF LocalInvButBehind, LocalType, LocalTimeouts
    <2>2. QED
      BY <2>1, <1>1, <1>3
  <1>12. LocalInv(M, r2, u, vs, ts)
    BY <1>6, <1>7, <1>8, <1>9, <1>10, <1>11 DEF LocalInv, LocalInvButBehind
  <1>13. QED
    BY <1>3, <1>4, <1>12 DEF r2, u

LEMMA VoteQuorumLocal ==
    ASSUME NEW M, NEW r, NEW t, NEW vs, NEW ts, LocalInv(M, r, t, vs, ts),
           NEW id \in Nodes(t), NEW q \in Voters(M, id),
           HasTwoThirdsAny(VotesFor(vs \cup {<<id, q>>}, id)),
           NEW kept \in SUBSET (vs \cup {<<id, q>>})
    PROVE  LocalInv(M, AdvanceRound(r, RoundOf(id)), ProcessVote(t, id), kept, ts)
  <1> DEFINE votes == vs \cup {<<id, q>>}
             r2 == AdvanceRound(r, RoundOf(id))
             u  == Redirect(t, id)
  <1>1. id \in ID
    BY NodesAreIDs DEF LocalInv, LocalInvButBehind, LocalType
  <1>2. CountedVote(M, vs, votes, id)
    BY <1>1, CountVote
  <1>3. Certified(M, id)
    BY <1>2, VotesCertify DEF CountedVote
  <1>4. LocalBehind(r2, t)
    <2>1. /\ r \in Nat /\ RoundOf(id) \in Nat
          /\ \A x \in Nodes(t) : RoundOf(x) \in Nat
      BY NodesAreIDs DEF LocalInv, LocalInvButBehind, LocalType
    <2>2. r2 \in Nat /\ r2 >= r
      BY <2>1, AdvanceRoundFacts
    <2> HIDE DEF r2
    <2>3. QED
      BY <2>1, <2>2 DEF LocalInv, LocalBehind
  <1>5. /\ LocalInv(M, r2, u, vs, ts)
        /\ RoundOf(id) < r2 /\ RoundOf(id) <= RoundOf(u.high)
    BY <1>3, <1>4, MoveHigh DEF LocalInv
  <1>6. kept \subseteq votes
    OBVIOUS
  <1> HIDE DEF votes, r2, u
  <1>7. LocalVotes(r2, u, kept)
    <2> SUFFICES ASSUME NEW v \in kept, TwoThirds(VotesFor(kept, v[1]))
                 PROVE  RoundOf(v[1]) < r2 /\ RoundOf(v[1]) <= RoundOf(u.high)
      BY DEF LocalVotes
    <2>1. CASE v[1] = id
      BY <2>1, <1>5
    <2>2. CASE v[1] # id
      <3>1. v \in vs /\ VotesFor(votes, v[1]) = VotesFor(vs, v[1])
        BY <2>2, <1>2, <1>6 DEF CountedVote
      <3>2. /\ VotesFor(kept, v[1]) \in SUBSET Replica
            /\ VotesFor(vs, v[1]) \in SUBSET Replica
            /\ VotesFor(kept, v[1]) \subseteq VotesFor(votes, v[1])
        BY <1>6 DEF VotesFor
      <3>3. TwoThirds(VotesFor(vs, v[1]))
        BY <3>1, <3>2, TwoThirdsMonotone
      <3>4. QED
        BY <3>1, <3>3, <1>5 DEF LocalInv, LocalInvButBehind, LocalVotes
    <2>3. QED
      BY <2>1, <2>2
  <1>8. LocalCounts(M, kept, ts) /\ kept \subseteq ID \X Replica
    BY <1>2, <1>5, <1>6 DEF LocalInv, LocalInvButBehind, LocalCounts, CountedVote
  <1>9. LocalInv(M, r2, u, kept, ts)
    BY <1>5, <1>7, <1>8 DEF LocalInv, LocalInvButBehind, LocalType
  <1>10. QED
    BY <1>9 DEF r2, u, ProcessVote

\* What counting one more timeout of round k makes of the timeouts ts of a
\* replica in round r.
CountedTimeout(M, r, vs, ts, timeouts, k) ==
    /\ timeouts \subseteq Nat \X Replica
    /\ LocalCounts(M, vs, timeouts)
    /\ \A o \in timeouts :
           o[1] # k =>
               o \in ts /\ TimeoutsOf(timeouts, o[1]) = TimeoutsOf(ts, o[1])
    /\ TimeoutsOf(timeouts, r - 1) = TimeoutsOf(ts, r - 1)

LEMMA CountTimeout ==
    ASSUME NEW M, NEW r, NEW t, NEW vs, NEW ts, LocalInv(M, r, t, vs, ts),
           NEW k \in Nat, r <= k, NEW q \in TimedOut(M, k)
    PROVE  CountedTimeout(M, r, vs, ts, ts \cup {<<k, q>>}, k)
  <1>1. q \in Replica /\ r \in Nat
    BY DEF TimedOut, LocalInv, LocalInvButBehind, LocalType
  <1>2. r - 1 # k
    BY <1>1
  <1>3. QED
    BY <1>1, <1>2 DEF LocalInv, LocalInvButBehind, LocalType, LocalCounts,
                      TimeoutsOf, CountedTimeout

LEMMA CollectTimeoutLocal ==
    ASSUME NEW M, NEW r, NEW t, NEW vs, NEW ts, LocalInv(M, r, t, vs, ts),
           NEW k \in Nat, r <= k, NEW q \in TimedOut(M, k),
           ~HasTwoThirdsAny(TimeoutsOf(ts \cup {<<k, q>>}, k))
    PROVE  LocalInv(M, r, t, vs, ts \cup {<<k, q>>})
  <1> DEFINE timeouts == ts \cup {<<k, q>>}
  <1>1. CountedTimeout(M, r, vs, ts, timeouts, k)
    BY CountTimeout
  <1>2. ~TwoThirds(TimeoutsOf(timeouts, k))
    BY ThresholdIsExact DEF TimeoutsOf
  <1> HIDE DEF timeouts
  <1>3. LocalTimeouts(r, timeouts)
    BY <1>1, <1>2 DEF LocalInv, LocalInvButBehind, LocalTimeouts, CountedTimeout
  <1>4. LocalFollows(r, t, timeouts)
    BY <1>1 DEF LocalInv, LocalInvButBehind, LocalFollows, CountedTimeout
  <1>5. LocalInv(M, r, t, vs, timeouts)
    BY <1>1, <1>3, <1>4 DEF LocalInv, LocalInvButBehind, LocalType, CountedTimeout
  <1>6. QED
    BY <1>5 DEF timeouts

\* A replica in round r knows no timeout node of round r or later, and its
\* high node is of an earlier round.
LEMMA NothingAhead ==
    ASSUME NEW M, NEW r, NEW t, NEW vs, NEW ts, LocalInv(M, r, t, vs, ts),
           NEW k \in Nat, r <= k
    PROVE  /\ TmoID(k) \notin Nodes(t)
           /\ RoundOf(t.high) \in Nat /\ RoundOf(t.high) < k
  <1>1. /\ IsTree(t) /\ r \in Nat /\ RoundOf(t.high) \in Nat
        /\ RoundOf(TmoID(k)) = k
    BY NodesAreIDs, TmoIDFacts DEF LocalInv, LocalInvButBehind, LocalType
  <1>2. TmoID(k) \notin Nodes(t)
    BY <1>1 DEF LocalInv, LocalBehind
  <1>3. RoundOf(t.high) < k
    BY <1>1 DEF LocalInv, LocalInvButBehind, LocalFollows
  <1>4. QED
    BY <1>1, <1>2, <1>3

\* Once the timeouts of its round or of a later one are a quorum, the replica
\* goes past that round: what that leaves true of the sets.
LEMMA PassTimeouts ==
    ASSUME NEW M, NEW r, NEW t, NEW vs, NEW ts, LocalInv(M, r, t, vs, ts),
           NEW k \in Nat, r <= k, NEW q \in TimedOut(M, k),
           HasTwoThirdsAny(TimeoutsOf(ts \cup {<<k, q>>}, k))
    PROVE  /\ ts \cup {<<k, q>>} \subseteq Nat \X Replica
           /\ LocalCounts(M, vs, ts \cup {<<k, q>>})
           /\ LocalTimeouts(k + 1, ts \cup {<<k, q>>})
           /\ TwoThirds(TimeoutsOf(ts \cup {<<k, q>>}, k))
           /\ Certified(M, TmoID(k))
           /\ AdvanceRound(r, k) = k + 1
  <1> DEFINE timeouts == ts \cup {<<k, q>>}
  <1>1. CountedTimeout(M, r, vs, ts, timeouts, k)
    BY CountTimeout
  <1>2. r \in Nat
    BY DEF LocalInv, LocalInvButBehind, LocalType
  <1>3. TwoThirds(TimeoutsOf(timeouts, k))
    BY ThresholdIsExact DEF TimeoutsOf
  <1> HIDE DEF timeouts
  <1>4. Certified(M, TmoID(k))
    BY <1>1, <1>3, ThresholdIsExact, TimeoutsCertify
       DEF CountedTimeout, LocalCounts, TimeoutsOf
  <1>5. LocalTimeouts(k + 1, timeouts)
    <2> SUFFICES ASSUME NEW o \in timeouts, TwoThirds(TimeoutsOf(timeouts, o[1]))
                 PROVE  o[1] < k + 1
      BY DEF LocalTimeouts
    <2>1. CASE o[1] = k
      BY <2>1
    <2>2. CASE o[1] # k
      <3>1. o \in ts /\ TwoThirds(TimeoutsOf(ts, o[1]))
        BY <2>2, <1>1 DEF CountedTimeout
      <3>2. o[1] \in Nat /\ o[1] < r
        BY <3>1 DEF LocalInv, LocalInvButBehind, LocalType, LocalTimeouts
      <3>3. QED
        BY <3>2, <1>2
    <2>3. QED
      BY <2>1, <2>2
  <1>6. timeouts \subseteq Nat \X Replica /\ LocalCounts(M, vs, timeouts)
    BY <1>1 DEF CountedTimeout
  <1>7. AdvanceRound(r, k) = k + 1
    BY <1>2 DEF AdvanceRound
  <1>8. QED
    BY <1>3, <1>4, <1>5, <1>6, <1>7 DEF timeouts

\* Rounds only grow, so what was behind the replica stays behind it.
LEMMA StaysBehind ==
    ASSUME NEW r \in Nat, NEW r2 \in Nat, r <= r2, NEW t, IsTree(t),
           LocalBehind(r, t)
    PROVE  LocalBehind(r2, t)
  <1>1. \A x \in Nodes(t) : RoundOf(x) \in Nat
    BY NodesAreIDs
  <1>2. QED
    BY <1>1 DEF LocalBehind

LEMMA VotesStayBehind ==
    ASSUME NEW r \in Nat, NEW r2 \in Nat, r <= r2, NEW t, NEW u,
           NEW vs, vs \subseteq ID \X Replica,
           RoundOf(t.high) \in Nat, RoundOf(u.high) \in Nat,
           RoundOf(t.high) <= RoundOf(u.high), LocalVotes(r, t, vs)
    PROVE  LocalVotes(r2, u, vs)
  <1>1. \A v \in vs : RoundOf(v[1]) \in Nat
    BY DEF ID, RoundOf
  <1>2. QED
    BY <1>1 DEF LocalVotes

LEMMA InsertFailsLocal ==
    ASSUME NEW M, NEW r, NEW t, NEW vs, NEW ts, LocalInv(M, r, t, vs, ts),
           NEW k \in Nat, r <= k, NEW q \in TimedOut(M, k),
           HasTwoThirdsAny(TimeoutsOf(ts \cup {<<k, q>>}, k))
    PROVE  LocalInv(M, AdvanceRound(r, k), t, vs, ts \cup {<<k, q>>})
  <1> DEFINE timeouts == ts \cup {<<k, q>>}
  <1>1. /\ timeouts \subseteq Nat \X Replica
        /\ LocalCounts(M, vs, timeouts)
        /\ LocalTimeouts(k + 1, timeouts)
        /\ TwoThirds(TimeoutsOf(timeouts, k))
        /\ AdvanceRound(r, k) = k + 1
    BY PassTimeouts
  <1> HIDE DEF timeouts
  <1>2. /\ r \in Nat /\ r <= k + 1 /\ k + 1 \in Nat /\ (k + 1) - 1 = k
        /\ IsTree(t) /\ vs \subseteq ID \X Replica
    BY DEF LocalInv, LocalInvButBehind, LocalType
  <1>3. /\ TmoID(k) \notin Nodes(t)
        /\ RoundOf(t.high) \in Nat /\ RoundOf(t.high) < k
    BY NothingAhead
  <1>4. LocalBehind(k + 1, t)
    BY <1>2, StaysBehind DEF LocalInv
  <1>5. LocalVotes(k + 1, t, vs)
    BY <1>2, <1>3, VotesStayBehind DEF LocalInv, LocalInvButBehind
  <1>6. LocalFollows(k + 1, t, timeouts)
    BY <1>1, <1>2, <1>3 DEF LocalFollows
  <1>7. LocalInv(M, k + 1, t, vs, timeouts)
    BY <1>1, <1>2, <1>4, <1>5, <1>6 DEF LocalInv, LocalInvButBehind, LocalType
  <1>8. QED
    BY <1>1, <1>7 DEF timeouts

LEMMA TimeoutQuorumLocal ==
    ASSUME NEW M, NEW r, NEW t, NEW vs, NEW ts, LocalInv(M, r, t, vs, ts),
           NEW k \in Nat, r <= k, NEW q \in TimedOut(M, k),
           HasTwoThirdsAny(TimeoutsOf(ts \cup {<<k, q>>}, k)),
           NEW parent \in Nodes(t), RoundOf(parent) < k, Certified(M, parent)
    PROVE  LocalInv(M, AdvanceRound(r, k),
                    ProcessVote(ExecuteNInsert(t, TmoID(k), parent), TmoID(k)),
                    vs, ts \cup {<<k, q>>})
  <1> DEFINE timeouts == ts \cup {<<k, q>>}
             tmo == TmoID(k)
             u   == ExecuteNInsert(t, tmo, parent)
             w   == Redirect(u, tmo)
  <1>1. /\ timeouts \subseteq Nat \X Replica
        /\ LocalCounts(M, vs, timeouts)
        /\ LocalTimeouts(k + 1, timeouts)
        /\ Certified(M, tmo)
        /\ AdvanceRound(r, k) = k + 1
    BY PassTimeouts
  <1>2. /\ r \in Nat /\ r <= k + 1 /\ k + 1 \in Nat /\ (k + 1) - 1 = k
        /\ IsTree(t) /\ vs \subseteq ID \X Replica
    BY DEF LocalInv, LocalInvButBehind, LocalType
  <1>3. /\ tmo \notin Nodes(t)
        /\ RoundOf(t.high) \in Nat /\ RoundOf(t.high) < k
    BY NothingAhead
  <1>4. /\ tmo \in ID /\ RoundOf(tmo) = k
        /\ RoundOf(parent) \in Nat
    BY <1>2, TmoIDFacts, NodesAreIDs
  <1>5. /\ IsTree(u) /\ Nodes(u) = Nodes(t) \cup {tmo} /\ u.par[tmo] = parent
        /\ \A x \in Nodes(t) \ {tmo} : u.par[x] = t.par[x]
        /\ u.high \in {t.high, parent}
    BY <1>2, <1>4, ExecuteNInsertIsTree
  <1>6. IsTree(w) /\ w.par = u.par /\ (RoundOf(tmo) > RoundOf(u.high) => w.high = tmo)
    BY <1>5, RedirectIsTree
  <1> HIDE DEF timeouts, tmo, u, w
  <1>7. w.high = tmo
    BY <1>3, <1>4, <1>5, <1>6
  <1>8. /\ Nodes(w) = Nodes(t) \cup {tmo} /\ w.par[tmo] = parent
        /\ \A x \in Nodes(t) : w.par[x] = t.par[x]
    BY <1>3, <1>5, <1>6 DEF Nodes
  <1>9. LocalBlocks(M, w)
    <2>1. tmo = TmoID(RoundOf(tmo))
      BY <1>4 DEF tmo
    <2>2. QED
      BY <2>1, <1>8 DEF LocalBlocks, LocalInv, LocalInvButBehind
  <1>10. LocalBehind(k + 1, w)
    <2>1. LocalBehind(k + 1, t)
      BY <1>2, StaysBehind DEF LocalInv
    <2>2. QED
      BY <2>1, <1>4, <1>8 DEF LocalBehind
  <1>11. LocalParents(M, w)
    BY <1>4, <1>8 DEF LocalParents, LocalInv, LocalInvButBehind
  <1>12. LocalFollows(k + 1, w, timeouts)
    BY <1>2, <1>4, <1>7 DEF LocalFollows
  <1>13. LocalVotes(k + 1, w, vs)
    <2>1. RoundOf(w.high) \in Nat /\ RoundOf(t.high) <= RoundOf(w.high)
      BY <1>3, <1>4, <1>7
    <2>2. QED
      BY <2>1, <1>2, <1>3, VotesStayBehind DEF LocalInv, LocalInvButBehind
  <1>14. LocalInv(M, k + 1, w, vs, timeouts)
    BY <1>1, <1>2, <1>6, <1>7, <1>9, <1>10, <1>11, <1>12, <1>13
       DEF LocalInv, LocalInvButBehind, LocalType
  <1>15. QED
    BY <1>1, <1>14 DEF w, u, tmo, timeouts, ProcessVote

\* The commit moves the root, of which LocalInv says nothing.
LEMMA CommitLocal ==
    ASSUME NEW M, NEW r, NEW t, NEW vs, NEW ts, LocalInv(M, r, t, vs, ts),
           NEW key
    PROVE  LocalInv(M, r, ProcessCommit(t, key), vs, ts)
  <1> DEFINE u == ProcessCommit(t, key)
  <1>1. IsTree(u) /\ u.par = t.par /\ u.high = t.high
    BY ProcessCommitIsTree DEF LocalInv, LocalInvButBehind, LocalType
  <1> HIDE DEF u
  <1>2. Nodes(u) = Nodes(t)
    BY <1>1 DEF Nodes
  <1>3. LocalType(r, u, vs, ts)
    BY <1>1 DEF LocalInv, LocalInvButBehind, LocalType
  <1>4. LocalBlocks(M, u) /\ LocalParents(M, u) /\ LocalBehind(r, u)
    BY <1>1, <1>2 DEF LocalInv, LocalInvButBehind, LocalBlocks, LocalParents,
                      LocalBehind
  <1>5. Certified(M, u.high) /\ LocalFollows(r, u, ts) /\ LocalVotes(r, u, vs)
    BY <1>1, <1>2 DEF LocalInv, LocalInvButBehind, LocalFollows, LocalVotes
  <1>6. LocalInv(M, r, u, vs, ts)
    BY <1>3, <1>4, <1>5 DEF LocalInv, LocalInvButBehind
  <1>7. QED
    BY <1>6 DEF u

\* A process starts in the invariant, whatever was sent before.
LEMMA StartLocal ==
    ASSUME NEW M
    PROVE  LocalInv(M, StartingRound, NewQCTree(Genesis), {}, {})
  <1> DEFINE t == NewQCTree(Genesis)
  <1>1. Genesis \in ID /\ RoundOf(Genesis) = StartRound /\ Genesis = TmoID(StartRound)
    BY ConstantsAssumption DEF Genesis, ID, RoundOf, TmoID
  <1>2. IsTree(t) /\ Nodes(t) = {Genesis} /\ t.high = Genesis
    BY <1>1, NewQCTreeIsTree
  <1>3. StartingRound \in Nat /\ StartingRound - 1 = StartRound /\ StartRound < StartingRound
    BY ConstantsAssumption DEF StartingRound
  <1> HIDE DEF t
  <1>4. LocalType(StartingRound, t, {}, {}) /\ LocalCounts(M, {}, {})
    BY <1>2, <1>3 DEF LocalType, LocalCounts
  <1>5. LocalBlocks(M, t) /\ LocalBehind(StartingRound, t) /\ LocalParents(M, t)
    BY <1>1, <1>2, <1>3 DEF LocalBlocks, LocalBehind, LocalParents
  <1>6. /\ Certified(M, t.high) /\ LocalFollows(StartingRound, t, {})
        /\ LocalVotes(StartingRound, t, {}) /\ LocalTimeouts(StartingRound, {})
    BY <1>1, <1>2, <1>3 DEF Certified, LocalFollows, LocalVotes, LocalTimeouts
  <1>7. LocalInv(M, StartingRound, t, {}, {})
    BY <1>4, <1>5, <1>6 DEF LocalInv, LocalInvButBehind
  <1>8. QED
    BY <1>7 DEF t

\* A proposal on a node of the tree is stored, unless the tree has it already
\* under the same parent: ExecuteNInsert never fails after CheckProposal.
LEMMA ProposalFits ==
    ASSUME NEW M, NEW r, NEW t, NEW vs, NEW ts, LocalInv(M, r, t, vs, ts),
           MessageInv(M), NEW m \in M, m.type = "proposal", m.justify \in Live(t)
    PROVE  /\ m.id \in ID /\ m.justify \in Nodes(t) /\ Certified(M, m.justify)
           /\ RoundOf(m.justify) \in Nat /\ RoundOf(m.justify) < RoundOf(m.id)
           /\ m.id # TmoID(RoundOf(m.id)) /\ m.id # Genesis
           /\ IsRepeat(t, m.id) \/ CanInsert(t, m.id, m.justify)
           /\ m.id \in Nodes(t) =>
                  t.par[m.id] = m.justify /\ RoundOf(m.justify) < r
  <1>1. IsTree(t)
    BY DEF LocalInv, LocalInvButBehind, LocalType
  <1>2. m \in ProposalMsg
    BY DEF MessageInv, Message, ProposalMsg, VoteMsg, TimeoutMsg
  <1>3. /\ m.id \in ID /\ m.justify \in Nodes(t) /\ RoundOf(m.justify) \in Nat
    BY <1>1, <1>2, NodesAreIDs DEF ProposalMsg
  <1>4. /\ m.id # TmoID(RoundOf(m.id)) /\ Certified(M, m.justify)
        /\ RoundOf(m.justify) < RoundOf(m.id)
    BY DEF MessageInv
  <1>5. m.id # Genesis
    BY <1>4 DEF Genesis, TmoID, RoundOf
  <1>6. ASSUME m.id \in Nodes(t)
        PROVE  t.par[m.id] = m.justify /\ RoundOf(m.justify) < r
    <2>1. PICK n \in M : n.type = "proposal" /\ n.id = m.id /\ n.justify = t.par[m.id]
      BY <1>4, <1>6 DEF LocalInv, LocalInvButBehind, LocalBlocks
    <2>2. t.par[m.id] = m.justify
      BY <2>1 DEF MessageInv
    <2>3. QED
      BY <2>2, <1>5, <1>6 DEF LocalInv, LocalBehind
  <1>7. QED
    BY <1>3, <1>4, <1>5, <1>6 DEF CanInsert

LEMMA AcceptLocal ==
    ASSUME NEW M, NEW r, NEW t, NEW vs, NEW ts, LocalInv(M, r, t, vs, ts),
           MessageInv(M), NEW m \in M, m.type = "proposal", m.justify \in Live(t)
    PROVE  LocalInv(M, AdvanceRound(r, RoundOf(m.justify)),
                    TreeAfterProposal(t, m.id, m.justify), vs, ts)
  <1> DEFINE id == m.id
             p  == m.justify
             r2 == AdvanceRound(r, RoundOf(p))
             u  == IF IsRepeat(t, id) THEN t ELSE ExecuteNInsert(t, id, p)
  <1>1. /\ id \in ID /\ p \in Nodes(t) /\ Certified(M, p)
        /\ RoundOf(p) \in Nat /\ RoundOf(p) < RoundOf(id)
        /\ id # TmoID(RoundOf(id)) /\ id # Genesis
        /\ id \in Nodes(t) => t.par[id] = p /\ RoundOf(p) < r
    BY ProposalFits
  <1>2. /\ IsTree(t) /\ r \in Nat
    BY DEF LocalInv, LocalInvButBehind, LocalType
  <1>3. r2 \in Nat /\ r <= r2 /\ RoundOf(p) < r2
    BY <1>1, <1>2, AdvanceRoundFacts
  <1>4. m.id = id /\ m.justify = p
    OBVIOUS
  <1> HIDE DEF id, p
  <1>5. LocalInv(M, r2, u, vs, ts)
    <2>1. CASE IsRepeat(t, id)
      <3>1. r2 = r
        BY <2>1, <1>1, <1>2 DEF IsRepeat, IsTree, AdvanceRound
      <3>2. QED
        BY <2>1, <3>1
    <2>2. CASE ~IsRepeat(t, id)
      <3> DEFINE w == Insert(t, id, p)
      <3>1. /\ IsTree(w) /\ Nodes(w) = Nodes(t) \cup {id} /\ w.par[id] = p
            /\ \A x \in Nodes(t) \ {id} : w.par[x] = t.par[x]
            /\ w.high = t.high
        BY <1>1, <1>2, InsertIsTree
      <3> HIDE DEF w
      <3>2. \A x \in Nodes(t) : w.par[x] = t.par[x]
        BY <3>1, <1>1
      <3>3. LocalBlocks(M, w)
        BY <3>1, <3>2, <1>4 DEF LocalInv, LocalInvButBehind, LocalBlocks
      <3>4. LocalParents(M, w)
        BY <3>1, <3>2, <1>1 DEF LocalInv, LocalInvButBehind, LocalParents
      <3>5. LocalBehind(r2, w)
        <4>1. LocalBehind(r2, t)
          BY <1>2, <1>3, StaysBehind DEF LocalInv
        <4> HIDE DEF r2
        <4>2. QED
          BY <4>1, <3>1, <3>2, <1>1, <1>3 DEF LocalBehind
      <3>6. LocalFollows(r, w, ts)
        <4>1. id # TmoID(r - 1)
          BY <1>1, <1>2 DEF TmoID, RoundOf
        <4>2. QED
          BY <4>1, <3>1 DEF LocalInv, LocalInvButBehind, LocalFollows
      <3>7. LocalInvButBehind(M, r, w, vs, ts)
        BY <3>1, <3>3, <3>4, <3>6
           DEF LocalInv, LocalInvButBehind, LocalType, LocalVotes
      <3>8. LocalInv(M, r2, Redirect(w, p), vs, ts)
        BY <3>1, <3>5, <3>7, <1>1, MoveHigh
      <3>9. u = Redirect(w, p)
        BY <2>2 DEF w, ExecuteNInsert
      <3>10. QED
        BY <3>8, <3>9
    <2>3. QED
      BY <2>1, <2>2
  <1>6. \A key : LocalInv(M, r2, ProcessCommit(u, key), vs, ts)
    BY <1>5, CommitLocal
  <1>7. TreeAfterProposal(t, id, p) = u \/
        TreeAfterProposal(t, id, p) = ProcessCommit(u, Up3(u, p))
    BY DEF TreeAfterProposal
  <1>8. LocalInv(M, r2, TreeAfterProposal(t, id, p), vs, ts)
    BY <1>5, <1>6, <1>7
  <1>9. QED
    BY <1>4, <1>8

-----------------------------------------------------------------------------
(* What a handler sends, and what becomes of the other replicas.            *)

LEMMA LeaderIsReplica ==
    ASSUME NEW r \in Nat
    PROVE  Leader(r) \in Replica
  BY ConstantsAssumption DEF Leader, Replica

LEMMA AddVote ==
    ASSUME NEW M, MessageInv(M), NEW id \in ID, NEW p \in Replica, NEW q \in Replica
    PROVE  MessageInv(M \cup {Vote(id, p, q)})
  <1> DEFINE v == Vote(id, p, q)
             M2 == M \cup {v}
  <1>1. v \in VoteMsg /\ v.type = "vote"
    BY DEF Vote, VoteMsg
  <1>2. \A x : Certified(M, x) => Certified(M2, x)
    BY CertifiedMonotone
  <1> HIDE DEF v
  <1>3. MessageInv(M2)
    BY <1>1, <1>2 DEF MessageInv, Message
  <1>4. QED
    BY <1>3 DEF v

LEMMA AddTimeout ==
    ASSUME NEW M, MessageInv(M), NEW r \in Nat, NEW x \in ID, NEW p \in Replica,
           Certified(M, x), RoundOf(x) < r
    PROVE  MessageInv(M \cup {Timeout(r, x, p)})
  <1> DEFINE n == Timeout(r, x, p)
             M2 == M \cup {n}
  <1>1. n \in TimeoutMsg /\ n.type = "timeout" /\ n.parent = x /\ n.round = r
    BY DEF Timeout, TimeoutMsg
  <1>2. \A y : Certified(M, y) => Certified(M2, y)
    BY CertifiedMonotone
  <1> HIDE DEF n
  <1>3. MessageInv(M2)
    BY <1>1, <1>2 DEF MessageInv, Message
  <1>4. QED
    BY <1>3 DEF n

LEMMA AddProposal ==
    ASSUME MessageInv(sent), NEW r \in Nat, NEW id \in FreshIDs(r), NEW x \in ID,
           NEW p \in Replica, Certified(sent, x), RoundOf(x) < r
    PROVE  MessageInv(sent \cup {Proposal(id, x, p)})
  <1> DEFINE n == Proposal(id, x, p)
             M2 == sent \cup {n}
  <1>1. PICK k \in 1 .. MaxProposals : id = <<r, k>> /\ <<r, k>> \notin UsedIDs
    BY DEF FreshIDs
  <1>2. id \in ID /\ RoundOf(id) = r /\ id # TmoID(RoundOf(id))
    BY <1>1, ConstantsAssumption DEF ID, RoundOf, TmoID
  <1>3. \A m \in sent : m.type = "proposal" => m.id # id
    BY <1>1 DEF UsedIDs
  <1>4. n \in ProposalMsg /\ n.type = "proposal" /\ n.id = id /\ n.justify = x
    BY <1>2 DEF Proposal, ProposalMsg
  <1>5. \A y : Certified(sent, y) => Certified(M2, y)
    BY CertifiedMonotone
  <1> HIDE DEF n
  <1>6. M2 \subseteq Message
    BY <1>4 DEF MessageInv, Message
  <1>7. \A m, m2 \in M2 :
            m.type = "proposal" /\ m2.type = "proposal" /\ m.id = m2.id =>
                m.justify = m2.justify
    BY <1>3, <1>4 DEF MessageInv
  <1>8. \A m \in M2 :
            /\ m.type = "proposal" =>
                   /\ m.id # TmoID(RoundOf(m.id))
                   /\ Certified(M2, m.justify) /\ RoundOf(m.justify) < RoundOf(m.id)
            /\ m.type = "timeout" =>
                   Certified(M2, m.parent) /\ RoundOf(m.parent) < m.round
    BY <1>2, <1>4, <1>5 DEF MessageInv
  <1>9. MessageInv(M2)
    BY <1>6, <1>7, <1>8 DEF MessageInv
  <1>10. QED
    BY <1>9 DEF n

\* The next round event of a replica in a state of the invariant.
LEMMA NewRoundEventMessages ==
    ASSUME MessageInv(sent), timer \in [Replica -> Nat], NEW p \in Replica,
           NEW r, NEW t, NEW vs, NEW ts, LocalInv(sent, r, t, vs, ts),
           NewRoundEvent(p, r, t)
    PROVE  /\ timer' \in [Replica -> Nat]
           /\ sent \subseteq sent' /\ MessageInv(sent')
  <1>1. /\ r \in Nat /\ IsTree(t) /\ Certified(sent, t.high)
        /\ t.high \in ID /\ RoundOf(t.high) \in Nat
    BY NodesAreIDs DEF LocalInv, LocalInvButBehind, LocalType
  <1>2. RoundOf(t.high) < r
    BY <1>1 DEF LocalInv, LocalInvButBehind, LocalFollows
  <1>3. timer' \in [Replica -> Nat]
    BY <1>1 DEF NewRoundEvent, ScheduleTimeout
  <1>4. CASE Leader(r) = p
    <2>1. PICK id \in FreshIDs(r) : sent' = sent \cup {Proposal(id, t.high, p)}
      BY <1>4 DEF NewRoundEvent
    <2>2. MessageInv(sent')
      BY <2>1, <1>1, <1>2, AddProposal
    <2>3. QED
      BY <1>3, <2>1, <2>2
  <1>5. CASE Leader(r) # p
    BY <1>3, <1>5 DEF NewRoundEvent
  <1>6. QED
    BY <1>4, <1>5

LEMMA PendingVote ==
    ASSUME MessageInv(sent), NEW p \in Replica, NEW m \in Pending(p, "vote")
    PROVE  m \in Message /\ m.id \in ID /\ m.from \in Voters(sent, m.id)
  <1>1. m \in sent /\ m.type = "vote" /\ m \in VoteMsg
    BY DEF Pending, MessageInv, Message, ProposalMsg, VoteMsg, TimeoutMsg
  <1>2. QED
    BY <1>1 DEF VoteMsg, Message, Voters

LEMMA PendingTimeout ==
    ASSUME MessageInv(sent), NEW p \in Replica, NEW m \in Pending(p, "timeout")
    PROVE  /\ m \in Message /\ m.round \in Nat /\ m.from \in TimedOut(sent, m.round)
           /\ Certified(sent, m.parent) /\ RoundOf(m.parent) < m.round
  <1>1. m \in sent /\ m.type = "timeout" /\ m \in TimeoutMsg
    BY DEF Pending, MessageInv, Message, ProposalMsg, VoteMsg, TimeoutMsg
  <1>2. QED
    BY <1>1 DEF TimeoutMsg, Message, TimedOut, MessageInv

LEMMA InvIsLocalNext ==
    IInv' <=> /\ ShapeOK'
              /\ MessageInv(sent')
              /\ \A p \in Replica :
                     LocalInv(sent', round'[p], tree'[p], voteSet'[p], timeoutSet'[p])
  BY DEF IInv, TypeOK, CountsBacked, BlocksAreProposals, TreesBehindRound,
         CertifiedHigh, CertifiedParents, HighFollowsRound, QuorumsActedOn,
         ShapeOK, MessageInv, LocalInv, LocalInvButBehind, LocalType,
         LocalCounts, LocalBlocks, LocalBehind, LocalParents, LocalFollows,
         LocalVotes, LocalTimeouts

\* A step of replica p alone keeps the invariant when it keeps p's part of it.
LEMMA StepOfOne ==
    ASSUME IInv, NEW p \in Replica, ShapeOK', sent \subseteq sent', MessageInv(sent'),
           \A q \in Replica \ {p} :
               /\ round'[q] = round[q] /\ tree'[q] = tree[q]
               /\ voteSet'[q] = voteSet[q] /\ timeoutSet'[q] = timeoutSet[q],
           LocalInv(sent, round'[p], tree'[p], voteSet'[p], timeoutSet'[p])
    PROVE  IInv'
  <1>1. \A q \in Replica :
            LocalInv(sent, round'[q], tree'[q], voteSet'[q], timeoutSet'[q])
    BY InvIsLocal
  <1>2. \A q \in Replica :
            LocalInv(sent', round'[q], tree'[q], voteSet'[q], timeoutSet'[q])
    BY <1>1, LocalInvMonotone
  <1>3. QED
    BY <1>2, InvIsLocalNext

-----------------------------------------------------------------------------
(* One lemma per action.                                                    *)

LEMMA ReceiveProposalInv ==
    ASSUME IInv, NEW p \in Replica, RejectProposal(p) \/ AcceptProposal(p)
    PROVE  IInv'
  <1>1. /\ ShapeOK /\ MessageInv(sent)
        /\ LocalInv(sent, round[p], tree[p], voteSet[p], timeoutSet[p])
    BY InvIsLocal
  <1>2. CASE RejectProposal(p)
    <2>1. PICK m \in Pending(p, "proposal") :
              Handle(p, m) /\ UNCHANGED <<replicaVars, sent, restarts>>
      BY <1>2 DEF RejectProposal
    <2>2. m \in Message
      BY <1>1 DEF Pending, MessageInv
    <2>3. ShapeOK'
      BY <1>1, <2>1, <2>2 DEF ShapeOK, Handle, replicaVars
    <2>4. QED
      BY <1>1, <2>1, <2>3, StepOfOne DEF replicaVars
  <1>3. CASE AcceptProposal(p)
    <2>1. PICK m \in Pending(p, "proposal") :
              /\ CheckProposal(p, m)
              /\ Handle(p, m)
              /\ round' = [round EXCEPT ![p] = AdvanceRound(@, RoundOf(m.justify))]
              /\ IF IsRepeat(tree[p], m.id) \/ CanInsert(tree[p], m.id, m.justify)
                   THEN /\ tree' = [tree EXCEPT ![p] =
                                        TreeAfterProposal(@, m.id, m.justify)]
                        /\ sent' = sent \cup {Vote(m.id, p, Leader(round'[p] + 1))}
                   ELSE UNCHANGED <<tree, sent>>
              /\ UNCHANGED <<voteSet, timeoutSet, timer, restarts>>
      BY <1>1, <1>3 DEF AcceptProposal, ShapeOK
    <2>2. /\ m \in sent /\ m.type = "proposal" /\ m \in Message
          /\ m.justify \in Live(tree[p])
      BY <1>1, <2>1 DEF Pending, MessageInv, CheckProposal, Search
    <2>3. /\ m.id \in ID
          /\ IsRepeat(tree[p], m.id) \/ CanInsert(tree[p], m.id, m.justify)
      BY <1>1, <2>2, ProposalFits
    <2>4. LocalInv(sent, AdvanceRound(round[p], RoundOf(m.justify)),
                   TreeAfterProposal(tree[p], m.id, m.justify),
                   voteSet[p], timeoutSet[p])
      BY <1>1, <2>2, AcceptLocal
    <2>5. /\ round'[p] = AdvanceRound(round[p], RoundOf(m.justify))
          /\ tree'[p] = TreeAfterProposal(tree[p], m.id, m.justify)
          /\ round'[p] \in Nat
      BY <1>1, <2>1, <2>3, <2>4 DEF ShapeOK, LocalInv, LocalInvButBehind, LocalType
    <2>6. sent \subseteq sent' /\ MessageInv(sent')
      <3>1. Leader(round'[p] + 1) \in Replica
        BY <2>5, LeaderIsReplica
      <3>2. QED
        BY <1>1, <2>1, <2>3, <3>1, AddVote
    <2>7. ShapeOK'
      BY <1>1, <2>1, <2>2, <2>3, <2>5 DEF ShapeOK, Handle
    <2>8. \A q \in Replica \ {p} :
              /\ round'[q] = round[q] /\ tree'[q] = tree[q]
              /\ voteSet'[q] = voteSet[q] /\ timeoutSet'[q] = timeoutSet[q]
      BY <1>1, <2>1, <2>3 DEF ShapeOK
    <2>9. QED
      BY <2>1, <2>4, <2>5, <2>6, <2>7, <2>8, StepOfOne
  <1>4. QED
    BY <1>2, <1>3

LEMMA ReceiveVoteInv ==
    ASSUME IInv, NEW p \in Replica,
           RejectVote(p) \/ CollectVote(p) \/ VoteQuorum(p)
    PROVE  IInv'
  <1>1. /\ ShapeOK /\ MessageInv(sent)
        /\ LocalInv(sent, round[p], tree[p], voteSet[p], timeoutSet[p])
    BY InvIsLocal
  <1>2. CASE RejectVote(p)
    <2>1. PICK m \in Pending(p, "vote") :
              Handle(p, m) /\ UNCHANGED <<replicaVars, sent, restarts>>
      BY <1>2 DEF RejectVote
    <2>2. m \in Message
      BY <1>1, PendingVote
    <2>3. ShapeOK'
      BY <1>1, <2>1, <2>2 DEF ShapeOK, Handle, replicaVars
    <2>4. QED
      BY <1>1, <2>1, <2>3, StepOfOne DEF replicaVars
  <1>3. CASE CollectVote(p)
    <2>1. PICK m \in Pending(p, "vote") :
              /\ ~HasTwoThirdsAny(VotesFor(voteSet[p] \cup {<<m.id, m.from>>}, m.id))
              /\ Handle(p, m)
              /\ voteSet' = [voteSet EXCEPT ![p] = @ \cup {<<m.id, m.from>>}]
              /\ UNCHANGED <<round, tree, timeoutSet, timer, sent, restarts>>
      BY <1>1, <1>3 DEF CollectVote, ShapeOK
    <2>2. m \in Message /\ m.id \in ID /\ m.from \in Voters(sent, m.id)
      BY <1>1, PendingVote
    <2>3. LocalInv(sent, round[p], tree[p], voteSet[p] \cup {<<m.id, m.from>>},
                   timeoutSet[p])
      BY <1>1, <2>1, <2>2, CollectVoteLocal
    <2>4. /\ voteSet'[p] = voteSet[p] \cup {<<m.id, m.from>>}
          /\ \A q \in Replica \ {p} : voteSet'[q] = voteSet[q]
      BY <1>1, <2>1 DEF ShapeOK
    <2>5. ShapeOK'
      BY <1>1, <2>1, <2>2, <2>3
         DEF ShapeOK, Handle, LocalInv, LocalInvButBehind, LocalType
    <2>6. QED
      BY <1>1, <2>1, <2>3, <2>4, <2>5, StepOfOne
  <1>4. CASE VoteQuorum(p)
    <2> DEFINE votes(m) == voteSet[p] \cup {<<m.id, m.from>>}
               kept(m)  == KeptVotes(votes(m), RoundOf(m.id))
               r(m)     == AdvanceRound(round[p], RoundOf(m.id))
               t(m)     == ProcessVote(tree[p], m.id)
    <2>1. PICK m \in Pending(p, "vote") :
              /\ m.id \in Live(tree[p])
              /\ HasTwoThirdsAny(VotesFor(votes(m), m.id))
              /\ Handle(p, m)
              /\ voteSet' = [voteSet EXCEPT ![p] = kept(m)]
              /\ tree' = [tree EXCEPT ![p] = t(m)]
              /\ round' = [round EXCEPT ![p] = r(m)]
              /\ NewRoundEvent(p, r(m), t(m))
              /\ UNCHANGED <<timeoutSet, restarts>>
      BY <1>4 DEF VoteQuorum, CheckVote, Search
    <2>2. m \in Message /\ m.id \in ID /\ m.from \in Voters(sent, m.id)
      BY <1>1, PendingVote
    <2>3. m.id \in Nodes(tree[p])
      BY <2>1 DEF Live
    <2>4. kept(m) \in SUBSET votes(m)
      BY DEF KeptVotes
    <2>5. LocalInv(sent, r(m), t(m), kept(m), timeoutSet[p])
      BY <1>1, <2>1, <2>2, <2>3, <2>4, VoteQuorumLocal
    <2> HIDE DEF votes, kept, r, t
    <2>6. /\ timer' \in [Replica -> Nat]
          /\ sent \subseteq sent' /\ MessageInv(sent')
      BY <1>1, <2>1, <2>5, NewRoundEventMessages DEF ShapeOK
    <2>7. ShapeOK'
      BY <1>1, <2>1, <2>2, <2>5, <2>6
         DEF ShapeOK, Handle, LocalInv, LocalInvButBehind, LocalType
    <2>8. /\ round'[p] = r(m) /\ tree'[p] = t(m) /\ voteSet'[p] = kept(m)
          /\ \A q \in Replica \ {p} :
                 /\ round'[q] = round[q] /\ tree'[q] = tree[q]
                 /\ voteSet'[q] = voteSet[q]
      BY <1>1, <2>1 DEF ShapeOK
    <2>9. QED
      BY <2>1, <2>5, <2>6, <2>7, <2>8, StepOfOne
  <1>5. QED
    BY <1>2, <1>3, <1>4

LEMMA ReceiveTimeoutInv ==
    ASSUME IInv, NEW p \in Replica,
           CollectTimeout(p) \/ TimeoutQuorum(p) \/ TimeoutQuorumInsertFails(p)
    PROVE  IInv'
  <1> DEFINE timeouts(m) == timeoutSet[p] \cup {<<m.round, m.from>>}
             r(m)   == AdvanceRound(round[p], m.round)
             tmo(m) == TmoID(m.round)
             t(m)   == ProcessVote(ExecuteNInsert(tree[p], tmo(m), m.parent), tmo(m))
  <1>1. /\ ShapeOK /\ MessageInv(sent)
        /\ LocalInv(sent, round[p], tree[p], voteSet[p], timeoutSet[p])
    BY InvIsLocal
  <1>2. CASE CollectTimeout(p)
    <2>1. PICK m \in Pending(p, "timeout") :
              /\ round[p] <= m.round
              /\ ~HasTwoThirdsAny(TimeoutsOf(timeouts(m), m.round))
              /\ Handle(p, m)
              /\ timeoutSet' = [timeoutSet EXCEPT ![p] = timeouts(m)]
              /\ UNCHANGED <<round, tree, voteSet, timer, sent, restarts>>
      BY <1>2 DEF CollectTimeout, CheckTimeout
    <2>2. m \in Message /\ m.round \in Nat /\ m.from \in TimedOut(sent, m.round)
      BY <1>1, PendingTimeout
    <2>3. LocalInv(sent, round[p], tree[p], voteSet[p], timeouts(m))
      BY <1>1, <2>1, <2>2, CollectTimeoutLocal
    <2> HIDE DEF timeouts
    <2>4. /\ timeoutSet'[p] = timeouts(m)
          /\ \A q \in Replica \ {p} : timeoutSet'[q] = timeoutSet[q]
      BY <1>1, <2>1 DEF ShapeOK
    <2>5. ShapeOK'
      BY <1>1, <2>1, <2>2, <2>3
         DEF ShapeOK, Handle, LocalInv, LocalInvButBehind, LocalType
    <2>6. QED
      BY <1>1, <2>1, <2>3, <2>4, <2>5, StepOfOne
  <1>3. CASE TimeoutQuorum(p)
    <2>1. PICK m \in Pending(p, "timeout") :
              /\ round[p] <= m.round
              /\ HasTwoThirdsAny(TimeoutsOf(timeouts(m), m.round))
              /\ CanInsert(tree[p], tmo(m), m.parent)
              /\ Handle(p, m)
              /\ timeoutSet' = [timeoutSet EXCEPT ![p] = timeouts(m)]
              /\ round' = [round EXCEPT ![p] = r(m)]
              /\ tree' = [tree EXCEPT ![p] = t(m)]
              /\ NewRoundEvent(p, r(m), t(m))
              /\ UNCHANGED <<voteSet, restarts>>
      BY <1>3 DEF TimeoutQuorum, CheckTimeout
    <2>2. /\ m \in Message /\ m.round \in Nat /\ m.from \in TimedOut(sent, m.round)
          /\ Certified(sent, m.parent) /\ RoundOf(m.parent) < m.round
      BY <1>1, PendingTimeout
    <2>3. m.parent \in Nodes(tree[p])
      BY <2>1 DEF CanInsert, Live
    <2>4. LocalInv(sent, r(m), t(m), voteSet[p], timeouts(m))
      BY <1>1, <2>1, <2>2, <2>3, TimeoutQuorumLocal
    <2> HIDE DEF timeouts, r, t
    <2>5. /\ timer' \in [Replica -> Nat]
          /\ sent \subseteq sent' /\ MessageInv(sent')
      BY <1>1, <2>1, <2>4, NewRoundEventMessages DEF ShapeOK
    <2>6. ShapeOK'
      BY <1>1, <2>1, <2>2, <2>4, <2>5
         DEF ShapeOK, Handle, LocalInv, LocalInvButBehind, LocalType
    <2>7. /\ round'[p] = r(m) /\ tree'[p] = t(m) /\ timeoutSet'[p] = timeouts(m)
          /\ \A q \in Replica \ {p} :
                 /\ round'[q] = round[q] /\ tree'[q] = tree[q]
                 /\ timeoutSet'[q] = timeoutSet[q]
      BY <1>1, <2>1 DEF ShapeOK
    <2>8. QED
      BY <2>1, <2>4, <2>5, <2>6, <2>7, StepOfOne
  <1>4. CASE TimeoutQuorumInsertFails(p)
    <2>1. PICK m \in Pending(p, "timeout") :
              /\ round[p] <= m.round
              /\ HasTwoThirdsAny(TimeoutsOf(timeouts(m), m.round))
              /\ Handle(p, m)
              /\ timeoutSet' = [timeoutSet EXCEPT ![p] = timeouts(m)]
              /\ round' = [round EXCEPT ![p] = r(m)]
              /\ UNCHANGED <<tree, voteSet, timer, sent, restarts>>
      BY <1>4 DEF TimeoutQuorumInsertFails, CheckTimeout
    <2>2. m \in Message /\ m.round \in Nat /\ m.from \in TimedOut(sent, m.round)
      BY <1>1, PendingTimeout
    <2>3. LocalInv(sent, r(m), tree[p], voteSet[p], timeouts(m))
      BY <1>1, <2>1, <2>2, InsertFailsLocal
    <2> HIDE DEF timeouts, r
    <2>4. /\ round'[p] = r(m) /\ timeoutSet'[p] = timeouts(m)
          /\ \A q \in Replica \ {p} :
                 round'[q] = round[q] /\ timeoutSet'[q] = timeoutSet[q]
      BY <1>1, <2>1 DEF ShapeOK
    <2>5. ShapeOK'
      BY <1>1, <2>1, <2>2, <2>3
         DEF ShapeOK, Handle, LocalInv, LocalInvButBehind, LocalType
    <2>6. QED
      BY <1>1, <2>1, <2>3, <2>4, <2>5, StepOfOne
  <1>5. QED
    BY <1>2, <1>3, <1>4

LEMMA LocalTimeoutInv ==
    ASSUME IInv, NEW p \in Replica, LocalTimeout(p)
    PROVE  IInv'
  <1> DEFINE x == tree[p].high
             m == Timeout(timer[p], x, p)
  <1>1. /\ ShapeOK /\ MessageInv(sent)
        /\ LocalInv(sent, round[p], tree[p], voteSet[p], timeoutSet[p])
    BY InvIsLocal
  <1>2. /\ round[p] \in Nat /\ timer[p] \in Nat /\ round[p] <= timer[p]
        /\ x \in ID /\ RoundOf(x) \in Nat /\ Certified(sent, x)
    BY <1>1, NodesAreIDs
       DEF ShapeOK, LocalTimeout, CheckTimeout, LocalInv, LocalInvButBehind, LocalType
  <1>3. RoundOf(x) < timer[p]
    BY <1>1, <1>2 DEF LocalInv, LocalInvButBehind, LocalFollows
  <1>4. sent' = sent \cup {m}
    BY DEF LocalTimeout
  <1>5. sent \subseteq sent' /\ MessageInv(sent')
    BY <1>1, <1>2, <1>3, <1>4, AddTimeout
  <1>6. ShapeOK'
    BY <1>1, <1>2 DEF ShapeOK, LocalTimeout, ScheduleTimeout
  <1>7. UNCHANGED <<round, tree, voteSet, timeoutSet>>
    BY DEF LocalTimeout
  <1>8. QED
    BY <1>1, <1>5, <1>6, <1>7, StepOfOne

LEMMA RestartInv ==
    ASSUME IInv, NEW p \in Replica, Restart(p)
    PROVE  IInv'
  <1>1. /\ ShapeOK /\ MessageInv(sent)
    BY InvIsLocal
  <1>2. LocalInv(sent, StartingRound, NewQCTree(Genesis), {}, {})
    BY StartLocal
  <1>3. StartingRound \in Nat
    BY ConstantsAssumption DEF StartingRound
  <1>4. ShapeOK'
    <2>1. handled' \in [Replica -> SUBSET Message]
      BY <1>1 DEF ShapeOK, Restart, MessageInv
    <2>2. restarts' \in 0 .. MaxRestarts
      BY <1>1, ConstantsAssumption DEF ShapeOK, Restart
    <2>3. QED
      BY <1>1, <1>3, <2>1, <2>2 DEF ShapeOK, Restart
  <1>5. /\ round'[p] = StartingRound /\ tree'[p] = NewQCTree(Genesis)
        /\ voteSet'[p] = {} /\ timeoutSet'[p] = {}
        /\ \A q \in Replica \ {p} :
               /\ round'[q] = round[q] /\ tree'[q] = tree[q]
               /\ voteSet'[q] = voteSet[q] /\ timeoutSet'[q] = timeoutSet[q]
    BY <1>1 DEF ShapeOK, Restart
  <1>6. sent' = sent
    BY DEF Restart
  <1>7. QED
    BY <1>1, <1>2, <1>4, <1>5, <1>6, StepOfOne

LEMMA InitInv == Init => IInv
  <1> SUFFICES ASSUME Init PROVE IInv
    OBVIOUS
  <1>1. \A p \in Replica :
            LocalInv(sent, round[p], tree[p], voteSet[p], timeoutSet[p])
    BY StartLocal DEF Init
  <1>2. ShapeOK
    BY ConstantsAssumption DEF ShapeOK, Init, StartingRound
  <1>3. MessageInv(sent)
    BY DEF MessageInv, Init
  <1>4. QED
    BY <1>1, <1>2, <1>3, InvIsLocal

LEMMA NextInv == IInv /\ [Next]_vars => IInv'
  <1> SUFFICES ASSUME IInv, [Next]_vars PROVE IInv'
    OBVIOUS
  <1>1. CASE Next
    <2>1. PICK p \in Running : Receive(p) \/ LocalTimeout(p) \/ Restart(p)
      BY <1>1 DEF Next
    <2>2. p \in Replica
      BY RunningAssumption
    <2>3. CASE Receive(p)
      BY <2>2, <2>3, ReceiveProposalInv, ReceiveVoteInv, ReceiveTimeoutInv DEF Receive
    <2>4. CASE LocalTimeout(p)
      BY <2>2, <2>4, LocalTimeoutInv
    <2>5. CASE Restart(p)
      BY <2>2, <2>5, RestartInv
    <2>6. QED
      BY <2>1, <2>3, <2>4, <2>5
  <1>2. CASE UNCHANGED vars
    BY <1>2, InvIsLocal, InvIsLocalNext DEF vars, replicaVars, ShapeOK
  <1>3. QED
    BY <1>1, <1>2

-----------------------------------------------------------------------------
(* The theorems.                                                            *)

\* The invariant of the consensus core, through every handler, timer and
\* restart (state.go:185-355).
THEOREM Invariance == Spec => []IInv
  BY InitInv, NextInv, PTL DEF Spec

\* Every variable keeps its type: no handler makes a tree whose pointers leave
\* it, and no message names what is not an id or a replica.
THEOREM TypeCorrect == Spec => []TypeOK
  <1>1. IInv => TypeOK
    BY DEF IInv
  <1>2. QED
    BY <1>1, Invariance, PTL

\* A replica proposes and times out on certified nodes only.
THEOREM HighIsCertified == Spec => []CertifiedHigh
  <1>1. IInv => CertifiedHigh
    BY DEF IInv
  <1>2. QED
    BY <1>1, Invariance, PTL

\* The parent of every node of a tree, and of every proposal and timeout on
\* the wire, is certified and of an earlier round.
THEOREM ParentsAreCertified == Spec => []CertifiedParents
  <1>1. IInv => CertifiedParents
    BY DEF IInv
  <1>2. QED
    BY <1>1, Invariance, PTL

\* The high node lags behind the pacemaker only after a failed insertion.
THEOREM HighIsOfLastRound == Spec => []HighFollowsRound
  <1>1. IInv => HighFollowsRound
    BY DEF IInv
  <1>2. QED
    BY <1>1, Invariance, PTL

\* A quorum in a replica's sets has moved its pacemaker and its high node.
THEOREM QuorumsMoveTheRound == Spec => []QuorumsActedOn
  <1>1. IInv => QuorumsActedOn
    BY DEF IInv
  <1>2. QED
    BY <1>1, Invariance, PTL

\* A replica is in a round only if a node of the round before is certified.
THEOREM RoundsAreBacked == Spec => []RoundBacked
  <1>1. IInv => RoundBacked
    <2> SUFFICES ASSUME IInv, NEW p \in Replica
                 PROVE  \/ Certified(sent, TmoID(round[p] - 1))
                        \/ \E x \in Nodes(tree[p]) :
                               RoundOf(x) = round[p] - 1 /\ Certified(sent, x)
      BY DEF RoundBacked
    <2> DEFINE k == round[p] - 1
    <2>1. LocalInv(sent, round[p], tree[p], voteSet[p], timeoutSet[p])
      BY InvIsLocal
    <2>2. /\ round[p] \in Nat /\ tree[p].high \in Nodes(tree[p])
          /\ RoundOf(tree[p].high) \in Nat /\ Certified(sent, tree[p].high)
      BY <2>1, NodesAreIDs DEF LocalInv, LocalInvButBehind, LocalType
    <2>3. CASE RoundOf(tree[p].high) = k
      BY <2>2, <2>3
    <2>4. CASE RoundOf(tree[p].high) < k /\ TwoThirds(TimeoutsOf(timeoutSet[p], k))
      <3>1. k \in Nat
        BY <2>2, <2>4
      <3>2. HasTwoThirdsAny(TimeoutsOf(timeoutSet[p], k))
        BY <2>4, ThresholdIsExact DEF TimeoutsOf
      <3>3. Certified(sent, TmoID(k))
        BY <2>1, <3>1, <3>2, TimeoutsCertify
           DEF LocalInv, LocalInvButBehind, LocalCounts
      <3>4. QED
        BY <3>3
    <2>5. QED
      BY <2>1, <2>3, <2>4 DEF LocalInv, LocalInvButBehind, LocalFollows
  <1>2. QED
    BY <1>1, Invariance, PTL

\* A block has one parent, whoever stores it.
THEOREM BlocksHaveOneParent == Spec => []TreesAgreeOnBlocks
  <1>1. IInv => TreesAgreeOnBlocks
    BY DEF IInv, BlocksAreProposals, TreesAgreeOnBlocks
  <1>2. QED
    BY <1>1, Invariance, PTL

LEMMA ProposalNeverBack ==
    ASSUME NEW t, IsTree(t), NEW id \in ID, NEW p \in Nodes(t)
    PROVE  RoundOf(TreeAfterProposal(t, id, p).high) >= RoundOf(t.high)
  <1> DEFINE u == IF IsRepeat(t, id) THEN t ELSE ExecuteNInsert(t, id, p)
  <1>1. RoundOf(t.high) \in Nat
    BY NodesAreIDs
  <1>2. IsTree(u) /\ RoundOf(u.high) >= RoundOf(t.high)
    <2>1. CASE IsRepeat(t, id)
      BY <2>1, <1>1
    <2>2. CASE ~IsRepeat(t, id)
      BY <2>2, ExecuteNInsertIsTree
    <2>3. QED
      BY <2>1, <2>2
  <1> HIDE DEF u
  <1>3. \A key : ProcessCommit(u, key).high = u.high
    BY <1>2, ProcessCommitIsTree
  <1>4. \/ TreeAfterProposal(t, id, p) = u
        \/ TreeAfterProposal(t, id, p) = ProcessCommit(u, Up3(u, p))
    BY DEF TreeAfterProposal, u
  <1>5. QED
    BY <1>2, <1>3, <1>4

LEMMA TimeoutNeverBack ==
    ASSUME NEW t, IsTree(t), NEW id \in ID, NEW p \in Nodes(t)
    PROVE  RoundOf(ProcessVote(ExecuteNInsert(t, id, p), id).high) >= RoundOf(t.high)
  <1> DEFINE u == ExecuteNInsert(t, id, p)
             w == Redirect(u, id)
  <1>1. /\ IsTree(u) /\ id \in Nodes(u)
        /\ RoundOf(u.high) >= RoundOf(t.high)
    BY ExecuteNInsertIsTree
  <1>2. IsTree(w) /\ RoundOf(w.high) >= RoundOf(u.high)
    BY <1>1, RedirectIsTree
  <1>3. RoundOf(t.high) \in Nat /\ RoundOf(u.high) \in Nat /\ RoundOf(w.high) \in Nat
    BY <1>1, <1>2, NodesAreIDs
  <1>4. QED
    BY <1>1, <1>2, <1>3 DEF ProcessVote

\* Round and high node of replica p do not go back.
Forward(p) ==
    round'[p] >= round[p] /\ RoundOf(tree'[p].high) >= RoundOf(tree[p].high)

LEMMA ReceiveForward ==
    ASSUME IInv, NEW q \in Replica, Receive(q), NEW p \in Replica
    PROVE  Forward(p)
  <1>1. /\ ShapeOK /\ MessageInv(sent)
        /\ LocalInv(sent, round[q], tree[q], voteSet[q], timeoutSet[q])
        /\ \A x \in Replica :
               IsTree(tree[x]) /\ round[x] \in Nat /\ RoundOf(tree[x].high) \in Nat
    BY InvIsLocal, NodesAreIDs DEF LocalInv, LocalInvButBehind, LocalType
  <1>2. CASE round' = round /\ tree' = tree
    BY <1>1, <1>2 DEF Forward
  <1>3. ASSUME NEW k \in Nat, NEW t, RoundOf(t.high) >= RoundOf(tree[q].high),
               round' = [round EXCEPT ![q] = AdvanceRound(round[q], k)],
               tree' = [tree EXCEPT ![q] = t] \/ tree' = tree
        PROVE  Forward(p)
    <2>1. AdvanceRound(round[q], k) >= round[q]
      BY <1>1, AdvanceRoundFacts
    <2>2. QED
      BY <1>1, <1>3, <2>1 DEF Forward, ShapeOK
  <1>4. CASE AcceptProposal(q)
    <2>1. PICK m \in Pending(q, "proposal") :
              /\ m.justify \in Live(tree[q])
              /\ round' = [round EXCEPT ![q] =
                               AdvanceRound(round[q], RoundOf(m.justify))]
              /\ \/ tree' = [tree EXCEPT ![q] =
                                 TreeAfterProposal(tree[q], m.id, m.justify)]
                 \/ tree' = tree
      BY <1>1, <1>4 DEF AcceptProposal, CheckProposal, Search, ShapeOK
    <2>2. /\ m.id \in ID /\ m.justify \in Nodes(tree[q])
          /\ RoundOf(m.justify) \in Nat
      BY <1>1, <2>1, ProposalFits DEF Pending
    <2>3. RoundOf(TreeAfterProposal(tree[q], m.id, m.justify).high)
              >= RoundOf(tree[q].high)
      BY <1>1, <2>2, ProposalNeverBack
    <2>4. QED
      BY <1>3, <2>1, <2>2, <2>3
  <1>5. CASE VoteQuorum(q)
    <2>1. PICK m \in Pending(q, "vote") :
              /\ m.id \in Live(tree[q])
              /\ round' = [round EXCEPT ![q] = AdvanceRound(round[q], RoundOf(m.id))]
              /\ tree' = [tree EXCEPT ![q] = Redirect(tree[q], m.id)]
      BY <1>5 DEF VoteQuorum, ProcessVote, CheckVote, Search
    <2>2. m.id \in Nodes(tree[q]) /\ RoundOf(m.id) \in Nat
      BY <1>1, <2>1, NodesAreIDs
    <2>3. RoundOf(Redirect(tree[q], m.id).high) >= RoundOf(tree[q].high)
      BY <1>1, <2>2, RedirectIsTree
    <2>4. QED
      BY <1>3, <2>1, <2>2, <2>3
  <1>6. CASE TimeoutQuorum(q)
    <2> DEFINE t(m) == ProcessVote(ExecuteNInsert(tree[q], TmoID(m.round), m.parent),
                                   TmoID(m.round))
    <2>1. PICK m \in Pending(q, "timeout") :
              /\ m.parent \in Live(tree[q])
              /\ round' = [round EXCEPT ![q] = AdvanceRound(round[q], m.round)]
              /\ tree' = [tree EXCEPT ![q] = t(m)]
      BY <1>6 DEF TimeoutQuorum, CanInsert
    <2>2. m.round \in Nat /\ TmoID(m.round) \in ID /\ m.parent \in Nodes(tree[q])
      BY <1>1, <2>1, PendingTimeout, TmoIDFacts, NodesAreIDs
    <2>3. RoundOf(t(m).high) >= RoundOf(tree[q].high)
      BY <1>1, <2>2, TimeoutNeverBack
    <2> HIDE DEF t
    <2>4. QED
      BY <1>3, <2>1, <2>2, <2>3
  <1>7. CASE TimeoutQuorumInsertFails(q)
    <2>1. PICK m \in Pending(q, "timeout") :
              /\ round' = [round EXCEPT ![q] = AdvanceRound(round[q], m.round)]
              /\ tree' = tree
      BY <1>7 DEF TimeoutQuorumInsertFails
    <2>2. m.round \in Nat
      BY <1>1, PendingTimeout
    <2>3. RoundOf(tree[q].high) >= RoundOf(tree[q].high)
      BY <1>1
    <2>4. QED
      BY <1>3, <2>1, <2>2, <2>3
  <1>8. CASE RejectProposal(q) \/ RejectVote(q) \/ CollectVote(q) \/ CollectTimeout(q)
    BY <1>2, <1>8
       DEF RejectProposal, RejectVote, CollectVote, CollectTimeout, replicaVars
  <1>9. QED
    BY <1>4, <1>5, <1>6, <1>7, <1>8 DEF Receive

\* Neither the round nor the high node of a replica goes back, but for a
\* restart of a replica, which forgets both.
THEOREM ReplicasNeverGoBack == Spec => NeverBack
  <1>1. ASSUME IInv, [Next]_vars, NEW p \in Replica
        PROVE  Forward(p) \/ restarts' # restarts
    <2>1. /\ ShapeOK /\ round[p] \in Nat /\ IsTree(tree[p])
          /\ RoundOf(tree[p].high) \in Nat /\ restarts \in Nat
      BY <1>1, InvIsLocal, NodesAreIDs, ConstantsAssumption
         DEF LocalInv, LocalInvButBehind, LocalType, ShapeOK
    <2>2. CASE round' = round /\ tree' = tree
      BY <2>1, <2>2 DEF Forward
    <2>3. CASE Next
      <3>1. PICK q \in Running : Receive(q) \/ LocalTimeout(q) \/ Restart(q)
        BY <2>3 DEF Next
      <3>2. q \in Replica
        BY RunningAssumption
      <3>3. CASE Receive(q)
        BY <1>1, <3>2, <3>3, ReceiveForward
      <3>4. CASE LocalTimeout(q)
        BY <2>2, <3>4 DEF LocalTimeout
      <3>5. CASE Restart(q)
        BY <2>1, <3>5 DEF Restart
      <3>6. QED
        BY <3>1, <3>3, <3>4, <3>5
    <2>4. CASE UNCHANGED vars
      BY <2>2, <2>4 DEF vars, replicaVars
    <2>5. QED
      BY <1>1, <2>3, <2>4
  <1>2. IInv /\ [Next]_vars => [AllForward]_vars
    BY <1>1 DEF AllForward, Forward
  <1>3. QED
    BY <1>2, Invariance, PTL DEF Spec, NeverBack

-----------------------------------------------------------------------------
(* HotStuff implements RoundTimer for each of its replicas: the abstract    *)
(* timer is the replica's round, the round its ticker has, and the rounds   *)
(* of the timeout messages it has sent.                                     *)

\* No timer is ahead of its replica's round.
TimersBehind == \A p \in Replica : timer[p] <= round[p]

\* The ticker's guard never refuses a tick of NewRoundEvent.
LEMMA NewRoundEventTimer ==
    ASSUME ShapeOK, NEW q \in Replica, NEW r, NEW t, NewRoundEvent(q, r, t)
    PROVE  /\ \A p \in Replica : p # q => timer'[p] = timer[p]
           /\ timer'[q] = IF r < timer[q] THEN timer[q] ELSE r
           /\ \A p \in Replica : Announced(p)' = Announced(p)
  <1>1. timer' = [timer EXCEPT ![q] = IF r < @ THEN @ ELSE r]
    BY DEF NewRoundEvent, ScheduleTimeout
  <1>2. sent \subseteq sent' /\ \A m \in sent' \ sent : m.type = "proposal"
    BY DEF NewRoundEvent, Proposal
  <1>3. \A p \in Replica : Announced(p)' = Announced(p)
    BY <1>2 DEF Announced
  <1>4. QED
    BY <1>1, <1>3 DEF ShapeOK

\* What a message does to the timers: nothing, or the round it has led to.
LEMMA ReceiveTimer ==
    ASSUME IInv, NEW q \in Replica, Receive(q)
    PROVE  /\ \A p \in Replica \ {q} : round'[p] = round[p] /\ timer'[p] = timer[p]
           /\ \/ timer'[q] = timer[q]
              \/ timer'[q] = IF round'[q] < timer[q] THEN timer[q] ELSE round'[q]
           /\ \A p \in Replica : Announced(p)' = Announced(p)
  <1>1. ShapeOK
    BY InvIsLocal
  <1>2. CASE UNCHANGED <<round, timer, sent>>
    BY <1>2 DEF Announced
  <1>3. CASE AcceptProposal(q)
    <2>1. PICK r : round' = [round EXCEPT ![q] = r]
      BY <1>3 DEF AcceptProposal
    <2>2. sent \subseteq sent' /\ \A m \in sent' \ sent : m.type = "vote"
      BY <1>3 DEF AcceptProposal, Vote
    <2>3. \A p \in Replica : Announced(p)' = Announced(p)
      BY <2>2 DEF Announced
    <2>4. timer' = timer
      BY <1>3 DEF AcceptProposal
    <2>5. QED
      BY <1>1, <2>1, <2>3, <2>4 DEF ShapeOK
  <1>4. CASE VoteQuorum(q) \/ TimeoutQuorum(q)
    <2>1. PICK r, t : round' = [round EXCEPT ![q] = r] /\ NewRoundEvent(q, r, t)
      BY <1>4 DEF VoteQuorum, TimeoutQuorum
    <2>2. round'[q] = r /\ \A p \in Replica \ {q} : round'[p] = round[p]
      BY <1>1, <2>1 DEF ShapeOK
    <2>3. QED
      BY <1>1, <2>1, <2>2, NewRoundEventTimer
  <1>5. CASE TimeoutQuorumInsertFails(q)
    <2>1. PICK r : round' = [round EXCEPT ![q] = r]
      BY <1>5 DEF TimeoutQuorumInsertFails
    <2>2. timer' = timer /\ sent' = sent
      BY <1>5 DEF TimeoutQuorumInsertFails
    <2>3. QED
      BY <1>1, <2>1, <2>2 DEF ShapeOK, Announced
  <1>6. CASE RejectProposal(q) \/ RejectVote(q) \/ CollectVote(q) \/ CollectTimeout(q)
    BY <1>2, <1>6
       DEF RejectProposal, RejectVote, CollectVote, CollectTimeout, replicaVars
  <1>7. QED
    BY <1>3, <1>4, <1>5, <1>6 DEF Receive

\* localTimeout announces the round the replica is in, and no other.
LEMMA LocalTimeoutTimer ==
    ASSUME IInv, TimersBehind, NEW q \in Replica, LocalTimeout(q)
    PROVE  /\ round' = round /\ timer' = timer
           /\ timer[q] = round[q]
           /\ Announced(q)' = Announced(q) \cup {timer[q]}
           /\ \A p \in Replica \ {q} : Announced(p)' = Announced(p)
  <1> DEFINE m == Timeout(timer[q], tree[q].high, q)
  <1>1. ShapeOK /\ round[q] \in Nat /\ timer[q] \in Nat
    BY InvIsLocal DEF ShapeOK
  <1>2. round' = round /\ timer' = timer
    BY <1>1 DEF LocalTimeout, ScheduleTimeout, ShapeOK
  <1>3. round[q] <= timer[q] /\ timer[q] <= round[q]
    BY DEF LocalTimeout, CheckTimeout, TimersBehind
  <1>4. sent' = sent \cup {m} /\ m.type = "timeout" /\ m.from = q /\ m.round = timer[q]
    BY DEF LocalTimeout, Timeout
  <1> HIDE DEF m
  <1>5. Announced(q)' = Announced(q) \cup {timer[q]}
    BY <1>2, <1>4 DEF Announced
  <1>6. \A p \in Replica \ {q} : Announced(p)' = Announced(p)
    BY <1>4 DEF Announced
  <1>7. QED
    BY <1>1, <1>2, <1>3, <1>5, <1>6

\* A step of replica q as a step of the timer of replica p.
LEMMA TimerStep ==
    ASSUME IInv, TimersBehind, NEW q \in Running, NEW p \in Replica,
           Receive(q) \/ LocalTimeout(q) \/ Restart(q)
    PROVE  /\ timer'[p] <= round'[p]
           /\ [Timer(p)!Next]_(Timer(p)!vars)
  <1>0. q \in Replica /\ IInv'
    BY RunningAssumption, NextInv DEF Next
  <1>1. /\ ShapeOK /\ round[p] \in Nat /\ timer[p] \in Nat /\ timer[p] <= round[p]
        /\ round[q] \in Nat /\ timer[q] \in Nat /\ timer[q] <= round[q]
    BY <1>0, InvIsLocal DEF ShapeOK, TimersBehind
  <1>2. CASE /\ round'[p] = round[p] /\ timer'[p] = timer[p]
             /\ Announced(p)' = Announced(p)
    BY <1>1, <1>2 DEF Timer!vars
  <1>3. CASE Receive(q) /\ p = q
    <2>1. round'[q] >= round[q]
      BY <1>0, <1>3, ReceiveForward DEF Forward
    <2>2. Announced(q)' = Announced(q)
      BY <1>0, <1>3, ReceiveTimer
    <2>3. round'[q] \in Nat
      BY <1>0 DEF IInv, TypeOK
    <2>4. CASE timer'[q] = timer[q] /\ round'[q] = round[q]
      BY <1>2, <1>3, <2>2, <2>4
    <2>5. CASE timer'[q] = timer[q] /\ round'[q] # round[q]
      BY <1>1, <1>3, <2>1, <2>2, <2>3, <2>5 DEF Timer!Next, Timer!Follow
    <2>6. CASE timer'[q] = IF round'[q] < timer[q] THEN timer[q] ELSE round'[q]
      BY <1>1, <1>3, <2>1, <2>2, <2>3, <2>6 DEF Timer!Next, Timer!Enter
    <2>7. QED
      BY <1>0, <1>3, <2>4, <2>5, <2>6, ReceiveTimer
  <1>4. CASE LocalTimeout(q) /\ p = q
    BY <1>0, <1>1, <1>4, LocalTimeoutTimer DEF Timer!Next, Timer!TimeOut
  <1>5. CASE Restart(q) /\ p = q
    <2>1. round'[q] = StartingRound /\ timer'[q] = StartingRound /\ sent' = sent
      BY <1>0, <1>1, <1>5 DEF Restart, ShapeOK
    <2>2. StartingRound <= StartingRound
      BY ConstantsAssumption DEF StartingRound
    <2>3. QED
      BY <1>5, <2>1, <2>2 DEF Announced, Timer!Next, Timer!Restart
  <1>6. CASE p # q
    <2>1. CASE Receive(q)
      BY <1>0, <1>2, <1>6, <2>1, ReceiveTimer
    <2>2. CASE LocalTimeout(q)
      BY <1>0, <1>2, <1>6, <2>2, LocalTimeoutTimer
    <2>3. CASE Restart(q)
      BY <1>0, <1>1, <1>2, <1>6, <2>3 DEF Restart, ShapeOK, Announced
    <2>4. QED
      BY <2>1, <2>2, <2>3
  <1>7. QED
    BY <1>3, <1>4, <1>5, <1>6

\* Every process starts in the first round, with its timer armed for it.
LEMMA InitTimers == Init => TimersBehind /\ \A p \in Replica : Timer(p)!Init
  <1>1. SUFFICES ASSUME Init
                 PROVE  TimersBehind /\ \A p \in Replica : Timer(p)!Init
    OBVIOUS
  <1>2. \A p \in Replica : round[p] = StartingRound /\ timer[p] = StartingRound
    BY <1>1 DEF Init
  <1>3. StartingRound <= StartingRound
    BY ConstantsAssumption DEF StartingRound
  <1>4. \A p : Announced(p) = {}
    BY <1>1 DEF Init, Announced
  <1>5. QED
    BY <1>2, <1>3, <1>4 DEF TimersBehind, Timer!Init

AllTimersStep == \A p \in Replica : [Timer(p)!Next]_(Timer(p)!vars)

\* Every step of the system is a step of each replica's timer.
LEMMA NextTimers ==
    IInv /\ TimersBehind /\ [Next]_vars => TimersBehind' /\ AllTimersStep
  <1>1. SUFFICES ASSUME IInv, TimersBehind, [Next]_vars
                 PROVE  TimersBehind' /\ AllTimersStep
    OBVIOUS
  <1>2. CASE Next
    <2>1. PICK q \in Running : Receive(q) \/ LocalTimeout(q) \/ Restart(q)
      BY <1>2 DEF Next
    <2>2. QED
      BY <1>1, <2>1, TimerStep DEF TimersBehind, AllTimersStep
  <1>3. CASE UNCHANGED vars
    BY <1>1, <1>3
       DEF vars, replicaVars, TimersBehind, AllTimersStep, Timer!vars, Announced
  <1>4. QED
    BY <1>1, <1>2, <1>3

\* Every replica's timer is the one RoundTimer specifies, restarts included.
THEOREM HotStuffImplementsRoundTimer == Spec => TimersKept
  <1>1. Init => TimersBehind /\ \A p \in Replica : Timer(p)!Init
    BY InitTimers
  <1>2. IInv /\ TimersBehind /\ [Next]_vars => TimersBehind' /\ [AllTimersStep]_vars
    BY NextTimers
  <1>3. QED
    BY <1>1, <1>2, Invariance, PTL DEF Spec, TimersKept, AllTimersStep

-----------------------------------------------------------------------------
(* Each replica's tree is the tree of TreeCalls.                            *)

\* TreeCalls works on trees with the operators HotStuff works with.
LEMMA SameOperators ==
    ASSUME NEW p
    PROVE  /\ \A t : Calls(p)!Nodes(t) = Nodes(t)
           /\ \A t : Calls(p)!Live(t) = Live(t)
           /\ \A t, id : Calls(p)!IsRepeat(t, id) <=> IsRepeat(t, id)
           /\ \A t, id, x : Calls(p)!CanInsert(t, id, x) <=> CanInsert(t, id, x)
           /\ \A t, id, x : Calls(p)!ExecuteNInsert(t, id, x) = ExecuteNInsert(t, id, x)
           /\ \A t, id : Calls(p)!ProcessVote(t, id) = ProcessVote(t, id)
           /\ \A t, id, x : Calls(p)!TreeAfterProposal(t, id, x) = TreeAfterProposal(t, id, x)
           /\ \A g : Calls(p)!NewQCTree(g) = NewQCTree(g)
  <1>1. \A t : Calls(p)!Nodes(t) = Nodes(t)
    BY DEF Calls!Nodes, Nodes
  <1>2. \A t : Calls(p)!Live(t) = Live(t)
    BY DEF Calls!Live, Live, Calls!Nodes, Nodes
  <1>3. \A t, x : Calls(p)!Up(t, x) = Up(t, x)
    BY DEF Calls!Up, Up
  <1>4. \A t, x : Calls(p)!Up3(t, x) = Up3(t, x)
    BY <1>3 DEF Calls!Up3, Up3
  <1>5. \A t, id : Calls(p)!IsRepeat(t, id) <=> IsRepeat(t, id)
    BY DEF Calls!IsRepeat, IsRepeat
  <1>6. \A t, id, x : Calls(p)!CanInsert(t, id, x) <=> CanInsert(t, id, x)
    BY <1>2, <1>5 DEF Calls!CanInsert, CanInsert, Calls!RoundOf, RoundOf
  <1>7. \A t, id, x : Calls(p)!Insert(t, id, x) = Insert(t, id, x)
    BY <1>1 DEF Calls!Insert, Insert
  <1>8. \A t, b : Calls(p)!Stays(t, b) <=> Stays(t, b)
    BY DEF Calls!Stays, Stays, Calls!RoundOf, RoundOf
  <1>9. \A t, b : Calls(p)!Redirect(t, b) = Redirect(t, b)
    BY <1>3, <1>4, <1>8 DEF Calls!Redirect, Redirect, Calls!OrElse, OrElse
  <1>10. \A t, n : Calls(p)!Reset(t, n) = Reset(t, n)
    <2>1. \A t, n : Calls(p)!Deleted(t, n) = Deleted(t, n)
      BY <1>2 DEF Calls!Deleted, Deleted, Calls!Below, Below
    <2> QED
      BY <1>3, <2>1 DEF Calls!Reset, Reset
  <1>11. \A t, key : Calls(p)!ProcessCommit(t, key) = ProcessCommit(t, key)
    BY <1>10 DEF Calls!ProcessCommit, ProcessCommit
  <1>12. \A t, id, x : Calls(p)!ExecuteNInsert(t, id, x) = ExecuteNInsert(t, id, x)
    BY <1>7, <1>9 DEF Calls!ExecuteNInsert, ExecuteNInsert
  <1>13. \A t, id, x : Calls(p)!TreeAfterProposal(t, id, x) = TreeAfterProposal(t, id, x)
    BY <1>4, <1>5, <1>11, <1>12 DEF Calls!TreeAfterProposal, TreeAfterProposal
  <1>14. \A t, id : Calls(p)!ProcessVote(t, id) = ProcessVote(t, id)
    BY <1>9 DEF Calls!ProcessVote, ProcessVote
  <1>15. \A g : Calls(p)!NewQCTree(g) = NewQCTree(g)
    BY DEF Calls!NewQCTree, NewQCTree
  <1> QED
    BY <1>1, <1>2, <1>5, <1>6, <1>12, <1>13, <1>14, <1>15

\* The proposals sent are on the ids TreeCalls calls proposals.
IdsBounded == \A m \in sent : m.type = "proposal" => m.id \in Blocks

\* A tree that has seen calls from the start block on.
TreesInv ==
    \A p \in Replica : TreeInv(tree[p], Genesis) /\ Genesis \in Nodes(tree[p])

LEMMA NewRoundEventIds ==
    ASSUME IdsBounded, NEW p, NEW r \in Nat, NEW t, NewRoundEvent(p, r, t)
    PROVE  IdsBounded'
  <1>1. \A id \in FreshIDs(r) : id \in Blocks
    <2>1. r \in 0 .. MaxRound
      BY ConstantsAssumption DEF NewRoundEvent
    <2>2. \A id \in FreshIDs(r) : \E k \in 1 .. MaxProposals : id = <<r, k>>
      BY DEF FreshIDs
    <2> QED
      BY <2>1, <2>2 DEF Blocks
  <1>2. \A id : Proposal(id, t.high, p).id = id
    BY DEF Proposal
  <1>3. \/ sent' = sent
        \/ \E id \in FreshIDs(r) : sent' = sent \cup {Proposal(id, t.high, p)}
    BY DEF NewRoundEvent
  <1> QED
    BY <1>1, <1>2, <1>3 DEF IdsBounded

\* A step that makes no proposal.
LEMMA OtherMessagesIds ==
    ASSUME IdsBounded, \A m \in sent' \ sent : m.type # "proposal"
    PROVE  IdsBounded'
  BY DEF IdsBounded

\* An accepted proposal loses no node.
LEMMA ProposalKeepsNodes ==
    ASSUME NEW t, IsTree(t), NEW id \in ID, NEW x \in Nodes(t)
    PROVE  Nodes(t) \subseteq Nodes(TreeAfterProposal(t, id, x))
  <1> DEFINE u == IF IsRepeat(t, id) THEN t ELSE ExecuteNInsert(t, id, x)
  <1>1. IsTree(u) /\ Nodes(t) \subseteq Nodes(u)
    BY ExecuteNInsertIsTree
  <1> HIDE DEF u
  <1>2. \A key : Nodes(ProcessCommit(u, key)) = Nodes(u)
    BY <1>1, ProcessCommitIsTree DEF Nodes
  <1>3. \/ TreeAfterProposal(t, id, x) = u
        \/ TreeAfterProposal(t, id, x) = ProcessCommit(u, Up3(u, x))
    BY DEF TreeAfterProposal, u
  <1> QED
    BY <1>1, <1>2, <1>3

\* A call on the tree of p keeps what TreeCalls keeps, and every node.
LEMMA CallKeepsTree ==
    ASSUME NEW p \in Replica, TreeInv(tree[p], Genesis), Genesis \in Nodes(tree[p]),
           Calls(p)!Next
    PROVE  /\ TreeInv(tree'[p], Genesis) /\ Genesis \in Nodes(tree'[p])
           /\ Downwards(tree[p], tree'[p])
  <1>0. IsTree(tree[p]) /\ Live(tree[p]) \subseteq Nodes(tree[p])
    BY NodesAreIDs DEF TreeInv
  <1>1. CASE Calls(p)!Propose
    <2>1. PICK id \in Blocks, x \in Live(tree[p]) :
              /\ id \in Nodes(tree[p]) => IsRepeat(tree[p], id) /\ tree[p].par[id] = x
              /\ IsRepeat(tree[p], id) \/ CanInsert(tree[p], id, x)
              /\ tree'[p] = TreeAfterProposal(tree[p], id, x)
      BY <1>1, SameOperators DEF Calls!Propose
    <2>2. id \in ID
      BY ConstantsAssumption DEF Blocks, ID
    <2>3. Nodes(tree[p]) \subseteq Nodes(tree'[p])
      BY <1>0, <2>1, <2>2, ProposalKeepsNodes
    <2> QED
      BY <2>1, <2>2, <2>3, ProposalInv
  <1>2. CASE Calls(p)!VoteQuorum
    <2>1. PICK id \in Live(tree[p]) : tree'[p] = ProcessVote(tree[p], id)
      BY <1>2, SameOperators DEF Calls!VoteQuorum
    <2>2. Nodes(tree'[p]) = Nodes(tree[p])
      BY <1>0, <2>1, RedirectIsTree DEF ProcessVote, Nodes
    <2> QED
      BY <2>1, <2>2, VoteInv
  <1>3. CASE Calls(p)!TimeoutQuorum
    <2>1. PICK tmo \in TimeoutNodes \ Nodes(tree[p]), x \in Live(tree[p]) :
              /\ CanInsert(tree[p], tmo, x)
              /\ tree'[p] = ProcessVote(ExecuteNInsert(tree[p], tmo, x), tmo)
      BY <1>3, SameOperators DEF Calls!TimeoutQuorum
    <2>2. tmo \in ID
      BY ConstantsAssumption, TmoIDFacts DEF TimeoutNodes
    <2> DEFINE u == ExecuteNInsert(tree[p], tmo, x)
    <2>3. IsTree(u) /\ Nodes(u) = Nodes(tree[p]) \cup {tmo}
      BY <1>0, <2>1, <2>2, ExecuteNInsertIsTree
    <2>4. Nodes(ProcessVote(u, tmo)) = Nodes(u)
      <3> HIDE DEF u
      <3> QED
        BY <2>3, RedirectIsTree DEF ProcessVote, Nodes
    <2> QED
      BY <2>1, <2>2, <2>3, <2>4, TimeoutInv
  <1> QED
    BY <1>1, <1>2, <1>3 DEF Calls!Next

\* What a message does to its receiver's tree is a call of TreeCalls, or nothing.
LEMMA ReceiveTree ==
    ASSUME IInv, IdsBounded, NEW q \in Replica, Receive(q),
           TreeInv(tree[q], Genesis), Genesis \in Nodes(tree[q])
    PROVE  /\ \A p \in Replica \ {q} : tree'[p] = tree[p]
           /\ tree'[q] = tree[q] \/ Calls(q)!Next
           /\ IdsBounded'
  <1>1. /\ ShapeOK /\ MessageInv(sent)
        /\ LocalInv(sent, round[q], tree[q], voteSet[q], timeoutSet[q])
        /\ round[q] \in Nat
    BY InvIsLocal DEF ShapeOK
  <1>2. CASE AcceptProposal(q)
    <2>1. PICK m \in Pending(q, "proposal") :
              /\ m.justify \in Live(tree[q])
              /\ \/ tree' = [tree EXCEPT ![q] =
                                 TreeAfterProposal(tree[q], m.id, m.justify)]
                 \/ tree' = tree
      BY <1>1, <1>2 DEF AcceptProposal, CheckProposal, Search, ShapeOK
    <2>2. m \in sent /\ m.type = "proposal" /\ m.id \in Blocks
      BY DEF Pending, IdsBounded
    <2>3. /\ IsRepeat(tree[q], m.id) \/ CanInsert(tree[q], m.id, m.justify)
          /\ m.id \in Nodes(tree[q]) => tree[q].par[m.id] = m.justify
      BY <1>1, <2>1, <2>2, ProposalFits
    <2>4. m.id \in Nodes(tree[q]) => IsRepeat(tree[q], m.id)
      BY <2>1, <2>3, LiveChains DEF TreeInv, KeysOK, IsRepeat
    <2>5. tree'[q] = TreeAfterProposal(tree[q], m.id, m.justify) => Calls(q)!Next
      <3> SUFFICES ASSUME tree'[q] = TreeAfterProposal(tree[q], m.id, m.justify)
                   PROVE  Calls(q)!Propose
        BY DEF Calls!Next
      <3>1. m.justify \in Calls(q)!Live(tree[q])
        BY <2>1, SameOperators
      <3>2. m.id \in Calls(q)!Nodes(tree[q]) =>
                Calls(q)!IsRepeat(tree[q], m.id) /\ tree[q].par[m.id] = m.justify
        BY <2>3, <2>4, SameOperators
      <3>3. \/ Calls(q)!IsRepeat(tree[q], m.id)
            \/ Calls(q)!CanInsert(tree[q], m.id, m.justify)
        BY <2>3, SameOperators
      <3>4. tree'[q] = Calls(q)!TreeAfterProposal(tree[q], m.id, m.justify)
        BY SameOperators
      <3> QED
        BY <2>2, <3>1, <3>2, <3>3, <3>4 DEF Calls!Propose
    <2>6. /\ \A p \in Replica \ {q} : tree'[p] = tree[p]
          /\ tree'[q] \in {tree[q], TreeAfterProposal(tree[q], m.id, m.justify)}
      BY <1>1, <2>1 DEF ShapeOK
    <2>7. IdsBounded'
      BY <1>2, OtherMessagesIds DEF AcceptProposal, Vote
    <2> QED
      BY <2>5, <2>6, <2>7
  <1>3. CASE VoteQuorum(q)
    <2> DEFINE r(m) == AdvanceRound(round[q], RoundOf(m.id))
    <2>1. PICK m \in Pending(q, "vote") :
              /\ m.id \in Live(tree[q])
              /\ tree' = [tree EXCEPT ![q] = ProcessVote(tree[q], m.id)]
              /\ NewRoundEvent(q, r(m), ProcessVote(tree[q], m.id))
      BY <1>3 DEF VoteQuorum, CheckVote, Search
    <2>2. RoundOf(m.id) \in Nat
      BY <2>1, NodesAreIDs DEF TreeInv
    <2>3. r(m) \in Nat
      BY <1>1, <2>1, <2>2, AdvanceRoundFacts
    <2> HIDE DEF r
    <2>4. IdsBounded'
      BY <2>1, <2>3, NewRoundEventIds
    <2>5. tree'[q] = ProcessVote(tree[q], m.id)
      BY <1>1, <2>1 DEF ShapeOK
    <2>6. Calls(q)!Next
      BY <2>1, <2>5, SameOperators DEF Calls!VoteQuorum, Calls!Next
    <2> QED
      BY <1>1, <2>1, <2>4, <2>6 DEF ShapeOK
  <1>4. CASE TimeoutQuorum(q)
    <2> DEFINE t(m) == ProcessVote(ExecuteNInsert(tree[q], TmoID(m.round), m.parent),
                                   TmoID(m.round))
               r(m) == AdvanceRound(round[q], m.round)
    <2>1. PICK m \in Pending(q, "timeout") :
              /\ round[q] <= m.round
              /\ CanInsert(tree[q], TmoID(m.round), m.parent)
              /\ tree' = [tree EXCEPT ![q] = t(m)]
              /\ NewRoundEvent(q, r(m), t(m))
      BY <1>4 DEF TimeoutQuorum, CheckTimeout
    <2>2. m.round \in Nat
      BY <1>1, PendingTimeout
    <2>3. r(m) \in Nat /\ m.round < r(m) /\ r(m) <= MaxRound
      BY <1>1, <2>1, <2>2, AdvanceRoundFacts DEF NewRoundEvent
    <2> HIDE DEF r
    <2>4. IdsBounded'
      BY <2>1, <2>3, NewRoundEventIds
    <2>5. tree'[q] = t(m)
      BY <1>1, <2>1 DEF ShapeOK
    <2>6. TmoID(m.round) \notin Nodes(tree[q])
      BY <1>1, <2>1, <2>2, TmoIDFacts DEF LocalInv, LocalBehind
    <2>7. TmoID(m.round) \in TimeoutNodes
      BY <2>2, <2>3, <2>6, ConstantsAssumption DEF TimeoutNodes
    <2>8. m.parent \in Live(tree[q])
      BY <2>1 DEF CanInsert
    <2>9. Calls(q)!TimeoutQuorum
      BY <2>1, <2>5, <2>6, <2>7, <2>8, SameOperators DEF Calls!TimeoutQuorum
    <2> QED
      BY <1>1, <2>1, <2>4, <2>9 DEF ShapeOK, Calls!Next
  <1>5. CASE RejectProposal(q) \/ RejectVote(q) \/ CollectVote(q) \/ CollectTimeout(q)
             \/ TimeoutQuorumInsertFails(q)
    <2>1. tree' = tree /\ sent' = sent
      BY <1>5 DEF RejectProposal, RejectVote, CollectVote, CollectTimeout,
                  TimeoutQuorumInsertFails, replicaVars
    <2> QED
      BY <2>1, OtherMessagesIds
  <1> QED
    BY <1>2, <1>3, <1>4, <1>5 DEF Receive

\* One step of the system, as the tree of one replica sees it.
LEMMA TreeStep ==
    ASSUME IInv, IdsBounded, TreesInv, NEW q \in Running, NEW p \in Replica,
           Receive(q) \/ LocalTimeout(q) \/ Restart(q)
    PROVE  /\ tree'[p] = tree[p] \/ Calls(p)!Next \/ Restarted(p)
           /\ IdsBounded'
  <1>1. q \in Replica /\ ShapeOK
    BY RunningAssumption, InvIsLocal
  <1>2. CASE Receive(q)
    BY <1>1, <1>2, ReceiveTree DEF TreesInv
  <1>3. CASE LocalTimeout(q)
    BY <1>3, OtherMessagesIds DEF LocalTimeout, Timeout
  <1>4. CASE Restart(q)
    <2>1. tree' = [tree EXCEPT ![q] = NewQCTree(Genesis)] /\ restarts' = restarts + 1
      BY <1>4 DEF Restart
    <2>2. restarts \in Nat
      BY <1>1, ConstantsAssumption DEF ShapeOK
    <2>3. tree'[p] = tree[p] \/ Restarted(p)
      BY <1>1, <2>1, <2>2 DEF ShapeOK, Restarted
    <2>4. IdsBounded'
      BY <1>4, OtherMessagesIds DEF Restart
    <2> QED
      BY <2>3, <2>4
  <1> QED
    BY <1>2, <1>3, <1>4

AllTreesStep ==
    \A p \in Replica : tree'[p] = tree[p] \/ Calls(p)!Next \/ Restarted(p)

LEMMA InitTrees ==
    Init => IdsBounded /\ TreesInv /\ \A p \in Replica : Calls(p)!Init
  <1> SUFFICES ASSUME Init
               PROVE  IdsBounded /\ TreesInv /\ \A p \in Replica : Calls(p)!Init
    OBVIOUS
  <1>1. \A p \in Replica : tree[p] = NewQCTree(Genesis)
    BY DEF Init
  <1>2. Genesis \in ID
    BY ConstantsAssumption DEF Genesis, ID
  <1>3. TreesInv
    BY <1>1, <1>2, NewQCTreeInv, NewQCTreeIsTree DEF TreesInv
  <1>4. \A p \in Replica : Calls(p)!Init
    BY <1>1, SameOperators DEF Calls!Init
  <1>5. IdsBounded
    BY DEF Init, IdsBounded
  <1> QED
    BY <1>3, <1>4, <1>5

\* Every step of the system is a call on each replica's tree, nothing to it, or
\* its restart; it keeps the trees' invariant, and a call gives up no commit.
LEMMA NextTrees ==
    ASSUME IInv, IdsBounded, TreesInv, [Next]_vars
    PROVE  /\ IdsBounded' /\ TreesInv' /\ AllTreesStep
           /\ \A p \in Replica : Downwards(tree[p], tree'[p]) \/ Restarted(p)
  <1>1. IdsBounded' /\ AllTreesStep
    <2>1. CASE Next
      <3>1. PICK q \in Running : Receive(q) \/ LocalTimeout(q) \/ Restart(q)
        BY <2>1 DEF Next
      <3> QED
        BY <3>1, TreeStep, RunningAssumption DEF AllTreesStep
    <2>2. CASE UNCHANGED vars
      BY <2>2 DEF vars, replicaVars, IdsBounded, AllTreesStep
    <2> QED
      BY <2>1, <2>2
  <1>2. ASSUME NEW p \in Replica
        PROVE  /\ TreeInv(tree'[p], Genesis) /\ Genesis \in Nodes(tree'[p])
               /\ Downwards(tree[p], tree'[p]) \/ Restarted(p)
    <2>0. TreeInv(tree[p], Genesis) /\ Genesis \in Nodes(tree[p])
      BY DEF TreesInv
    <2>1. CASE tree'[p] = tree[p]
      BY <2>0, <2>1 DEF Downwards
    <2>2. CASE Calls(p)!Next
      BY <2>0, <2>2, CallKeepsTree
    <2>3. CASE Restarted(p)
      <3>1. Genesis \in ID
        BY ConstantsAssumption DEF Genesis, ID
      <3> QED
        BY <2>3, <3>1, NewQCTreeInv, NewQCTreeIsTree DEF Restarted
    <2> QED
      BY <1>1, <2>1, <2>2, <2>3 DEF AllTreesStep
  <1> QED
    BY <1>1, <1>2 DEF TreesInv

\* The handlers of State call the block tree as TreeCalls does: only on nodes a
\* search has found, with an id that is new or that has the parent it had, and
\* with a timeout node that is not there (state.go:226-352).
THEOREM HotStuffImplementsTreeCalls == Spec => TreesKept
  <1>1. Init => IdsBounded /\ TreesInv /\ \A p \in Replica : Calls(p)!Init
    BY InitTrees
  <1>2. IInv /\ IdsBounded /\ TreesInv /\ [Next]_vars =>
            IdsBounded' /\ TreesInv' /\ [AllTreesStep]_vars
    BY NextTrees
  <1> QED
    BY <1>1, <1>2, Invariance, PTL DEF Spec, TreesKept, AllTreesStep

\* So each replica's tree has what TreeCalls promises of a tree: no root without
\* four nodes below it, keys that cover what a search finds, and a commit
\* pointer that is not above the root.
THEOREM ReplicaTreesAreSound ==
    Spec => [](\A p \in Replica :
                   /\ Calls(p)!CommitIsFourDeep
                   /\ Calls(p)!KeySetShape
                   /\ Calls(p)!CommitPointerNotAbove)
  <1>1. TreesInv => \A p \in Replica : /\ Calls(p)!CommitIsFourDeep
                                       /\ Calls(p)!KeySetShape
                                       /\ Calls(p)!CommitPointerNotAbove
    BY SameOperators
       DEF TreesInv, TreeInv, KeysOK, CommitOK, FourBelow, Calls!CommitIsFourDeep,
           Calls!KeySetShape, Calls!CommitPointerNotAbove
  <1>2. Init => IdsBounded /\ TreesInv
    BY InitTrees
  <1>3. IInv /\ IdsBounded /\ TreesInv /\ [Next]_vars => IdsBounded' /\ TreesInv'
    BY NextTrees
  <1> QED
    BY <1>1, <1>2, <1>3, Invariance, PTL DEF Spec

CommitsGrow == \A p \in Replica : Committed(tree[p]) \subseteq Committed(tree'[p]) \/ Restarted(p)

\* A replica never gives up a block it has committed, whatever messages come in
\* whatever order, but for its restart, which keeps nothing (block_tree.go:146).
THEOREM ReplicasKeepCommits == Spec => [][CommitsGrow]_vars
  <1>1. Init => IdsBounded /\ TreesInv
    BY InitTrees
  <1>2. IInv /\ IdsBounded /\ TreesInv /\ [Next]_vars =>
            IdsBounded' /\ TreesInv' /\ [CommitsGrow]_vars
    BY NextTrees DEF CommitsGrow, Downwards
  <1> QED
    BY <1>1, <1>2, Invariance, PTL DEF Spec
=============================================================================
