--------------------------- MODULE PeerSetProofs ----------------------------
(***************************************************************************)
(* The set of peers, for any number of peers, of connections made to each  *)
(* at a time and of calls of Broadcast: while nobody is adding, the list   *)
(* Range goes through has the connection of every peer Find knows, once,   *)
(* and no other.                                                           *)
(*                                                                         *)
(* Add makes the list without the old connection in a loop, here a         *)
(* recursive function.  What it computes is proved by induction on the     *)
(* number of rounds of the loop, from the library's theorem that < on Nat  *)
(* is well-founded.                                                        *)
(***************************************************************************)
EXTENDS PeerSet, SequenceTheorems, FiniteSetTheorems, WellFoundedInduction, TLAPS

-----------------------------------------------------------------------------
(* The inductive invariant.                                                 *)

CallState ==
    [ phase : {"idle", "made", "counted", "spawned", "closed"}, size : Nat, counter : Int,
      queued : Nat, sending : SUBSET Conn, tried : SUBSET Conn, present : SUBSET Peer,
      replaced : BOOLEAN ]

Distinct == {s \in Seq(Conn) : IsInjective(s)}

\* What the variables are; no connection is in the list twice, and the mutex of
\* Add is taken by one.
Shape ==
    /\ lookup \in [Peer -> Nat] /\ \A p \in Peer : lookup[p] <= MaxConns[p]
    /\ list \in Distinct
    /\ opening \subseteq Conn
    /\ adding \subseteq opening /\ \A c, d \in adding : c = d
    /\ calls \in [Call -> CallState]
    /\ \A i \in Call : /\ calls[i].queued <= calls[i].size
                       /\ calls[i].phase = "idle" => calls[i].queued = 0 /\ calls[i].sending = {}
    /\ waiting \in 0 .. MaxCalls
    /\ crashed \in BOOLEAN

\* Between the two steps of Add the list has the connections of the table
\* except those of the peer that is added.
Listed(table, added) ==
    {c \in Conn : table[c[1]] = c[2] /\ \A d \in added : d[1] # c[1]}

TableListed == ToSet(list) = Listed(lookup, adding)

IInv == Shape /\ TableListed

-----------------------------------------------------------------------------
(* Lists.                                                                   *)

LEMMA AppendDistinct ==
    ASSUME NEW s \in Distinct, NEW c \in Conn, c \notin ToSet(s)
    PROVE  /\ Append(s, c) \in Distinct
           /\ ToSet(Append(s, c)) = ToSet(s) \cup {c}
  <1>0. PICK t : t = Append(s, c)
    OBVIOUS
  <1>1. /\ t \in Seq(Conn) /\ Len(t) = Len(s) + 1
        /\ \A i \in 1 .. Len(s) : t[i] = s[i]
        /\ t[Len(s) + 1] = c
    BY <1>0, AppendProperties DEF Distinct
  <1>2. /\ Len(s) \in Nat
        /\ DOMAIN s = 1 .. Len(s) /\ DOMAIN t = (1 .. Len(s)) \cup {Len(s) + 1}
    BY <1>1, LenProperties DEF Distinct
  <1>3. ToSet(t) = ToSet(s) \cup {c}
    BY <1>1, <1>2 DEF ToSet
  <1>4. \A i, j \in DOMAIN s : s[i] = s[j] => i = j
    BY DEF Distinct, IsInjective
  <1>5. \A i \in DOMAIN s : s[i] # c
    BY DEF ToSet
  <1>6. \A i, j \in DOMAIN t : t[i] = t[j] => i = j
    BY <1>1, <1>2, <1>4, <1>5
  <1> QED
    BY <1>0, <1>1, <1>3, <1>6 DEF Distinct, IsInjective

LEMMA EmptyDistinct == <<>> \in Distinct /\ ToSet(<<>>) = {}
  <1>1. <<>> \in Seq(Conn) /\ Len(<<>>) = 0 /\ DOMAIN <<>> = {}
    BY EmptySeq, LenProperties
  <1> QED
    BY <1>1 DEF Distinct, IsInjective, ToSet

\* A list without repetition is as long as it has elements.
LEMMA DistinctLength ==
    ASSUME NEW s \in Distinct
    PROVE  Len(s) = Cardinality(ToSet(s))
  <1>1. Len(s) \in Nat /\ DOMAIN s = 1 .. Len(s) /\ s \in [1 .. Len(s) -> Conn]
    BY LenProperties DEF Distinct
  <1>2. s \in [1 .. Len(s) -> ToSet(s)]
    BY <1>1 DEF ToSet
  <1>3. s \in Bijection(1 .. Len(s), ToSet(s))
    BY <1>1, <1>2 DEF Bijection, Injection, Surjection, ToSet, Distinct
  <1>4. ExistsBijection(1 .. Len(s), ToSet(s))
    BY <1>3 DEF ExistsBijection
  <1> QED
    BY <1>1, <1>4, FS_CountingElements

-----------------------------------------------------------------------------
(* The loop of Add.                                                         *)

\* Induction on the natural numbers, as a property of sets of them.
LEMMA Induction ==
    ASSUME NEW T, 0 \in T, \A n \in Nat : n \in T => n + 1 \in T
    PROVE  Nat \subseteq T
  <1> SUFFICES ASSUME Nat \ T # {}
               PROVE  FALSE
    OBVIOUS
  <1> DEFINE R == OpToRel(<, Nat)
  <1>1. IsWellFoundedOn(R, Nat)
    BY NatLessThanWellFounded
  <1>2. \A x, y \in Nat : <<x, y>> \in R <=> x < y
    BY DEF OpToRel
  <1> HIDE DEF R
  <1>3. PICK x \in Nat \ T : \A y \in Nat \ T : ~(<<y, x>> \in R)
    BY <1>1, WFMin
  <1>4. x # 0 /\ x - 1 \in Nat /\ x - 1 < x
    OBVIOUS
  <1>5. x - 1 \in T
    BY <1>2, <1>3, <1>4
  <1> QED
    BY <1>4, <1>5

\* The list after n rounds, from that after one less.
Round(s, p, newOne, n) ==
    IF n = 0 THEN <<>>
    ELSE IF s[n][1] # p THEN Append(newOne[n - 1], s[n]) ELSE newOne[n - 1]

LEMMA RoundsExist ==
    ASSUME NEW s, NEW p, NEW k \in Nat
    PROVE  \E f : f = [n \in 0 .. k |-> Round(s, p, f, n)]
  <1> DEFINE T == {l \in Nat : \E f : f = [n \in 0 .. l |-> Round(s, p, f, n)]}
  <1>1. 0 \in T
    <2>1. PICK f : f = [n \in 0 .. 0 |-> <<>>]
      OBVIOUS
    <2>2. \A n \in 0 .. 0 : Round(s, p, f, n) = <<>>
      BY DEF Round
    <2>3. f = [n \in 0 .. 0 |-> Round(s, p, f, n)]
      BY <2>1, <2>2
    <2> QED
      BY <2>3
  <1>2. ASSUME NEW l \in Nat, l \in T
        PROVE  l + 1 \in T
    <2>1. PICK f : f = [n \in 0 .. l |-> Round(s, p, f, n)]
      BY <1>2
    <2>2. PICK g : g = [n \in 0 .. l + 1 |-> IF n = l + 1 THEN Round(s, p, f, n) ELSE f[n]]
      OBVIOUS
    <2>3. ASSUME NEW n \in 0 .. l + 1
          PROVE  g[n] = Round(s, p, g, n)
      <3>1. CASE n = 0
        <4>1. n \in 0 .. l /\ n # l + 1
          BY <3>1
        <4> QED
          BY <2>1, <2>2, <3>1, <4>1 DEF Round
      <3>2. CASE n # 0
        <4>1. n - 1 \in 0 .. l + 1 /\ n - 1 # l + 1
          BY <3>2
        <4>2. g[n - 1] = f[n - 1]
          BY <2>2, <4>1
        <4>3. Round(s, p, g, n) = Round(s, p, f, n)
          BY <3>2, <4>2 DEF Round
        <4>4. n # l + 1 => f[n] = Round(s, p, f, n)
          BY <2>1
        <4> QED
          BY <2>2, <4>3, <4>4
      <3> QED
        BY <3>1, <3>2
    <2>4. g = [n \in 0 .. l + 1 |-> Round(s, p, g, n)]
      BY <2>2, <2>3
    <2> QED
      BY <2>4
  <1>3. Nat \subseteq T
    <2> HIDE DEF T
    <2> QED
      BY <1>1, <1>2, Induction
  <1> QED
    BY <1>3

LEMMA WithoutPeerRounds ==
    ASSUME NEW s, NEW p, Len(s) \in Nat
    PROVE  \E f : /\ WithoutPeer(s, p) = f[Len(s)]
                  /\ \A n \in 0 .. Len(s) : f[n] = Round(s, p, f, n)
  <1> DEFINE f[n \in 0 .. Len(s)] ==
            IF n = 0 THEN <<>>
            ELSE IF s[n][1] # p THEN Append(f[n - 1], s[n]) ELSE f[n - 1]
  <1>1. WithoutPeer(s, p) = f[Len(s)]
    BY Zenon DEF WithoutPeer
  <1>2. \E g : g = [n \in 0 .. Len(s) |->
                       IF n = 0 THEN <<>>
                       ELSE IF s[n][1] # p THEN Append(g[n - 1], s[n]) ELSE g[n - 1]]
    <2>1. \E g : g = [n \in 0 .. Len(s) |-> Round(s, p, g, n)]
      BY RoundsExist, Zenon
    <2> QED
      BY <2>1, Zenon DEF Round
  <1>3. f = [n \in 0 .. Len(s) |->
                IF n = 0 THEN <<>>
                ELSE IF s[n][1] # p THEN Append(f[n - 1], s[n]) ELSE f[n - 1]]
    BY <1>2, Zenon
  <1> HIDE DEF f
  <1>4. \A n \in 0 .. Len(s) : f[n] = Round(s, p, f, n)
    BY <1>3, Zenon DEF Round
  <1> QED
    BY <1>1, <1>4

\* The list has the connections to the other peers, each once.
LEMMA WithoutPeerIs ==
    ASSUME NEW s \in Distinct, NEW p
    PROVE  /\ WithoutPeer(s, p) \in Distinct
           /\ ToSet(WithoutPeer(s, p)) = {c \in ToSet(s) : c[1] # p}
  <1>1. Len(s) \in Nat /\ DOMAIN s = 1 .. Len(s)
    BY LenProperties DEF Distinct
  <1>2. PICK f : /\ WithoutPeer(s, p) = f[Len(s)]
                 /\ \A n \in 0 .. Len(s) : f[n] = Round(s, p, f, n)
    BY <1>1, WithoutPeerRounds
  <1> DEFINE Kept(n) == {c \in ToSet(s) : c[1] # p /\ \E i \in 1 .. n : c = s[i]}
             T == {n \in Nat : n <= Len(s) => f[n] \in Distinct /\ ToSet(f[n]) = Kept(n)}
  <1>3. 0 \in T
    <2>1. f[0] = <<>>
      BY <1>1, <1>2 DEF Round
    <2>2. Kept(0) = {}
      OBVIOUS
    <2> QED
      BY <2>1, <2>2, EmptyDistinct
  <1>4. ASSUME NEW n \in Nat, n \in T
        PROVE  n + 1 \in T
    <2> SUFFICES ASSUME n + 1 <= Len(s)
                 PROVE  f[n + 1] \in Distinct /\ ToSet(f[n + 1]) = Kept(n + 1)
      OBVIOUS
    <2>1. f[n] \in Distinct /\ ToSet(f[n]) = Kept(n)
      BY <1>1, <1>4
    <2>2. /\ n + 1 \in 0 .. Len(s) /\ n + 1 # 0 /\ (n + 1) - 1 = n
          /\ n + 1 \in 1 .. Len(s) /\ 1 .. (n + 1) = (1 .. n) \cup {n + 1}
      BY <1>1
    <2>3. f[n + 1] = IF s[n + 1][1] # p THEN Append(f[n], s[n + 1]) ELSE f[n]
      BY <1>2, <2>2 DEF Round
    <2>4. s[n + 1] \in Conn /\ s[n + 1] \in ToSet(s)
      BY <1>1, <2>2, ElementOfSeq DEF Distinct, ToSet
    <2>5. \A i \in 1 .. n : s[i] # s[n + 1]
      BY <1>1, <2>2 DEF Distinct, IsInjective
    <2>6. CASE s[n + 1][1] # p
      <3>1. s[n + 1] \notin ToSet(f[n])
        BY <2>1, <2>5
      <3>2. Kept(n + 1) = Kept(n) \cup {s[n + 1]}
        BY <2>2, <2>4, <2>6
      <3> QED
        BY <2>1, <2>3, <2>4, <2>6, <3>1, <3>2, AppendDistinct
    <2>7. CASE ~(s[n + 1][1] # p)
      <3>1. Kept(n + 1) = Kept(n)
        BY <2>2, <2>7
      <3> QED
        BY <2>1, <2>3, <2>7, <3>1
    <2> QED
      BY <2>6, <2>7
  <1>5. Len(s) \in T
    <2> HIDE DEF T
    <2> QED
      BY <1>1, <1>3, <1>4, Induction
  <1>6. f[Len(s)] \in Distinct /\ ToSet(f[Len(s)]) = Kept(Len(s))
    BY <1>1, <1>5
  <1>7. Kept(Len(s)) = {c \in ToSet(s) : c[1] # p}
    BY <1>1 DEF ToSet
  <1> QED
    BY <1>2, <1>6, <1>7

-----------------------------------------------------------------------------
(* Steps that leave the list and the table alone.                           *)

LEMMA ConnIs ==
    ASSUME NEW c \in Conn
    PROVE  c[1] \in Peer /\ c[2] \in Nat \ {0} /\ c[2] <= MaxConns[c[1]] /\ c = <<c[1], c[2]>>
  <1>1. PICK p \in Peer : c \in {p} \X (1 .. MaxConns[p])
    BY DEF Conn
  <1>2. MaxConns[p] \in Nat
    BY PeerSetAssumption DEF PeerSetAssumption
  <1> QED
    BY <1>1, <1>2

\* A call of Broadcast gets a step further.
LEMMA CallStep ==
    ASSUME IInv, NEW i \in Call, NEW state \in CallState, state.queued <= state.size, state.phase # "idle",
           calls' = [calls EXCEPT ![i] = state],
           waiting' \in 0 .. MaxCalls, crashed' \in BOOLEAN,
           UNCHANGED <<lookup, list, opening, adding>>
    PROVE  IInv'
  <1>1. calls' \in [Call -> CallState]
    BY DEF IInv, Shape
  <1>2. \A j \in Call :
            /\ calls'[j].queued <= calls'[j].size
            /\ calls'[j].phase = "idle" => calls'[j].queued = 0 /\ calls'[j].sending = {}
    BY DEF IInv, Shape
  <1> QED
    BY <1>1, <1>2 DEF IInv, Shape, TableListed

LEMMA CallIs ==
    ASSUME IInv, NEW i \in Call
    PROVE  /\ calls[i] \in CallState /\ calls[i].queued <= calls[i].size
           /\ calls[i].phase = "idle" => calls[i].queued = 0 /\ calls[i].sending = {}
           /\ i \in 0 .. MaxCalls /\ 0 \in 0 .. MaxCalls
           /\ waiting \in 0 .. MaxCalls /\ crashed \in BOOLEAN
           /\ Len(list) \in Nat /\ ToSet(list) \subseteq Conn
  <1>1. MaxCalls \in Nat /\ i \in 1 .. MaxCalls
    BY PeerSetAssumption DEF PeerSetAssumption, Call
  <1>2. list \in Seq(Conn)
    BY DEF IInv, Shape, Distinct
  <1>3. Len(list) \in Nat /\ ToSet(list) \subseteq Conn
    BY <1>2, LenProperties, ElementOfSeq DEF ToSet
  <1> QED
    BY <1>1, <1>3 DEF IInv, Shape

\* Each step of a call changes what the call has got to, and whether
\* receiveRoutine waits in it.
LEMMA GoroutinesStep ==
    ASSUME IInv, NEW i \in Call, Broadcast(i) \/ ReadTornList(i) \/ Goroutines(i)
    PROVE  IInv'
  <1>0. PICK s : s = calls[i]
    OBVIOUS
  <1>1. /\ s \in CallState /\ s.queued <= s.size
        /\ s.phase = "idle" => s.queued = 0 /\ s.sending = {}
        /\ i \in 0 .. MaxCalls /\ 0 \in 0 .. MaxCalls
        /\ waiting \in 0 .. MaxCalls /\ crashed \in BOOLEAN
        /\ Len(list) \in Nat /\ ToSet(list) \subseteq Conn
    BY <1>0, CallIs
  <1>2. calls \in [Call -> CallState]
    BY DEF IInv, Shape
  <1>3. CASE Broadcast(i)
    <2>1. i >= i
      BY PeerSetAssumption DEF PeerSetAssumption, Call
    <2>2. s.phase = "idle" /\ s.queued = 0
      BY <1>0, <1>1, <1>3, <2>1 DEF Broadcast
    <2>3. PICK t : t = [s EXCEPT !.phase = "made", !.size = Len(list),
                                 !.present = {p \in Peer : lookup[p] # 0}]
      OBVIOUS
    <2>4. t \in CallState /\ t.queued <= t.size /\ t.phase # "idle"
      <3>1. {p \in Peer : lookup[p] # 0} \in SUBSET Peer
        OBVIOUS
      <3>2. t \in CallState
        BY <1>1, <2>3, <3>1 DEF CallState
      <3>3. t.queued = s.queued /\ t.size = Len(list) /\ t.phase = "made"
        BY <1>1, <2>3 DEF CallState
      <3> QED
        BY <1>1, <2>2, <3>2, <3>3
    <2>5. calls' = [calls EXCEPT ![i] = t]
      BY <1>0, <1>2, <1>3, <2>3 DEF Broadcast, CallState
    <2> QED
      BY <1>1, <1>3, <2>4, <2>5, CallStep DEF Broadcast
  <1>4. CASE ReadTornList(i)
    BY <1>4 DEF ReadTornList, IInv, Shape, TableListed
  <1>5. CASE AddToGroup(i)
    <2>1. PICK t : t = [s EXCEPT !.phase = "counted", !.counter = Len(list)]
      OBVIOUS
    <2>2. t \in CallState /\ t.queued <= t.size /\ t.phase # "idle"
      <3>1. Len(list) \in Int
        BY <1>1
      <3>2. t \in CallState
        BY <1>1, <2>1, <3>1 DEF CallState
      <3>3. t.queued = s.queued /\ t.size = s.size /\ t.phase = "counted"
        BY <1>1, <2>1 DEF CallState
      <3> QED
        BY <1>1, <3>2, <3>3
    <2>3. calls' = [calls EXCEPT ![i] = t]
      BY <1>0, <1>2, <1>5, <2>1 DEF AddToGroup, CallState
    <2> QED
      BY <1>1, <1>5, <2>2, <2>3, CallStep DEF AddToGroup
  <1>6. CASE Spawn(i)
    <2>1. PICK t : t = [s EXCEPT !.phase = "spawned", !.sending = ToSet(list)]
      OBVIOUS
    <2>2. t \in CallState /\ t.queued <= t.size /\ t.phase # "idle"
      BY <1>1, <2>1 DEF CallState
    <2>3. calls' = [calls EXCEPT ![i] = t]
      BY <1>0, <1>2, <1>6, <2>1 DEF Spawn, CallState
    <2> QED
      BY <1>1, <1>6, <2>2, <2>3, CallStep DEF Spawn
  <1>7. CASE Close(i)
    <2>1. PICK t : t = [s EXCEPT !.phase = "closed"]
      OBVIOUS
    <2>2. t \in CallState /\ t.queued <= t.size /\ t.phase # "idle"
      BY <1>1, <2>1 DEF CallState
    <2>3. calls' = [calls EXCEPT ![i] = t]
      BY <1>0, <1>2, <1>7, <2>1 DEF Close, CallState
    <2> QED
      BY <1>1, <1>7, <2>2, <2>3, CallStep DEF Close
  <1>8. CASE Return(i)
    <2>1. PICK t : t = [s EXCEPT !.queued = IF @ > 0 THEN @ - 1 ELSE @]
      OBVIOUS
    <2>2. s.queued > 0 \/ s.phase = "closed"
      BY <1>0, <1>8 DEF Return
    <2>3. t \in CallState /\ t.queued <= t.size /\ t.phase # "idle"
      BY <1>1, <2>1, <2>2 DEF CallState
    <2>4. calls' = [calls EXCEPT ![i] = t]
      BY <1>0, <1>2, <1>8, <2>1 DEF Return, CallState
    <2> QED
      BY <1>1, <1>8, <2>3, <2>4, CallStep DEF Return
  <1>9. ASSUME NEW c \in Conn, Try(i, c)
        PROVE  IInv'
    <2>1. PICK t : t = [s EXCEPT !.tried = @ \cup {c}]
      OBVIOUS
    <2>2. s.phase # "idle"
      BY <1>0, <1>1, <1>9 DEF Try
    <2>3. t \in CallState /\ t.queued <= t.size /\ t.phase # "idle"
      BY <1>1, <2>1, <2>2 DEF CallState
    <2>4. calls' = [calls EXCEPT ![i] = t]
      BY <1>0, <1>2, <1>9, <2>1 DEF Try, CallState
    <2> QED
      BY <1>1, <1>9, <2>3, <2>4, CallStep DEF Try
  <1>10. ASSUME NEW c \in Conn, Report(i, c)
         PROVE  IInv'
    <2>1. PICK t : t = [s EXCEPT !.sending = @ \ {c},
                                 !.queued  = IF s.queued < s.size THEN @ + 1 ELSE @,
                                 !.counter = @ - 1]
      OBVIOUS
    <2>2. s.phase # "idle"
      BY <1>0, <1>1, <1>10 DEF Report
    <2>3. t \in CallState /\ t.queued <= t.size /\ t.phase # "idle"
      <3>1. PICK n : n = IF s.queued < s.size THEN s.queued + 1 ELSE s.queued
        OBVIOUS
      <3>2. /\ s.queued \in Nat /\ s.size \in Nat /\ s.counter \in Int
            /\ s.sending \ {c} \in SUBSET Conn
        BY <1>1 DEF CallState
      <3>3. n \in Nat /\ n <= s.size /\ s.counter - 1 \in Int
        BY <1>1, <3>1, <3>2
      <3>4. t = [s EXCEPT !.sending = s.sending \ {c}, !.queued = n, !.counter = s.counter - 1]
        BY <1>1, <2>1, <3>1 DEF CallState
      <3>5. t \in CallState
        BY <1>1, <3>2, <3>3, <3>4 DEF CallState
      <3>6. t.queued = n /\ t.size = s.size /\ t.phase = s.phase
        BY <1>1, <3>4 DEF CallState
      <3> QED
        BY <2>2, <3>3, <3>5, <3>6
    <2>4. calls' = [calls EXCEPT ![i] = t]
      BY <1>0, <1>2, <1>10, <2>1 DEF Report, CallState
    <2>5. waiting' \in 0 .. MaxCalls /\ crashed' \in BOOLEAN
      BY <1>1, <1>10 DEF Report
    <2> QED
      BY <1>10, <2>3, <2>4, <2>5, CallStep DEF Report
  <1> QED
    BY <1>3, <1>4, <1>5, <1>6, <1>7, <1>8, <1>9, <1>10 DEF Goroutines

-----------------------------------------------------------------------------
(* Steps that make a connection and add it.                                 *)

LEMMA OpenStep ==
    ASSUME IInv, NEW p \in Peer, Open(p)
    PROVE  IInv'
  <1>1. PICK k \in 1 .. MaxConns[p] : opening' = opening \cup {<<p, k>>}
    BY DEF Open
  <1>2. <<p, k>> \in Conn
    BY <1>1 DEF Conn
  <1>3. opening' \subseteq Conn /\ opening \subseteq opening'
    BY <1>1, <1>2 DEF IInv, Shape
  <1> QED
    BY <1>3 DEF Open, IInv, Shape, TableListed

\* The old connection of the peer, if it has one, leaves the list.
LEMMA StartAddStep ==
    ASSUME IInv, NEW c \in opening, StartAdd(c)
    PROVE  IInv'
  <1>1. c \in Conn /\ adding = {} /\ adding' = {c}
    BY DEF IInv, Shape, StartAdd, Free
  <1>2. ToSet(list) = {d \in Conn : lookup[d[1]] = d[2]}
    BY <1>1 DEF IInv, TableListed, Listed
  <1>3. Listed(lookup, {c}) = {d \in ToSet(list) : d[1] # c[1]}
    BY <1>2 DEF Listed
  <1>4. /\ list' \in Distinct /\ ToSet(list') = Listed(lookup, {c})
        /\ calls' \in [Call -> CallState]
        /\ \A i \in Call :
               /\ calls'[i].queued <= calls'[i].size
               /\ calls'[i].phase = "idle" => calls'[i].queued = 0 /\ calls'[i].sending = {}
    <2>1. CASE lookup[c[1]] = 0
      <3>1. list' = list /\ calls' = calls
        BY <2>1 DEF StartAdd
      <3>2. \A d \in Conn : lookup[d[1]] = d[2] => d[1] # c[1]
        BY <2>1, ConnIs
      <3>3. Listed(lookup, {c}) = ToSet(list)
        BY <1>2, <3>2 DEF Listed
      <3> QED
        BY <3>1, <3>3 DEF IInv, Shape
    <2>2. CASE lookup[c[1]] # 0
      <3>1. PICK s : s = WithoutPeer(list, c[1])
        OBVIOUS
      <3>2. list \in Distinct
        BY DEF IInv, Shape
      <3>3. s \in Distinct /\ ToSet(s) = {d \in ToSet(list) : d[1] # c[1]}
        BY <3>1, <3>2, WithoutPeerIs
      <3>4. list' = s
        BY <2>2, <3>1 DEF StartAdd
      <3>5. calls' = [i \in Call |->
                         [calls[i] EXCEPT !.replaced =
                              @ \/ calls[i].phase \in {"made", "counted"}]]
        BY <2>2 DEF StartAdd
      <3>6. \A i \in Call :
                /\ calls'[i] \in CallState
                /\ calls'[i].queued = calls[i].queued /\ calls'[i].size = calls[i].size
                /\ calls'[i].phase = calls[i].phase /\ calls'[i].sending = calls[i].sending
        BY <3>5, CallIs DEF CallState
      <3>7. calls' \in [Call -> CallState]
        BY <3>5, <3>6
      <3> QED
        BY <1>3, <3>3, <3>4, <3>6, <3>7, CallIs
    <2> QED
      BY <2>1, <2>2
  <1>5. TableListed'
    BY <1>1, <1>4 DEF TableListed, StartAdd
  <1>6. Shape'
    BY <1>1, <1>4 DEF IInv, Shape, StartAdd
  <1> QED
    BY <1>5, <1>6 DEF IInv

\* The new connection of the peer is in the list and in the table.
LEMMA EndAddStep ==
    ASSUME IInv, NEW c \in opening, EndAdd(c)
    PROVE  IInv'
  <1>1. c \in Conn /\ adding = {c} /\ adding' = {}
    BY DEF IInv, Shape, EndAdd
  <1>2. c[1] \in Peer /\ c[2] \in Nat \ {0} /\ c[2] <= MaxConns[c[1]]
    BY <1>1, ConnIs
  <1>3. ToSet(list) = {d \in Conn : lookup[d[1]] = d[2] /\ d[1] # c[1]}
    BY <1>1 DEF IInv, TableListed, Listed
  <1>4. PICK s : s = Append(list, c)
    OBVIOUS
  <1>5. s \in Distinct /\ ToSet(s) = ToSet(list) \cup {c}
    BY <1>1, <1>3, <1>4, AppendDistinct DEF IInv, Shape
  <1>6. list' = s
    BY <1>4 DEF EndAdd
  <1>7. /\ lookup' \in [Peer -> Nat]
        /\ \A p \in Peer : lookup'[p] = IF p = c[1] THEN c[2] ELSE lookup[p]
    BY <1>2 DEF EndAdd, IInv, Shape
  <1>8. \A d \in Conn : lookup'[d[1]] = d[2]
                            <=> d = c \/ (lookup[d[1]] = d[2] /\ d[1] # c[1])
    BY <1>1, <1>2, <1>7, ConnIs
  <1>9. TableListed'
    <2>1. ToSet(s) = {d \in Conn : lookup'[d[1]] = d[2]}
      BY <1>1, <1>3, <1>5, <1>8
    <2>2. Listed(lookup', {}) = {d \in Conn : lookup'[d[1]] = d[2]}
      BY DEF Listed
    <2> QED
      BY <1>1, <1>6, <2>1, <2>2 DEF TableListed
  <1>10. Shape'
    <2>1. \A p \in Peer : lookup'[p] <= MaxConns[p]
      BY <1>2, <1>7 DEF IInv, Shape
    <2>2. opening' \subseteq Conn
      BY DEF EndAdd, IInv, Shape
    <2> QED
      BY <1>1, <1>5, <1>6, <1>7, <2>1, <2>2 DEF EndAdd, IInv, Shape
  <1> QED
    BY <1>9, <1>10 DEF IInv

-----------------------------------------------------------------------------
LEMMA InitIInv == Init => IInv
  <1> SUFFICES ASSUME Init
               PROVE  IInv
    OBVIOUS
  <1>1. \A p \in Peer : 0 \in Nat /\ 0 <= MaxConns[p]
    BY PeerSetAssumption DEF PeerSetAssumption
  <1>2. MaxCalls \in Nat
    BY PeerSetAssumption DEF PeerSetAssumption
  <1>3. NotCalled \in CallState /\ NotCalled.queued = 0 /\ NotCalled.size = 0 /\ NotCalled.sending = {}
    BY DEF NotCalled, CallState
  <1>4. Listed(lookup, adding) = {}
    BY ConnIs DEF Init, Listed
  <1>5. TableListed
    BY <1>4, EmptyDistinct DEF Init, TableListed
  <1>6. calls \in [Call -> CallState] /\ \A i \in Call : calls[i] = NotCalled
    BY <1>3 DEF Init
  <1>7. Shape
    <2>1. lookup \in [Peer -> Nat] /\ \A p \in Peer : lookup[p] <= MaxConns[p]
      BY <1>1 DEF Init
    <2>2. list \in Distinct
      BY EmptyDistinct DEF Init
    <2>3. \A i \in Call :
              /\ calls[i].queued <= calls[i].size
              /\ calls[i].phase = "idle" => calls[i].queued = 0 /\ calls[i].sending = {}
      BY <1>3, <1>6
    <2>4. waiting \in 0 .. MaxCalls
      BY <1>2 DEF Init
    <2>5. /\ opening \subseteq Conn
          /\ adding \subseteq opening /\ \A c, d \in adding : c = d
          /\ crashed \in BOOLEAN
      BY Zenon DEF Init
    <2> QED
      BY <1>6, <2>1, <2>2, <2>3, <2>4, <2>5 DEF Shape
  <1> QED
    BY <1>5, <1>7 DEF IInv

LEMMA NextIInv == IInv /\ [Next]_vars => IInv'
  <1> SUFFICES ASSUME IInv, [Next]_vars
               PROVE  IInv'
    OBVIOUS
  <1>1. ASSUME NEW p \in Peer, Open(p)
        PROVE  IInv'
    BY <1>1, OpenStep
  <1>2. ASSUME NEW c \in opening, StartAdd(c)
        PROVE  IInv'
    BY <1>2, StartAddStep
  <1>3. ASSUME NEW c \in opening, EndAdd(c)
        PROVE  IInv'
    BY <1>3, EndAddStep
  <1>4. ASSUME NEW i \in Call, Broadcast(i) \/ ReadTornList(i) \/ Goroutines(i)
        PROVE  IInv'
    BY <1>4, GoroutinesStep
  <1>5. CASE UNCHANGED vars
    BY <1>5 DEF vars, IInv, Shape, TableListed
  <1> QED
    BY <1>1, <1>2, <1>3, <1>4, <1>5 DEF Next

\* PeerSet.Add, Find and Range (p2p/peer.go): in every reachable state the
\* table and the list agree, with a peer that Add is in the middle of in neither.
THEOREM PeerSetInductive == Spec => []IInv
  <1> QED
    BY InitIInv, NextIInv, PTL DEF Spec

\* The variables of the peer set keep their types, results in the channel of
\* a broadcast (p2p/switch.go) are within its capacity, and one goroutine at a
\* time is in the middle of PeerSet.Add.
THEOREM PeerSetTypeCorrect == Spec => []TypeOK
  <1>1. IInv => TypeOK
    <2> SUFFICES ASSUME IInv
                 PROVE  TypeOK
      OBVIOUS
    <2>1. \A p \in Peer : lookup[p] \in 0 .. MaxConns[p]
      BY PeerSetAssumption DEF PeerSetAssumption, IInv, Shape
    <2>2. Cardinality(adding) <= 1
      <3>1. CASE adding = {}
        BY <3>1, FS_EmptySet
      <3>2. ASSUME NEW c \in adding
            PROVE  Cardinality(adding) <= 1
        <4>1. adding = {c}
          BY <3>2 DEF IInv, Shape
        <4>2. Cardinality({c}) = 1
          BY FS_Singleton
        <4>3. Cardinality(adding) = 1
          BY <4>1, <4>2
        <4> QED
          BY <4>3
      <3> QED
        BY <3>1, <3>2
    <2>3. \A i \in Call :
              /\ calls[i].phase \in {"idle", "made", "counted", "spawned", "closed"}
              /\ calls[i].queued \in 0 .. calls[i].size
              /\ calls[i].sending \cup calls[i].tried \subseteq Conn
      BY CallIs DEF CallState
    <2> QED
      BY <2>1, <2>2, <2>3 DEF IInv, Shape, Distinct, TypeOK
  <1> QED
    BY <1>1, PeerSetInductive, PTL

\* While no PeerSet.Add (p2p/peer.go) is in the middle of its two stores,
\* Range goes through the connection of every peer Find knows, once, and no
\* other, whatever was added and replaced before.
THEOREM ListIsTheTable == Spec => []ListMatchesTable
  <1>1. IInv => ListMatchesTable
    <2> SUFFICES ASSUME IInv, Free
                 PROVE  /\ ToSet(list) = {c \in Conn : lookup[c[1]] = c[2]}
                        /\ Len(list) = Cardinality(ToSet(list))
      BY DEF ListMatchesTable
    <2>1. ToSet(list) = {c \in Conn : lookup[c[1]] = c[2]}
      BY DEF IInv, TableListed, Listed, Free
    <2>2. Len(list) = Cardinality(ToSet(list))
      BY DistinctLength DEF IInv, Shape
    <2> QED
      BY <2>1, <2>2
  <1> QED
    BY <1>1, PeerSetInductive, PTL
=============================================================================
