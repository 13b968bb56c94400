--------------------------- MODULE PipelineProofs ----------------------------
(***************************************************************************)
(* The queues between the handlers of one process and those of another,    *)
(* for any number of processes, messages, links that nobody reads or that  *)
(* break, and any capacities: they implement the network HotStuff assumes, *)
(* every message is in one place on each of its ways, and a process        *)
(* handles its own messages in order.                                      *)
(***************************************************************************)
EXTENDS Pipeline, SequenceTheorems, FiniteSetTheorems, TLAPS

-----------------------------------------------------------------------------
(* The inductive invariant.                                                 *)

Queue == {s \in Seq(Message) : IsInjective(s)}
Loops == {Select} \cup {At(step, m) : step \in {"queue", "own", "waiting"}, m \in Message}

\* What the variables are; no queue has a message twice.
Shape ==
    /\ senderQueue \in [Process -> Queue]
    /\ peerMsgQueue \in [Process -> Queue]
    /\ loop \in [Process -> Loops]
    /\ sending \in [Link -> SUBSET Message]
    /\ sendQueue \in [Link -> Queue]
    /\ stream \in [Link -> Queue]
    /\ broken \subseteq Fragile
    /\ arriving \in [Process -> SUBSET Message]
    /\ sent \subseteq Message /\ IsFiniteSet(sent)
    /\ handled \in [Process -> [Message -> 0 .. 1]]
    /\ lost \subseteq sent \X Link

Capacities ==
    /\ \A p \in Process : /\ Len(senderQueue[p]) <= MsgQueueSize
                          /\ Len(peerMsgQueue[p]) <= MsgQueueSize
    /\ \A l \in Link : /\ Len(sendQueue[l]) <= SendQueueSize
                       /\ Len(stream[l]) <= StreamSize
                       /\ l \in broken => stream[l] = <<>>

\* A process queues its own messages, and nothing gets anywhere but on its way
\* from its sender to an addressee.
Addressed ==
    /\ \A p \in Process :
           /\ \A m \in ToSet(senderQueue[p]) : m \in sent /\ From(m) = p
           /\ loop[p].step # "select" => From(loop[p].msg) = p
           /\ loop[p].step \in {"own", "waiting"} => loop[p].msg \in sent
           /\ \A m \in ToSet(peerMsgQueue[p]) : m \in sent /\ p \in Dest(m)
           /\ \A m \in arriving[p] : m \in sent /\ <<From(m), p>> \in Links(m)
           /\ \A m \in Message : handled[p][m] > 0 => m \in sent /\ p \in Dest(m)
    /\ \A l \in Link :
           \A m \in sending[l] \cup ToSet(sendQueue[l]) \cup ToSet(stream[l]) :
               m \in sent /\ l \in Links(m)

\* Messages are numbered in the order in which they are queued.
Of(p, S) == {n \in S : From(n) = p}
Count(p) == Cardinality(Of(p, sent))

Numbered ==
    /\ \A m \in sent : m[2] <= Count(From(m))
    /\ \A m, n \in sent : From(m) = From(n) /\ m[2] = n[2] => m = n
    /\ \A p \in Process : loop[p].step = "queue" => loop[p].msg[2] = Count(p) + 1

\* Before the call of Broadcast or Send a message is on no link, and from then
\* on in one place on each.
Pending(m) == m \in ToSet(senderQueue[From(m)]) \/ loop[From(m)] = At("own", m)

ExactlyOne(a, b, c, d, e, f, g) ==
    /\ a \/ b \/ c \/ d \/ e \/ f \/ g
    /\ a => ~(b \/ c \/ d \/ e \/ f \/ g)
    /\ b => ~(c \/ d \/ e \/ f \/ g)
    /\ c => ~(d \/ e \/ f \/ g)
    /\ d => ~(e \/ f \/ g)
    /\ e => ~(f \/ g)
    /\ f => ~g

Underway(l, m) ==
    \/ m \in sending[l] \/ m \in ToSet(sendQueue[l]) \/ m \in ToSet(stream[l])
    \/ <<m, l>> \in lost \/ m \in arriving[l[2]]
    \/ m \in ToSet(peerMsgQueue[l[2]]) \/ handled[l[2]][m] > 0

OnePlace(l, m) ==
    ExactlyOne(m \in sending[l], m \in ToSet(sendQueue[l]), m \in ToSet(stream[l]),
               <<m, l>> \in lost, m \in arriving[l[2]], m \in ToSet(peerMsgQueue[l[2]]),
               handled[l[2]][m] > 0)

OnLinks ==
    \A m \in sent : \A l \in Links(m) :
        IF Pending(m) THEN ~Underway(l, m) ELSE OnePlace(l, m)

\* A process's own copy of a message is in senderQueue, with the loop, in
\* peerMsgQueue, or handled.
OwnPlace ==
    \A m \in sent :
        LET p == From(m)
        IN  ExactlyOne(m \in ToSet(senderQueue[p]), loop[p] = At("own", m),
                       m \in ToSet(peerMsgQueue[p]), handled[p][m] > 0, FALSE, FALSE, FALSE)

\* The own messages in a queue are in the order of their numbers, and of two
\* messages the earlier is as far on its way as the later.
InOrder(p, s) ==
    \A i, j \in DOMAIN s :
        From(s[i]) = p /\ From(s[j]) = p /\ s[i][2] < s[j][2] => i < j

OwnOrder ==
    /\ \A p \in Process : InOrder(p, senderQueue[p]) /\ InOrder(p, peerMsgQueue[p])
    /\ \A m, n \in sent :
           LET p == From(m)
           IN  From(n) = p /\ n[2] < m[2] =>
                   /\ loop[p] = At("own", m) => n \notin ToSet(senderQueue[p])
                   /\ m \in ToSet(peerMsgQueue[p]) =>
                          n \notin ToSet(senderQueue[p]) /\ loop[p] # At("own", n)
                   /\ handled[p][m] > 0 => handled[p][n] > 0

IInv ==
    Shape /\ Capacities /\ Addressed /\ Numbered /\ OnLinks /\ OwnPlace /\ OwnOrder

-----------------------------------------------------------------------------
(* Queues.                                                                  *)

LEMMA AppendQueue ==
    ASSUME NEW s \in Queue, NEW e \in Message, e \notin ToSet(s)
    PROVE  /\ Append(s, e) \in Queue
           /\ Len(s) \in Nat /\ Len(Append(s, e)) = Len(s) + 1
           /\ ToSet(Append(s, e)) = ToSet(s) \cup {e}
  <1> DEFINE t == Append(s, e)
  <1>1. /\ t \in Seq(Message) /\ Len(t) = Len(s) + 1
        /\ \A i \in 1 .. Len(s) : t[i] = s[i]
        /\ t[Len(s) + 1] = e
    BY AppendProperties DEF Queue
  <1>2. /\ Len(s) \in Nat
        /\ DOMAIN s = 1 .. Len(s) /\ DOMAIN t = 1 .. (Len(s) + 1)
    BY <1>1, LenProperties DEF Queue
  <1>3. 1 .. (Len(s) + 1) = (1 .. Len(s)) \cup {Len(s) + 1}
    BY <1>2
  <1> HIDE DEF t
  <1>4. ToSet(t) = ToSet(s) \cup {e}
    BY <1>1, <1>2, <1>3 DEF ToSet
  <1>5. \A i, j \in DOMAIN s : s[i] = s[j] => i = j
    BY DEF Queue, IsInjective
  <1>6. \A i \in DOMAIN s : s[i] # e
    BY DEF ToSet
  <1>7. \A i, j \in DOMAIN t : t[i] = t[j] => i = j
    BY <1>1, <1>2, <1>3, <1>5, <1>6
  <1>8. t \in Queue
    BY <1>1, <1>7 DEF Queue, IsInjective
  <1> QED
    BY <1>1, <1>2, <1>4, <1>8 DEF t

LEMMA TailQueue ==
    ASSUME NEW s \in Queue, s # <<>>
    PROVE  /\ Tail(s) \in Queue
           /\ Len(s) \in Nat /\ Len(Tail(s)) = Len(s) - 1
           /\ Head(s) \in ToSet(s) /\ Head(s) \in Message
           /\ ToSet(Tail(s)) = ToSet(s) \ {Head(s)}
  <1> DEFINE t == Tail(s)
  <1>1. /\ Head(s) \in Message /\ t \in Seq(Message) /\ Len(t) = Len(s) - 1
        /\ \A i \in 1 .. Len(t) : t[i] = s[i + 1]
    BY HeadTailProperties DEF Queue
  <1>2. /\ Len(s) \in Nat \ {0}
        /\ DOMAIN s = 1 .. Len(s) /\ DOMAIN t = 1 .. (Len(s) - 1)
    BY <1>1, LenProperties, EmptySeq DEF Queue
  <1>3. Head(s) = s[1]
    OBVIOUS
  <1>4. \A i, j \in DOMAIN s : s[i] = s[j] => i = j
    BY DEF Queue, IsInjective
  <1> HIDE DEF t
  <1>5. \A i \in 1 .. (Len(s) - 1) : i + 1 \in 1 .. Len(s) /\ i + 1 # 1 /\ t[i] = s[i + 1]
    BY <1>1, <1>2
  <1>6. \A i, j \in DOMAIN t : t[i] = t[j] => i = j
    BY <1>2, <1>4, <1>5
  <1>7. t \in Queue
    BY <1>1, <1>6 DEF Queue, IsInjective
  <1>8. 1 \in 1 .. Len(s)
    BY <1>2
  <1>9. Head(s) \in ToSet(s)
    BY <1>2, <1>3, <1>8 DEF ToSet
  <1>10. ToSet(t) \subseteq ToSet(s) \ {Head(s)}
    BY <1>2, <1>3, <1>4, <1>5, <1>8 DEF ToSet
  <1>11. ToSet(s) \ {Head(s)} \subseteq ToSet(t)
    <2> SUFFICES ASSUME NEW i \in 1 .. Len(s), s[i] # s[1]
                 PROVE  s[i] \in ToSet(t)
      BY <1>2, <1>3 DEF ToSet
    <2>1. i # 1 /\ i - 1 \in 1 .. (Len(s) - 1)
      BY <1>2
    <2>2. t[i - 1] = s[i]
      BY <1>5, <2>1
    <2> QED
      BY <1>2, <2>1, <2>2 DEF ToSet
  <1> QED
    BY <1>1, <1>2, <1>7, <1>9, <1>10, <1>11 DEF t

LEMMA EmptyQueue ==
    <<>> \in Queue /\ Len(<<>>) = 0 /\ ToSet(<<>>) = {}
  <1>1. <<>> \in Seq(Message) /\ Len(<<>>) = 0 /\ DOMAIN <<>> = {}
    BY EmptySeq, LenProperties
  <1> QED
    BY <1>1 DEF Queue, IsInjective, ToSet

\* The order of the own messages when one is queued with none after it, ...
LEMMA AppendInOrder ==
    ASSUME NEW p, NEW s \in Queue, NEW e \in Message, InOrder(p, s),
           From(e) = p => \A n \in ToSet(s) : From(n) = p => ~(e[2] < n[2])
    PROVE  InOrder(p, Append(s, e))
  <1> DEFINE t == Append(s, e)
  <1>1. /\ t \in Seq(Message) /\ Len(t) = Len(s) + 1
        /\ \A i \in 1 .. Len(s) : t[i] = s[i]
        /\ t[Len(s) + 1] = e
    BY AppendProperties DEF Queue
  <1>2. /\ Len(s) \in Nat
        /\ DOMAIN s = 1 .. Len(s) /\ DOMAIN t = 1 .. (Len(s) + 1)
    BY <1>1, LenProperties DEF Queue
  <1> HIDE DEF t
  <1> SUFFICES ASSUME NEW i \in 1 .. (Len(s) + 1), NEW j \in 1 .. (Len(s) + 1),
                      From(t[i]) = p, From(t[j]) = p, t[i][2] < t[j][2], ~(i < j)
               PROVE  FALSE
    BY <1>2 DEF InOrder, t
  <1>3. e[2] \in Nat
    BY PipelineAssumption DEF PipelineAssumption
  <1>4. CASE i \in 1 .. Len(s) /\ j \in 1 .. Len(s)
    BY <1>1, <1>2, <1>4 DEF InOrder
  <1>5. CASE i = Len(s) + 1 /\ j \in 1 .. Len(s)
    <2>1. t[i] = e /\ t[j] = s[j] /\ s[j] \in ToSet(s)
      BY <1>1, <1>2, <1>5 DEF ToSet
    <2> QED
      BY <2>1
  <1>6. CASE i = Len(s) + 1 /\ j = Len(s) + 1
    BY <1>1, <1>3, <1>6
  <1>7. CASE i \in 1 .. Len(s) /\ j = Len(s) + 1
    BY <1>2, <1>7
  <1> QED
    BY <1>2, <1>4, <1>5, <1>6, <1>7

\* ... and when the first is taken, which is the first in number, too.
LEMMA TailInOrder ==
    ASSUME NEW p, NEW s \in Queue, s # <<>>, InOrder(p, s)
    PROVE  /\ InOrder(p, Tail(s))
           /\ From(Head(s)) = p =>
                  \A n \in ToSet(s) : From(n) = p => ~(n[2] < Head(s)[2])
  <1> DEFINE t == Tail(s)
  <1>1. /\ t \in Seq(Message) /\ Len(t) = Len(s) - 1
        /\ \A i \in 1 .. Len(t) : t[i] = s[i + 1]
    BY HeadTailProperties DEF Queue
  <1>2. /\ Len(s) \in Nat \ {0}
        /\ DOMAIN s = 1 .. Len(s) /\ DOMAIN t = 1 .. (Len(s) - 1)
    BY <1>1, LenProperties, EmptySeq DEF Queue
  <1>3. Head(s) = s[1] /\ 1 \in 1 .. Len(s)
    BY <1>2
  <1> HIDE DEF t
  <1>4. \A i, j \in 1 .. Len(s) :
            From(s[i]) = p /\ From(s[j]) = p /\ s[i][2] < s[j][2] => i < j
    BY <1>2 DEF InOrder
  <1>5. InOrder(p, t)
    <2> SUFFICES ASSUME NEW i \in 1 .. (Len(s) - 1), NEW j \in 1 .. (Len(s) - 1),
                        From(t[i]) = p, From(t[j]) = p, t[i][2] < t[j][2]
                 PROVE  i < j
      BY <1>2 DEF InOrder
    <2>1. /\ i + 1 \in 1 .. Len(s) /\ j + 1 \in 1 .. Len(s)
          /\ t[i] = s[i + 1] /\ t[j] = s[j + 1]
      BY <1>1, <1>2
    <2>2. i + 1 < j + 1
      BY <1>4, <2>1
    <2> QED
      BY <1>2, <2>2
  <1>6. ASSUME From(s[1]) = p, NEW n \in ToSet(s), From(n) = p, n[2] < s[1][2]
        PROVE  FALSE
    <2>1. PICK i \in 1 .. Len(s) : n = s[i]
      BY <1>2 DEF ToSet
    <2>2. i < 1
      BY <1>3, <1>4, <1>6, <2>1
    <2> QED
      BY <1>2, <2>2
  <1> QED
    BY <1>3, <1>5, <1>6 DEF t

-----------------------------------------------------------------------------
(* Messages, the links they are sent on, and what a loop is at.             *)

LEMMA MessageIs ==
    ASSUME NEW m \in Message
    PROVE  /\ From(m) \in Process /\ m[2] \in Nat \ {0} /\ m[3] \subseteq Process
           /\ From(m) \in Dest(m)
           /\ \A l \in Links(m) : /\ l \in Link /\ l[1] = From(m) /\ l[2] # From(m)
                                  /\ l[2] \in Process /\ l[2] \in Dest(m)
                                  /\ l = <<From(m), l[2]>>
           /\ \A k, l \in Links(m) : k[2] = l[2] => k = l
  <1>1. m \in Process \X (Nat \ {0}) \X SUBSET Process
    BY PipelineAssumption DEF PipelineAssumption
  <1>2. From(m) \in Process /\ m[2] \in Nat \ {0} /\ m[3] \subseteq Process
    BY <1>1 DEF From
  <1>3. ASSUME NEW l \in Links(m)
        PROVE  /\ l \in Link /\ l[1] = From(m) /\ l[2] # From(m)
               /\ l[2] \in Process /\ l[2] \in Dest(m)
               /\ l = <<From(m), l[2]>>
    <2>1. PICK q \in m[3] \ {From(m)} : l = <<From(m), q>>
      BY DEF Links
    <2> QED
      BY <1>2, <2>1 DEF Link, Dest
  <1> QED
    BY <1>2, <1>3 DEF Dest

LEMMA LoopIs ==
    /\ Select \in Loops /\ Select.step = "select"
    /\ \A m : Select # At("own", m)
    /\ \A m \in Message :
           /\ \A step \in {"queue", "own", "waiting"} :
                  At(step, m) \in Loops /\ At(step, m).step = step /\ At(step, m).msg = m
    /\ \A x \in Loops :
           /\ x.step \in {"select", "queue", "own", "waiting"}
           /\ x.step # "select" => x.msg \in Message
           /\ x.step = "select" => x = Select
           /\ \A m \in Message : x = At("own", m) <=> x.step = "own" /\ x.msg = m
  <1>1. \A step, m : At(step, m).step = step /\ At(step, m).msg = m
    BY DEF At
  <1>2. Select.step = "select"
    BY <1>1 DEF Select
  <1>3. \A x \in Loops : x = Select \/ \E step \in {"queue", "own", "waiting"}, m \in Message : x = At(step, m)
    BY DEF Loops
  <1>4. \A m : Select # At("own", m)
    BY <1>1, <1>2
  <1>5. ASSUME NEW x \in Loops
        PROVE  /\ x.step \in {"select", "queue", "own", "waiting"}
               /\ x.step # "select" => x.msg \in Message
               /\ x.step = "select" => x = Select
               /\ \A m \in Message : x = At("own", m) <=> x.step = "own" /\ x.msg = m
    <2>1. CASE x = Select
      BY <1>2, <1>4, <2>1
    <2>2. CASE \E step \in {"queue", "own", "waiting"}, m \in Message : x = At(step, m)
      BY <1>1, <2>2
    <2> QED
      BY <1>3, <2>1, <2>2
  <1> QED
    BY <1>1, <1>2, <1>4, <1>5 DEF Loops

\* One more message of a process is counted for it, and for no other.
LEMMA CountOneMore ==
    ASSUME NEW S, IsFiniteSet(S), NEW m, m \notin S, NEW p
    PROVE  /\ Cardinality(Of(p, S)) \in Nat
           /\ Cardinality(Of(p, S \cup {m})) =
                  IF From(m) = p THEN Cardinality(Of(p, S)) + 1 ELSE Cardinality(Of(p, S))
  <1>1. IsFiniteSet(Of(p, S)) /\ m \notin Of(p, S)
    BY FS_Subset DEF Of
  <1>2. Cardinality(Of(p, S)) \in Nat
    BY <1>1, FS_CardinalityType
  <1>3. CASE From(m) = p
    <2>1. Of(p, S \cup {m}) = Of(p, S) \cup {m}
      BY <1>3 DEF Of
    <2>2. Cardinality(Of(p, S) \cup {m}) = Cardinality(Of(p, S)) + 1
      BY <1>1, FS_AddElement
    <2> QED
      BY <1>2, <1>3, <2>1, <2>2
  <1>4. CASE From(m) # p
    <2>1. Of(p, S \cup {m}) = Of(p, S)
      BY <1>4 DEF Of
    <2> QED
      BY <1>2, <1>4, <2>1
  <1> QED
    BY <1>3, <1>4

\* Seven places, and how many of them something is in.
Holding(s) == {i \in DOMAIN s : s[i]}

LEMMA CountPlaces ==
    ASSUME NEW s, DOMAIN s = 1 .. 7
    PROVE  /\ ExactlyOne(s[1], s[2], s[3], s[4], s[5], s[6], s[7]) => Cardinality(Holding(s)) = 1
           /\ ~(s[1] \/ s[2] \/ s[3] \/ s[4] \/ s[5] \/ s[6] \/ s[7]) => Cardinality(Holding(s)) = 0
  <1> DEFINE S == Holding(s)
  <1>1. \A i : i \in S <=> \/ i = 1 /\ s[1]
                           \/ i = 2 /\ s[2]
                           \/ i = 3 /\ s[3]
                           \/ i = 4 /\ s[4]
                           \/ i = 5 /\ s[5]
                           \/ i = 6 /\ s[6]
                           \/ i = 7 /\ s[7]
    <2>1. 1 .. 7 = {1, 2, 3, 4, 5, 6, 7}
      OBVIOUS
    <2> QED
      BY <2>1 DEF Holding
  <1> HIDE DEF S
  <1>2. ASSUME ExactlyOne(s[1], s[2], s[3], s[4], s[5], s[6], s[7])
        PROVE  \E i : S = {i}
    <2>1. CASE s[1]
      <3>1. S = {1}
        BY <1>1, <1>2, <2>1 DEF ExactlyOne
      <3> QED
        BY <3>1
    <2>2. CASE s[2]
      <3>1. S = {2}
        BY <1>1, <1>2, <2>2 DEF ExactlyOne
      <3> QED
        BY <3>1
    <2>3. CASE s[3]
      <3>1. S = {3}
        BY <1>1, <1>2, <2>3 DEF ExactlyOne
      <3> QED
        BY <3>1
    <2>4. CASE s[4]
      <3>1. S = {4}
        BY <1>1, <1>2, <2>4 DEF ExactlyOne
      <3> QED
        BY <3>1
    <2>5. CASE s[5]
      <3>1. S = {5}
        BY <1>1, <1>2, <2>5 DEF ExactlyOne
      <3> QED
        BY <3>1
    <2>6. CASE s[6]
      <3>1. S = {6}
        BY <1>1, <1>2, <2>6 DEF ExactlyOne
      <3> QED
        BY <3>1
    <2>7. CASE s[7]
      <3>1. S = {7}
        BY <1>1, <1>2, <2>7 DEF ExactlyOne
      <3> QED
        BY <3>1
    <2> QED
      BY <1>2, <2>1, <2>2, <2>3, <2>4, <2>5, <2>6, <2>7 DEF ExactlyOne
  <1>3. (\E i : S = {i}) => Cardinality(S) = 1
    BY FS_Singleton
  <1>4. ~(s[1] \/ s[2] \/ s[3] \/ s[4] \/ s[5] \/ s[6] \/ s[7]) => S = {}
    BY <1>1
  <1>5. S = {} => Cardinality(S) = 0
    BY FS_EmptySet
  <1> QED
    BY <1>2, <1>3, <1>4, <1>5 DEF S

-----------------------------------------------------------------------------
(* What a step leaves alone.                                                *)

\* A message stays where it is on a link.
Stays(l, m) ==
    /\ m \in sending'[l] <=> m \in sending[l]
    /\ m \in ToSet(sendQueue'[l]) <=> m \in ToSet(sendQueue[l])
    /\ m \in ToSet(stream'[l]) <=> m \in ToSet(stream[l])
    /\ <<m, l>> \in lost' <=> <<m, l>> \in lost
    /\ m \in arriving'[l[2]] <=> m \in arriving[l[2]]
    /\ m \in ToSet(peerMsgQueue'[l[2]]) <=> m \in ToSet(peerMsgQueue[l[2]])
    /\ handled'[l[2]][m] > 0 <=> handled[l[2]][m] > 0

LEMMA LinksKept ==
    ASSUME OnLinks, sent' = sent,
           \A m \in sent : \A l \in Links(m) :
               \/ Stays(l, m) /\ (Pending(m)' <=> Pending(m))
               \/ ~Pending(m)' /\ OnePlace(l, m)'
    PROVE  OnLinks'
  <1> SUFFICES ASSUME NEW m \in sent, NEW l \in Links(m)
               PROVE  IF Pending(m)' THEN ~Underway(l, m)' ELSE OnePlace(l, m)'
    BY DEF OnLinks
  <1>1. CASE Stays(l, m) /\ (Pending(m)' <=> Pending(m))
    <2>1. IF Pending(m) THEN ~Underway(l, m) ELSE OnePlace(l, m)
      BY DEF OnLinks
    <2>2. (Underway(l, m)' <=> Underway(l, m)) /\ (OnePlace(l, m)' <=> OnePlace(l, m))
      BY <1>1 DEF Stays, Underway, OnePlace, ExactlyOne
    <2> QED
      BY <1>1, <2>1, <2>2
  <1>2. CASE ~Pending(m)' /\ OnePlace(l, m)'
    BY <1>2
  <1> QED
    BY <1>1, <1>2

\* A step that takes no message from the process's own queues or to them.
LEMMA OwnUntouched ==
    ASSUME IInv, UNCHANGED <<senderQueue, peerMsgQueue, sent, handled>>,
           loop' \in [Process -> Loops],
           \A p \in Process :
               /\ loop'[p].step = "queue" => loop'[p].msg[2] = Count(p) + 1
               /\ \A m \in Message : loop'[p] = At("own", m) <=> loop[p] = At("own", m)
    PROVE  /\ Numbered' /\ OwnPlace' /\ OwnOrder'
           /\ \A m \in sent : Pending(m)' <=> Pending(m)
  <1> USE DEF IInv
  <1>1. sent \subseteq Message
    BY DEF Shape
  <1>2. \A m \in sent : From(m) \in Process
    BY <1>1, MessageIs
  <1>3. \A p : Count(p)' = Count(p)
    BY DEF Count
  <1>4. \A m \in sent : loop'[From(m)] = At("own", m) <=> loop[From(m)] = At("own", m)
    BY <1>1, <1>2
  <1>5. Numbered'
    BY <1>3 DEF Numbered
  <1>6. OwnPlace'
    BY <1>4 DEF OwnPlace
  <1>7. OwnOrder'
    <2>1. \A p \in Process : InOrder(p, senderQueue'[p]) /\ InOrder(p, peerMsgQueue'[p])
      BY DEF OwnOrder
    <2>2. ASSUME NEW m \in sent, NEW n \in sent, From(n) = From(m), n[2] < m[2]
          PROVE  LET p == From(m)
                 IN  /\ loop'[p] = At("own", m) => n \notin ToSet(senderQueue'[p])
                     /\ m \in ToSet(peerMsgQueue'[p]) =>
                            n \notin ToSet(senderQueue'[p]) /\ loop'[p] # At("own", n)
                     /\ handled'[p][m] > 0 => handled'[p][n] > 0
      BY <1>4, <2>2 DEF OwnOrder
    <2> QED
      BY <2>1, <2>2 DEF OwnOrder
  <1>8. \A m \in sent : Pending(m)' <=> Pending(m)
    BY <1>4 DEF Pending
  <1> QED
    BY <1>5, <1>6, <1>7, <1>8

\* The same when the loops stay where they are, too.
LEMMA LoopsUntouched ==
    ASSUME IInv, UNCHANGED <<senderQueue, peerMsgQueue, loop, sent, handled>>
    PROVE  /\ Numbered' /\ OwnPlace' /\ OwnOrder'
           /\ \A m \in sent : Pending(m)' <=> Pending(m)
  <1>1. loop' \in [Process -> Loops]
    BY DEF IInv, Shape
  <1>2. \A p \in Process :
            /\ loop'[p].step = "queue" => loop'[p].msg[2] = Count(p) + 1
            /\ \A m \in Message : loop'[p] = At("own", m) <=> loop[p] = At("own", m)
    BY DEF IInv, Numbered
  <1> QED
    BY <1>1, <1>2, OwnUntouched

\* What is on a link is a message on its way there, and not before its call of
\* Broadcast or Send.
LEMMA OnItsWay ==
    ASSUME IInv, NEW l \in Link,
           NEW m \in sending[l] \cup ToSet(sendQueue[l]) \cup ToSet(stream[l])
    PROVE  m \in sent /\ m \in Message /\ l \in Links(m) /\ ~Pending(m) /\ OnePlace(l, m)
  <1>1. m \in sent /\ l \in Links(m)
    BY DEF IInv, Addressed
  <1>2. Underway(l, m)
    BY DEF Underway
  <1> QED
    BY <1>1, <1>2 DEF IInv, OnLinks, Shape

-----------------------------------------------------------------------------
(* The connections.                                                         *)

\* sendBytes: from the goroutine to the send queue.
LEMMA EnqueueStep ==
    ASSUME IInv, NEW k \in Link, NEW x \in sending[k], Enqueue(k, x)
    PROVE  IInv' /\ UNCHANGED <<sent, handled>>
  <1> USE DEF IInv
  <1>1. x \in sent /\ x \in Message /\ k \in Links(x) /\ ~Pending(x) /\ OnePlace(k, x)
    BY OnItsWay
  <1>2. /\ Len(sendQueue[k]) < SendQueueSize
        /\ sending' = [sending EXCEPT ![k] = @ \ {x}]
        /\ sendQueue' = [sendQueue EXCEPT ![k] = Append(@, x)]
        /\ UNCHANGED <<senderQueue, peerMsgQueue, loop, stream, broken, arriving, sent,
                       handled, lost>>
    BY DEF Enqueue
  <1>3. sendQueue[k] \in Queue /\ x \notin ToSet(sendQueue[k])
    BY <1>1 DEF Shape, OnePlace, ExactlyOne
  <1>4. /\ Append(sendQueue[k], x) \in Queue
        /\ Len(sendQueue[k]) \in Nat
        /\ Len(Append(sendQueue[k], x)) = Len(sendQueue[k]) + 1
        /\ ToSet(Append(sendQueue[k], x)) = ToSet(sendQueue[k]) \cup {x}
    BY <1>1, <1>3, AppendQueue
  <1>5. /\ sending'[k] = sending[k] \ {x} /\ sendQueue'[k] = Append(sendQueue[k], x)
        /\ \A l \in Link : l # k => sending'[l] = sending[l] /\ sendQueue'[l] = sendQueue[l]
    BY <1>2 DEF Shape
  <1>6. Shape'
    BY <1>2, <1>4 DEF Shape
  <1>7. Capacities'
    <2>1. Len(sendQueue'[k]) <= SendQueueSize
      BY <1>2, <1>4, <1>5, PipelineAssumption DEF PipelineAssumption
    <2> QED
      BY <1>2, <1>5, <2>1 DEF Capacities
  <1>8. Addressed'
    <2>1. \A l \in Link : \A m \in sending'[l] \cup ToSet(sendQueue'[l]) \cup ToSet(stream'[l]) :
              m \in sent /\ l \in Links(m)
      BY <1>1, <1>2, <1>4, <1>5 DEF Addressed
    <2> QED
      BY <1>2, <2>1 DEF Addressed
  <1>9. /\ Numbered' /\ OwnPlace' /\ OwnOrder'
        /\ \A m \in sent : Pending(m)' <=> Pending(m)
    BY <1>2, LoopsUntouched
  <1>10. OnLinks'
    <2>1. OnePlace(k, x)'
      BY <1>1, <1>2, <1>4, <1>5 DEF OnePlace, ExactlyOne
    <2>2. \A m \in sent : \A l \in Links(m) : (l = k /\ m = x) \/ Stays(l, m)
      BY <1>2, <1>4, <1>5, MessageIs DEF Stays, Shape
    <2> QED
      BY <1>1, <1>2, <1>9, <2>1, <2>2, LinksKept
  <1> QED
    BY <1>2, <1>6, <1>7, <1>8, <1>9, <1>10

LEMMA GiveUpStep ==
    ASSUME IInv, NEW k \in Link, NEW x \in sending[k], GiveUp(k, x)
    PROVE  IInv' /\ UNCHANGED <<sent, handled>>
  <1> USE DEF IInv
  <1>1. x \in sent /\ x \in Message /\ k \in Links(x) /\ ~Pending(x) /\ OnePlace(k, x)
    BY OnItsWay
  <1>2. /\ sending' = [sending EXCEPT ![k] = @ \ {x}]
        /\ lost' = lost \cup {<<x, k>>}
        /\ UNCHANGED <<senderQueue, peerMsgQueue, loop, sendQueue, stream, broken, arriving,
                       sent, handled>>
    BY DEF GiveUp
  <1>3. /\ sending'[k] = sending[k] \ {x}
        /\ \A l \in Link : l # k => sending'[l] = sending[l]
    BY <1>2 DEF Shape
  <1>4. Shape'
    BY <1>1, <1>2 DEF Shape
  <1>5. Capacities'
    BY <1>2 DEF Capacities
  <1>6. Addressed'
    <2>1. \A l \in Link : \A m \in sending'[l] \cup ToSet(sendQueue'[l]) \cup ToSet(stream'[l]) :
              m \in sent /\ l \in Links(m)
      BY <1>2, <1>3 DEF Addressed
    <2> QED
      BY <1>2, <2>1 DEF Addressed
  <1>7. /\ Numbered' /\ OwnPlace' /\ OwnOrder'
        /\ \A m \in sent : Pending(m)' <=> Pending(m)
    BY <1>2, LoopsUntouched
  <1>8. OnLinks'
    <2>1. OnePlace(k, x)'
      BY <1>1, <1>2, <1>3 DEF OnePlace, ExactlyOne
    <2>2. \A m \in sent : \A l \in Links(m) : (l = k /\ m = x) \/ Stays(l, m)
      BY <1>2, <1>3, MessageIs DEF Stays, Shape
    <2> QED
      BY <1>1, <1>2, <1>7, <2>1, <2>2, LinksKept
  <1> QED
    BY <1>2, <1>4, <1>5, <1>6, <1>7, <1>8

\* sendRoutine: the first of the send queue gets onto the stream, or is lost.
LEMMA WriteMsgStep ==
    ASSUME IInv, NEW k \in Link, WriteMsg(k)
    PROVE  IInv' /\ UNCHANGED <<sent, handled>>
  <1> USE DEF IInv
  <1>0. PICK x : x = Head(sendQueue[k])
    OBVIOUS
  <1>1. /\ sendQueue[k] # <<>>
        /\ sendQueue' = [sendQueue EXCEPT ![k] = Tail(@)]
        /\ \/ /\ k \notin broken /\ Len(stream[k]) < StreamSize
              /\ stream' = [stream EXCEPT ![k] = Append(@, x)] /\ lost' = lost
           \/ lost' = lost \cup {<<x, k>>} /\ stream' = stream
        /\ UNCHANGED <<senderQueue, peerMsgQueue, loop, sending, broken, arriving, sent,
                       handled>>
    BY <1>0 DEF WriteMsg
  <1>2. sendQueue[k] \in Queue /\ stream[k] \in Queue
    BY DEF Shape
  <1>3. /\ Tail(sendQueue[k]) \in Queue
        /\ Len(sendQueue[k]) \in Nat /\ Len(Tail(sendQueue[k])) = Len(sendQueue[k]) - 1
        /\ x \in ToSet(sendQueue[k])
        /\ ToSet(Tail(sendQueue[k])) = ToSet(sendQueue[k]) \ {x}
    BY <1>0, <1>1, <1>2, TailQueue
  <1>4. x \in sent /\ x \in Message /\ k \in Links(x) /\ ~Pending(x) /\ OnePlace(k, x)
    BY <1>3, OnItsWay
  <1>5. x \notin ToSet(stream[k])
    BY <1>3, <1>4 DEF OnePlace, ExactlyOne
  <1>6. /\ Append(stream[k], x) \in Queue
        /\ Len(stream[k]) \in Nat /\ Len(Append(stream[k], x)) = Len(stream[k]) + 1
        /\ ToSet(Append(stream[k], x)) = ToSet(stream[k]) \cup {x}
    BY <1>2, <1>4, <1>5, AppendQueue
  <1>7. /\ sendQueue'[k] = Tail(sendQueue[k])
        /\ \/ /\ k \notin broken /\ Len(stream[k]) < StreamSize
              /\ stream'[k] = Append(stream[k], x) /\ lost' = lost
           \/ lost' = lost \cup {<<x, k>>} /\ stream'[k] = stream[k]
        /\ \A l \in Link : l # k => sendQueue'[l] = sendQueue[l] /\ stream'[l] = stream[l]
    BY <1>1 DEF Shape
  <1>8. Shape'
    <2>1. sendQueue' \in [Link -> Queue] /\ stream' \in [Link -> Queue]
      BY <1>1, <1>3, <1>6 DEF Shape
    <2>2. lost' \subseteq sent \X Link
      BY <1>1, <1>4 DEF Shape
    <2> QED
      BY <1>1, <2>1, <2>2 DEF Shape
  <1>9. Capacities'
    <2>1. Len(sendQueue'[k]) <= SendQueueSize
      BY <1>3, <1>7, PipelineAssumption DEF Capacities, PipelineAssumption
    <2>2. Len(stream'[k]) <= StreamSize /\ (k \in broken => stream'[k] = <<>>)
      BY <1>6, <1>7, PipelineAssumption DEF Capacities, PipelineAssumption
    <2> QED
      BY <1>1, <1>7, <2>1, <2>2 DEF Capacities
  <1>10. Addressed'
    <2>1. \A l \in Link : \A m \in sending'[l] \cup ToSet(sendQueue'[l]) \cup ToSet(stream'[l]) :
              m \in sent /\ l \in Links(m)
      BY <1>1, <1>3, <1>4, <1>6, <1>7 DEF Addressed
    <2> QED
      BY <1>1, <2>1 DEF Addressed
  <1>11. /\ Numbered' /\ OwnPlace' /\ OwnOrder'
         /\ \A m \in sent : Pending(m)' <=> Pending(m)
    BY <1>1, LoopsUntouched
  <1>12. OnLinks'
    <2>1. OnePlace(k, x)'
      <3>1. CASE stream'[k] = Append(stream[k], x) /\ lost' = lost
        BY <1>1, <1>3, <1>4, <1>6, <1>7, <3>1 DEF OnePlace, ExactlyOne
      <3>2. CASE lost' = lost \cup {<<x, k>>} /\ stream'[k] = stream[k]
        BY <1>1, <1>3, <1>4, <1>7, <3>2 DEF OnePlace, ExactlyOne
      <3> QED
        BY <1>7, <3>1, <3>2
    <2>2. ASSUME NEW m \in sent, NEW l \in Links(m), ~(l = k /\ m = x)
          PROVE  Stays(l, m)
      <3>1. l \in Link
        BY MessageIs DEF Shape
      <3>2. m \in ToSet(sendQueue'[l]) <=> m \in ToSet(sendQueue[l])
        BY <1>3, <1>7, <2>2, <3>1
      <3>3. m \in ToSet(stream'[l]) <=> m \in ToSet(stream[l])
        BY <1>6, <1>7, <2>2, <3>1
      <3>4. <<m, l>> \in lost' <=> <<m, l>> \in lost
        BY <1>7, <2>2
      <3> QED
        BY <1>1, <3>2, <3>3, <3>4 DEF Stays
    <2> QED
      BY <1>1, <1>4, <1>11, <2>1, <2>2, LinksKept
  <1> QED
    BY <1>1, <1>8, <1>9, <1>10, <1>11, <1>12

\* What is on a stream that breaks is lost.
LEMMA BreakStep ==
    ASSUME IInv, NEW k \in Link, Break(k)
    PROVE  IInv' /\ UNCHANGED <<sent, handled>>
  <1> USE DEF IInv
  <1>1. /\ k \in Fragile /\ broken' = broken \cup {k}
        /\ lost' = lost \cup {<<m, k>> : m \in ToSet(stream[k])}
        /\ stream' = [stream EXCEPT ![k] = <<>>]
        /\ UNCHANGED <<senderQueue, peerMsgQueue, loop, sending, sendQueue, arriving, sent,
                       handled>>
    BY DEF Break
  <1>2. \A m \in ToSet(stream[k]) :
            m \in sent /\ m \in Message /\ k \in Links(m) /\ ~Pending(m) /\ OnePlace(k, m)
    BY OnItsWay
  <1>3. /\ stream'[k] = <<>> /\ \A l \in Link : l # k => stream'[l] = stream[l]
    BY <1>1 DEF Shape
  <1>4. Shape'
    BY <1>1, <1>2, EmptyQueue DEF Shape
  <1>5. Capacities'
    <2>1. Len(stream'[k]) <= StreamSize
      BY <1>3, EmptyQueue, PipelineAssumption DEF PipelineAssumption
    <2> QED
      BY <1>1, <1>3, <2>1 DEF Capacities
  <1>6. Addressed'
    <2>1. \A l \in Link : \A m \in sending'[l] \cup ToSet(sendQueue'[l]) \cup ToSet(stream'[l]) :
              m \in sent /\ l \in Links(m)
      BY <1>1, <1>3, EmptyQueue DEF Addressed
    <2> QED
      BY <1>1, <2>1 DEF Addressed
  <1>7. /\ Numbered' /\ OwnPlace' /\ OwnOrder'
        /\ \A m \in sent : Pending(m)' <=> Pending(m)
    BY <1>1, LoopsUntouched
  <1>8. OnLinks'
    <2>1. ASSUME NEW m \in ToSet(stream[k])
          PROVE  OnePlace(k, m)'
      <3>1. <<m, k>> \in lost' /\ m \notin ToSet(stream'[k])
        BY <1>1, <1>3, EmptyQueue
      <3> QED
        BY <1>1, <1>2, <3>1 DEF OnePlace, ExactlyOne
    <2>2. ASSUME NEW m \in sent, NEW l \in Links(m), ~(l = k /\ m \in ToSet(stream[k]))
          PROVE  Stays(l, m)
      <3>1. <<m, l>> \in lost' <=> <<m, l>> \in lost
        BY <1>1, <2>2
      <3>2. m \in ToSet(stream'[l]) <=> m \in ToSet(stream[l])
        BY <1>3, <2>2, EmptyQueue, MessageIs DEF Shape
      <3> QED
        BY <1>1, <3>1, <3>2 DEF Stays
    <2> QED
      BY <1>1, <1>2, <1>7, <2>1, <2>2, LinksKept
  <1> QED
    BY <1>1, <1>4, <1>5, <1>6, <1>7, <1>8

\* recvRoutine: the first of the stream is given to a goroutine.
LEMMA ReadMsgStep ==
    ASSUME IInv, NEW k \in Link, ReadMsg(k)
    PROVE  IInv' /\ UNCHANGED <<sent, handled>>
  <1> USE DEF IInv
  <1>0. PICK x : x = Head(stream[k])
    OBVIOUS
  <1>1. /\ stream[k] # <<>>
        /\ stream' = [stream EXCEPT ![k] = Tail(@)]
        /\ arriving' = [arriving EXCEPT ![k[2]] = @ \cup {x}]
        /\ UNCHANGED <<senderQueue, peerMsgQueue, loop, sending, sendQueue, broken, sent,
                       handled, lost>>
    BY <1>0 DEF ReadMsg
  <1>2. stream[k] \in Queue
    BY DEF Shape
  <1>3. /\ Tail(stream[k]) \in Queue
        /\ Len(stream[k]) \in Nat /\ Len(Tail(stream[k])) = Len(stream[k]) - 1
        /\ x \in ToSet(stream[k])
        /\ ToSet(Tail(stream[k])) = ToSet(stream[k]) \ {x}
    BY <1>0, <1>1, <1>2, TailQueue
  <1>4. x \in sent /\ x \in Message /\ k \in Links(x) /\ ~Pending(x) /\ OnePlace(k, x)
    BY <1>3, OnItsWay
  <1>5. k[2] \in Process /\ k = <<From(x), k[2]>>
    BY <1>4, MessageIs
  <1>6. /\ stream'[k] = Tail(stream[k])
        /\ \A l \in Link : l # k => stream'[l] = stream[l]
        /\ arriving'[k[2]] = arriving[k[2]] \cup {x}
        /\ \A p \in Process : p # k[2] => arriving'[p] = arriving[p]
    BY <1>1, <1>5 DEF Shape
  <1>7. Shape'
    BY <1>1, <1>3, <1>4 DEF Shape
  <1>8. Capacities'
    <2>1. Len(stream'[k]) <= StreamSize
      BY <1>3, <1>6, PipelineAssumption DEF Capacities, PipelineAssumption
    <2>2. k \notin broken
      BY <1>1 DEF Capacities
    <2> QED
      BY <1>1, <1>6, <2>1, <2>2 DEF Capacities
  <1>9. Addressed'
    <2>1. \A l \in Link : \A m \in sending'[l] \cup ToSet(sendQueue'[l]) \cup ToSet(stream'[l]) :
              m \in sent /\ l \in Links(m)
      BY <1>1, <1>3, <1>6 DEF Addressed
    <2>2. \A p \in Process : \A m \in arriving'[p] : m \in sent /\ <<From(m), p>> \in Links(m)
      BY <1>4, <1>5, <1>6 DEF Addressed
    <2> QED
      BY <1>1, <2>1, <2>2 DEF Addressed
  <1>10. /\ Numbered' /\ OwnPlace' /\ OwnOrder'
         /\ \A m \in sent : Pending(m)' <=> Pending(m)
    BY <1>1, LoopsUntouched
  <1>11. OnLinks'
    <2>1. OnePlace(k, x)'
      BY <1>1, <1>3, <1>4, <1>6 DEF OnePlace, ExactlyOne
    <2>2. ASSUME NEW m \in sent, NEW l \in Links(m), ~(l = k /\ m = x)
          PROVE  Stays(l, m)
      <3>1. l \in Link /\ l[2] \in Process
        BY MessageIs DEF Shape
      <3>2. m = x => l[2] # k[2]
        BY <1>4, <2>2, MessageIs
      <3>3. m \in arriving'[l[2]] <=> m \in arriving[l[2]]
        BY <1>6, <3>1, <3>2
      <3>4. m \in ToSet(stream'[l]) <=> m \in ToSet(stream[l])
        BY <1>3, <1>6, <2>2, <3>1
      <3> QED
        BY <1>1, <3>3, <3>4 DEF Stays
    <2> QED
      BY <1>1, <1>4, <1>10, <2>1, <2>2, LinksKept
  <1> QED
    BY <1>1, <1>7, <1>8, <1>9, <1>10, <1>11

\* HandleFunc puts a message from elsewhere in peerMsgQueue.
LEMMA HandleFuncStep ==
    ASSUME IInv, NEW p \in Process, NEW x \in arriving[p], HandleFunc(p, x)
    PROVE  IInv' /\ UNCHANGED <<sent, handled>>
  <1> USE DEF IInv
  <1> DEFINE k == <<From(x), p>>
  <1>1. x \in sent /\ x \in Message /\ k \in Links(x) /\ k[2] = p /\ k \in Link
    BY MessageIs DEF Addressed, Shape
  <1>2. p # From(x) /\ p \in Dest(x)
    BY <1>1, MessageIs
  <1>3. Underway(k, x)
    BY <1>1 DEF Underway
  <1>4. ~Pending(x) /\ OnePlace(k, x)
    BY <1>1, <1>3 DEF OnLinks
  <1>5. /\ Len(peerMsgQueue[p]) < MsgQueueSize
        /\ arriving' = [arriving EXCEPT ![p] = @ \ {x}]
        /\ peerMsgQueue' = [peerMsgQueue EXCEPT ![p] = Append(@, x)]
        /\ UNCHANGED <<senderQueue, loop, sending, sendQueue, stream, broken, sent, handled,
                       lost>>
    BY DEF HandleFunc
  <1>6. peerMsgQueue[p] \in Queue /\ x \notin ToSet(peerMsgQueue[p])
    BY <1>1, <1>4 DEF Shape, OnePlace, ExactlyOne
  <1>7. /\ Append(peerMsgQueue[p], x) \in Queue
        /\ Len(peerMsgQueue[p]) \in Nat
        /\ Len(Append(peerMsgQueue[p], x)) = Len(peerMsgQueue[p]) + 1
        /\ ToSet(Append(peerMsgQueue[p], x)) = ToSet(peerMsgQueue[p]) \cup {x}
    BY <1>1, <1>6, AppendQueue
  <1>8. /\ peerMsgQueue'[p] = Append(peerMsgQueue[p], x) /\ arriving'[p] = arriving[p] \ {x}
        /\ \A q \in Process :
               q # p => peerMsgQueue'[q] = peerMsgQueue[q] /\ arriving'[q] = arriving[q]
    BY <1>5 DEF Shape
  <1> HIDE DEF k
  <1>9. Shape'
    BY <1>5, <1>7 DEF Shape
  <1>10. Capacities'
    <2>1. Len(peerMsgQueue'[p]) <= MsgQueueSize
      BY <1>5, <1>7, <1>8, PipelineAssumption DEF PipelineAssumption
    <2> QED
      BY <1>5, <1>8, <2>1 DEF Capacities
  <1>11. Addressed'
    <2>1. \A q \in Process : \A m \in ToSet(peerMsgQueue'[q]) : m \in sent /\ q \in Dest(m)
      <3>1. \A q \in Process : \A m \in ToSet(peerMsgQueue[q]) : m \in sent /\ q \in Dest(m)
        BY DEF Addressed
      <3>2. \A m \in ToSet(peerMsgQueue'[p]) : m = x \/ m \in ToSet(peerMsgQueue[p])
        BY <1>7, <1>8
      <3> QED
        BY <1>1, <1>2, <1>8, <3>1, <3>2
    <2>2. \A q \in Process : \A m \in arriving'[q] : m \in sent /\ <<From(m), q>> \in Links(m)
      BY <1>8 DEF Addressed
    <2> QED
      BY <1>5, <2>1, <2>2 DEF Addressed
  <1>12. Numbered' /\ \A m \in sent : Pending(m)' <=> Pending(m)
    BY <1>5 DEF Numbered, Count, Pending
  <1>13. \A m \in sent : /\ From(m) \in Process
                         /\ m \in ToSet(peerMsgQueue'[From(m)]) <=>
                                m \in ToSet(peerMsgQueue[From(m)])
    <2>1. \A m \in sent : From(m) \in Process
      BY MessageIs DEF Shape
    <2>2. \A m : m \in ToSet(peerMsgQueue'[p]) <=> m = x \/ m \in ToSet(peerMsgQueue[p])
      BY <1>7, <1>8
    <2> SUFFICES ASSUME NEW m \in sent
                 PROVE  m \in ToSet(peerMsgQueue'[From(m)]) <=>
                            m \in ToSet(peerMsgQueue[From(m)])
      BY <2>1
    <2>3. CASE From(m) = p
      <3>1. m # x
        BY <1>2, <2>3
      <3> QED
        BY <2>2, <2>3, <3>1
    <2>4. CASE From(m) # p
      BY <1>8, <2>1, <2>4
    <2> QED
      BY <2>3, <2>4
  <1>14. OwnPlace'
    BY <1>5, <1>13 DEF OwnPlace, ExactlyOne
  <1>15. OwnOrder'
    <2>1. ASSUME NEW q \in Process
          PROVE  InOrder(q, senderQueue'[q]) /\ InOrder(q, peerMsgQueue'[q])
      <3>1. CASE q = p
        BY <1>1, <1>2, <1>5, <1>6, <1>8, <3>1, AppendInOrder DEF OwnOrder
      <3>2. CASE q # p
        BY <1>5, <1>8, <3>2 DEF OwnOrder
      <3> QED
        BY <3>1, <3>2
    <2>2. ASSUME NEW m \in sent, NEW n \in sent, From(n) = From(m), n[2] < m[2]
          PROVE  LET q == From(m)
                 IN  /\ loop'[q] = At("own", m) => n \notin ToSet(senderQueue'[q])
                     /\ m \in ToSet(peerMsgQueue'[q]) =>
                            n \notin ToSet(senderQueue'[q]) /\ loop'[q] # At("own", n)
                     /\ handled'[q][m] > 0 => handled'[q][n] > 0
      BY <1>5, <1>13, <2>2 DEF OwnOrder
    <2> QED
      BY <1>5, <2>1, <2>2 DEF OwnOrder
  <1>16. OnLinks'
    <2>1. OnePlace(k, x)'
      BY <1>1, <1>4, <1>5, <1>7, <1>8 DEF OnePlace, ExactlyOne
    <2>2. ASSUME NEW m \in sent, NEW l \in Links(m), ~(l = k /\ m = x)
          PROVE  Stays(l, m)
      <3>1. l[2] \in Process
        BY MessageIs DEF Shape
      <3>2. m = x => l[2] # p
        BY <1>1, <2>2, MessageIs
      <3>3. /\ m \in arriving'[l[2]] <=> m \in arriving[l[2]]
            /\ m \in ToSet(peerMsgQueue'[l[2]]) <=> m \in ToSet(peerMsgQueue[l[2]])
        BY <1>7, <1>8, <3>1, <3>2
      <3> QED
        BY <1>5, <3>3 DEF Stays
    <2> QED
      BY <1>1, <1>4, <1>5, <1>12, <2>1, <2>2, LinksKept
  <1> QED
    BY <1>5, <1>9, <1>10, <1>11, <1>12, <1>14, <1>15, <1>16

-----------------------------------------------------------------------------
(* receiveRoutine.                                                          *)

\* The message a handler ends with has the next number.
LEMMA NextMessageIs ==
    ASSUME NEW p, NEW m \in NextMessages(p)
    PROVE  m \in Message /\ From(m) = p /\ m[2] = Count(p) + 1
  BY DEF NextMessages, Count, Of

\* localTimeout has a message for senderQueue.
LEMMA LocalTimeoutStep ==
    ASSUME IInv, NEW p \in Process, LocalTimeout(p)
    PROVE  IInv' /\ UNCHANGED <<sent, handled>>
  <1> USE DEF IInv
  <1>1. PICK x \in NextMessages(p) : loop' = [loop EXCEPT ![p] = At("queue", x)]
    BY DEF LocalTimeout
  <1>2. /\ loop[p] = Select
        /\ UNCHANGED <<senderQueue, peerMsgQueue, sending, sendQueue, stream, broken, arriving,
                       sent, handled, lost>>
    BY DEF LocalTimeout
  <1>3. x \in Message /\ From(x) = p /\ x[2] = Count(p) + 1
    BY NextMessageIs
  <1>4. At("queue", x) \in Loops /\ At("queue", x).step = "queue" /\ At("queue", x).msg = x
    BY <1>3, LoopIs
  <1>5. /\ loop' \in [Process -> Loops]
        /\ loop'[p] = At("queue", x)
        /\ \A q \in Process : q # p => loop'[q] = loop[q]
    BY <1>1, <1>4 DEF Shape
  <1>6. \A m \in Message : loop'[p] # At("own", m) /\ loop[p] # At("own", m)
    BY <1>2, <1>4, <1>5, LoopIs
  <1>7. Shape' /\ Capacities'
    BY <1>2, <1>5 DEF Shape, Capacities
  <1>8. Addressed'
    <2>1. \A q \in Process :
              /\ loop'[q].step # "select" => From(loop'[q].msg) = q
              /\ loop'[q].step \in {"own", "waiting"} => loop'[q].msg \in sent
      BY <1>3, <1>4, <1>5 DEF Addressed
    <2> QED
      BY <1>2, <2>1 DEF Addressed
  <1>9. \A q \in Process :
            /\ loop'[q].step = "queue" => loop'[q].msg[2] = Count(q) + 1
            /\ \A m \in Message : loop'[q] = At("own", m) <=> loop[q] = At("own", m)
    BY <1>3, <1>4, <1>5, <1>6 DEF Numbered
  <1>10. /\ Numbered' /\ OwnPlace' /\ OwnOrder'
         /\ \A m \in sent : Pending(m)' <=> Pending(m)
    BY <1>2, <1>5, <1>9, OwnUntouched
  <1>11. OnLinks'
    <2>1. \A m \in sent : \A l \in Links(m) : Stays(l, m)
      BY <1>2 DEF Stays
    <2> QED
      BY <1>2, <1>10, <2>1, LinksKept
  <1> QED
    BY <1>2, <1>7, <1>8, <1>10, <1>11

\* Broadcast or Send returns.
LEMMA ResultStep ==
    ASSUME IInv, NEW p \in Process, Result(p)
    PROVE  IInv' /\ UNCHANGED <<sent, handled>>
  <1> USE DEF IInv
  <1>1. /\ loop[p].step = "waiting"
        /\ loop' = [loop EXCEPT ![p] = Select]
        /\ UNCHANGED <<senderQueue, peerMsgQueue, sending, sendQueue, stream, broken, arriving,
                       sent, handled, lost>>
    BY DEF Result
  <1>2. /\ loop' \in [Process -> Loops]
        /\ loop'[p] = Select /\ Select.step = "select"
        /\ \A q \in Process : q # p => loop'[q] = loop[q]
    BY <1>1, LoopIs DEF Shape
  <1>3. \A m \in Message : loop'[p] # At("own", m) /\ loop[p] # At("own", m)
    BY <1>1, <1>2, LoopIs
  <1>4. Shape' /\ Capacities'
    BY <1>1, <1>2 DEF Shape, Capacities
  <1>5. Addressed'
    <2>1. \A q \in Process :
              /\ loop'[q].step # "select" => From(loop'[q].msg) = q
              /\ loop'[q].step \in {"own", "waiting"} => loop'[q].msg \in sent
      BY <1>2 DEF Addressed
    <2> QED
      BY <1>1, <2>1 DEF Addressed
  <1>6. \A q \in Process :
            /\ loop'[q].step = "queue" => loop'[q].msg[2] = Count(q) + 1
            /\ \A m \in Message : loop'[q] = At("own", m) <=> loop[q] = At("own", m)
    BY <1>2, <1>3 DEF Numbered
  <1>7. /\ Numbered' /\ OwnPlace' /\ OwnOrder'
        /\ \A m \in sent : Pending(m)' <=> Pending(m)
    BY <1>1, <1>2, <1>6, OwnUntouched
  <1>8. OnLinks'
    <2>1. \A m \in sent : \A l \in Links(m) : Stays(l, m)
      BY <1>1 DEF Stays
    <2> QED
      BY <1>1, <1>7, <2>1, LinksKept
  <1> QED
    BY <1>1, <1>4, <1>5, <1>7, <1>8

\* The loop takes the first of senderQueue.
LEMMA ScheduleStep ==
    ASSUME IInv, NEW p \in Process, Schedule(p)
    PROVE  IInv' /\ UNCHANGED <<sent, handled>>
  <1> USE DEF IInv
  <1>0. PICK x : x = Head(senderQueue[p])
    OBVIOUS
  <1>1. /\ loop[p] = Select /\ senderQueue[p] # <<>>
        /\ senderQueue' = [senderQueue EXCEPT ![p] = Tail(@)]
        /\ loop' = [loop EXCEPT ![p] = At("own", x)]
        /\ UNCHANGED <<peerMsgQueue, sending, sendQueue, stream, broken, arriving, sent,
                       handled, lost>>
    BY <1>0 DEF Schedule
  <1>2. senderQueue[p] \in Queue /\ InOrder(p, senderQueue[p])
    BY DEF Shape, OwnOrder
  <1>3. /\ Tail(senderQueue[p]) \in Queue
        /\ Len(senderQueue[p]) \in Nat /\ Len(Tail(senderQueue[p])) = Len(senderQueue[p]) - 1
        /\ x \in ToSet(senderQueue[p]) /\ x \in Message
        /\ ToSet(Tail(senderQueue[p])) = ToSet(senderQueue[p]) \ {x}
    BY <1>0, <1>1, <1>2, TailQueue
  <1>4. x \in sent /\ From(x) = p
    BY <1>3 DEF Addressed
  <1>5. /\ At("own", x) \in Loops /\ At("own", x).step = "own" /\ At("own", x).msg = x
        /\ \A m \in Message : At("own", x) = At("own", m) <=> x = m
        /\ \A m \in Message : loop[p] # At("own", m)
    BY <1>1, <1>3, LoopIs
  <1>6. /\ senderQueue'[p] = Tail(senderQueue[p]) /\ loop'[p] = At("own", x)
        /\ \A q \in Process : q # p => senderQueue'[q] = senderQueue[q] /\ loop'[q] = loop[q]
    BY <1>1 DEF Shape
  <1>7. Shape'
    BY <1>1, <1>3, <1>5 DEF Shape
  <1>8. Capacities'
    <2>1. Len(senderQueue'[p]) <= MsgQueueSize
      BY <1>3, <1>6, PipelineAssumption DEF Capacities, PipelineAssumption
    <2> QED
      BY <1>1, <1>6, <2>1 DEF Capacities
  <1>9. Addressed'
    <2>1. \A q \in Process : \A m \in ToSet(senderQueue'[q]) : m \in sent /\ From(m) = q
      BY <1>3, <1>6 DEF Addressed
    <2>2. \A q \in Process :
              /\ loop'[q].step # "select" => From(loop'[q].msg) = q
              /\ loop'[q].step \in {"own", "waiting"} => loop'[q].msg \in sent
      BY <1>4, <1>5, <1>6 DEF Addressed
    <2> QED
      BY <1>1, <2>1, <2>2 DEF Addressed
  <1>10. Numbered'
    BY <1>1, <1>5, <1>6 DEF Numbered, Count
  \* The message is with the loop, and nothing else has moved.
  <1>11. ASSUME NEW m \in sent
         PROVE  /\ From(m) \in Process /\ m \in Message
                /\ m \in ToSet(senderQueue'[From(m)]) <=>
                       m \in ToSet(senderQueue[From(m)]) /\ m # x
                /\ loop'[From(m)] = At("own", m) <=> loop[From(m)] = At("own", m) \/ m = x
    <2>1. From(m) \in Process /\ m \in Message
      BY MessageIs DEF Shape
    <2>2. CASE From(m) = p
      BY <1>3, <1>5, <1>6, <2>1, <2>2
    <2>3. CASE From(m) # p
      BY <1>4, <1>6, <2>1, <2>3
    <2> QED
      BY <2>1, <2>2, <2>3
  <1>12. OwnPlace'
    <2> SUFFICES ASSUME NEW m \in sent
                 PROVE  ExactlyOne(m \in ToSet(senderQueue'[From(m)]),
                                   loop'[From(m)] = At("own", m),
                                   m \in ToSet(peerMsgQueue'[From(m)]),
                                   handled'[From(m)][m] > 0, FALSE, FALSE, FALSE)
      BY <1>1 DEF OwnPlace
    <2>1. ExactlyOne(m \in ToSet(senderQueue[From(m)]), loop[From(m)] = At("own", m),
                     m \in ToSet(peerMsgQueue[From(m)]), handled[From(m)][m] > 0,
                     FALSE, FALSE, FALSE)
      BY DEF OwnPlace
    <2> QED
      BY <1>1, <1>3, <1>4, <1>11, <2>1 DEF ExactlyOne
  <1>13. OwnOrder'
    <2>1. ASSUME NEW q \in Process
          PROVE  InOrder(q, senderQueue'[q]) /\ InOrder(q, peerMsgQueue'[q])
      BY <1>1, <1>2, <1>6, TailInOrder DEF OwnOrder
    <2>2. ASSUME NEW m \in sent, NEW n \in sent, From(n) = From(m), n[2] < m[2]
          PROVE  LET q == From(m)
                 IN  /\ loop'[q] = At("own", m) => n \notin ToSet(senderQueue'[q])
                     /\ m \in ToSet(peerMsgQueue'[q]) =>
                            n \notin ToSet(senderQueue'[q]) /\ loop'[q] # At("own", n)
                     /\ handled'[q][m] > 0 => handled'[q][n] > 0
      <3>1. /\ loop[From(m)] = At("own", m) => n \notin ToSet(senderQueue[From(m)])
            /\ m \in ToSet(peerMsgQueue[From(m)]) =>
                   n \notin ToSet(senderQueue[From(m)]) /\ loop[From(m)] # At("own", n)
            /\ handled[From(m)][m] > 0 => handled[From(m)][n] > 0
        BY <2>2 DEF OwnOrder
      <3>2. m = x => n \notin ToSet(senderQueue[p])
        BY <1>0, <1>1, <1>2, <1>4, <2>2, TailInOrder
      <3>3. n = x => n \in ToSet(senderQueue[From(m)])
        BY <1>3, <1>4, <2>2
      <3> QED
        BY <1>1, <1>4, <1>11, <2>2, <3>1, <3>2, <3>3
    <2> QED
      BY <1>1, <2>1, <2>2 DEF OwnOrder
  <1>14. OnLinks'
    <2>1. \A m \in sent : Pending(m)' <=> Pending(m)
      BY <1>3, <1>4, <1>11 DEF Pending
    <2>2. \A m \in sent : \A l \in Links(m) : Stays(l, m)
      BY <1>1 DEF Stays
    <2> QED
      BY <1>1, <2>1, <2>2, LinksKept
  <1> QED
    BY <1>1, <1>7, <1>8, <1>9, <1>10, <1>12, <1>13, <1>14

\* schedule: the own copy, and a goroutine for each connection.
LEMMA PutOwnStep ==
    ASSUME IInv, NEW p \in Process, PutOwn(p)
    PROVE  IInv' /\ UNCHANGED <<sent, handled>>
  <1> USE DEF IInv
  <1>0. PICK x : x = loop[p].msg
    OBVIOUS
  <1>1. /\ loop[p].step = "own" /\ Len(peerMsgQueue[p]) < MsgQueueSize
        /\ peerMsgQueue' = [peerMsgQueue EXCEPT ![p] = Append(@, x)]
        /\ sending' = [l \in Link |-> sending[l] \cup (IF l \in Links(x) THEN {x} ELSE {})]
        /\ loop' = [loop EXCEPT ![p] = IF Links(x) = {} THEN Select ELSE At("waiting", x)]
        /\ UNCHANGED <<senderQueue, sendQueue, stream, broken, arriving, sent, handled, lost>>
    BY <1>0 DEF PutOwn
  <1>2. /\ loop[p] \in Loops /\ x \in Message /\ x \in sent /\ From(x) = p
        /\ loop[p] = At("own", x) /\ \A m \in Message : loop[p] = At("own", m) <=> m = x
    BY <1>0, <1>1, LoopIs DEF Shape, Addressed
  <1>3. Pending(x) /\ x \notin ToSet(peerMsgQueue[p]) /\ x \notin ToSet(senderQueue[p])
    BY <1>2 DEF Pending, OwnPlace, ExactlyOne
  <1>4. peerMsgQueue[p] \in Queue
    BY DEF Shape
  <1>5. /\ Append(peerMsgQueue[p], x) \in Queue
        /\ Len(peerMsgQueue[p]) \in Nat
        /\ Len(Append(peerMsgQueue[p], x)) = Len(peerMsgQueue[p]) + 1
        /\ ToSet(Append(peerMsgQueue[p], x)) = ToSet(peerMsgQueue[p]) \cup {x}
    BY <1>2, <1>3, <1>4, AppendQueue
  <1>6. PICK next \in Loops : /\ next = IF Links(x) = {} THEN Select ELSE At("waiting", x)
                              /\ next.step \in {"select", "waiting"}
                              /\ next.step = "waiting" => next.msg = x
                              /\ \A m \in Message : next # At("own", m)
    <2>1. CASE Links(x) = {}
      BY <2>1, LoopIs
    <2>2. CASE Links(x) # {}
      BY <1>2, <2>2, LoopIs
    <2> QED
      BY <2>1, <2>2
  <1>7. /\ loop' = [loop EXCEPT ![p] = next]
        /\ loop'[p] = next /\ peerMsgQueue'[p] = Append(peerMsgQueue[p], x)
        /\ \A q \in Process : q # p => loop'[q] = loop[q] /\ peerMsgQueue'[q] = peerMsgQueue[q]
    BY <1>1, <1>6 DEF Shape
  <1>8. \A l \in Link : \A m : m \in sending'[l] <=> m \in sending[l] \/ (m = x /\ l \in Links(x))
    BY <1>1
  <1>9. Shape'
    <2>1. sending' \in [Link -> SUBSET Message]
      BY <1>1, <1>2 DEF Shape
    <2>2. peerMsgQueue' \in [Process -> Queue] /\ loop' \in [Process -> Loops]
      BY <1>1, <1>5, <1>6, <1>7 DEF Shape
    <2> QED
      BY <1>1, <2>1, <2>2 DEF Shape
  <1>10. Capacities'
    <2>1. Len(peerMsgQueue'[p]) <= MsgQueueSize
      BY <1>1, <1>5, <1>7, PipelineAssumption DEF PipelineAssumption
    <2> QED
      BY <1>1, <1>7, <2>1 DEF Capacities
  <1>11. Addressed'
    <2>1. \A q \in Process :
              /\ loop'[q].step # "select" => From(loop'[q].msg) = q
              /\ loop'[q].step \in {"own", "waiting"} => loop'[q].msg \in sent
      BY <1>2, <1>6, <1>7 DEF Addressed
    <2>2. \A q \in Process : \A m \in ToSet(peerMsgQueue'[q]) : m \in sent /\ q \in Dest(m)
      <3>1. \A q \in Process : \A m \in ToSet(peerMsgQueue[q]) : m \in sent /\ q \in Dest(m)
        BY DEF Addressed
      <3>2. \A m \in ToSet(peerMsgQueue'[p]) : m = x \/ m \in ToSet(peerMsgQueue[p])
        BY <1>5, <1>7
      <3>3. p \in Dest(x)
        BY <1>2, MessageIs
      <3> QED
        BY <1>2, <1>7, <3>1, <3>2, <3>3
    <2>3. \A l \in Link : \A m \in sending'[l] \cup ToSet(sendQueue'[l]) \cup ToSet(stream'[l]) :
              m \in sent /\ l \in Links(m)
      BY <1>1, <1>2, <1>8 DEF Addressed
    <2> QED
      BY <1>1, <2>1, <2>2, <2>3 DEF Addressed
  <1>12. Numbered'
    BY <1>1, <1>6, <1>7 DEF Numbered, Count
  \* The message is in peerMsgQueue, and nothing else has moved.
  <1>13. ASSUME NEW m \in sent
         PROVE  /\ From(m) \in Process /\ m \in Message
                /\ m \in ToSet(peerMsgQueue'[From(m)]) <=>
                       m \in ToSet(peerMsgQueue[From(m)]) \/ m = x
                /\ loop'[From(m)] = At("own", m) <=> loop[From(m)] = At("own", m) /\ m # x
    <2>1. From(m) \in Process /\ m \in Message
      BY MessageIs DEF Shape
    <2>2. CASE From(m) = p
      <3>1. m \in ToSet(peerMsgQueue'[p]) <=> m \in ToSet(peerMsgQueue[p]) \/ m = x
        BY <1>5, <1>7
      <3>2. loop'[p] # At("own", m) /\ (loop[p] = At("own", m) <=> m = x)
        BY <1>2, <1>6, <1>7, <2>1
      <3> QED
        BY <2>1, <2>2, <3>1, <3>2
    <2>3. CASE From(m) # p
      BY <1>2, <1>7, <2>1, <2>3
    <2> QED
      BY <2>1, <2>2, <2>3
  <1>14. OwnPlace'
    <2> SUFFICES ASSUME NEW m \in sent
                 PROVE  ExactlyOne(m \in ToSet(senderQueue'[From(m)]),
                                   loop'[From(m)] = At("own", m),
                                   m \in ToSet(peerMsgQueue'[From(m)]),
                                   handled'[From(m)][m] > 0, FALSE, FALSE, FALSE)
      BY <1>1 DEF OwnPlace
    <2>1. ExactlyOne(m \in ToSet(senderQueue[From(m)]), loop[From(m)] = At("own", m),
                     m \in ToSet(peerMsgQueue[From(m)]), handled[From(m)][m] > 0,
                     FALSE, FALSE, FALSE)
      BY DEF OwnPlace
    <2> QED
      BY <1>1, <1>2, <1>13, <2>1 DEF ExactlyOne
  <1>15. OwnOrder'
    <2>1. ASSUME NEW q \in Process
          PROVE  InOrder(q, senderQueue'[q]) /\ InOrder(q, peerMsgQueue'[q])
      <3>1. InOrder(q, senderQueue[q]) /\ InOrder(q, peerMsgQueue[q])
        BY DEF OwnOrder
      <3>2. CASE q = p
        <4>1. \A n \in ToSet(peerMsgQueue[p]) : From(n) = p => ~(x[2] < n[2])
          BY <1>2 DEF OwnOrder, Addressed
        <4> QED
          BY <1>1, <1>2, <1>4, <1>7, <3>1, <3>2, <4>1, AppendInOrder
      <3>3. CASE q # p
        BY <1>1, <1>7, <3>1, <3>3
      <3> QED
        BY <3>2, <3>3
    <2>2. ASSUME NEW m \in sent, NEW n \in sent, From(n) = From(m), n[2] < m[2]
          PROVE  LET q == From(m)
                 IN  /\ loop'[q] = At("own", m) => n \notin ToSet(senderQueue'[q])
                     /\ m \in ToSet(peerMsgQueue'[q]) =>
                            n \notin ToSet(senderQueue'[q]) /\ loop'[q] # At("own", n)
                     /\ handled'[q][m] > 0 => handled'[q][n] > 0
      <3>1. /\ loop[From(m)] = At("own", m) => n \notin ToSet(senderQueue[From(m)])
            /\ m \in ToSet(peerMsgQueue[From(m)]) =>
                   n \notin ToSet(senderQueue[From(m)]) /\ loop[From(m)] # At("own", n)
            /\ handled[From(m)][m] > 0 => handled[From(m)][n] > 0
        BY <2>2 DEF OwnOrder
      <3>2. m = x => loop[From(m)] = At("own", m)
        BY <1>2
      <3>3. m = x => loop'[From(m)] # At("own", n)
        BY <1>2, <1>6, <1>7 DEF Shape
      <3> QED
        BY <1>1, <1>13, <2>2, <3>1, <3>2, <3>3
    <2> QED
      BY <1>1, <2>1, <2>2 DEF OwnOrder
  <1>16. OnLinks'
    <2>1. \A m \in sent : Pending(m)' <=> Pending(m) /\ m # x
      BY <1>1, <1>2, <1>3, <1>13 DEF Pending
    <2>2. ASSUME NEW l \in Links(x)
          PROVE  OnePlace(l, x)'
      <3>1. ~Underway(l, x) /\ l \in Link /\ l[2] # p /\ l[2] \in Process
        BY <1>2, <1>3, MessageIs DEF OnLinks
      <3>2. x \in sending'[l] /\ peerMsgQueue'[l[2]] = peerMsgQueue[l[2]]
        BY <1>7, <1>8, <3>1
      <3> QED
        BY <1>1, <3>1, <3>2 DEF Underway, OnePlace, ExactlyOne
    <2>3. ASSUME NEW m \in sent, NEW l \in Links(m), m # x
          PROVE  Stays(l, m)
      <3>1. l \in Link /\ l[2] \in Process
        BY MessageIs DEF Shape
      <3>2. m \in sending'[l] <=> m \in sending[l]
        BY <1>8, <2>3, <3>1
      <3>3. m \in ToSet(peerMsgQueue'[l[2]]) <=> m \in ToSet(peerMsgQueue[l[2]])
        <4>1. CASE l[2] = p
          BY <1>5, <1>7, <2>3, <4>1
        <4>2. CASE l[2] # p
          BY <1>7, <3>1, <4>2
        <4> QED
          BY <4>1, <4>2
      <3> QED
        BY <1>1, <3>2, <3>3 DEF Stays
    <2> QED
      BY <1>1, <2>1, <2>2, <2>3, LinksKept
  <1> QED
    BY <1>1, <1>9, <1>10, <1>11, <1>12, <1>14, <1>15, <1>16

\* A handler's message gets into senderQueue: with the next number it is a new
\* one, and after all others of its process.
LEMMA QueueMessageStep ==
    ASSUME IInv, NEW p \in Process, QueueMessage(p)
    PROVE  IInv' /\ NetworkOf!Next
  <1> USE DEF IInv
  <1>0. PICK x : x = loop[p].msg
    OBVIOUS
  <1>1. /\ loop[p].step = "queue" /\ Len(senderQueue[p]) < MsgQueueSize
        /\ senderQueue' = [senderQueue EXCEPT ![p] = Append(@, x)]
        /\ sent' = sent \cup {x}
        /\ loop' = [loop EXCEPT ![p] = Select]
        /\ UNCHANGED <<peerMsgQueue, sending, sendQueue, stream, broken, arriving, handled,
                       lost>>
    BY <1>0 DEF QueueMessage
  <1>2. /\ x \in Message /\ From(x) = p /\ x[2] = Count(p) + 1
        /\ \A m \in Message : loop[p] # At("own", m)
    BY <1>0, <1>1, LoopIs DEF Shape, Addressed, Numbered
  <1>3. /\ sent \subseteq Message /\ IsFiniteSet(sent) /\ Count(p) \in Nat
        /\ \A m \in sent : From(m) \in Process /\ m[2] \in Nat
    <2>1. sent \subseteq Message /\ IsFiniteSet(sent)
      BY DEF Shape
    <2>2. Count(p) \in Nat
      <3>1. Of(p, sent) \subseteq sent
        BY DEF Of
      <3> QED
        BY <2>1, <3>1, FS_Subset, FS_CardinalityType DEF Count
    <2> QED
      BY <2>1, <2>2, MessageIs
  <1>4. /\ x \notin sent
        /\ \A m \in sent : From(m) = p => m[2] < x[2]
    BY <1>2, <1>3 DEF Numbered
  <1>5. /\ IsFiniteSet(sent')
        /\ Count(p)' = Count(p) + 1
        /\ \A q : q # p => Count(q)' = Count(q)
    <2>1. IsFiniteSet(sent')
      BY <1>1, <1>3, FS_AddElement
    <2>2. ASSUME NEW q
          PROVE  Count(q)' = IF q = p THEN Count(q) + 1 ELSE Count(q)
      <3>1. Cardinality(Of(q, sent \cup {x})) =
                IF From(x) = q THEN Cardinality(Of(q, sent)) + 1 ELSE Cardinality(Of(q, sent))
        BY <1>3, <1>4, CountOneMore
      <3> QED
        BY <1>1, <1>2, <3>1 DEF Count
    <2> QED
      BY <2>1, <2>2
  <1>6. senderQueue[p] \in Queue /\ x \notin ToSet(senderQueue[p])
    BY <1>4 DEF Shape, Addressed
  <1>7. /\ Append(senderQueue[p], x) \in Queue
        /\ Len(senderQueue[p]) \in Nat
        /\ Len(Append(senderQueue[p], x)) = Len(senderQueue[p]) + 1
        /\ ToSet(Append(senderQueue[p], x)) = ToSet(senderQueue[p]) \cup {x}
    BY <1>2, <1>6, AppendQueue
  <1>8. /\ senderQueue'[p] = Append(senderQueue[p], x)
        /\ loop'[p] = Select /\ Select \in Loops /\ Select.step = "select"
        /\ \A m : loop'[p] # At("own", m)
        /\ \A q \in Process : q # p => senderQueue'[q] = senderQueue[q] /\ loop'[q] = loop[q]
    BY <1>1, LoopIs DEF Shape
  <1>9. \A m : m \in ToSet(senderQueue'[p]) <=> m \in ToSet(senderQueue[p]) \/ m = x
    BY <1>7, <1>8
  <1>10. Shape'
    BY <1>1, <1>2, <1>3, <1>5, <1>7, <1>8 DEF Shape
  <1>11. Capacities'
    <2>1. Len(senderQueue'[p]) <= MsgQueueSize
      BY <1>1, <1>7, <1>8, PipelineAssumption DEF PipelineAssumption
    <2> QED
      BY <1>1, <1>8, <2>1 DEF Capacities
  <1>12. Addressed'
    <2>1. \A q \in Process : \A m \in ToSet(senderQueue'[q]) : m \in sent' /\ From(m) = q
      BY <1>1, <1>2, <1>8, <1>9 DEF Addressed
    <2>2. \A q \in Process :
              /\ loop'[q].step # "select" => From(loop'[q].msg) = q
              /\ loop'[q].step \in {"own", "waiting"} => loop'[q].msg \in sent'
      BY <1>1, <1>8 DEF Addressed
    <2> QED
      BY <1>1, <2>1, <2>2 DEF Addressed
  <1>13. Numbered'
    <2>1. \A m \in sent' : m[2] <= Count(From(m))'
      <3>1. x[2] <= Count(From(x))'
        BY <1>2, <1>3, <1>5
      <3>2. ASSUME NEW m \in sent
            PROVE  m[2] <= Count(From(m))'
        <4>1. m[2] <= Count(From(m))
          BY DEF Numbered
        <4>2. CASE From(m) = p
          BY <1>3, <1>5, <4>1, <4>2
        <4>3. CASE From(m) # p
          BY <1>5, <4>1, <4>3
        <4> QED
          BY <4>2, <4>3
      <3> QED
        BY <1>1, <3>1, <3>2
    <2>2. \A m, n \in sent' : From(m) = From(n) /\ m[2] = n[2] => m = n
      BY <1>1, <1>2, <1>3, <1>4 DEF Numbered
    <2>3. \A q \in Process : loop'[q].step = "queue" => loop'[q].msg[2] = Count(q)' + 1
      BY <1>5, <1>8 DEF Numbered
    <2> QED
      BY <2>1, <2>2, <2>3 DEF Numbered
  \* Where the new message is, and that the others have stayed.
  <1>14. /\ \A q \in Process :
                /\ x \notin ToSet(peerMsgQueue'[q]) /\ x \notin arriving'[q]
                /\ ~(handled'[q][x] > 0)
         /\ \A l \in Link : /\ x \notin sending'[l] /\ x \notin ToSet(sendQueue'[l])
                            /\ x \notin ToSet(stream'[l]) /\ <<x, l>> \notin lost'
         /\ x \in ToSet(senderQueue'[p]) /\ loop'[p] # At("own", x)
    BY <1>1, <1>2, <1>4, <1>8, <1>9 DEF Addressed, Shape
  <1>15. ASSUME NEW m \in sent
         PROVE  /\ From(m) \in Process /\ m # x
                /\ m \in ToSet(senderQueue'[From(m)]) <=> m \in ToSet(senderQueue[From(m)])
                /\ loop'[From(m)] = At("own", m) <=> loop[From(m)] = At("own", m)
    <2>1. From(m) \in Process /\ m \in Message /\ m # x
      BY <1>3, <1>4
    <2>2. CASE From(m) = p
      BY <1>2, <1>8, <1>9, <2>1, <2>2
    <2>3. CASE From(m) # p
      BY <1>8, <2>1, <2>3
    <2> QED
      BY <2>1, <2>2, <2>3
  <1>16. OwnPlace'
    <2> SUFFICES ASSUME NEW m \in sent'
                 PROVE  ExactlyOne(m \in ToSet(senderQueue'[From(m)]),
                                   loop'[From(m)] = At("own", m),
                                   m \in ToSet(peerMsgQueue'[From(m)]),
                                   handled'[From(m)][m] > 0, FALSE, FALSE, FALSE)
      BY DEF OwnPlace
    <2>1. CASE m = x
      BY <1>2, <1>14, <2>1 DEF ExactlyOne
    <2>2. CASE m \in sent
      <3>1. ExactlyOne(m \in ToSet(senderQueue[From(m)]), loop[From(m)] = At("own", m),
                       m \in ToSet(peerMsgQueue[From(m)]), handled[From(m)][m] > 0,
                       FALSE, FALSE, FALSE)
        BY <2>2 DEF OwnPlace
      <3> QED
        BY <1>1, <1>15, <2>2, <3>1 DEF ExactlyOne
    <2> QED
      BY <1>1, <2>1, <2>2
  <1>17. OwnOrder'
    <2>1. ASSUME NEW q \in Process
          PROVE  InOrder(q, senderQueue'[q]) /\ InOrder(q, peerMsgQueue'[q])
      <3>1. InOrder(q, senderQueue[q]) /\ InOrder(q, peerMsgQueue[q])
        BY DEF OwnOrder
      <3>2. CASE q = p
        <4>1. \A n \in ToSet(senderQueue[p]) : n[2] < x[2] /\ n[2] \in Nat /\ x[2] \in Nat
          BY <1>2, <1>3, <1>4 DEF Addressed
        <4>2. \A n \in ToSet(senderQueue[p]) : ~(x[2] < n[2])
          BY <4>1
        <4> QED
          BY <1>1, <1>2, <1>6, <1>8, <3>1, <3>2, <4>2, AppendInOrder
      <3>3. CASE q # p
        BY <1>1, <1>8, <3>1, <3>3
      <3> QED
        BY <3>2, <3>3
    <2>2. ASSUME NEW m \in sent', NEW n \in sent', From(n) = From(m), n[2] < m[2]
          PROVE  LET q == From(m)
                 IN  /\ loop'[q] = At("own", m) => n \notin ToSet(senderQueue'[q])
                     /\ m \in ToSet(peerMsgQueue'[q]) =>
                            n \notin ToSet(senderQueue'[q]) /\ loop'[q] # At("own", n)
                     /\ handled'[q][m] > 0 => handled'[q][n] > 0
      <3>1. CASE m = x
        BY <1>2, <1>14, <3>1
      <3>2. CASE m \in sent
        <4>1. n # x
          <5>1. n = x => m[2] < n[2] /\ m[2] \in Nat /\ n[2] \in Nat
            BY <1>2, <1>3, <1>4, <2>2, <3>2
          <5> QED
            BY <2>2, <5>1
        <4>2. n \in sent
          BY <1>1, <4>1
        <4>3. /\ loop[From(m)] = At("own", m) => n \notin ToSet(senderQueue[From(m)])
              /\ m \in ToSet(peerMsgQueue[From(m)]) =>
                     n \notin ToSet(senderQueue[From(m)]) /\ loop[From(m)] # At("own", n)
              /\ handled[From(m)][m] > 0 => handled[From(m)][n] > 0
          BY <2>2, <3>2, <4>2 DEF OwnOrder
        <4> QED
          BY <1>1, <1>15, <2>2, <3>2, <4>2, <4>3
      <3> QED
        BY <1>1, <3>1, <3>2
    <2> QED
      BY <2>1, <2>2 DEF OwnOrder
  <1>18. OnLinks'
    <2> SUFFICES ASSUME NEW m \in sent', NEW l \in Links(m)
                 PROVE  IF Pending(m)' THEN ~Underway(l, m)' ELSE OnePlace(l, m)'
      BY DEF OnLinks
    <2>1. CASE m = x
      <3>1. l \in Link /\ l[2] \in Process
        BY <1>2, <2>1, MessageIs
      <3>2. Pending(m)' /\ ~Underway(l, m)'
        BY <1>2, <1>14, <2>1, <3>1 DEF Pending, Underway
      <3> QED
        BY <3>2
    <2>2. CASE m \in sent
      <3>1. IF Pending(m) THEN ~Underway(l, m) ELSE OnePlace(l, m)
        BY <2>2 DEF OnLinks
      <3>2. Pending(m)' <=> Pending(m)
        BY <1>15, <2>2 DEF Pending
      <3>3. (Underway(l, m)' <=> Underway(l, m)) /\ (OnePlace(l, m)' <=> OnePlace(l, m))
        BY <1>1 DEF Underway, OnePlace
      <3> QED
        BY <3>1, <3>2, <3>3
    <2> QED
      BY <1>1, <2>1, <2>2
  <1>19. NetworkOf!Next
    BY <1>1, <1>2 DEF NetworkOf!Next, NetworkOf!Send
  <1> QED
    BY <1>10, <1>11, <1>12, <1>13, <1>16, <1>17, <1>18, <1>19

\* A message in peerMsgQueue has not been handled there before.
LEMMA NotHandledYet ==
    ASSUME IInv, NEW p \in Process, NEW m \in ToSet(peerMsgQueue[p])
    PROVE  /\ m \in Message /\ m \in sent /\ p \in Dest(m) /\ handled[p][m] = 0
           /\ m \notin arriving[p]
           /\ \A l \in Links(m) : l[2] = p => ~Pending(m) /\ OnePlace(l, m)
  <1> USE DEF IInv
  <1>1. m \in sent /\ p \in Dest(m) /\ m \in Message /\ handled[p][m] \in 0 .. 1
    BY DEF Addressed, Shape
  <1>2. ASSUME NEW l \in Links(m), l[2] = p
        PROVE  ~Pending(m) /\ OnePlace(l, m) /\ ~(handled[p][m] > 0) /\ m \notin arriving[p]
    <2>1. Underway(l, m)
      BY <1>2 DEF Underway
    <2>2. ~Pending(m) /\ OnePlace(l, m)
      BY <1>1, <1>2, <2>1 DEF OnLinks
    <2> QED
      BY <1>2, <2>2 DEF OnePlace, ExactlyOne
  <1>3. CASE p = From(m)
    <2>1. ~(handled[p][m] > 0)
      <3>1. ExactlyOne(m \in ToSet(senderQueue[From(m)]), loop[From(m)] = At("own", m),
                       m \in ToSet(peerMsgQueue[From(m)]), handled[From(m)][m] > 0,
                       FALSE, FALSE, FALSE)
        BY <1>1 DEF OwnPlace
      <3>2. m \in ToSet(peerMsgQueue[From(m)])
        BY <1>3
      <3>3. ~(handled[From(m)][m] > 0)
        BY <3>1, <3>2 DEF ExactlyOne
      <3> QED
        BY <1>3, <3>3
    <2>2. m \notin arriving[p]
      <3>1. m \in arriving[p] => <<From(m), p>> \in Links(m)
        BY DEF Addressed
      <3>2. <<From(m), p>>[2] = From(m)
        BY <1>3
      <3> QED
        BY <1>1, <3>1, <3>2, MessageIs
    <2> QED
      BY <1>1, <1>2, <2>1, <2>2
  <1>4. CASE p # From(m)
    <2>1. <<From(m), p>> \in Links(m)
      BY <1>1, <1>4 DEF Dest, Links
    <2> QED
      BY <1>1, <1>2, <2>1
  <1> QED
    BY <1>3, <1>4

\* receiveRoutine takes a message from peerMsgQueue.
LEMMA HandleMsgStep ==
    ASSUME IInv, NEW p \in Process, HandleMsg(p)
    PROVE  IInv' /\ NetworkOf!Next
  <1> USE DEF IInv
  <1>0. PICK x : x = Head(peerMsgQueue[p])
    OBVIOUS
  <1>1. /\ loop[p] = Select /\ peerMsgQueue[p] # <<>>
        /\ peerMsgQueue' = [peerMsgQueue EXCEPT ![p] = Tail(@)]
        /\ handled' = [handled EXCEPT ![p][x] = @ + 1]
        /\ UNCHANGED <<senderQueue, sending, sendQueue, stream, broken, arriving, sent, lost>>
    BY <1>0 DEF HandleMsg
  <1>2. PICK next \in {Select} \cup {At("queue", m) : m \in NextMessages(p)} :
            loop' = [loop EXCEPT ![p] = next]
    BY DEF HandleMsg
  <1>3. peerMsgQueue[p] \in Queue /\ InOrder(p, peerMsgQueue[p])
    BY DEF Shape, OwnOrder
  <1>4. /\ Tail(peerMsgQueue[p]) \in Queue
        /\ Len(peerMsgQueue[p]) \in Nat
        /\ Len(Tail(peerMsgQueue[p])) = Len(peerMsgQueue[p]) - 1
        /\ x \in ToSet(peerMsgQueue[p]) /\ x \in Message
        /\ ToSet(Tail(peerMsgQueue[p])) = ToSet(peerMsgQueue[p]) \ {x}
    BY <1>0, <1>1, <1>3, TailQueue
  <1>5. /\ x \in sent /\ p \in Dest(x) /\ handled[p][x] = 0
        /\ \A l \in Links(x) : l[2] = p => ~Pending(x) /\ OnePlace(l, x)
    BY <1>4, NotHandledYet
  <1>6. /\ next \in Loops /\ next.step \in {"select", "queue"}
        /\ next.step = "queue" => From(next.msg) = p /\ next.msg[2] = Count(p) + 1
        /\ \A m \in Message : next # At("own", m) /\ loop[p] # At("own", m)
    <2>1. CASE next = Select
      BY <1>1, <2>1, LoopIs
    <2>2. CASE next \in {At("queue", m) : m \in NextMessages(p)}
      <3>1. PICK m \in NextMessages(p) : next = At("queue", m)
        BY <2>2
      <3>2. m \in Message /\ From(m) = p /\ m[2] = Count(p) + 1
        BY NextMessageIs
      <3>3. next \in Loops /\ next.step = "queue" /\ next.msg = m
        BY <3>1, <3>2, LoopIs
      <3>4. \A n \in Message : next # At("own", n) /\ loop[p] # At("own", n)
        BY <1>1, <3>3, LoopIs
      <3> QED
        BY <3>2, <3>3, <3>4
    <2> QED
      BY <2>1, <2>2
  <1>7. /\ peerMsgQueue'[p] = Tail(peerMsgQueue[p]) /\ loop'[p] = next
        /\ \A q \in Process : q # p => peerMsgQueue'[q] = peerMsgQueue[q] /\ loop'[q] = loop[q]
    BY <1>1, <1>2 DEF Shape
  <1>8. handled' = [handled EXCEPT ![p][x] = 1]
    BY <1>1, <1>4, <1>5 DEF Shape
  <1>9. /\ handled'[p][x] = 1
        /\ \A q \in Process : \A m \in Message :
               ~(q = p /\ m = x) => handled'[q][m] = handled[q][m]
    BY <1>4, <1>8 DEF Shape
  <1>10. Shape'
    <2>1. handled' \in [Process -> [Message -> 0 .. 1]]
      BY <1>4, <1>8 DEF Shape
    <2>2. peerMsgQueue' \in [Process -> Queue] /\ loop' \in [Process -> Loops]
      BY <1>1, <1>2, <1>4, <1>6 DEF Shape
    <2> QED
      BY <1>1, <2>1, <2>2 DEF Shape
  <1>11. Capacities'
    <2>1. Len(peerMsgQueue'[p]) <= MsgQueueSize
      BY <1>4, <1>7, PipelineAssumption DEF Capacities, PipelineAssumption
    <2> QED
      BY <1>1, <1>7, <2>1 DEF Capacities
  <1>12. Addressed'
    <2>1. \A q \in Process :
              /\ loop'[q].step # "select" => From(loop'[q].msg) = q
              /\ loop'[q].step \in {"own", "waiting"} => loop'[q].msg \in sent
      BY <1>6, <1>7 DEF Addressed
    <2>2. \A q \in Process : \A m \in ToSet(peerMsgQueue'[q]) : m \in sent /\ q \in Dest(m)
      BY <1>4, <1>7 DEF Addressed
    <2>3. \A q \in Process : \A m \in Message : handled'[q][m] > 0 => m \in sent /\ q \in Dest(m)
      BY <1>5, <1>9 DEF Addressed
    <2> QED
      BY <1>1, <2>1, <2>2, <2>3 DEF Addressed
  <1>13. Numbered'
    <2>1. \A q : Count(q)' = Count(q)
      BY <1>1 DEF Count
    <2>2. \A q \in Process : loop'[q].step = "queue" => loop'[q].msg[2] = Count(q) + 1
      BY <1>6, <1>7 DEF Numbered
    <2> QED
      BY <1>1, <2>1, <2>2 DEF Numbered
  \* The message is handled, and nothing else has moved.
  <1>14. ASSUME NEW m \in sent, NEW q \in Process
         PROVE  /\ m \in ToSet(peerMsgQueue'[q]) <=>
                       m \in ToSet(peerMsgQueue[q]) /\ ~(q = p /\ m = x)
                /\ handled'[q][m] > 0 <=> handled[q][m] > 0 \/ (q = p /\ m = x)
                /\ \A n \in Message : loop'[q] = At("own", n) <=> loop[q] = At("own", n)
    <2>1. m \in Message
      BY DEF Shape
    <2>2. CASE q = p
      <3>1. m \in ToSet(peerMsgQueue'[p]) <=> m \in ToSet(peerMsgQueue[p]) /\ m # x
        BY <1>4, <1>7
      <3>2. handled'[p][m] > 0 <=> handled[p][m] > 0 \/ m = x
        BY <1>9, <2>1
      <3>3. \A n \in Message : loop'[p] = At("own", n) <=> loop[p] = At("own", n)
        BY <1>6, <1>7
      <3> QED
        BY <2>2, <3>1, <3>2, <3>3
    <2>3. CASE q # p
      BY <1>7, <1>9, <2>1, <2>3
    <2> QED
      BY <2>2, <2>3
  <1>15. \A m \in sent : From(m) \in Process /\ m \in Message
    BY MessageIs DEF Shape
  <1>16. OwnPlace'
    <2> SUFFICES ASSUME NEW m \in sent
                 PROVE  ExactlyOne(m \in ToSet(senderQueue'[From(m)]),
                                   loop'[From(m)] = At("own", m),
                                   m \in ToSet(peerMsgQueue'[From(m)]),
                                   handled'[From(m)][m] > 0, FALSE, FALSE, FALSE)
      BY <1>1 DEF OwnPlace
    <2>1. ExactlyOne(m \in ToSet(senderQueue[From(m)]), loop[From(m)] = At("own", m),
                     m \in ToSet(peerMsgQueue[From(m)]), handled[From(m)][m] > 0,
                     FALSE, FALSE, FALSE)
      BY DEF OwnPlace
    <2>2. From(m) = p /\ m = x => m \in ToSet(peerMsgQueue[From(m)])
      BY <1>4
    <2>3. From(m) \in Process /\ m \in Message
      BY <1>15
    <2>4. /\ m \in ToSet(peerMsgQueue'[From(m)]) <=>
                 m \in ToSet(peerMsgQueue[From(m)]) /\ ~(From(m) = p /\ m = x)
          /\ handled'[From(m)][m] > 0 <=> handled[From(m)][m] > 0 \/ (From(m) = p /\ m = x)
          /\ loop'[From(m)] = At("own", m) <=> loop[From(m)] = At("own", m)
      BY <1>14, <2>3
    <2> QED
      BY <1>1, <2>1, <2>2, <2>4 DEF ExactlyOne
  <1>17. OwnOrder'
    <2>1. ASSUME NEW q \in Process
          PROVE  InOrder(q, senderQueue'[q]) /\ InOrder(q, peerMsgQueue'[q])
      BY <1>1, <1>3, <1>7, TailInOrder DEF OwnOrder
    <2>2. ASSUME NEW m \in sent, NEW n \in sent, From(n) = From(m), n[2] < m[2]
          PROVE  LET q == From(m)
                 IN  /\ loop'[q] = At("own", m) => n \notin ToSet(senderQueue'[q])
                     /\ m \in ToSet(peerMsgQueue'[q]) =>
                            n \notin ToSet(senderQueue'[q]) /\ loop'[q] # At("own", n)
                     /\ handled'[q][m] > 0 => handled'[q][n] > 0
      <3>1. /\ loop[From(m)] = At("own", m) => n \notin ToSet(senderQueue[From(m)])
            /\ m \in ToSet(peerMsgQueue[From(m)]) =>
                   n \notin ToSet(senderQueue[From(m)]) /\ loop[From(m)] # At("own", n)
            /\ handled[From(m)][m] > 0 => handled[From(m)][n] > 0
        BY <2>2 DEF OwnOrder
      <3>2. ExactlyOne(n \in ToSet(senderQueue[From(m)]), loop[From(m)] = At("own", n),
                       n \in ToSet(peerMsgQueue[From(m)]), handled[From(m)][n] > 0,
                       FALSE, FALSE, FALSE)
        BY <2>2 DEF OwnPlace
      \* The message that is taken is the first, and so the earlier one is not
      \* behind it.
      <3>3. ASSUME m = x, From(m) = p
            PROVE  handled[From(m)][n] > 0
        <4>1. n \notin ToSet(peerMsgQueue[From(m)])
          BY <1>0, <1>1, <1>3, <2>2, <3>3, TailInOrder
        <4>2. m \in ToSet(peerMsgQueue[From(m)])
          BY <1>4, <3>3
        <4> QED
          BY <3>1, <3>2, <4>1, <4>2 DEF ExactlyOne
      <3>4. From(m) \in Process /\ m \in Message /\ n \in Message
        BY <1>15
      <3>5. /\ m \in ToSet(peerMsgQueue'[From(m)]) => m \in ToSet(peerMsgQueue[From(m)])
            /\ handled'[From(m)][m] > 0 <=> handled[From(m)][m] > 0 \/ (From(m) = p /\ m = x)
            /\ handled[From(m)][n] > 0 => handled'[From(m)][n] > 0
            /\ loop'[From(m)] = At("own", m) <=> loop[From(m)] = At("own", m)
            /\ loop'[From(m)] = At("own", n) <=> loop[From(m)] = At("own", n)
        BY <1>14, <3>4
      <3> QED
        BY <1>1, <3>1, <3>3, <3>5
    <2> QED
      BY <1>1, <2>1, <2>2 DEF OwnOrder
  <1>18. OnLinks'
    <2>1. \A m \in sent : Pending(m)' <=> Pending(m)
      BY <1>1, <1>14, <1>15 DEF Pending
    <2>2. ASSUME NEW l \in Links(x), l[2] = p
          PROVE  OnePlace(l, x)' /\ ~Pending(x)
      <3>1. OnePlace(l, x) /\ ~Pending(x) /\ x \in ToSet(peerMsgQueue[l[2]])
        BY <1>4, <1>5, <2>2
      <3>2. x \notin ToSet(peerMsgQueue'[l[2]]) /\ handled'[l[2]][x] > 0
        BY <1>4, <1>7, <1>9, <2>2
      <3> QED
        BY <1>1, <3>1, <3>2 DEF OnePlace, ExactlyOne
    <2>3. ASSUME NEW m \in sent, NEW l \in Links(m), ~(l[2] = p /\ m = x)
          PROVE  Stays(l, m)
      <3>1. l[2] \in Process
        BY <1>15, MessageIs
      <3>2. /\ m \in ToSet(peerMsgQueue'[l[2]]) <=> m \in ToSet(peerMsgQueue[l[2]])
            /\ handled'[l[2]][m] > 0 <=> handled[l[2]][m] > 0
        BY <1>14, <2>3, <3>1
      <3> QED
        BY <1>1, <3>2 DEF Stays
    <2> QED
      BY <1>1, <2>1, <2>2, <2>3, LinksKept
  <1>19. NetworkOf!Next
    <2>1. NetworkOf!Take(p, x)
      BY <1>1, <1>5, <1>8 DEF NetworkOf!Take
    <2> QED
      BY <1>4, <2>1 DEF NetworkOf!Next
  <1> QED
    BY <1>10, <1>11, <1>12, <1>13, <1>16, <1>17, <1>18, <1>19

-----------------------------------------------------------------------------
LEMMA InitIInv == Init => IInv /\ NetworkOf!Init
  <1> SUFFICES ASSUME Init PROVE IInv /\ NetworkOf!Init
    OBVIOUS
  <1> USE DEF Init
  <1>1. Select \in Loops /\ Select.step = "select"
    BY LoopIs
  <1>2. Shape
    BY <1>1, EmptyQueue, FS_EmptySet DEF Shape
  <1>3. Capacities
    BY EmptyQueue, PipelineAssumption DEF Capacities, PipelineAssumption
  <1>4. Addressed
    BY <1>1, EmptyQueue DEF Addressed
  <1>5. Numbered
    BY <1>1 DEF Numbered
  <1>6. OnLinks /\ OwnPlace
    BY DEF OnLinks, OwnPlace
  <1>7. OwnOrder
    BY EmptySeq DEF OwnOrder, InOrder
  <1> QED
    BY <1>2, <1>3, <1>4, <1>5, <1>6, <1>7 DEF IInv, NetworkOf!Init

\* Every step keeps the invariant, and is a step of the network or none.
LEMMA NextIInv == IInv /\ [Next]_vars => IInv' /\ [NetworkOf!Next]_<<sent, handled>>
  <1> SUFFICES ASSUME IInv, [Next]_vars
               PROVE  IInv' /\ [NetworkOf!Next]_<<sent, handled>>
    OBVIOUS
  <1>1. CASE UNCHANGED vars
    <2>1. Shape' /\ Capacities' /\ Addressed'
      BY <1>1 DEF IInv, Shape, Capacities, Addressed, vars
    <2>2. Numbered' /\ OwnPlace' /\ OwnOrder' /\ \A m \in sent : Pending(m)' <=> Pending(m)
      BY <1>1, LoopsUntouched DEF vars
    <2>3. OnLinks'
      <3>1. \A m \in sent : \A l \in Links(m) : Stays(l, m)
        BY <1>1 DEF Stays, vars
      <3> QED
        BY <1>1, <2>2, <3>1, LinksKept DEF IInv, vars
    <2> QED
      BY <1>1, <2>1, <2>2, <2>3 DEF IInv, vars
  <1>2. CASE \E p \in Process : ReceiveRoutine(p)
    BY <1>2, HandleMsgStep, LocalTimeoutStep, QueueMessageStep, ScheduleStep, PutOwnStep,
       ResultStep DEF ReceiveRoutine
  <1>3. CASE \E l \in Link : \E m \in sending[l] : SendBytes(l, m)
    BY <1>3, EnqueueStep, GiveUpStep DEF SendBytes
  <1>4. CASE \E l \in Link : WriteMsg(l) \/ Break(l) \/ ReadMsg(l)
    BY <1>4, WriteMsgStep, BreakStep, ReadMsgStep
  <1>5. CASE \E p \in Process : \E m \in arriving[p] : HandleFunc(p, m)
    BY <1>5, HandleFuncStep
  <1> QED
    BY <1>1, <1>2, <1>3, <1>4, <1>5 DEF Next

\* receiveRoutine and schedule (state/state.go), sendBytes, sendRoutine and
\* recvRoutine (p2p/conn.go): in every reachable state a message is where it may
\* be, within the room there is, and in order.
THEOREM PipelineInductive == Spec => []IInv
  <1>1. Init => IInv
    BY InitIInv
  <1>2. IInv /\ [Next]_vars => IInv'
    BY NextIInv
  <1> QED
    BY <1>1, <1>2, PTL DEF Spec

\* state/state.go, p2p/conn.go: the queues and the stream hold messages that
\* were sent, and no more of them than they have room for.
THEOREM PipelineTypeCorrect == Spec => []TypeOK
  <1>1. IInv => TypeOK
    <2> SUFFICES ASSUME IInv PROVE TypeOK
      OBVIOUS
    <2> USE DEF IInv
    <2>1. ASSUME NEW p \in Process
          PROVE  /\ \A queue \in {senderQueue[p], peerMsgQueue[p]} :
                        ToSet(queue) \subseteq sent /\ Len(queue) <= MsgQueueSize
                 /\ arriving[p] \subseteq sent
      BY DEF Capacities, Addressed
    <2>2. ASSUME NEW p \in Process
          PROVE  loop[p] = Select \/ loop[p] \in {At("queue", m) : m \in Message}
                                  \/ loop[p] \in {At(s, m) : s \in {"own", "waiting"}, m \in sent}
      <3>1. loop[p] \in Loops
        BY DEF Shape
      <3>2. CASE loop[p] = Select
        BY <3>2
      <3>3. ASSUME NEW step \in {"queue", "own", "waiting"}, NEW m \in Message,
                   loop[p] = At(step, m)
            PROVE  loop[p] \in {At("queue", n) : n \in Message}
                   \/ loop[p] \in {At(s, n) : s \in {"own", "waiting"}, n \in sent}
        <4>1. loop[p].step = step /\ loop[p].msg = m
          BY <3>3, LoopIs
        <4>2. step \in {"own", "waiting"} => m \in sent
          BY <4>1 DEF Addressed
        <4> QED
          BY <3>3, <4>2
      <3> QED
        BY <3>1, <3>2, <3>3 DEF Loops
    <2>3. ASSUME NEW l \in Link
          PROVE  /\ sending[l] \subseteq sent
                 /\ ToSet(sendQueue[l]) \subseteq sent /\ Len(sendQueue[l]) <= SendQueueSize
                 /\ ToSet(stream[l]) \subseteq sent /\ Len(stream[l]) <= StreamSize
                 /\ l \in broken => stream[l] = <<>>
      BY DEF Capacities, Addressed
    <2>4. /\ sent \subseteq Message /\ handled \in [Process -> [Message -> 0 .. 1]]
          /\ broken \subseteq Fragile /\ lost \subseteq sent \X Link
      BY DEF Shape
    <2>5. \A p \in Process :
              /\ \A queue \in {senderQueue[p], peerMsgQueue[p]} :
                     ToSet(queue) \subseteq sent /\ Len(queue) <= MsgQueueSize
              /\ arriving[p] \subseteq sent
              /\ loop[p] = Select \/ loop[p] \in {At("queue", m) : m \in Message}
                                  \/ loop[p] \in {At(s, m) : s \in {"own", "waiting"}, m \in sent}
      BY <2>1, <2>2
    <2> QED
      BY <2>3, <2>4, <2>5 DEF TypeOK
  <1> QED
    BY <1>1, PipelineInductive, PTL

\* schedule, sendBytes, sendRoutine, recvRoutine and HandleFunc: on the way to
\* each addressee a message is in one place, lost or handled included.
THEOREM MessagesInOnePlace == Spec => []OnePlaceEach
  <1>1. IInv => OnePlaceEach
    <2> SUFFICES ASSUME IInv, NEW m \in sent, NEW l \in Links(m)
                 PROVE  Cardinality({i \in DOMAIN Places(l, m) : Places(l, m)[i]}) =
                            IF m \in ToSet(senderQueue[From(m)]) \/ loop[From(m)] = At("own", m)
                            THEN 0 ELSE 1
      BY DEF OnePlaceEach
    <2> DEFINE s == Places(l, m)
    <2>1. DOMAIN s = 1 .. 7
      BY DEF Places
    <2>2. /\ s[1] <=> m \in sending[l]
          /\ s[2] <=> m \in ToSet(sendQueue[l])
          /\ s[3] <=> m \in ToSet(stream[l])
          /\ s[4] <=> <<m, l>> \in lost
          /\ s[5] <=> m \in arriving[l[2]]
          /\ s[6] <=> m \in ToSet(peerMsgQueue[l[2]])
          /\ s[7] <=> handled[l[2]][m] > 0
      BY DEF Places
    <2> HIDE DEF s
    <2>3. IF Pending(m) THEN ~(s[1] \/ s[2] \/ s[3] \/ s[4] \/ s[5] \/ s[6] \/ s[7])
                        ELSE ExactlyOne(s[1], s[2], s[3], s[4], s[5], s[6], s[7])
      BY <2>2 DEF IInv, OnLinks, Underway, OnePlace, ExactlyOne
    <2>4. Cardinality(Holding(s)) = IF Pending(m) THEN 0 ELSE 1
      BY <2>1, <2>3, CountPlaces
    <2> QED
      BY <2>4 DEF Pending, Holding, s
  <1> QED
    BY <1>1, PipelineInductive, PTL

\* schedule puts a process's own messages in peerMsgQueue itself: they are
\* handled in the order in which its handlers queued them.
THEOREM OwnMessagesInOrder == Spec => []OwnInOrder
  <1>1. IInv => OwnInOrder
    BY DEF IInv, OwnOrder, OwnInOrder
  <1> QED
    BY <1>1, PipelineInductive, PTL

\* The queues, connections and goroutines implement the network HotStuff is
\* built on: what is handled was sent, to the process that handles it, and is
\* handled there once.
THEOREM PipelineImplementsNetwork == Spec => NetworkSpec
  <1>1. Init => NetworkOf!Init
    BY InitIInv
  <1>2. IInv /\ [Next]_vars => [NetworkOf!Next]_<<sent, handled>>
    BY NextIInv
  <1> QED
    BY <1>1, <1>2, PipelineInductive, PTL DEF Spec, NetworkSpec, NetworkOf!Spec
=============================================================================
