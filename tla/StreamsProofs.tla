---------------------------- MODULE StreamsProofs -----------------------------
(***************************************************************************)
(* For any number of processes, configurations, dials and faults: a        *)
(* process opens one stream to a peer, and ignores a stream only when the  *)
(* two dialled each other, the stream is broken, or a broken one of the    *)
(* same dialler is read in its place.                                      *)
(***************************************************************************)
EXTENDS Streams, TLAPS

-----------------------------------------------------------------------------
(* The inductive invariant.                                                 *)

LookupShape == lookup \in [Process -> [Process -> {NoStream} \cup Stream]]

\* A stream that is opened and not added yet is that of the one goroutine that
\* dials; one that is read has its dialler's peer looked up ever since.
DialsCounted ==
    /\ \A p \in Process : dialling[p] # p
    /\ \A s \in Stream : near[s] = "looked_up" => dialling[s[1]] = s[2]
    /\ \A s \in Stream :
           near[s] = "read" => lookup[s[1]][s[2]] # NoStream /\ dialling[s[1]] # s[2]
    /\ \A s, t \in Stream :
           s[1] = t[1] /\ near[s] = "looked_up" /\ near[t] = "looked_up" => s = t

\* A dialler's end goes only with its process, and so does the connection.
GoneBroken == \A s \in Stream : near[s] = "gone" => s \in broken

\* A peer is stored with a stream that was opened, and that its listener, if it
\* is stored there, reads.
StoredTaken ==
    \A p, q \in Process :
        lookup[p][q] # NoStream =>
            /\ near[lookup[p][q]] # "none"
            /\ lookup[p][q][2] = p => far[lookup[p][q]] = "read"

\* A listener has only what a dialler opened.
TakenOpened == \A s \in Stream : far[s] # "none" => near[s] # "none"

IInv ==
    TypeOK /\ LookupShape /\ DialsCounted /\ OneDialEach /\ GoneBroken /\ StoredTaken
    /\ TakenOpened /\ IgnoredOnlyIfCrossed

-----------------------------------------------------------------------------
\* A stream is between two different processes, and is not none.
LEMMA StreamEnds ==
    ASSUME NEW s \in Stream
    PROVE  /\ s[1] \in Process /\ s[2] \in Process /\ s[1] # s[2]
           /\ s # NoStream
           /\ s \in Between(s[1], s[2]) /\ s \in Between(s[2], s[1])
  <1>1. PICK p \in Process, q \in Process, k \in 1 .. MaxDials : s = <<p, q, k>>
    BY DEF Stream
  <1>2. s[1] \in Process /\ s[2] \in Process
    BY <1>1
  <1>3. s[1] # s[2]
    BY DEF Stream
  <1>4. s # NoStream
    BY <1>1 DEF NoStream
  <1>5. s \in Between(s[1], s[2]) /\ s \in Between(s[2], s[1])
    BY DEF Between
  <1> QED
    BY <1>2, <1>3, <1>4, <1>5

\* A stream between two processes has them for its ends, one way or the other.
LEMMA BetweenEnds ==
    ASSUME NEW p \in Process, NEW q \in Process, NEW t \in Between(p, q)
    PROVE  /\ t \in Stream
           /\ \/ t[1] = p /\ t[2] = q
              \/ t[1] = q /\ t[2] = p
  <1>1. t \in Stream /\ {t[1], t[2]} = {p, q}
    BY DEF Between
  <1> QED
    BY <1>1

LEMMA InitIInv == Init => IInv
  <1> SUFFICES ASSUME Init PROVE IInv
    OBVIOUS
  <1> USE DEF Init
  <1>1. TypeOK
    BY StreamsAssumption DEF TypeOK, StreamsAssumption
  <1>2. LookupShape
    BY DEF LookupShape
  <1>3. DialsCounted /\ OneDialEach /\ IgnoredOnlyIfCrossed
    BY StreamsAssumption
       DEF DialsCounted, OneDialEach, IgnoredOnlyIfCrossed, StreamsAssumption
  <1>4. GoneBroken
    BY DEF GoneBroken
  <1>5. StoredTaken /\ TakenOpened
    BY DEF StoredTaken, TakenOpened
  <1> QED
    BY <1>1, <1>2, <1>3, <1>4, <1>5 DEF IInv

-----------------------------------------------------------------------------
\* Steps that move a process on.
LEMMA StartIInv ==
    ASSUME IInv, NEW p \in Process, Start(p) \/ LeaveBootstrap(p)
    PROVE  IInv'
  <1> USE DEF IInv, Start, LeaveBootstrap
  <1>1. TypeOK' /\ LookupShape'
    BY DEF TypeOK, LookupShape
  <1>2. DialsCounted' /\ OneDialEach'
    BY DEF DialsCounted, OneDialEach
  <1>3. GoneBroken'
    BY DEF GoneBroken
  <1>4. StoredTaken' /\ TakenOpened'
    BY DEF StoredTaken, TakenOpened
  <1>5. IgnoredOnlyIfCrossed'
    BY DEF IgnoredOnlyIfCrossed, Crossed
  <1> QED
    BY <1>1, <1>2, <1>3, <1>4, <1>5

\* The dialler goes on to the next peer, which is none of those it has looked
\* up.
LEMMA ConnectIInv ==
    ASSUME IInv, NEW p \in Process, NEW q \in Process, Connect(p, q)
    PROVE  IInv'
  <1> USE DEF IInv, Connect
  <1>1. p # q
    BY DEF Targets, ListPeers
  <1>2. table' \in [Process -> SUBSET Process]
    BY <1>1 DEF Acquaint, TypeOK
  <1>3. dialling' \in [Process -> Process \cup {NoProcess}]
    BY DEF TypeOK
  <1>4. TypeOK' /\ LookupShape'
    BY <1>2, <1>3 DEF TypeOK, LookupShape
  <1>5. /\ \A r \in Process \ {p} : dialling'[r] = dialling[r]
        /\ dialling[p] = NoProcess
        /\ \/ dialling'[p] = q /\ lookup[p][q] = NoStream
           \/ dialling'[p] = NoProcess
    BY DEF TypeOK
  <1>6. DialsCounted'
    BY <1>1, <1>5, StreamEnds, StreamsAssumption DEF DialsCounted, StreamsAssumption
  <1>7. OneDialEach'
    BY DEF OneDialEach
  <1>8. GoneBroken'
    BY DEF GoneBroken
  <1>9. StoredTaken' /\ TakenOpened'
    BY DEF StoredTaken, TakenOpened
  <1>10. IgnoredOnlyIfCrossed'
    BY DEF IgnoredOnlyIfCrossed, Crossed
  <1> QED
    BY <1>4, <1>6, <1>7, <1>8, <1>9, <1>10

-----------------------------------------------------------------------------
\* A stream is opened when no other of the dialler's is half way.
LEMMA NewStreamIInv ==
    ASSUME IInv, NEW p \in Process, NewStream(p)
    PROVE  IInv'
  <1> USE DEF IInv
  <1> DEFINE q == dialling[p]
  <1>1. q \in Process /\ Opened(p) = {}
    BY DEF NewStream, TypeOK
  <1>2. PICK k \in 1 .. MaxDials :
            /\ \A j \in 1 .. MaxDials : near[<<p, q, j>>] = "none" <=> j >= k
            /\ near' = [near EXCEPT ![<<p, q, k>>] = "looked_up"]
    BY DEF NewStream
  <1> DEFINE n == <<p, q, k>>
  <1>3. n[1] = p /\ n[2] = q
    OBVIOUS
  <1>4. UNCHANGED <<phase, table, lookup, dialling, far, broken, faults, disturbed>>
    BY DEF NewStream
  <1>5. p # q
    BY DEF DialsCounted
  <1>6. n \in Stream
    BY <1>1, <1>5 DEF Stream
  <1>7. /\ near' \in [Stream -> {"none", "looked_up", "read", "gone"}]
        /\ near'[n] = "looked_up"
        /\ \A s \in Stream : s # n => near'[s] = near[s]
    BY <1>2, <1>6 DEF TypeOK
  <1>8. near[n] = "none"
    BY <1>2, StreamsAssumption DEF StreamsAssumption
  <1>9. \A s \in Stream : s[1] = p => near[s] # "looked_up"
    BY <1>1 DEF Opened
  <1> HIDE DEF n, q
  <1>10. TypeOK' /\ LookupShape'
    BY <1>4, <1>7 DEF TypeOK, LookupShape
  <1>11. DialsCounted'
    <2>1. /\ \A r \in Process : dialling'[r] # r
          /\ \A s \in Stream : near'[s] = "looked_up" => dialling'[s[1]] = s[2]
      BY <1>3, <1>4, <1>7 DEF DialsCounted, q
    <2>2. \A s \in Stream :
              near'[s] = "read" => lookup'[s[1]][s[2]] # NoStream /\ dialling'[s[1]] # s[2]
      BY <1>4, <1>7 DEF DialsCounted
    <2>3. \A s, t \in Stream :
              s[1] = t[1] /\ near'[s] = "looked_up" /\ near'[t] = "looked_up" => s = t
      BY <1>3, <1>7, <1>9 DEF DialsCounted
    <2> QED
      BY <2>1, <2>2, <2>3 DEF DialsCounted
  <1>12. OneDialEach'
    <2>1. \A t \in Stream : t[1] = p /\ t[2] = q => near[t] \notin {"looked_up", "read"}
      BY <1>9 DEF DialsCounted, q
    <2> QED
      BY <2>1, <1>3, <1>7 DEF OneDialEach
  <1>13. GoneBroken'
    BY <1>4, <1>7 DEF GoneBroken
  <1>14. StoredTaken'
    <2>1. \A r, t \in Process : lookup[r][t] # NoStream => lookup[r][t] \in Stream
      BY DEF LookupShape
    <2> QED
      BY <2>1, <1>4, <1>7, <1>8 DEF StoredTaken
  <1>15. IgnoredOnlyIfCrossed' /\ TakenOpened'
    <2>1. \A t \in Stream : near[t] # "none" => near'[t] # "none"
      BY <1>4, <1>7
    <2>2. \A t \in Stream : Crossed(t[1], t[2]) => Crossed(t[1], t[2])'
      BY <2>1 DEF Crossed, Between
    <2> QED
      BY <2>1, <2>2, <1>4 DEF IgnoredOnlyIfCrossed, TakenOpened
  <1> QED
    BY <1>10, <1>11, <1>12, <1>13, <1>14, <1>15

\* NewStream fails: the dialler forgets the peer.
LEMMA NewStreamFailsIInv ==
    ASSUME IInv, NEW p \in Process, NewStreamFails(p)
    PROVE  IInv'
  <1> USE DEF IInv, NewStreamFails
  <1>1. /\ dialling' \in [Process -> Process \cup {NoProcess}]
        /\ dialling'[p] = NoProcess
        /\ \A r \in Process \ {p} : dialling'[r] = dialling[r]
    BY DEF TypeOK
  <1>2. TypeOK' /\ LookupShape'
    BY <1>1 DEF TypeOK, LookupShape
  <1>3. DialsCounted'
    <2>1. \A s \in Stream : s[1] = p => near[s] # "looked_up"
      BY DEF Opened
    <2> QED
      BY <2>1, <1>1, StreamEnds, StreamsAssumption DEF DialsCounted, StreamsAssumption
  <1>4. OneDialEach'
    BY DEF OneDialEach
  <1>5. GoneBroken'
    BY DEF GoneBroken
  <1>6. StoredTaken' /\ TakenOpened' /\ IgnoredOnlyIfCrossed'
    BY DEF StoredTaken, TakenOpened, IgnoredOnlyIfCrossed, Crossed
  <1> QED
    BY <1>2, <1>3, <1>4, <1>5, <1>6

\* The peer is added and the dialler free for the next.
LEMMA AddDialledIInv ==
    ASSUME IInv, NEW s \in Stream, AddDialled(s)
    PROVE  IInv'
  <1> USE DEF IInv
  <1> DEFINE p == s[1]
             q == s[2]
  <1>1. /\ p \in Process /\ q \in Process /\ p # q
        /\ s # NoStream /\ s \in Between(p, q)
    BY StreamEnds
  <1>2. /\ near[s] = "looked_up" /\ dialling[p] = q
        /\ near' = [near EXCEPT ![s] = "read"]
        /\ lookup' = [lookup EXCEPT ![p][q] = s]
        /\ dialling' = [dialling EXCEPT ![p] = NoProcess]
        /\ UNCHANGED <<phase, table, far, broken, faults, disturbed>>
    BY DEF AddDialled, Opened, DialsCounted
  <1> HIDE DEF p, q
  <1>3. /\ near' \in [Stream -> {"none", "looked_up", "read", "gone"}]
        /\ near'[s] = "read"
        /\ \A t \in Stream : t # s => near'[t] = near[t]
    BY <1>2 DEF TypeOK
  <1>4. /\ dialling' \in [Process -> Process \cup {NoProcess}]
        /\ dialling'[p] = NoProcess
        /\ \A r \in Process : r # p => dialling'[r] = dialling[r]
    BY <1>1, <1>2 DEF TypeOK
  <1>5. /\ lookup' \in [Process -> [Process -> {NoStream} \cup Stream]]
        /\ lookup'[p][q] = s
        /\ \A r, t \in Process : r # p \/ t # q => lookup'[r][t] = lookup[r][t]
    BY <1>1, <1>2 DEF LookupShape
  <1>6. TypeOK' /\ LookupShape'
    BY <1>1, <1>2, <1>3, <1>4, <1>5 DEF TypeOK, LookupShape
  <1>7. DialsCounted'
    <2>1. \A t \in Stream : t[1] = p /\ near[t] = "looked_up" => t = s
      BY <1>2 DEF DialsCounted, p
    <2>2. /\ \A r \in Process : dialling'[r] # r
          /\ \A t \in Stream : near'[t] = "looked_up" => dialling'[t[1]] = t[2]
      BY <2>1, <1>3, <1>4, StreamEnds, StreamsAssumption DEF DialsCounted, StreamsAssumption
    <2>3. \A t \in Stream :
              near'[t] = "read" => lookup'[t[1]][t[2]] # NoStream /\ dialling'[t[1]] # t[2]
      <3> SUFFICES ASSUME NEW t \in Stream, near'[t] = "read"
                   PROVE  lookup'[t[1]][t[2]] # NoStream /\ dialling'[t[1]] # t[2]
        OBVIOUS
      <3>1. t[1] \in Process /\ t[2] \in Process
        BY StreamEnds
      <3>2. lookup'[t[1]][t[2]] # NoStream
        BY <3>1, <1>1, <1>3, <1>5 DEF DialsCounted, p, q
      <3>3. dialling'[t[1]] # t[2]
        BY <3>1, <1>3, <1>4, StreamsAssumption DEF DialsCounted, StreamsAssumption, p
      <3> QED
        BY <3>2, <3>3
    <2>4. \A t, u \in Stream :
              t[1] = u[1] /\ near'[t] = "looked_up" /\ near'[u] = "looked_up" => t = u
      BY <1>3 DEF DialsCounted
    <2> QED
      BY <2>2, <2>3, <2>4 DEF DialsCounted
  <1>8. OneDialEach'
    BY <1>2, <1>3 DEF OneDialEach
  <1>9. GoneBroken'
    BY <1>2, <1>3 DEF GoneBroken
  <1>10. StoredTaken'
    <2>1. \A r, t \in Process : lookup[r][t] # NoStream => lookup[r][t] \in Stream
      BY DEF LookupShape
    <2> SUFFICES ASSUME NEW r \in Process, NEW t \in Process, lookup'[r][t] # NoStream
                 PROVE  /\ near'[lookup'[r][t]] # "none"
                        /\ lookup'[r][t][2] = r => far'[lookup'[r][t]] = "read"
      BY DEF StoredTaken
    <2>2. CASE r = p /\ t = q
      BY <2>2, <1>1, <1>3, <1>5 DEF q
    <2>3. CASE r # p \/ t # q
      BY <2>1, <2>3, <1>2, <1>3, <1>5 DEF StoredTaken
    <2> QED
      BY <2>2, <2>3
  <1>11. IgnoredOnlyIfCrossed' /\ TakenOpened'
    <2>1. \A t \in Stream : near[t] # "none" => near'[t] # "none"
      BY <1>2, <1>3
    <2>2. \A t \in Stream : Crossed(t[1], t[2]) => Crossed(t[1], t[2])'
      BY <2>1 DEF Crossed, Between
    <2> QED
      BY <2>1, <2>2, <1>2 DEF IgnoredOnlyIfCrossed, TakenOpened
  <1> QED
    BY <1>6, <1>7, <1>8, <1>9, <1>10, <1>11

-----------------------------------------------------------------------------
\* A listener that finds a stream in place ignores the new one.  The stream in
\* place is its own, and the two have dialled each other; or it is one of the
\* same dialler, and as a dialler has one open, one of the two is broken.
LEMMA HandleStreamIInv ==
    ASSUME IInv, NEW s \in Stream, HandleStream(s)
    PROVE  IInv'
  <1> USE DEF IInv
  <1> DEFINE p == s[1]
             q == s[2]
  <1>1. /\ p \in Process /\ q \in Process /\ p # q
        /\ s # NoStream /\ s \in Between(p, q) /\ s \in Between(q, p)
    BY StreamEnds
  <1>2. /\ near[s] # "none" /\ far[s] = "none"
        /\ far' = [far EXCEPT ![s] =
               IF lookup[q][p] # NoStream THEN "ignored" ELSE "looked_up"]
        /\ UNCHANGED <<phase, table, lookup, dialling, near, broken, faults, disturbed>>
    BY DEF HandleStream
  <1> HIDE DEF p, q
  <1>3. /\ far' \in [Stream -> {"none", "looked_up", "read", "ignored", "gone"}]
        /\ far'[s] = IF lookup[q][p] # NoStream THEN "ignored" ELSE "looked_up"
        /\ far'[s] # "none"
        /\ \A t \in Stream : t # s => far'[t] = far[t]
    BY <1>2 DEF TypeOK
  <1>4. TypeOK' /\ LookupShape'
    BY <1>2, <1>3 DEF TypeOK, LookupShape
  <1>5. DialsCounted' /\ OneDialEach'
    BY <1>2 DEF DialsCounted, OneDialEach
  <1>6. GoneBroken'
    BY <1>2 DEF GoneBroken
  <1>7. StoredTaken'
    <2>1. \A r, t \in Process : lookup[r][t] # NoStream => lookup[r][t] \in Stream
      BY DEF LookupShape
    <2> QED
      BY <2>1, <1>2, <1>3 DEF StoredTaken
  <1>8. TakenOpened'
    BY <1>2, <1>3 DEF TakenOpened
  <1>9. lookup[q][p] # NoStream =>
            \/ Crossed(p, q)
            \/ s \in broken
            \/ \E t \in broken : t # s /\ t[1] = p /\ t[2] = q /\ far[t] = "read"
    <2> SUFFICES ASSUME lookup[q][p] # NoStream, ~Crossed(p, q), s \notin broken
                 PROVE  \E t \in broken : t # s /\ t[1] = p /\ t[2] = q /\ far[t] = "read"
      OBVIOUS
    <2> DEFINE t == lookup[q][p]
    <2>1. t \in Between(q, p)
      BY <1>1 DEF TypeOK
    <2>2. t \in Stream /\ t \in Between(p, q)
      BY <2>1 DEF Between
    <2>3. near[t] # "none"
      BY <1>1 DEF StoredTaken
    <2>4. t[2] = q => far[t] = "read"
      BY <1>1 DEF StoredTaken
    <2> HIDE DEF t
    <2>5. ~(t[1] = q)
      BY <2>2, <2>3, <1>1, <1>2 DEF Crossed, p
    <2>6. t[1] = p /\ t[2] = q
      BY <2>1, <2>5, <1>1, BetweenEnds
    <2>7. t # s
      BY <2>4, <2>6, <1>2
    <2>8. near[s] = "gone" \/ near[t] = "gone"
      BY <2>2, <2>3, <2>6, <2>7, <1>2 DEF OneDialEach, TypeOK, p, q
    <2>9. t \in broken
      BY <2>2, <2>8 DEF GoneBroken
    <2> QED
      BY <2>4, <2>6, <2>7, <2>9
  <1>10. IgnoredOnlyIfCrossed'
    <2> SUFFICES ASSUME NEW u \in Stream, far'[u] = "ignored"
                 PROVE  \/ Crossed(u[1], u[2])'
                        \/ u \in broken'
                        \/ \E t \in broken' : t[1] = u[1] /\ t[2] = u[2] /\ far'[t] = "read"
      BY DEF IgnoredOnlyIfCrossed
    <2>1. Crossed(u[1], u[2])' <=> Crossed(u[1], u[2])
      BY <1>2 DEF Crossed
    <2>2. broken' = broken /\ broken \subseteq Stream
      BY <1>2 DEF TypeOK
    <2>3. CASE u = s
      BY <2>1, <2>2, <2>3, <1>3, <1>9 DEF p, q
    <2>4. CASE u # s
      <3>1. far[u] = "ignored"
        BY <2>4, <1>3
      <3>2. \A t \in broken : far[t] = "read" => far'[t] = "read"
        BY <2>2, <1>2, <1>3
      <3> QED
        BY <2>1, <2>2, <3>1, <3>2 DEF IgnoredOnlyIfCrossed
    <2> QED
      BY <2>3, <2>4
  <1> QED
    BY <1>4, <1>5, <1>6, <1>7, <1>8, <1>10

\* The listener adds the dialler and reads its stream.
LEMMA AddHandledIInv ==
    ASSUME IInv, NEW s \in Stream, AddHandled(s)
    PROVE  IInv'
  <1> USE DEF IInv
  <1> DEFINE p == s[1]
             q == s[2]
  <1>1. /\ p \in Process /\ q \in Process /\ p # q
        /\ s # NoStream /\ s \in Between(q, p)
    BY StreamEnds
  <1>2. /\ far[s] = "looked_up"
        /\ far' = [far EXCEPT ![s] = "read"]
        /\ lookup' = [lookup EXCEPT ![q][p] = s]
        /\ UNCHANGED <<phase, table, dialling, near, broken, faults, disturbed>>
    BY DEF AddHandled
  <1>3. near[s] # "none"
    BY <1>2 DEF TakenOpened
  <1> HIDE DEF p, q
  <1>4. /\ far' \in [Stream -> {"none", "looked_up", "read", "ignored", "gone"}]
        /\ far'[s] = "read"
        /\ \A t \in Stream : t # s => far'[t] = far[t]
    BY <1>2 DEF TypeOK
  <1>5. /\ lookup' \in [Process -> [Process -> {NoStream} \cup Stream]]
        /\ lookup'[q][p] = s
        /\ \A r, t \in Process : r # q \/ t # p => lookup'[r][t] = lookup[r][t]
    BY <1>1, <1>2 DEF LookupShape
  <1>6. TypeOK' /\ LookupShape'
    BY <1>1, <1>2, <1>4, <1>5 DEF TypeOK, LookupShape
  <1>7. DialsCounted'
    <2>1. \A r, t \in Process : lookup[r][t] # NoStream => lookup'[r][t] # NoStream
      BY <1>1, <1>5
    <2> QED
      BY <2>1, <1>2, StreamEnds DEF DialsCounted
  <1>8. OneDialEach' /\ GoneBroken'
    BY <1>2 DEF OneDialEach, GoneBroken
  <1>9. StoredTaken'
    <2>1. \A r, t \in Process : lookup[r][t] # NoStream => lookup[r][t] \in Stream
      BY DEF LookupShape
    <2> SUFFICES ASSUME NEW r \in Process, NEW t \in Process, lookup'[r][t] # NoStream
                 PROVE  /\ near'[lookup'[r][t]] # "none"
                        /\ lookup'[r][t][2] = r => far'[lookup'[r][t]] = "read"
      BY DEF StoredTaken
    <2>2. CASE r = q /\ t = p
      BY <2>2, <1>2, <1>3, <1>4, <1>5
    <2>3. CASE r # q \/ t # p
      BY <2>1, <2>3, <1>2, <1>4, <1>5 DEF StoredTaken
    <2> QED
      BY <2>2, <2>3
  <1>10. TakenOpened'
    BY <1>2, <1>3, <1>4 DEF TakenOpened
  <1>11. IgnoredOnlyIfCrossed'
    <2>1. broken \subseteq Stream
      BY DEF TypeOK
    <2>2. \A t \in Stream : far'[t] = "ignored" => far[t] = "ignored"
      BY <1>4
    <2>3. \A t \in broken : far[t] = "read" => far'[t] = "read"
      BY <2>1, <1>4
    <2> QED
      BY <2>2, <2>3, <1>2 DEF IgnoredOnlyIfCrossed, Crossed
  <1> QED
    BY <1>6, <1>7, <1>8, <1>9, <1>10, <1>11

-----------------------------------------------------------------------------
\* A process dies, and with it what it knew and every connection it had.
LEMMA CrashIInv ==
    ASSUME IInv, NEW p \in Process, Crash(p)
    PROVE  IInv'
  <1> USE DEF IInv
  <1>1. /\ faults < MaxFaults /\ faults' = faults + 1
        /\ disturbed' = disturbed \cup Acquainted(p)
        /\ phase' = [phase EXCEPT ![p] = "down"]
        /\ lookup' = [lookup EXCEPT ![p] = [q \in Process |-> NoStream]]
        /\ dialling' = [dialling EXCEPT ![p] = NoProcess]
        /\ near' = [s \in Stream |->
               IF s[1] = p /\ near[s] # "none" THEN "gone" ELSE near[s]]
        /\ far' = [s \in Stream |->
               IF s[2] = p /\ near[s] # "none" THEN "gone" ELSE far[s]]
        /\ broken' = broken \cup UNION {Used(p, q) : q \in Process \ {p}}
    BY DEF Crash
  <1>2. PICK forgetting \in SUBSET (Process \ {p}) :
            table' = [q \in Process |->
                CASE q = p -> {}
                  [] q \in forgetting -> table[q] \ {p}
                  [] OTHER -> table[q]]
    BY DEF Crash
  <1>3. table' \in [Process -> SUBSET Process]
    <2>1. \A r \in Process : table[r] \in SUBSET Process
      BY DEF TypeOK
    <2>2. \A r \in Process : table'[r] \in SUBSET Process
      BY <2>1, <1>2
    <2>3. table' = [r \in Process |-> table'[r]]
      BY <1>2
    <2> QED
      BY <2>2, <2>3
  <1>4. /\ dialling' \in [Process -> Process \cup {NoProcess}]
        /\ dialling'[p] = NoProcess
        /\ \A r \in Process : r # p => dialling'[r] = dialling[r]
    BY <1>1 DEF TypeOK
  <1>5. /\ lookup' \in [Process -> [Process -> {NoStream} \cup Stream]]
        /\ \A r \in Process : lookup'[p][r] = NoStream
        /\ \A r, t \in Process : r # p => lookup'[r][t] = lookup[r][t]
    BY <1>1 DEF LookupShape
  <1>6. /\ near' \in [Stream -> {"none", "looked_up", "read", "gone"}]
        /\ \A s \in Stream : /\ near[s] = "none" <=> near'[s] = "none"
                             /\ s[1] # p => near'[s] = near[s]
                             /\ s[1] = p => near'[s] \in {"none", "gone"}
    BY <1>1 DEF TypeOK
  <1>7. /\ far' \in [Stream -> {"none", "looked_up", "read", "ignored", "gone"}]
        /\ \A s \in Stream : /\ s[2] # p => far'[s] = far[s]
                             /\ far'[s] = far[s] \/ (far'[s] = "gone" /\ near[s] # "none")
    BY <1>1 DEF TypeOK
  <1>8. TypeOK' /\ LookupShape'
    <2>1. broken' \subseteq Stream
      BY <1>1 DEF TypeOK, Used, Between
    <2>2. faults' \in 0 .. MaxFaults
      BY <1>1, StreamsAssumption DEF TypeOK, StreamsAssumption
    <2>3. \A r, t \in Process : lookup'[r][t] \in {NoStream} \cup Between(r, t)
      BY <1>5 DEF TypeOK
    <2>4. phase' \in [Process -> {"down", "bootstrap", "accept"}]
      BY <1>1 DEF TypeOK
    <2> QED
      BY <2>1, <2>2, <2>3, <2>4, <1>3, <1>4, <1>5, <1>6, <1>7 DEF TypeOK, LookupShape
  <1>9. DialsCounted'
    <2>1. \A s \in Stream :
              near'[s] \in {"looked_up", "read"} => s[1] # p /\ near'[s] = near[s]
      BY <1>6
    <2>2. /\ \A r \in Process : dialling'[r] # r
          /\ \A s \in Stream : near'[s] = "looked_up" => dialling'[s[1]] = s[2]
      BY <2>1, <1>4, StreamEnds, StreamsAssumption DEF DialsCounted, StreamsAssumption
    <2>3. \A s \in Stream :
              near'[s] = "read" => lookup'[s[1]][s[2]] # NoStream /\ dialling'[s[1]] # s[2]
      BY <2>1, <1>4, <1>5, StreamEnds DEF DialsCounted
    <2>4. \A s, t \in Stream :
              s[1] = t[1] /\ near'[s] = "looked_up" /\ near'[t] = "looked_up" => s = t
      BY <2>1 DEF DialsCounted
    <2> QED
      BY <2>2, <2>3, <2>4 DEF DialsCounted
  <1>10. OneDialEach'
    BY <1>6 DEF OneDialEach
  <1>11. \A s \in Stream : s[1] = p /\ near[s] # "none" => s \in broken'
    BY <1>1, StreamEnds DEF Used
  <1>12. GoneBroken'
    BY <1>1, <1>6, <1>11 DEF GoneBroken
  <1>13. StoredTaken'
    <2> SUFFICES ASSUME NEW r \in Process, NEW t \in Process, lookup'[r][t] # NoStream
                 PROVE  /\ near'[lookup'[r][t]] # "none"
                        /\ lookup'[r][t][2] = r => far'[lookup'[r][t]] = "read"
      BY DEF StoredTaken
    <2>1. r # p /\ lookup'[r][t] = lookup[r][t]
      BY <1>5
    <2>2. lookup[r][t] \in Stream
      BY <2>1 DEF LookupShape
    <2> QED
      BY <2>1, <2>2, <1>6, <1>7 DEF StoredTaken
  <1>14. TakenOpened'
    BY <1>6, <1>7 DEF TakenOpened
  <1>15. IgnoredOnlyIfCrossed'
    <2> SUFFICES ASSUME NEW s \in Stream, far'[s] = "ignored"
                 PROVE  \/ Crossed(s[1], s[2])'
                        \/ s \in broken'
                        \/ \E t \in broken' : t[1] = s[1] /\ t[2] = s[2] /\ far'[t] = "read"
      BY DEF IgnoredOnlyIfCrossed
    <2>1. far[s] = "ignored" /\ near[s] # "none"
      BY <1>7 DEF TakenOpened
    <2>2. s[2] # p
      BY <2>1, <1>1
    <2>3. broken \subseteq broken' /\ broken \subseteq Stream
      BY <1>1 DEF TypeOK
    <2>4. Crossed(s[1], s[2]) => Crossed(s[1], s[2])'
      BY <1>6 DEF Crossed, Between
    <2>5. \A t \in broken : t[2] = s[2] => far'[t] = far[t]
      BY <2>2, <2>3, <1>7
    <2> QED
      BY <2>1, <2>3, <2>4, <2>5 DEF IgnoredOnlyIfCrossed
  <1> QED
    BY <1>8, <1>9, <1>10, <1>12, <1>13, <1>14, <1>15

\* The connection of two processes is lost: their streams stay where they are.
LEMMA DisconnectIInv ==
    ASSUME IInv, NEW p \in Process, NEW q \in Process, Disconnect(p, q)
    PROVE  IInv'
  <1> USE DEF IInv, Disconnect
  <1>1. broken' \subseteq Stream
    BY DEF TypeOK, Used, Between
  <1>2. faults' \in 0 .. MaxFaults
    BY StreamsAssumption DEF TypeOK, StreamsAssumption
  <1>3. TypeOK' /\ LookupShape'
    BY <1>1, <1>2 DEF TypeOK, LookupShape
  <1>4. DialsCounted' /\ OneDialEach'
    BY DEF DialsCounted, OneDialEach
  <1>5. GoneBroken'
    BY DEF GoneBroken
  <1>6. StoredTaken' /\ TakenOpened'
    BY DEF StoredTaken, TakenOpened
  <1>7. IgnoredOnlyIfCrossed'
    BY DEF IgnoredOnlyIfCrossed, Crossed
  <1> QED
    BY <1>3, <1>4, <1>5, <1>6, <1>7

-----------------------------------------------------------------------------
\* Every step keeps the invariant.
LEMMA NextIInv == IInv /\ [Next]_vars => IInv'
  <1> SUFFICES ASSUME IInv, [Next]_vars PROVE IInv'
    OBVIOUS
  <1>1. CASE UNCHANGED vars
    BY <1>1 DEF vars, IInv, TypeOK, LookupShape, DialsCounted, OneDialEach, GoneBroken,
                StoredTaken, TakenOpened, IgnoredOnlyIfCrossed, Crossed
  <1>2. ASSUME NEW p \in Process, Start(p) \/ LeaveBootstrap(p) PROVE IInv'
    BY <1>2, StartIInv
  <1>3. ASSUME NEW p \in Process, NewStream(p) PROVE IInv'
    BY <1>3, NewStreamIInv
  <1>4. ASSUME NEW p \in Process, NewStreamFails(p) PROVE IInv'
    BY <1>4, NewStreamFailsIInv
  <1>5. ASSUME NEW p \in Process, Crash(p) PROVE IInv'
    BY <1>5, CrashIInv
  <1>6. ASSUME NEW p \in Process, NEW q \in Process, Connect(p, q) PROVE IInv'
    BY <1>6, ConnectIInv
  <1>7. ASSUME NEW p \in Process, NEW q \in Process, Disconnect(p, q) PROVE IInv'
    BY <1>7, DisconnectIInv
  <1>8. ASSUME NEW s \in Stream, AddDialled(s) PROVE IInv'
    BY <1>8, AddDialledIInv
  <1>9. ASSUME NEW s \in Stream, HandleStream(s) PROVE IInv'
    BY <1>9, HandleStreamIInv
  <1>10. ASSUME NEW s \in Stream, AddHandled(s) PROVE IInv'
    BY <1>10, AddHandledIInv
  <1> QED
    BY <1>1, <1>2, <1>3, <1>4, <1>5, <1>6, <1>7, <1>8, <1>9, <1>10 DEF Next

\* The diallers' bookkeeping and what faults leave behind are as IInv says.
THEOREM StreamsInductive == Spec => []IInv
  BY InitIInv, NextIInv, PTL DEF Spec

\* p2p/switch.go: every variable keeps to its range; a peer is stored with a
\* stream between the two.
THEOREM StreamsTypeCorrect == Spec => []TypeOK
  <1>1. IInv => TypeOK
    BY DEF IInv
  <1> QED
    BY <1>1, StreamsInductive, PTL

\* dialPeersAsync: a process has one stream open to a peer in its life, however
\* many processes there are and however often the loops come round.
THEOREM OneDial == Spec => []OneDialEach
  <1>1. IInv => OneDialEach
    BY DEF IInv
  <1> QED
    BY <1>1, StreamsInductive, PTL

\* handleStream: a stream is left unread only if its two ends dialled each other,
\* it is broken, or a broken stream of the same dialler is read in its place.
THEOREM IgnoredOnlyCrossed == Spec => []IgnoredOnlyIfCrossed
  <1>1. IInv => IgnoredOnlyIfCrossed
    BY DEF IInv
  <1> QED
    BY <1>1, StreamsInductive, PTL
=============================================================================
