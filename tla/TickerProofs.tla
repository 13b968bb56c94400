---------------------------- MODULE TickerProofs -----------------------------
(***************************************************************************)
(* The ticker with its channels, its time.Timer and its goroutines is the  *)
(* timer RoundTimer specifies, for any sizes of the channels and any       *)
(* number of expiries under way: no tick takes the timer back, no tock     *)
(* announces a round but the current one, and no tock is for an earlier    *)
(* round than the one whose timer expired.                                 *)
(***************************************************************************)
EXTENDS Ticker, SequenceTheorems, TLAPS

Round == StartingRound .. MaxRound

\* The tocks that may be under way when timeoutRoutine is at round r, and the
\* expiries.
ExpiriesUpTo(r) == {e \in Round \cup {0} : e <= r}
TocksUpTo(r) ==
    {t \in [round : Round \cup {0}, expired : Round \cup {0}] :
        t.expired <= t.round /\ t.round <= r}

-----------------------------------------------------------------------------
(* The inductive invariant.                                                 *)

\* An expiry has left the timer at the round timeoutRoutine has, or an earlier
\* one, and so has a tock.
TocksBehind ==
    /\ fired \subseteq ExpiriesUpTo(ti)
    /\ late \in Seq(ExpiriesUpTo(ti))
    /\ sending \in Seq(TocksUpTo(ti))
    /\ tockChan \in Seq(TocksUpTo(ti))

\* The replica has been in every round that is scheduled, and one of them is
\* the latest.
ScheduledReached == \A r \in Scheduled : r <= current
OneIsLatest == \E r \in Scheduled : \A s \in Scheduled : s <= r

\* Each of the two goroutines sends one round at a time on tickChan.
OneAtATime ==
    /\ ~started => starting = {}
    /\ \A r, s \in starting : r = s
    /\ \A r, s \in scheduling : r = s

IInv == TypeOK /\ TocksBehind /\ OneAtATime /\ ScheduledReached /\ OneIsLatest

\* Both are what TypeOK says they are.
LEMMA UpToTypes ==
    ASSUME NEW r
    PROVE  /\ \A s \in Seq(ExpiriesUpTo(r)) : s \in Seq(Round \cup {0})
           /\ \A s \in Seq(TocksUpTo(r)) :
                  s \in Seq([round : Round \cup {0}, expired : Round \cup {0}])
  <1>1. /\ ExpiriesUpTo(r) \subseteq Round \cup {0}
        /\ TocksUpTo(r) \subseteq [round : Round \cup {0}, expired : Round \cup {0}]
    BY DEF ExpiriesUpTo, TocksUpTo
  <1> QED
    BY <1>1, SeqMonotonic

-----------------------------------------------------------------------------
(* Channels.                                                                *)

Elements(s) == {s[i] : i \in DOMAIN s}

LEMMA AppendElements ==
    ASSUME NEW S, NEW s \in Seq(S), NEW e \in S
    PROVE  /\ Append(s, e) \in Seq(S)
           /\ Len(Append(s, e)) = Len(s) + 1
           /\ Elements(Append(s, e)) = Elements(s) \cup {e}
  <1>1. /\ Append(s, e) \in Seq(S)
        /\ Len(Append(s, e)) = Len(s) + 1
        /\ \A i \in 1 .. Len(s) : Append(s, e)[i] = s[i]
        /\ Append(s, e)[Len(s) + 1] = e
    BY AppendProperties
  <1>2. /\ Len(s) \in Nat
        /\ DOMAIN s = 1 .. Len(s) /\ DOMAIN Append(s, e) = 1 .. (Len(s) + 1)
    BY <1>1, LenProperties
  <1>3. 1 .. (Len(s) + 1) = (1 .. Len(s)) \cup {Len(s) + 1}
    BY <1>2
  <1> QED
    BY <1>1, <1>2, <1>3 DEF Elements

LEMMA TailElements ==
    ASSUME NEW S, NEW s \in Seq(S), s # <<>>
    PROVE  /\ Tail(s) \in Seq(S)
           /\ Head(s) \in S
           /\ Len(s) \in Nat /\ Len(Tail(s)) = Len(s) - 1
           /\ Elements(s) = Elements(Tail(s)) \cup {Head(s)}
  <1>1. /\ Head(s) \in S /\ Tail(s) \in Seq(S)
        /\ Len(Tail(s)) = Len(s) - 1
        /\ \A i \in 1 .. Len(Tail(s)) : Tail(s)[i] = s[i + 1]
    BY HeadTailProperties
  <1>2. /\ Len(s) \in Nat \ {0}
        /\ DOMAIN s = 1 .. Len(s) /\ DOMAIN Tail(s) = 1 .. (Len(s) - 1)
    BY <1>1, LenProperties, EmptySeq
  <1>3. Head(s) = s[1]
    OBVIOUS
  <1>4. \A i \in 2 .. Len(s) : i - 1 \in 1 .. (Len(s) - 1) /\ Tail(s)[i - 1] = s[i]
    BY <1>1, <1>2
  <1>5. Elements(s) \subseteq Elements(Tail(s)) \cup {Head(s)}
    <2> SUFFICES ASSUME NEW i \in 1 .. Len(s)
                 PROVE  s[i] \in Elements(Tail(s)) \cup {Head(s)}
      BY <1>2 DEF Elements
    <2>1. CASE i = 1
      BY <2>1, <1>3
    <2>2. CASE i \in 2 .. Len(s)
      BY <2>2, <1>2, <1>4 DEF Elements
    <2> QED
      BY <2>1, <2>2, <1>2
  <1>6. Elements(Tail(s)) \cup {Head(s)} \subseteq Elements(s)
    <2>1. \A i \in 1 .. (Len(s) - 1) : i + 1 \in 1 .. Len(s) /\ Tail(s)[i] = s[i + 1]
      BY <1>1, <1>2
    <2>2. 1 \in 1 .. Len(s)
      BY <1>2
    <2> QED
      BY <1>2, <1>3, <2>1, <2>2 DEF Elements
  <1> QED
    BY <1>1, <1>2, <1>5, <1>6

LEMMA WithoutSeq ==
    ASSUME NEW S, NEW s \in Seq(S), NEW i \in DOMAIN s
    PROVE  Without(s, i) \in Seq(S) /\ s[i] \in S
  <1>1. Len(s) \in Nat /\ DOMAIN s = 1 .. Len(s) /\ i \in 1 .. Len(s)
    BY LenProperties
  <1>2. SubSeq(s, 1, i - 1) \in Seq(S)
    BY <1>1, SubSeqProperties
  <1>3. SubSeq(s, i + 1, Len(s)) \in Seq(S)
    BY <1>1, SubSeqProperties
  <1>4. s[i] \in S
    BY <1>1, ElementOfSeq
  <1> QED
    BY <1>2, <1>3, <1>4, ConcatProperties DEF Without

-----------------------------------------------------------------------------
(* The latest round that is scheduled.                                      *)

LEMMA LatestIsUnique ==
    ASSUME NEW S, S \subseteq Int, NEW r \in S, \A s \in S : s <= r
    PROVE  (CHOOSE q \in S : \A s \in S : s <= q) = r
  <1> DEFINE c == CHOOSE q \in S : \A s \in S : s <= q
  <1>1. c \in S /\ \A s \in S : s <= c
    OBVIOUS
  <1>2. c <= r /\ r <= c /\ c \in Int /\ r \in Int
    BY <1>1
  <1> QED
    BY <1>2

LEMMA Rounds ==
    /\ StartingRound \in Round /\ 0 \notin Round
    /\ \A r \in Round : r \in Nat /\ r # 0
  BY TickerAssumption DEF TickerAssumption, Round, StartingRound

LEMMA ArmedIsLatest ==
    ASSUME IInv
    PROVE  /\ Armed \in Scheduled
           /\ \A s \in Scheduled : s <= Armed
           /\ Scheduled \subseteq Round \cup {0}
           /\ Scheduled \subseteq Int
           /\ Armed \in Round /\ current \in Round /\ Armed <= current
  <1> USE DEF IInv
  <1>1. \A i \in DOMAIN tickChan : tickChan[i] \in Round
    BY LenProperties, ElementOfSeq DEF TypeOK, Round
  <1>2. Scheduled \subseteq Round \cup {0}
    BY <1>1, Rounds DEF TypeOK, Scheduled, Round
  <1>3. Scheduled \subseteq Int
    BY <1>2, Rounds
  <1>4. Armed \in Scheduled /\ \A s \in Scheduled : s <= Armed
    BY DEF OneIsLatest, Armed
  <1>5. StartingRound \in Scheduled
    BY DEF Scheduled
  <1>6. Armed # 0
    BY <1>4, <1>5, Rounds
  <1>7. current \in Round
    BY DEF TypeOK, Round
  <1> QED
    BY <1>2, <1>3, <1>4, <1>6, <1>7 DEF ScheduledReached

\* The rounds scheduled, channel by channel.
LEMMA ScheduledIs ==
    /\ Scheduled = {StartingRound, ti} \cup scheduling \cup starting \cup Elements(tickChan)
    /\ Scheduled' = {StartingRound, ti'} \cup scheduling' \cup starting' \cup Elements(tickChan')
  BY DEF Scheduled, Elements

\* A step that leaves the latest scheduled round what it is.
LEMMA ArmedStays ==
    ASSUME IInv, Armed \in Scheduled', Scheduled' \subseteq Scheduled
    PROVE  Armed' = Armed /\ OneIsLatest'
  <1>1. /\ \A s \in Scheduled' : s <= Armed
        /\ Scheduled' \subseteq Int
    BY ArmedIsLatest
  <1>2. (CHOOSE q \in Scheduled' : \A s \in Scheduled' : s <= q) = Armed
    BY <1>1, LatestIsUnique
  <1> QED
    BY <1>1, <1>2 DEF Armed, OneIsLatest

\* A step that schedules a round: the timer is armed for it, unless it is armed
\* for a later one.
LEMMA ArmedMoves ==
    ASSUME IInv, NEW r \in Round, Scheduled' = Scheduled \cup {r}
    PROVE  /\ Armed' = IF r < Armed THEN Armed ELSE r
           /\ OneIsLatest'
  <1> DEFINE a == IF r < Armed THEN Armed ELSE r
  <1>1. /\ r \in Int /\ Armed \in Int /\ a \in Int
        /\ Scheduled \subseteq Int /\ \A s \in Scheduled : s <= Armed
    BY ArmedIsLatest, Rounds
  <1>2. a \in Scheduled' /\ Scheduled' \subseteq Int
    BY <1>1, ArmedIsLatest
  <1>3. \A s \in Scheduled' : s <= a
    BY <1>1
  <1> HIDE DEF a
  <1>4. (CHOOSE q \in Scheduled' : \A s \in Scheduled' : s <= q) = a
    BY <1>2, <1>3, LatestIsUnique
  <1>5. Armed' = a
    BY <1>4 DEF Armed
  <1> QED
    BY <1>2, <1>3, <1>5 DEF OneIsLatest, a

-----------------------------------------------------------------------------
(* State.Start and receiveRoutine.                                          *)

\* State.Start reads a round that may be the second one, if a handler was
\* quicker: a step of the timer all the same.
LEMMA ReadRoundStep ==
    ASSUME IInv, ReadRound
    PROVE  IInv' /\ [Timer!Next]_(Timer!vars)
  <1> USE DEF IInv, ReadRound
  <1>1. current \in Round /\ current \in Nat
    BY ArmedIsLatest, Rounds
  <1>2. Scheduled' = Scheduled \cup {current}
    BY ScheduledIs DEF timerVars, OneAtATime
  <1>3. (Armed' = IF current < Armed THEN Armed ELSE current) /\ OneIsLatest'
    BY <1>1, <1>2, ArmedMoves
  <1>4. TypeOK'
    BY <1>1 DEF TypeOK, timerVars, Round
  <1>5. TocksBehind' /\ OneAtATime' /\ ScheduledReached'
    BY <1>1, <1>2 DEF TocksBehind, OneAtATime, ScheduledReached, timerVars
  <1>6. Armed \in Nat /\ Armed <= current
    BY ArmedIsLatest, Rounds
  <1>7. Armed' = current'
    BY <1>1, <1>3, <1>6
  <1> QED
    BY <1>1, <1>3, <1>4, <1>5, <1>7 DEF Timer!Next, Timer!Enter

\* A round gets into tickChan.
LEMMA ArmFirstStep ==
    ASSUME IInv, ArmFirst \/ ScheduleTimeout
    PROVE  IInv' /\ [Timer!Next]_(Timer!vars)
  <1> USE DEF IInv
  <1>1. PICK r \in scheduling \cup starting :
            /\ Len(tickChan) < BufferSize
            /\ tickChan' = Append(tickChan, r)
            /\ \/ starting = {r} /\ starting' = {} /\ scheduling' = scheduling
               \/ scheduling = {r} /\ scheduling' = {} /\ starting' = starting
            /\ UNCHANGED <<current, announced, started, timerVars, late, sending, tockChan>>
    BY DEF ArmFirst, ScheduleTimeout, OneAtATime
  <1>2. r \in Round /\ tickChan \in Seq(Round) /\ Len(tickChan) <= BufferSize
    BY DEF TypeOK, Round
  <1>3. /\ tickChan' \in Seq(Round)
        /\ Len(tickChan') = Len(tickChan) + 1
        /\ Elements(tickChan') = Elements(tickChan) \cup {r}
    BY <1>1, <1>2, AppendElements
  <1>4. Scheduled' = Scheduled
    BY <1>1, <1>3, ScheduledIs DEF timerVars
  <1>5. Armed' = Armed /\ OneIsLatest'
    BY <1>4, ArmedStays, ArmedIsLatest
  <1>6. Len(tickChan') <= BufferSize
    BY <1>1, <1>2, <1>3, LenProperties, TickerAssumption DEF TickerAssumption
  <1>7. TypeOK'
    BY <1>1, <1>3, <1>6 DEF TypeOK, timerVars, Round
  <1>8. TocksBehind' /\ OneAtATime' /\ ScheduledReached'
    BY <1>1, <1>4 DEF TocksBehind, OneAtATime, ScheduledReached, timerVars
  <1> QED
    BY <1>1, <1>5, <1>7, <1>8 DEF Timer!vars

\* A handler enters a round and schedules it.
LEMMA NewRoundEventStep ==
    ASSUME IInv, NewRoundEvent
    PROVE  IInv' /\ [Timer!Next]_(Timer!vars)
  <1> USE DEF IInv
  <1>1. PICK r \in current .. MaxRound : current' = r /\ scheduling' = {r}
    BY DEF NewRoundEvent
  <1>2. /\ scheduling = {}
        /\ UNCHANGED <<announced, started, starting, tickChan, timerVars, late, sending,
                       tockChan>>
    BY DEF NewRoundEvent
  <1>3. current \in Round /\ r \in Round /\ r >= current /\ current \in Nat /\ r \in Nat
    BY ArmedIsLatest, Rounds, TickerAssumption DEF Round, TickerAssumption, StartingRound
  <1>4. Scheduled' = Scheduled \cup {r}
    BY <1>1, <1>2, ScheduledIs DEF timerVars
  <1>5. (Armed' = IF r < Armed THEN Armed ELSE r) /\ OneIsLatest'
    BY <1>3, <1>4, ArmedMoves
  <1>6. Armed \in Nat /\ Armed <= current
    BY ArmedIsLatest, Rounds
  <1>7. Armed' = current'
    BY <1>1, <1>3, <1>5, <1>6
  <1>8. TypeOK'
    BY <1>1, <1>2, <1>3 DEF TypeOK, timerVars, Round
  <1>9. ScheduledReached'
    BY <1>1, <1>3, <1>4, <1>6, ArmedIsLatest DEF ScheduledReached
  <1>10. TocksBehind' /\ OneAtATime'
    BY <1>1, <1>2 DEF TocksBehind, OneAtATime, timerVars
  <1> QED
    BY <1>1, <1>2, <1>3, <1>5, <1>7, <1>8, <1>9, <1>10 DEF Timer!Next, Timer!Enter

\* A handler enters a round and leaves the timer alone.
LEMMA FollowStep ==
    ASSUME IInv, Follow
    PROVE  IInv' /\ [Timer!Next]_(Timer!vars)
  <1> USE DEF IInv
  <1>1. /\ current' \in current + 1 .. MaxRound
        /\ UNCHANGED <<announced, scheduling, started, starting, tickChan, timerVars, late,
                       sending, tockChan>>
    BY DEF Follow
  <1>2. /\ current \in Round /\ current' \in Round /\ current' > current
        /\ current \in Nat /\ current' \in Nat
    BY <1>1, ArmedIsLatest, Rounds, TickerAssumption
       DEF Round, TickerAssumption, StartingRound
  <1>3. Scheduled' = Scheduled
    BY <1>1, ScheduledIs DEF timerVars
  <1>4. Armed' = Armed /\ OneIsLatest'
    BY <1>3, ArmedStays, ArmedIsLatest
  <1>5. TypeOK'
    BY <1>1, <1>2 DEF TypeOK, timerVars, Round
  <1>6. ScheduledReached'
    BY <1>2, <1>3, ArmedIsLatest DEF ScheduledReached
  <1>7. TocksBehind' /\ OneAtATime'
    BY <1>1 DEF TocksBehind, OneAtATime, timerVars
  <1> QED
    BY <1>1, <1>2, <1>4, <1>5, <1>6, <1>7 DEF Timer!Next, Timer!Follow

\* A tock is compared with the current round.  One that is not below it is for
\* it, as a tock is not for a later round than the timer has been armed for.
LEMMA LocalTimeoutStep ==
    ASSUME IInv, LocalTimeout
    PROVE  IInv' /\ [Timer!Next]_(Timer!vars)
  <1> USE DEF IInv
  <1> DEFINE r == Head(tockChan).round
  <1>1. /\ scheduling = {} /\ tockChan # <<>> /\ tockChan' = Tail(tockChan)
        /\ IF current > r THEN UNCHANGED <<announced, scheduling>>
           ELSE announced' = announced \cup {r} /\ scheduling' = {r}
        /\ UNCHANGED <<current, started, starting, tickChan, timerVars, late, sending>>
    BY DEF LocalTimeout
  <1>2. tockChan \in Seq(TocksUpTo(ti))
    BY DEF TocksBehind
  <1>3. /\ Head(tockChan) \in TocksUpTo(ti) /\ tockChan' \in Seq(TocksUpTo(ti))
        /\ Len(tockChan') < Len(tockChan)
    BY <1>1, <1>2, TailElements
  <1>4. r \in Round \cup {0} /\ r <= ti
    BY <1>3 DEF TocksUpTo
  <1> HIDE DEF r
  <1>5. /\ tockChan' \in Seq([round : Round \cup {0}, expired : Round \cup {0}])
        /\ Len(tockChan') <= BufferSize
    <2>1. tockChan' \in Seq([round : Round \cup {0}, expired : Round \cup {0}])
      BY <1>3, UpToTypes
    <2>2. Len(tockChan) \in Nat /\ Len(tockChan') \in Nat /\ Len(tockChan) <= BufferSize
      BY <1>2, <1>3, LenProperties DEF TypeOK
    <2> QED
      BY <1>3, <2>1, <2>2, TickerAssumption DEF TickerAssumption
  <1>6. TocksBehind'
    BY <1>1, <1>3 DEF TocksBehind, timerVars
  <1>7. CASE current > r
    <2>1. Scheduled' = Scheduled
      BY <1>1, <1>7, ScheduledIs DEF timerVars
    <2>2. Armed' = Armed /\ OneIsLatest'
      BY <2>1, ArmedStays, ArmedIsLatest
    <2>3. TypeOK'
      BY <1>1, <1>5, <1>7 DEF TypeOK, timerVars, Round
    <2>4. ScheduledReached' /\ OneAtATime'
      BY <1>1, <1>7, <2>1 DEF ScheduledReached, OneAtATime
    <2> QED
      BY <1>1, <1>6, <1>7, <2>2, <2>3, <2>4 DEF Timer!vars
  <1>8. CASE ~(current > r)
    <2>1. /\ current \in Round /\ current \in Nat /\ Armed \in Nat /\ Armed <= current
          /\ ti \in Scheduled /\ ti <= Armed /\ ti \in Nat
      BY ArmedIsLatest, ScheduledIs, Rounds
    <2>2. r \in Nat
      BY <1>4, Rounds
    <2>3. r = current /\ r = Armed /\ r \in Round
      BY <1>4, <1>8, <2>1, <2>2
    <2>4. Armed \in Scheduled
      BY ArmedIsLatest
    <2>5. Scheduled' = Scheduled
      BY <1>1, <1>8, <2>3, <2>4, ScheduledIs DEF timerVars
    <2>6. Armed' = Armed /\ OneIsLatest'
      BY <2>4, <2>5, ArmedStays
    <2>7. TypeOK'
      BY <1>1, <1>5, <1>8, <2>3 DEF TypeOK, timerVars, Round
    <2>8. ScheduledReached' /\ OneAtATime'
      BY <1>1, <1>8, <2>5 DEF ScheduledReached, OneAtATime
    <2> QED
      BY <1>1, <1>6, <1>8, <2>3, <2>6, <2>7, <2>8 DEF Timer!Next, Timer!TimeOut
  <1> QED
    BY <1>7, <1>8

-----------------------------------------------------------------------------
(* timeoutRoutine and the goroutines it starts.                             *)

\* A tick of an older round is dropped, any other takes the place of the last.
LEMMA TakeTickStep ==
    ASSUME IInv, TakeTick
    PROVE  IInv' /\ [Timer!Next]_(Timer!vars)
  <1> USE DEF IInv
  <1> DEFINE h == Head(tickChan)
  <1>1. /\ tickChan # <<>> /\ tickChan' = Tail(tickChan)
        /\ IF h < ti THEN UNCHANGED <<ti, running>> ELSE ti' = h /\ running' = TRUE
        /\ UNCHANGED <<stateVars, fired, late, sending, tockChan>>
    BY DEF TakeTick
  <1>2. tickChan \in Seq(Round) /\ Len(tickChan) <= BufferSize
    BY DEF TypeOK, Round
  <1>3. /\ h \in Round /\ tickChan' \in Seq(Round)
        /\ Len(tickChan) \in Nat /\ Len(tickChan') = Len(tickChan) - 1
        /\ Elements(tickChan) = Elements(tickChan') \cup {h}
    BY <1>1, <1>2, TailElements
  <1> HIDE DEF h
  <1>4. Len(tickChan') <= BufferSize
    BY <1>2, <1>3, TickerAssumption DEF TickerAssumption
  <1>5. ti \in Round \cup {0} /\ ti \in Nat /\ h \in Nat
    BY <1>3, Rounds DEF TypeOK, Round
  <1>6. ti' \in {ti, h} /\ ti' \in Round \cup {0} /\ ti' >= ti /\ ti' >= h
    BY <1>1, <1>3, <1>5
  <1>7. TypeOK'
    BY <1>1, <1>3, <1>4, <1>6 DEF TypeOK, stateVars, Round
  <1>8. Scheduled = {ti, h} \cup ({StartingRound} \cup scheduling \cup starting \cup Elements(tickChan'))
    BY <1>3, ScheduledIs
  <1>9. Scheduled' = {ti'} \cup ({StartingRound} \cup scheduling \cup starting \cup Elements(tickChan'))
    BY <1>1, ScheduledIs DEF stateVars
  <1>10. Armed \in Scheduled' /\ Scheduled' \subseteq Scheduled
    <2>1. ti <= Armed /\ h <= Armed /\ Armed \in Nat
      BY <1>8, ArmedIsLatest, Rounds
    <2>2. Armed \in {ti, h} => Armed = ti'
      BY <1>5, <1>6, <2>1
    <2> QED
      BY <1>6, <1>8, <1>9, <2>2, ArmedIsLatest
  <1>11. Armed' = Armed /\ OneIsLatest'
    BY <1>10, ArmedStays
  <1>12. TocksBehind'
    <2>1. /\ ExpiriesUpTo(ti) \subseteq ExpiriesUpTo(ti')
          /\ TocksUpTo(ti) \subseteq TocksUpTo(ti')
      <3>1. \A e \in Round \cup {0} : e <= ti => e <= ti'
        BY <1>5, <1>6, Rounds
      <3> QED
        BY <3>1 DEF ExpiriesUpTo, TocksUpTo
    <2>2. /\ late \in Seq(ExpiriesUpTo(ti')) /\ sending \in Seq(TocksUpTo(ti'))
          /\ tockChan \in Seq(TocksUpTo(ti'))
      BY <2>1, SeqMonotonic DEF TocksBehind
    <2> QED
      BY <1>1, <2>1, <2>2 DEF TocksBehind
  <1>13. ScheduledReached' /\ OneAtATime'
    BY <1>1, <1>10 DEF ScheduledReached, OneAtATime, stateVars
  <1> QED
    BY <1>1, <1>7, <1>11, <1>12, <1>13 DEF Timer!vars, stateVars

\* Nothing after the timer schedules a round.
LEMMA RelayArmed ==
    ASSUME IInv, UNCHANGED <<stateVars, tickChan, ti>>
    PROVE  /\ ScheduledReached' /\ OneIsLatest' /\ OneAtATime'
           /\ UNCHANGED Timer!vars
  <1>1. Scheduled' = Scheduled
    BY ScheduledIs DEF stateVars
  <1>2. Armed' = Armed /\ OneIsLatest'
    BY <1>1, ArmedStays, ArmedIsLatest
  <1> QED
    BY <1>1, <1>2 DEF IInv, ScheduledReached, OneAtATime, stateVars, Timer!vars

LEMMA ExpireStep ==
    ASSUME IInv, Expire
    PROVE  IInv' /\ UNCHANGED Timer!vars
  <1> USE DEF IInv, Expire
  <1>1. ti \in Round \cup {0} /\ ti <= ti
    BY Rounds DEF TypeOK, Round
  <1>2. ti \in ExpiriesUpTo(ti)
    BY <1>1 DEF ExpiriesUpTo
  <1>3. TypeOK'
    BY <1>1 DEF TypeOK, stateVars, Round
  <1>4. TocksBehind'
    BY <1>2 DEF TocksBehind
  <1> QED
    BY <1>3, <1>4, RelayArmed

LEMMA TakeExpiryStep ==
    ASSUME IInv, TakeExpiry
    PROVE  IInv' /\ UNCHANGED Timer!vars
  <1> USE DEF IInv
  <1>1. PICK e \in fired :
            /\ fired' = {} /\ late' = Append(late, e)
            /\ UNCHANGED <<stateVars, tickChan, ti, running, sending, tockChan>>
    BY DEF TakeExpiry
  <1>2. late' \in Seq(ExpiriesUpTo(ti))
    BY <1>1, AppendElements DEF TocksBehind
  <1>3. late' \in Seq(Round \cup {0})
    BY <1>2, UpToTypes
  <1>4. TypeOK'
    BY <1>1, <1>3 DEF TypeOK, stateVars, Round
  <1>5. TocksBehind'
    BY <1>1, <1>2 DEF TocksBehind
  <1> QED
    BY <1>1, <1>4, <1>5, RelayArmed

\* The goroutine of an expiry reads a round that is at least the one expired.
LEMMA ReadInfoStep ==
    ASSUME IInv, ReadInfo
    PROVE  IInv' /\ UNCHANGED Timer!vars
  <1> USE DEF IInv
  <1>1. PICK i \in DOMAIN late :
            /\ late' = Without(late, i)
            /\ sending' = Append(sending, Tock(ti, late[i]))
            /\ UNCHANGED <<stateVars, tickChan, timerVars, tockChan>>
    BY DEF ReadInfo
  <1>2. late' \in Seq(ExpiriesUpTo(ti)) /\ late[i] \in ExpiriesUpTo(ti)
    BY <1>1, WithoutSeq DEF TocksBehind
  <1>3. ti \in Round \cup {0} /\ ti <= ti
    BY Rounds DEF TypeOK, Round
  <1>4. Tock(ti, late[i]) \in TocksUpTo(ti)
    BY <1>2, <1>3 DEF Tock, TocksUpTo, ExpiriesUpTo
  <1>5. sending' \in Seq(TocksUpTo(ti))
    BY <1>1, <1>4, AppendElements DEF TocksBehind
  <1>6. /\ late' \in Seq(Round \cup {0})
        /\ sending' \in Seq([round : Round \cup {0}, expired : Round \cup {0}])
    BY <1>2, <1>5, UpToTypes
  <1>7. TypeOK'
    BY <1>1, <1>6 DEF TypeOK, stateVars, timerVars, Round
  <1>8. TocksBehind'
    BY <1>1, <1>2, <1>5 DEF TocksBehind, timerVars
  <1> QED
    BY <1>1, <1>7, <1>8, RelayArmed DEF timerVars

LEMMA SendTockStep ==
    ASSUME IInv, SendTock
    PROVE  IInv' /\ UNCHANGED Timer!vars
  <1> USE DEF IInv
  <1>1. PICK i \in DOMAIN sending :
            /\ Len(tockChan) < BufferSize
            /\ sending' = Without(sending, i)
            /\ tockChan' = Append(tockChan, sending[i])
            /\ UNCHANGED <<stateVars, tickChan, timerVars, late>>
    BY DEF SendTock
  <1>2. sending' \in Seq(TocksUpTo(ti)) /\ sending[i] \in TocksUpTo(ti)
    BY <1>1, WithoutSeq DEF TocksBehind
  <1>3. tockChan' \in Seq(TocksUpTo(ti)) /\ Len(tockChan') = Len(tockChan) + 1
    BY <1>1, <1>2, AppendElements DEF TocksBehind
  <1>4. /\ sending' \in Seq([round : Round \cup {0}, expired : Round \cup {0}])
        /\ tockChan' \in Seq([round : Round \cup {0}, expired : Round \cup {0}])
    BY <1>2, <1>3, UpToTypes
  <1>5. Len(tockChan') <= BufferSize
    BY <1>1, <1>3, LenProperties, TickerAssumption DEF TickerAssumption, TocksBehind
  <1>6. TypeOK'
    BY <1>1, <1>4, <1>5 DEF TypeOK, stateVars, timerVars, Round
  <1>7. TocksBehind'
    BY <1>1, <1>2, <1>3 DEF TocksBehind, timerVars
  <1> QED
    BY <1>1, <1>6, <1>7, RelayArmed DEF timerVars

-----------------------------------------------------------------------------
LEMMA InitIInv == Init => IInv /\ Timer!Init
  <1> SUFFICES ASSUME Init PROVE IInv /\ Timer!Init
    OBVIOUS
  <1> USE DEF Init
  <1>1. \A S : <<>> \in Seq(S)
    BY EmptySeq
  <1>2. Len(<<>>) = 0
    BY EmptySeq
  <1>3. TypeOK
    <2>1. current \in Round /\ ti \in Round \cup {0}
      BY Rounds
    <2>2. Len(tickChan) <= BufferSize /\ Len(tockChan) <= BufferSize
      BY <1>2, TickerAssumption DEF TickerAssumption
    <2> QED
      BY <1>1, <2>1, <2>2 DEF TypeOK, Round
  <1>4. TocksBehind /\ OneAtATime
    BY <1>1 DEF TocksBehind, OneAtATime
  <1>5. Scheduled = {StartingRound, 0}
    BY DEF Scheduled
  <1>6. StartingRound \in Nat /\ StartingRound > 0
    BY Rounds
  <1>7. ScheduledReached /\ OneIsLatest
    BY <1>5, <1>6 DEF ScheduledReached, OneIsLatest
  <1>8. Armed = StartingRound
    <2>1. Scheduled \subseteq Int /\ \A s \in Scheduled : s <= StartingRound
      BY <1>5, <1>6
    <2>2. (CHOOSE q \in Scheduled : \A s \in Scheduled : s <= q) = StartingRound
      BY <1>5, <2>1, LatestIsUnique
    <2> QED
      BY <2>2 DEF Armed
  <1> QED
    BY <1>3, <1>4, <1>7, <1>8 DEF IInv, Timer!Init

\* Every step keeps the invariant, and is a step of the abstract timer or none.
LEMMA NextIInv == IInv /\ [Next]_vars => IInv' /\ [Timer!Next]_(Timer!vars)
  <1> SUFFICES ASSUME IInv, [Next]_vars PROVE IInv' /\ [Timer!Next]_(Timer!vars)
    OBVIOUS
  <1>1. CASE UNCHANGED vars
    <2>1. UNCHANGED <<stateVars, tickChan, ti>>
      BY <1>1 DEF vars, timerVars
    <2>2. TypeOK' /\ TocksBehind'
      BY <1>1 DEF IInv, TypeOK, TocksBehind, vars, stateVars, timerVars
    <2> QED
      BY <2>1, <2>2, RelayArmed DEF IInv
  <1>2. CASE Next
    BY <1>2, ReadRoundStep, ArmFirstStep, NewRoundEventStep, FollowStep, LocalTimeoutStep,
       TakeTickStep, ExpireStep, TakeExpiryStep, ReadInfoStep, SendTockStep DEF Next
  <1> QED
    BY <1>1, <1>2

\* timeoutRoutine and its goroutines (state/ticker.go): in every reachable state
\* ticks, expiries and tocks are of rounds the replica and the timer have been in.
THEOREM TickerInductive == Spec => []IInv
  <1>1. Init => IInv
    BY InitIInv
  <1>2. IInv /\ [Next]_vars => IInv'
    BY NextIInv
  <1> QED
    BY <1>1, <1>2, PTL DEF Spec

\* state/ticker.go: channels within their capacity, rounds in their range.
THEOREM TickerTypeCorrect == Spec => []TypeOK
  <1>1. IInv => TypeOK
    BY DEF IInv
  <1> QED
    BY <1>1, TickerInductive, PTL

\* timeoutRoutine and its goroutines: no tock is for an earlier round than the
\* one whose timer expired, however late the goroutine reads the shared variable.
THEOREM TocksAreNotStale == Spec => []TocksNeverEarlier
  <1>1. IInv => TocksNeverEarlier
    <2> SUFFICES ASSUME IInv, NEW i \in DOMAIN tockChan
                 PROVE  tockChan[i].round >= tockChan[i].expired
      BY DEF TocksNeverEarlier
    <2>1. tockChan \in Seq(TocksUpTo(ti))
      BY DEF IInv, TocksBehind
    <2>2. tockChan[i] \in TocksUpTo(ti)
      BY <2>1, LenProperties, ElementOfSeq
    <2> QED
      BY <2>2, Rounds DEF TocksUpTo
  <1> QED
    BY <1>1, TickerInductive, PTL

\* DefaultTimeoutTicker with State.Start and receiveRoutine implements the
\* timer: armed for a round when the replica is in it, never for an older one,
\* and a timeout is announced for no round but the current one.
THEOREM TickerImplementsRoundTimer == Spec => TimerSpec
  <1>1. Init => Timer!Init
    BY InitIInv
  <1>2. IInv /\ [Next]_vars => [Timer!Next]_(Timer!vars)
    BY NextIInv
  <1> QED
    BY <1>1, <1>2, TickerInductive, PTL DEF Spec, TimerSpec, Timer!Spec
=============================================================================
