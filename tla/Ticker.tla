------------------------------- MODULE Ticker -------------------------------
(***************************************************************************)
(* The round timer of one replica: DefaultTimeoutTicker (state/ticker.go)  *)
(* with its two channels, its time.Timer and the goroutine it starts for   *)
(* every expiry, and the two goroutines of the State that use it, Start    *)
(* and receiveRoutine.  A timeoutInfo is its Round: Type and Duration say  *)
(* nothing that is read, and the index is always the same.                 *)
(*                                                                         *)
(* go.mod asks for Go 1.14, where neither Stop nor Reset of a time.Timer   *)
(* empties its channel: an expiry that nobody has taken yet stays there.   *)
(* The goroutine of an expiry reads the variable ti of timeoutRoutine,     *)
(* which is shared, when it comes to run and not when the timer expired.   *)
(***************************************************************************)
EXTENDS Integers, Sequences

CONSTANTS
    StartRound, \* round of the configured start block
    MaxRound,   \* bound: the pacemaker enters no round above it
    BufferSize, \* tickTockBufferSize
    MaxRelays   \* bound: expiries on their way to tockChan at a time

ASSUME TickerAssumption ==
    /\ StartRound \in Nat
    /\ MaxRound \in Nat /\ MaxRound > StartRound
    /\ BufferSize \in Nat \ {0}
    /\ MaxRelays \in Nat \ {0}

VARIABLES
    current,   \* pacemaker.current
    announced, \* the rounds a TimeoutMsg was queued for
    scheduling,\* {} or the round receiveRoutine is sending on tickChan
    started,   \* State.Start has read the current round
    starting,  \* {} or the round it read and is sending on tickChan
    tickChan,  \* scheduled rounds
    ti,        \* timeoutRoutine's ti.Round
    running,   \* timer: counting down
    fired,     \* timer.C: {} or the expiry in it, as the round it was armed for
    late,      \* goroutines of expiries that have not read ti yet
    sending,   \* those that have, as what they send on tockChan
    tockChan   \* what timeoutRoutine tells receiveRoutine

stateVars == <<current, announced, scheduling, started, starting>>
timerVars == <<ti, running, fired>>
vars == <<stateVars, tickChan, timerVars, late, sending, tockChan>>

StartingRound == StartRound + 1

\* A tock has the round the code puts in it, and, to state what it should
\* have been, the round the timer was armed for when it expired.
Tock(round, expired) == [round |-> round, expired |-> expired]

Without(s, i) == SubSeq(s, 1, i - 1) \o SubSeq(s, i + 1, Len(s))

\* The timer NewDefaultTimeoutTicker creates runs for an hour, for no round.
Init ==
    /\ current    = StartingRound
    /\ announced  = {}
    /\ scheduling = {}
    /\ started    = FALSE
    /\ starting   = {}
    /\ tickChan   = <<>>
    /\ ti         = 0
    /\ running    = TRUE
    /\ fired      = {}
    /\ late       = <<>>
    /\ sending    = <<>>
    /\ tockChan   = <<>>

-----------------------------------------------------------------------------
(* State.Start, whose goroutine runs beside receiveRoutine: it reads the    *)
(* round, and then schedules it.                                            *)
ReadRound ==
    /\ ~started
    /\ started'  = TRUE
    /\ starting' = {current}
    /\ UNCHANGED <<current, announced, scheduling, tickChan, timerVars, late,
                   sending, tockChan>>

ArmFirst ==
    \E r \in starting :
        /\ Len(tickChan) < BufferSize
        /\ tickChan' = Append(tickChan, r)
        /\ starting' = {}
        /\ UNCHANGED <<current, announced, scheduling, started, timerVars, late,
                       sending, tockChan>>

-----------------------------------------------------------------------------
(* receiveRoutine: handlers that move the round, and localTimeout.  One     *)
(* that calls ScheduleTimeout goes on when tickChan has taken the round.    *)
NewRoundEvent ==
    /\ scheduling = {}
    /\ \E r \in current .. MaxRound :
           /\ current'    = r
           /\ scheduling' = {r}
    /\ UNCHANGED <<announced, started, starting, tickChan, timerVars, late,
                   sending, tockChan>>

Follow ==
    /\ scheduling = {}
    /\ current' \in current + 1 .. MaxRound
    /\ UNCHANGED <<announced, scheduling, started, starting, tickChan, timerVars,
                   late, sending, tockChan>>

\* Mutant: the tick is not compared with the current round.
LocalTimeoutUnchecked ==
    /\ scheduling = {}
    /\ tockChan # <<>>
    /\ tockChan'   = Tail(tockChan)
    /\ announced'  = announced \cup {Head(tockChan).round}
    /\ scheduling' = {Head(tockChan).round}
    /\ UNCHANGED <<current, started, starting, tickChan, timerVars, late, sending>>

LocalTimeout ==
    /\ scheduling = {}
    /\ tockChan # <<>>
    /\ tockChan' = Tail(tockChan)
    /\ LET r == Head(tockChan).round
       IN  IF current > r
             THEN UNCHANGED <<announced, scheduling>>
             ELSE /\ announced'  = announced \cup {r}
                  /\ scheduling' = {r}
    /\ UNCHANGED <<current, started, starting, tickChan, timerVars, late, sending>>

ScheduleTimeout ==
    \E r \in scheduling :
        /\ Len(tickChan) < BufferSize
        /\ tickChan'   = Append(tickChan, r)
        /\ scheduling' = {}
        /\ UNCHANGED <<current, announced, started, starting, timerVars, late,
                       sending, tockChan>>

-----------------------------------------------------------------------------
(* timeoutRoutine.                                                          *)

\* Mutant: a tick of the round the timer had before does not restart it.
TakeTickOfNewRound ==
    /\ tickChan # <<>>
    /\ tickChan' = Tail(tickChan)
    /\ IF Head(tickChan) <= ti
         THEN UNCHANGED <<ti, running>>
         ELSE /\ ti'      = Head(tickChan)
              /\ running' = TRUE
    /\ UNCHANGED <<stateVars, fired, late, sending, tockChan>>

\* Mutant: a tick of an older round restarts the timer as well.
TakeAnyTick ==
    /\ tickChan # <<>>
    /\ tickChan' = Tail(tickChan)
    /\ ti'       = Head(tickChan)
    /\ running'  = TRUE
    /\ UNCHANGED <<stateVars, fired, late, sending, tockChan>>

\* Mutant: no goroutine for the tock, so no tick is taken until it is sent.
TakeTickAfterTocks ==
    /\ late = <<>> /\ sending = <<>>
    /\ tickChan # <<>>
    /\ tickChan' = Tail(tickChan)
    /\ IF Head(tickChan) < ti
         THEN UNCHANGED <<ti, running>>
         ELSE /\ ti'      = Head(tickChan)
              /\ running' = TRUE
    /\ UNCHANGED <<stateVars, fired, late, sending, tockChan>>

\* Stop and Reset restart the timer and leave what is in its channel.
TakeTick ==
    /\ tickChan # <<>>
    /\ tickChan' = Tail(tickChan)
    /\ IF Head(tickChan) < ti
         THEN UNCHANGED <<ti, running>>
         ELSE /\ ti'      = Head(tickChan)
              /\ running' = TRUE
    /\ UNCHANGED <<stateVars, fired, late, sending, tockChan>>

\* The runtime's timer: a value that finds the channel full is dropped.
Expire ==
    /\ running
    /\ running' = FALSE
    /\ fired' = IF fired = {} THEN {ti} ELSE fired
    /\ UNCHANGED <<stateVars, tickChan, ti, late, sending, tockChan>>

TakeExpiry ==
    \E expired \in fired :
        /\ Len(late) + Len(sending) < MaxRelays
        /\ fired' = {}
        /\ late'  = Append(late, expired)
        /\ UNCHANGED <<stateVars, tickChan, ti, running, sending, tockChan>>

\* The goroutine of an expiry reads ti, and waits for room in tockChan.
ReadInfo ==
    \E i \in DOMAIN late :
        /\ late'    = Without(late, i)
        /\ sending' = Append(sending, Tock(ti, late[i]))
        /\ UNCHANGED <<stateVars, tickChan, timerVars, tockChan>>

SendTock ==
    \E i \in DOMAIN sending :
        /\ Len(tockChan) < BufferSize
        /\ sending'  = Without(sending, i)
        /\ tockChan' = Append(tockChan, sending[i])
        /\ UNCHANGED <<stateVars, tickChan, timerVars, late>>

-----------------------------------------------------------------------------
Next ==
    \/ ReadRound \/ ArmFirst
    \/ NewRoundEvent \/ Follow \/ LocalTimeout \/ ScheduleTimeout
    \/ TakeTick \/ Expire \/ TakeExpiry
    \/ ReadInfo \/ SendTock

Spec == Init /\ [][Next]_vars

\* Every goroutine runs on, the timer runs down, and a select that finds a
\* channel ready again and again takes from it in the end.
Fairness ==
    /\ WF_vars(ReadRound) /\ WF_vars(ArmFirst)
    /\ WF_vars(ScheduleTimeout) /\ SF_vars(LocalTimeout)
    /\ WF_vars(TakeTick) /\ WF_vars(Expire) /\ WF_vars(TakeExpiry)
    /\ WF_vars(ReadInfo) /\ WF_vars(SendTock)

FairSpec == Spec /\ Fairness

-----------------------------------------------------------------------------
\* Channels within their capacity; rounds between the first and the bound,
\* but for 0, which stands for the timer before the first tick.
TypeOK ==
    LET Round == StartingRound .. MaxRound
        TockOf == [round : Round \cup {0}, expired : Round \cup {0}]
    IN  /\ current \in Round
        /\ announced \subseteq Round
        /\ scheduling \subseteq Round
        /\ started \in BOOLEAN
        /\ starting \subseteq Round
        /\ tickChan \in Seq(Round) /\ Len(tickChan) <= BufferSize
        /\ ti \in Round \cup {0}
        /\ running \in BOOLEAN
        /\ fired \subseteq Round \cup {0}
        /\ late \in Seq(Round \cup {0})
        /\ sending \in Seq(TockOf)
        /\ tockChan \in Seq(TockOf) /\ Len(tockChan) <= BufferSize

\* The round the timer is armed for, wherever the tick of it has got to.
Scheduled ==
    {StartingRound, ti} \cup scheduling \cup starting
        \cup {tickChan[i] : i \in DOMAIN tickChan}
Armed == CHOOSE r \in Scheduled : \A s \in Scheduled : s <= r

\* The channels and goroutines together are the timer RoundTimer specifies:
\* never armed backwards, never announcing any round but the current one.
Timer == INSTANCE RoundTimer WITH First <- StartingRound, armed <- Armed
TimerSpec == Timer!Spec

\* As long as the replica stays in the round its timer is armed for, the timer
\* goes off again and again: this is what sends a lost timeout message again.
TimerKeepsFiring ==
    \A r \in StartingRound .. MaxRound :
        (current = r /\ Armed = r)
            ~> ((tockChan # <<>> /\ Head(tockChan).round = r) \/ current > r)

\* ticker.go:66: timeoutRoutine is always available to read from tickChan, so
\* no handler is stuck in ScheduleTimeout.
ScheduleReturns == scheduling # {} ~> scheduling = {}

\* An expiry that was in timer.C when a newer tick reset the timer is announced
\* all the same, and the goroutine of an expiry reads ti late: a tock may be for
\* a later round than the one whose timer expired, but never for an earlier one
\* (ticker.go:86 says that newer ticks replace older timers).
TocksNeverEarlier ==
    \A i \in DOMAIN tockChan : tockChan[i].round >= tockChan[i].expired
=============================================================================
