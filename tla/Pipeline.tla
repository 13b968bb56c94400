------------------------------ MODULE Pipeline ------------------------------
(***************************************************************************)
(* The way of a message through the queues: from a handler of State to     *)
(* senderQueue, by schedule to the sender's own peerMsgQueue and to the    *)
(* send queue of each connection (state/state.go, Switch.Broadcast and     *)
(* Send), by sendRoutine onto the stream, by recvRoutine and a goroutine   *)
(* per packet into the addressee's peerMsgQueue (p2p/conn.go).             *)
(*                                                                         *)
(* receiveRoutine is the only reader of peerMsgQueue and senderQueue, and  *)
(* writes to both: in schedule and at the end of its handlers.  All queues *)
(* are bounded.  What a handler does is HotStuff's; here it is that it     *)
(* sends one message or none.  Connections are there from the start: how   *)
(* they come about is module Streams', the set of them module PeerSet's.   *)
(***************************************************************************)
EXTENDS Integers, Sequences, FiniteSets, SequencesExt

CONSTANTS
    Process,       \* the processes
    Unread,        \* <<p, q>>: q does not read the stream p sends on
    Fragile,       \* links whose stream may break
    MsgQueueSize,  \* capacity of peerMsgQueue and senderQueue
    SendQueueSize, \* capacity of a connection's send queue
    StreamSize,    \* packets a stream takes that nobody reads
    Message        \* <<p, k, to>>: the k-th message of p, and whom it is for

ASSUME PipelineAssumption ==
    /\ Unread \subseteq Process \X Process /\ Fragile \subseteq Process \X Process
    /\ MsgQueueSize \in Nat \ {0} /\ SendQueueSize \in Nat \ {0} /\ StreamSize \in Nat \ {0}
    /\ Message \subseteq Process \X (Nat \ {0}) \X SUBSET Process

Link == {l \in Process \X Process : l[1] # l[2]}

\* A proposal or a timeout is for all, a vote for the leader it names.
All == Process
From(m) == m[1]

\* schedule gives every message to its sender, too.
Dest(m) == {From(m)} \cup m[3]

\* The connections it is sent on.  A vote for the sender itself finds no peer.
Links(m) == {<<From(m), q>> : q \in m[3] \ {From(m)}}

VARIABLES
    senderQueue,  \* of each process
    peerMsgQueue, \* of each process
    loop,         \* what each receiveRoutine is at, with its message
    sending,      \* on each link, messages whose goroutine is in sendBytes
    sendQueue,    \* of each link
    stream,       \* of each link
    broken,       \* links whose stream is broken
    arriving,     \* of each process, the goroutines of handlePkt
    sent,         \* messages that came to senderQueue
    handled,      \* how often each process took each message from peerMsgQueue
    lost          \* <<message, link>>: not sent there, or not received

vars == <<senderQueue, peerMsgQueue, loop, sending, sendQueue, stream, broken,
          arriving, sent, handled, lost>>

NoMessage == <<>>
At(step, m) == [step |-> step, msg |-> m]
Select == At("select", NoMessage)

Init ==
    /\ senderQueue  = [p \in Process |-> <<>>]
    /\ peerMsgQueue = [p \in Process |-> <<>>]
    /\ loop         = [p \in Process |-> Select]
    /\ sending      = [l \in Link |-> {}]
    /\ sendQueue    = [l \in Link |-> <<>>]
    /\ stream       = [l \in Link |-> <<>>]
    /\ broken       = {}
    /\ arriving     = [p \in Process |-> {}]
    /\ sent         = {}
    /\ handled      = [p \in Process |-> [m \in Message |-> 0]]
    /\ lost         = {}

-----------------------------------------------------------------------------
\* A handler ends with a message for senderQueue, or without.
NextMessages(p) ==
    {m \in Message : From(m) = p /\ m[2] = Cardinality({n \in sent : From(n) = p}) + 1}

\* receiveRoutine takes a message from peerMsgQueue, and handles it.
HandleMsg(p) ==
    /\ loop[p] = Select
    /\ peerMsgQueue[p] # <<>>
    /\ peerMsgQueue' = [peerMsgQueue EXCEPT ![p] = Tail(@)]
    /\ handled' = [handled EXCEPT ![p][Head(peerMsgQueue[p])] = @ + 1]
    /\ \E next \in {Select} \cup {At("queue", m) : m \in NextMessages(p)} :
           loop' = [loop EXCEPT ![p] = next]
    /\ UNCHANGED <<senderQueue, sending, sendQueue, stream, broken, arriving, sent, lost>>

\* The timer's tock: localTimeout sends a message for all.
LocalTimeout(p) ==
    /\ loop[p] = Select
    /\ \E m \in NextMessages(p) : m[3] = All /\ loop' = [loop EXCEPT ![p] = At("queue", m)]
    /\ UNCHANGED <<senderQueue, peerMsgQueue, sending, sendQueue, stream, broken, arriving,
                   sent, handled, lost>>

\* `s.senderQueue <- m', in the handler.
QueueMessage(p) ==
    /\ loop[p].step = "queue"
    /\ Len(senderQueue[p]) < MsgQueueSize
    /\ senderQueue' = [senderQueue EXCEPT ![p] = Append(@, loop[p].msg)]
    /\ sent' = sent \cup {loop[p].msg}
    /\ loop' = [loop EXCEPT ![p] = Select]
    /\ UNCHANGED <<peerMsgQueue, sending, sendQueue, stream, broken, arriving, handled, lost>>

\* receiveRoutine takes a message from senderQueue: schedule.
Schedule(p) ==
    /\ loop[p] = Select
    /\ senderQueue[p] # <<>>
    /\ senderQueue' = [senderQueue EXCEPT ![p] = Tail(@)]
    /\ loop' = [loop EXCEPT ![p] = At("own", Head(senderQueue[p]))]
    /\ UNCHANGED <<peerMsgQueue, sending, sendQueue, stream, broken, arriving, sent, handled,
                   lost>>

\* Mutants: the own copy put in by a goroutine; a broadcast of which one send
\* is started.
PutOwnByGoroutine(p) ==
    LET m == loop[p].msg
    IN  /\ loop[p].step = "own"
        /\ arriving' = [arriving EXCEPT ![p] = @ \cup {m}]
        /\ sending' = [l \in Link |-> sending[l] \cup (IF l \in Links(m) THEN {m} ELSE {})]
        /\ loop' = [loop EXCEPT ![p] = IF Links(m) = {} THEN Select ELSE At("waiting", m)]
        /\ UNCHANGED <<senderQueue, peerMsgQueue, sendQueue, stream, broken, sent, handled, lost>>

PutOwnSendOne(p) ==
    LET m == loop[p].msg
    IN  /\ loop[p].step = "own"
        /\ Len(peerMsgQueue[p]) < MsgQueueSize
        /\ peerMsgQueue' = [peerMsgQueue EXCEPT ![p] = Append(@, m)]
        /\ IF Links(m) = {}
           THEN loop' = [loop EXCEPT ![p] = Select] /\ UNCHANGED sending
           ELSE \E l \in Links(m) :
                    /\ sending' = [sending EXCEPT ![l] = @ \cup {m}]
                    /\ loop' = [loop EXCEPT ![p] = At("waiting", m)]
        /\ UNCHANGED <<senderQueue, sendQueue, stream, broken, arriving, sent, handled, lost>>

\* schedule puts the message in the process's own peerMsgQueue, which no other
\* goroutine empties, and then calls Broadcast or Send: a goroutine for each
\* connection, except that a vote for a process without one is dropped.
PutOwn(p) ==
    LET m == loop[p].msg
    IN  /\ loop[p].step = "own"
        /\ Len(peerMsgQueue[p]) < MsgQueueSize
        /\ peerMsgQueue' = [peerMsgQueue EXCEPT ![p] = Append(@, m)]
        /\ sending' = [l \in Link |-> sending[l] \cup (IF l \in Links(m) THEN {m} ELSE {})]
        /\ loop' = [loop EXCEPT ![p] = IF Links(m) = {} THEN Select ELSE At("waiting", m)]
        /\ UNCHANGED <<senderQueue, sendQueue, stream, broken, arriving, sent, handled, lost>>

\* Broadcast and Send return with the first result of a send, done or not.
Result(p) ==
    /\ loop[p].step = "waiting"
    /\ \E l \in Links(loop[p].msg) : loop[p].msg \notin sending[l]
    /\ loop' = [loop EXCEPT ![p] = Select]
    /\ UNCHANGED <<senderQueue, peerMsgQueue, sending, sendQueue, stream, broken, arriving,
                   sent, handled, lost>>

-----------------------------------------------------------------------------
\* sendBytes: there is room in the connection's send queue.
Enqueue(l, m) ==
    /\ m \in sending[l]
    /\ Len(sendQueue[l]) < SendQueueSize
    /\ sending' = [sending EXCEPT ![l] = @ \ {m}]
    /\ sendQueue' = [sendQueue EXCEPT ![l] = Append(@, m)]
    /\ UNCHANGED <<senderQueue, peerMsgQueue, loop, stream, broken, arriving, sent, handled, lost>>

\* Mutant: sendBytes waits for room as long as it takes.
NeverGiveUp(l, m) == FALSE /\ m \in sending[l] /\ UNCHANGED vars

\* sendBytes: three seconds without room.
GiveUp(l, m) ==
    /\ m \in sending[l]
    /\ Len(sendQueue[l]) = SendQueueSize
    /\ sending' = [sending EXCEPT ![l] = @ \ {m}]
    /\ lost' = lost \cup {<<m, l>>}
    /\ UNCHANGED <<senderQueue, peerMsgQueue, loop, sendQueue, stream, broken, arriving,
                   sent, handled>>

\* sendRoutine: WriteMsg waits for room in the stream, or fails.
WriteMsg(l) ==
    /\ sendQueue[l] # <<>>
    /\ sendQueue' = [sendQueue EXCEPT ![l] = Tail(@)]
    /\ \/ /\ l \notin broken
          /\ Len(stream[l]) < StreamSize
          /\ stream' = [stream EXCEPT ![l] = Append(@, Head(sendQueue[l]))]
          /\ UNCHANGED lost
       \/ /\ l \in broken
          /\ lost' = lost \cup {<<Head(sendQueue[l]), l>>}
          /\ UNCHANGED stream
    /\ UNCHANGED <<senderQueue, peerMsgQueue, loop, sending, broken, arriving, sent, handled>>

\* A stream breaks, and what is on it is gone.  Nobody opens another.
Break(l) ==
    /\ l \in Fragile \ broken
    /\ broken' = broken \cup {l}
    /\ lost' = lost \cup {<<m, l>> : m \in ToSet(stream[l])}
    /\ stream' = [stream EXCEPT ![l] = <<>>]
    /\ UNCHANGED <<senderQueue, peerMsgQueue, loop, sending, sendQueue, arriving, sent, handled>>

\* Mutant: the packet is left to be read again.
ReadMsgAgain(l) ==
    /\ l \notin Unread
    /\ stream[l] # <<>>
    /\ \/ stream' = [stream EXCEPT ![l] = Tail(@)]
       \/ UNCHANGED stream
    /\ arriving' = [arriving EXCEPT ![l[2]] = @ \cup {Head(stream[l])}]
    /\ UNCHANGED <<senderQueue, peerMsgQueue, loop, sending, sendQueue, broken, sent, handled, lost>>

\* recvRoutine: `go dc.handlePkt(packet)'.
ReadMsg(l) ==
    /\ l \notin Unread
    /\ stream[l] # <<>>
    /\ stream' = [stream EXCEPT ![l] = Tail(@)]
    /\ arriving' = [arriving EXCEPT ![l[2]] = @ \cup {Head(stream[l])}]
    /\ UNCHANGED <<senderQueue, peerMsgQueue, loop, sending, sendQueue, broken, sent, handled, lost>>

\* Mutant: a message that finds the queue full is dropped.
HandleOrDrop(p, m) ==
    /\ m \in arriving[p]
    /\ arriving' = [arriving EXCEPT ![p] = @ \ {m}]
    /\ peerMsgQueue' = [peerMsgQueue EXCEPT
                           ![p] = IF Len(@) < MsgQueueSize THEN Append(@, m) ELSE @]
    /\ UNCHANGED <<senderQueue, loop, sending, sendQueue, stream, broken, sent, handled, lost>>

\* Mutant: peerMsgQueue grows as needed.
HandleAtOnce(p, m) ==
    /\ m \in arriving[p]
    /\ arriving' = [arriving EXCEPT ![p] = @ \ {m}]
    /\ peerMsgQueue' = [peerMsgQueue EXCEPT ![p] = Append(@, m)]
    /\ UNCHANGED <<senderQueue, loop, sending, sendQueue, stream, broken, sent, handled, lost>>

\* HandleFunc, in the goroutine of handlePkt.
HandleFunc(p, m) ==
    /\ m \in arriving[p]
    /\ Len(peerMsgQueue[p]) < MsgQueueSize
    /\ arriving' = [arriving EXCEPT ![p] = @ \ {m}]
    /\ peerMsgQueue' = [peerMsgQueue EXCEPT ![p] = Append(@, m)]
    /\ UNCHANGED <<senderQueue, loop, sending, sendQueue, stream, broken, sent, handled, lost>>

-----------------------------------------------------------------------------
ReceiveRoutine(p) ==
    HandleMsg(p) \/ LocalTimeout(p) \/ QueueMessage(p) \/ Schedule(p) \/ PutOwn(p) \/ Result(p)

SendBytes(l, m) == Enqueue(l, m) \/ GiveUp(l, m)

Next ==
    \/ \E p \in Process : ReceiveRoutine(p)
    \/ \E l \in Link : \E m \in sending[l] : SendBytes(l, m)
    \/ \E l \in Link : WriteMsg(l) \/ Break(l) \/ ReadMsg(l)
    \/ \E p \in Process : \E m \in arriving[p] : HandleFunc(p, m)

Spec == Init /\ [][Next]_vars

\* Goroutines that can run do: each process's loop, its goroutines of handlePkt,
\* and those of each connection.  Timeouts and breaks need not happen.
Fairness ==
    /\ \A p \in Process :
           /\ WF_vars(HandleMsg(p) \/ QueueMessage(p) \/ Schedule(p) \/ PutOwn(p) \/ Result(p))
           /\ WF_vars(\E m \in arriving[p] : HandleFunc(p, m))
    /\ \A l \in Link :
           WF_vars(WriteMsg(l) \/ ReadMsg(l) \/ \E m \in sending[l] : SendBytes(l, m))

FairSpec == Spec /\ Fairness

-----------------------------------------------------------------------------
\* Type correctness, and every queue within its capacity.
TypeOK ==
    /\ sent \subseteq Message
    /\ handled \in [Process -> [Message -> 0 .. 1]]
    /\ broken \subseteq Fragile /\ lost \subseteq sent \X Link
    /\ \A p \in Process :
           /\ \A queue \in {senderQueue[p], peerMsgQueue[p]} :
                  ToSet(queue) \subseteq sent /\ Len(queue) <= MsgQueueSize
           /\ arriving[p] \subseteq sent
           /\ loop[p] = Select \/ loop[p] \in {At("queue", m) : m \in Message}
                               \/ loop[p] \in {At(s, m) : s \in {"own", "waiting"}, m \in sent}
    /\ \A l \in Link :
           /\ sending[l] \subseteq sent
           /\ ToSet(sendQueue[l]) \subseteq sent /\ Len(sendQueue[l]) <= SendQueueSize
           /\ ToSet(stream[l]) \subseteq sent /\ Len(stream[l]) <= StreamSize
           /\ l \in broken => stream[l] = <<>>

\* Where a message for the process at the end of the link is, of the places it
\* can be in from schedule's call of Broadcast or Send on.
Places(l, m) ==
    <<m \in sending[l], m \in ToSet(sendQueue[l]), m \in ToSet(stream[l]), <<m, l>> \in lost,
      m \in arriving[l[2]], m \in ToSet(peerMsgQueue[l[2]]), handled[l[2]][m] > 0>>

\* A message whose Broadcast or Send has been called is in one place on every
\* link it goes to: no goroutine drops it, and none doubles it
\* (state/state.go schedule and HandleFunc, p2p/conn.go).
OnePlaceEach ==
    \A m \in sent : \A l \in Links(m) :
        LET places == Cardinality({i \in DOMAIN Places(l, m) : Places(l, m)[i]})
            p == From(m)
        IN  places = IF m \in ToSet(senderQueue[p]) \/ loop[p] = At("own", m) THEN 0 ELSE 1

\* A process handles its own messages in the order in which it queued them,
\* whatever the network does to the order elsewhere: its vote never after the
\* timeout that followed (state/state.go schedule puts them in peerMsgQueue
\* itself).
OwnInOrder ==
    \A m, n \in sent :
        LET p == From(m)
        IN  From(n) = p /\ n[2] < m[2] /\ handled[p][m] > 0 => handled[p][n] > 0

\* The queues implement the network HotStuff assumes.
NetworkOf == INSTANCE Network
NetworkSpec == NetworkOf!Spec

\* The loop waits for room in its process's own peerMsgQueue: nothing else
\* takes from it, and it waits for ever (state/state.go:406, 421, 440).  Or for
\* room in senderQueue (264, 390, 491).
Stuck(p) ==
    \/ loop[p].step = "own" /\ Len(peerMsgQueue[p]) = MsgQueueSize
    \/ loop[p].step = "queue" /\ Len(senderQueue[p]) = MsgQueueSize

\* Whoever is sent a message handles it, unless a send of it failed, nobody
\* reads the stream, or the loop at one of the ends waits for itself.
EveryMessageHandled ==
    \A m \in Message : \A p \in Dest(m) : m \in sent ~>
        \/ handled[p][m] > 0
        \/ <<m, <<From(m), p>>>> \in lost
        \/ <<From(m), p>> \in Unread
        \/ Stuck(p) \/ Stuck(From(m))

\* Broadcast and Send return, even if nobody reads what the process sends.
BroadcastReturns == \A p \in Process : loop[p].step = "waiting" ~> loop[p] = Select
=============================================================================
