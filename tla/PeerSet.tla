------------------------------ MODULE PeerSet -------------------------------
(***************************************************************************)
(* One process's set of peers: PeerSet (p2p/peer.go) with the goroutines   *)
(* that use it, namely dialPeersAsync and handleStream, which look for a   *)
(* peer and add a connection to it, and receiveRoutine, which broadcasts   *)
(* through Range.                                                          *)
(*                                                                         *)
(* Find and Add hold the mutex and so does Range, but the goroutine Range  *)
(* leaves behind reads s.list without it, twice, once for the WaitGroup    *)
(* and once for the loop.  Add is therefore two steps, one for each value  *)
(* it stores in s.list.                                                    *)
(***************************************************************************)
EXTENDS Integers, Sequences, FiniteSets, SequencesExt

CONSTANTS
    Peer,     \* the remote peers
    MaxConns, \* bound: connections made to each peer
    MaxCalls  \* bound: calls of Broadcast

ASSUME PeerSetAssumption == MaxConns \in [Peer -> Nat \ {0}] /\ MaxCalls \in Nat \ {0}

Conn == UNION {{p} \X (1 .. MaxConns[p]) : p \in Peer}
Call == 1 .. MaxCalls

VARIABLES
    lookup,  \* the connection of each peer, as its number; 0 for no peer
    list,    \* the connections in the order of s.list
    opening, \* connections made and not added yet
    adding,  \* {} or the connection Add is storing; Add then has the mutex
    calls,   \* what each Broadcast, and its Range goroutines, have got to
    waiting, \* 0 or the call receiveRoutine is waiting in
    crashed  \* the process has panicked

vars == <<lookup, list, opening, adding, calls, waiting, crashed>>

\* size is the capacity of the channel, counter that of the WaitGroup, and
\* queued the results in the channel.  present and replaced are what the
\* properties ask of a call: the peers it found when it was made, and whether
\* a connection was replaced before its loop read the list.
NotCalled ==
    [ phase |-> "idle", size |-> 0, counter |-> 0, queued |-> 0, sending |-> {},
      tried |-> {}, present |-> {}, replaced |-> FALSE ]

Init ==
    /\ lookup  = [p \in Peer |-> 0]
    /\ list    = <<>>
    /\ opening = {}
    /\ adding  = {}
    /\ calls   = [i \in Call |-> NotCalled]
    /\ waiting = 0
    /\ crashed = FALSE

-----------------------------------------------------------------------------
\* Mutant: no mutex.
AlwaysFree == TRUE

\* s.mtx can be taken.
Free == adding = {}

(* dialPeersAsync and handleStream: a peer that Find does not know, as no   *)
(* peer is ever invalid, gets a connection.  Any number of goroutines do so *)
(* at a time, one for every incoming stream.                                *)
Open(p) ==
    /\ ~crashed
    /\ Free
    /\ lookup[p] = 0
    /\ \E k \in 1 .. MaxConns[p] :
           /\ opening' = opening \cup {<<p, k>>}
           /\ \A j \in 1 .. MaxConns[p] : <<p, j>> \in opening <=> j < k
    /\ UNCHANGED <<lookup, list, adding, calls, waiting, crashed>>

\* Mutant: the old connection stays in the list.
AddBesideOld(c) ==
    /\ ~crashed
    /\ Free
    /\ adding' = adding \cup {c}
    /\ UNCHANGED <<lookup, list, opening, calls, waiting, crashed>>

\* The loop of Add that makes a list without the connection to a peer.
WithoutPeer(s, p) ==
    LET newOne[n \in 0 .. Len(s)] ==
            IF n = 0 THEN <<>>
            ELSE IF s[n][1] # p THEN Append(newOne[n - 1], s[n]) ELSE newOne[n - 1]
    IN  newOne[Len(s)]

\* PeerSet.Add up to `s.list = newOne', which leaves out the old connection.
StartAdd(c) ==
    /\ ~crashed
    /\ Free
    /\ adding' = adding \cup {c}
    /\ IF lookup[c[1]] = 0
         THEN UNCHANGED <<list, calls>>
         ELSE /\ list' = WithoutPeer(list, c[1])
              /\ calls' = [i \in Call |->
                     [calls[i] EXCEPT !.replaced =
                          @ \/ calls[i].phase \in {"made", "counted"}]]
    /\ UNCHANGED <<lookup, opening, waiting, crashed>>

EndAdd(c) ==
    /\ ~crashed
    /\ c \in adding
    /\ lookup'  = [lookup EXCEPT ![c[1]] = c[2]]
    /\ list'    = Append(list, c)
    /\ opening' = opening \ {c}
    /\ adding'  = adding \ {c}
    /\ UNCHANGED <<calls, waiting, crashed>>

-----------------------------------------------------------------------------
(* Switch.Broadcast, called by schedule and so once at a time, and Range.   *)
Broadcast(i) ==
    /\ ~crashed
    /\ waiting = 0 /\ Free
    /\ \A j \in Call : calls[j].phase = "idle" <=> j >= i
    /\ waiting' = i
    /\ calls' = [calls EXCEPT ![i].phase = "made", ![i].size = Len(list),
                              ![i].present = {p \in Peer : lookup[p] # 0}]
    /\ UNCHANGED <<lookup, list, opening, adding, crashed>>

AddToGroup(i) ==
    /\ ~crashed
    /\ calls[i].phase = "made"
    /\ calls' = [calls EXCEPT ![i].phase = "counted", ![i].counter = Len(list)]
    /\ UNCHANGED <<lookup, list, opening, adding, waiting, crashed>>

\* Mutant: the goroutines of the loop share its variable.
SpawnSharing(i) ==
    /\ ~crashed
    /\ calls[i].phase = "counted"
    /\ calls' = [calls EXCEPT ![i].phase = "spawned",
                     ![i].sending = IF list = <<>> THEN {} ELSE {Last(list)}]
    /\ UNCHANGED <<lookup, list, opening, adding, waiting, crashed>>

\* The loop: a goroutine for every connection in the list as it is by now.
Spawn(i) ==
    /\ ~crashed
    /\ calls[i].phase = "counted"
    /\ calls' = [calls EXCEPT ![i].phase = "spawned", ![i].sending = ToSet(list)]
    /\ UNCHANGED <<lookup, list, opening, adding, waiting, crashed>>

\* The loop reads s.list while Add stores it: of the three words of a slice
\* it may get the old array and the new length, and run off its end.
ReadTornList(i) ==
    /\ ~crashed
    /\ calls[i].phase = "counted"
    /\ adding # {}
    /\ crashed' = TRUE
    /\ UNCHANGED <<lookup, list, opening, adding, calls, waiting>>

\* The Send of one goroutine, which succeeds or gives up in three seconds.
Try(i, c) ==
    /\ ~crashed
    /\ c \in calls[i].sending \ calls[i].tried
    /\ calls' = [calls EXCEPT ![i].tried = @ \cup {c}]
    /\ UNCHANGED <<lookup, list, opening, adding, waiting, crashed>>

\* `ch <- f(peer)' and wg.Done: without room or a receiver the goroutine stays;
\* on a closed channel, or below zero, the process panics.
Report(i, c) ==
    /\ ~crashed
    /\ c \in calls[i].sending \cap calls[i].tried
    /\ LET buffered == calls[i].queued < calls[i].size
           received == calls[i].size = 0 /\ waiting = i
       IN  /\ \/ calls[i].phase = "closed" \/ buffered \/ received
           /\ waiting' = IF received THEN 0 ELSE waiting
           /\ calls' = [calls EXCEPT ![i].sending = @ \ {c},
                            ![i].queued  = IF buffered THEN @ + 1 ELSE @,
                            ![i].counter = @ - 1]
           /\ crashed' = (calls[i].phase = "closed" \/ calls[i].counter = 0)
    /\ UNCHANGED <<lookup, list, opening, adding>>

\* Mutant: no `defer close(ch)'.
WaitOnly(i) ==
    /\ ~crashed
    /\ calls[i].phase = "spawned"
    /\ calls[i].counter = 0
    /\ calls' = [calls EXCEPT ![i].phase = "waited"]
    /\ UNCHANGED <<lookup, list, opening, adding, waiting, crashed>>

\* wg.Wait returns, and the channel is closed.
Close(i) ==
    /\ ~crashed
    /\ calls[i].phase = "spawned"
    /\ calls[i].counter = 0
    /\ calls' = [calls EXCEPT ![i].phase = "closed"]
    /\ UNCHANGED <<lookup, list, opening, adding, waiting, crashed>>

\* `<-ch': one result, or the end of them.
Return(i) ==
    /\ ~crashed
    /\ waiting = i
    /\ calls[i].queued > 0 \/ calls[i].phase = "closed"
    /\ waiting' = 0
    /\ calls' = [calls EXCEPT ![i].queued = IF @ > 0 THEN @ - 1 ELSE @]
    /\ UNCHANGED <<lookup, list, opening, adding, crashed>>

-----------------------------------------------------------------------------
Add == \E c \in opening : StartAdd(c) \/ EndAdd(c)

Goroutines(i) ==
    \/ AddToGroup(i) \/ Spawn(i) \/ Close(i) \/ Return(i)
    \/ \E c \in Conn : Try(i, c) \/ Report(i, c)

Next ==
    \/ \E p \in Peer : Open(p)
    \/ \E c \in opening : StartAdd(c) \/ EndAdd(c)
    \/ \E i \in Call : Broadcast(i) \/ ReadTornList(i) \/ Goroutines(i)

Spec == Init /\ [][Next]_vars

\* Goroutines run on, Sends end, and a mutex is handed out in the end.
Fairness ==
    /\ WF_vars(Add)
    /\ \A i \in Call : WF_vars(Goroutines(i))

FairSpec == Spec /\ Fairness

-----------------------------------------------------------------------------
TypeOK ==
    /\ DOMAIN lookup = Peer /\ \A p \in Peer : lookup[p] \in 0 .. MaxConns[p]
    /\ list \in Seq(Conn)
    /\ opening \subseteq Conn
    /\ adding \subseteq opening /\ Cardinality(adding) <= 1
    /\ \A i \in Call :
           /\ calls[i].phase \in {"idle", "made", "counted", "spawned", "closed"}
           /\ calls[i].queued \in 0 .. calls[i].size
           /\ calls[i].sending \cup calls[i].tried \subseteq Conn
    /\ waiting \in 0 .. MaxCalls
    /\ crashed \in BOOLEAN

\* Find and Range see the same set: while nobody is adding, the list has the
\* connection of every peer in the table, once, and no other.
ListMatchesTable ==
    Free =>
        /\ ToSet(list) = {c \in Conn : lookup[c[1]] = c[2]}
        /\ Len(list) = Cardinality(ToSet(list))

\* A broadcast comes back to receiveRoutine, which handles nothing while it
\* waits, unless a connection was replaced under it or the process is gone.
BroadcastReturns ==
    \A i \in Call :
        waiting = i ~> (waiting # i \/ calls[i].replaced \/ crashed)

\* A peer that is in the set when a broadcast is made is sent the message,
\* unless a connection was replaced under it or the process is gone.
EveryPeerTried ==
    \A i \in Call, p \in Peer :
        p \in calls[i].present
            ~> (\/ \E c \in calls[i].tried : c[1] = p
                \/ calls[i].replaced
                \/ crashed)

\* peer.go:22: iteration over the peers is thread-safe.  So no goroutine of an
\* iteration is one more than its WaitGroup counts.
GroupNotNegative == \A i \in Call : calls[i].counter >= 0
=============================================================================
