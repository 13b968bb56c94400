------------------------------ MODULE Streams -------------------------------
(***************************************************************************)
(* The streams between processes: the two ends of Switch (p2p/switch.go).  *)
(* A process dials the peers of its configuration (bootstrap) and then     *)
(* those of its routing table (acceptRoutine), one at a time, and serves   *)
(* the streams others open to it, each in a goroutine (handleStream).      *)
(* Either way a peer is looked up first and added later, so two processes  *)
(* that dial each other may each find its own stream in place and leave    *)
(* the other's unread.  Nothing is ever taken out of the set of peers and  *)
(* Validate never fails: a stream that breaks keeps its place.             *)
(*                                                                         *)
(* A stream carries messages both ways, so a process hears a peer that     *)
(* sends on a stream it reads, whoever dialled.  The routing table is the  *)
(* libp2p DHT's: hosts that are connected get into each other's table, and *)
(* hear from each other of those in theirs.                                *)
(***************************************************************************)
EXTENDS Integers, FiniteSets

CONSTANTS
    Process,   \* the processes
    NoProcess, \* and none of them
    Bootstrap, \* whom each process is configured to connect to
    MaxDials,  \* bound: streams a process opens to one other
    MaxFaults  \* bound: restarts and lost connections in a behaviour

ASSUME StreamsAssumption ==
    /\ NoProcess \notin Process
    /\ Bootstrap \in [Process -> SUBSET Process]
    /\ MaxDials \in Nat \ {0}
    /\ MaxFaults \in Nat

\* <<dialler, listener, number>>
Stream == {s \in Process \X Process \X (1 .. MaxDials) : s[1] # s[2]}
Between(p, q) == {s \in Stream : {s[1], s[2]} = {p, q}}

NoStream == <<>>

VARIABLES
    phase,     \* what each process is doing: "down", "bootstrap" or "accept"
    table,     \* whom each host has been connected with: kdht.RoutingTable
    lookup,    \* peers.lookup: the stream of each peer
    dialling,  \* the peer the one dialling goroutine has looked up
    near,      \* the dialler's end of each stream
    far,       \* the listener's end
    broken,    \* streams whose connection is gone
    faults,    \* faults so far
    disturbed  \* acquainted pairs that a fault has hit

vars == <<phase, table, lookup, dialling, near, far, broken, faults, disturbed>>

\* An end is "none" before its process has it; "looked_up" once the process
\* has found no peer in the way; "read" once the peer is added and started;
\* "ignored" when handleStream returned at once; "gone" with its process.
Init ==
    /\ phase     = [p \in Process |-> "down"]
    /\ table     = [p \in Process |-> {}]
    /\ lookup    = [p \in Process |-> [q \in Process |-> NoStream]]
    /\ dialling  = [p \in Process |-> NoProcess]
    /\ near      = [s \in Stream |-> "none"]
    /\ far       = [s \in Stream |-> "none"]
    /\ broken    = {}
    /\ faults    = 0
    /\ disturbed = {}

Runs(p) == phase[p] # "down"

-----------------------------------------------------------------------------
\* Switch.Start up to bootstrap.
Start(p) ==
    /\ ~Runs(p)
    /\ phase' = [phase EXCEPT ![p] = "bootstrap"]
    /\ UNCHANGED <<table, lookup, dialling, near, far, broken, faults, disturbed>>

\* kdht.RoutingTable().ListPeers.
ListPeers(p) == (table[p] \cup UNION {table[q] : q \in table[p]}) \ {p}

\* Whom the loop goes over.
Targets(p) ==
    CASE phase[p] = "bootstrap" -> Bootstrap[p] \ {p}
      [] phase[p] = "accept"    -> ListPeers(p)
      [] OTHER                  -> {}

\* host.Connect, and what it makes the two DHTs do.
Acquaint(p, q) == table' = [table EXCEPT ![p] = @ \cup {q}, ![q] = @ \cup {p}]

\* Mutant: one pass over the configuration, whatever comes of it.
LeaveBootstrapAnyhow(p) ==
    /\ phase[p] = "bootstrap"
    /\ dialling[p] = NoProcess
    /\ phase' = [phase EXCEPT ![p] = "accept"]
    /\ UNCHANGED <<table, lookup, dialling, near, far, broken, faults, disturbed>>

\* bootstrap goes over the configuration until the table is not empty.
LeaveBootstrap(p) ==
    /\ phase[p] = "bootstrap"
    /\ dialling[p] = NoProcess
    /\ ListPeers(p) # {}
    /\ phase' = [phase EXCEPT ![p] = "accept"]
    /\ UNCHANGED <<table, lookup, dialling, near, far, broken, faults, disturbed>>

\* Mutant: no peer is found, as acceptRoutine's own look-up finds none.
ConnectBlindly(p, q) ==
    /\ dialling[p] = NoProcess
    /\ q \in Targets(p) /\ Runs(q)
    /\ Acquaint(p, q)
    /\ dialling' = [dialling EXCEPT ![p] = q]
    /\ UNCHANGED <<phase, lookup, near, far, broken, faults, disturbed>>

(* connect, and dialPeersAsync as far as its look-up.  acceptRoutine looks  *)
(* the peer up before that by its raw id, under which nothing is stored, so *)
(* it goes on for every peer of the table; Find by the printed id decides.  *)
Connect(p, q) ==
    /\ dialling[p] = NoProcess
    /\ q \in Targets(p) /\ Runs(q)
    /\ Acquaint(p, q)
    /\ dialling' = [dialling EXCEPT ![p] = IF lookup[p][q] = NoStream THEN q ELSE @]
    /\ UNCHANGED <<phase, lookup, near, far, broken, faults, disturbed>>

\* The dialling goroutine has opened a stream and not added it yet.
Opened(p) == {s \in Stream : s[1] = p /\ near[s] = "looked_up"}

\* host.NewStream; the stream reaches the other host's handler later.
NewStream(p) ==
    LET q == dialling[p]
    IN  /\ q # NoProcess
        /\ Opened(p) = {}
        /\ Runs(q)
        /\ \E k \in 1 .. MaxDials :
               /\ \A j \in 1 .. MaxDials : near[<<p, q, j>>] = "none" <=> j >= k
               /\ near' = [near EXCEPT ![<<p, q, k>>] = "looked_up"]
        /\ UNCHANGED <<phase, table, lookup, dialling, far, broken, faults, disturbed>>

\* NewStream fails; connect says nothing of it, and the loop goes on.
NewStreamFails(p) ==
    /\ dialling[p] # NoProcess
    /\ Opened(p) = {}
    /\ dialling' = [dialling EXCEPT ![p] = NoProcess]
    /\ UNCHANGED <<phase, table, lookup, near, far, broken, faults, disturbed>>

\* dialPeersAsync: peers.Add takes the place of whatever is there by now, and
\* Start reads the stream; one that was there before is read on.
AddDialled(s) ==
    /\ s \in Opened(s[1])
    /\ near' = [near EXCEPT ![s] = "read"]
    /\ lookup' = [lookup EXCEPT ![s[1]][s[2]] = s]
    /\ dialling' = [dialling EXCEPT ![s[1]] = NoProcess]
    /\ UNCHANGED <<phase, table, far, broken, faults, disturbed>>

-----------------------------------------------------------------------------
\* Mutant: while the host itself is dialling, every stream is ignored.
IgnoreWhileDialling(s) ==
    /\ near[s] # "none" /\ far[s] = "none" /\ Runs(s[2])
    /\ far' = [far EXCEPT ![s] =
           IF dialling[s[2]] # NoProcess \/ lookup[s[2]][s[1]] # NoStream
             THEN "ignored" ELSE "looked_up"]
    /\ UNCHANGED <<phase, table, lookup, dialling, near, broken, faults, disturbed>>

\* handleStream up to its look-up: with the dialler among the peers it returns
\* and leaves the stream open.
HandleStream(s) ==
    /\ near[s] # "none" /\ far[s] = "none" /\ Runs(s[2])
    /\ far' = [far EXCEPT ![s] =
           IF lookup[s[2]][s[1]] # NoStream THEN "ignored" ELSE "looked_up"]
    /\ UNCHANGED <<phase, table, lookup, dialling, near, broken, faults, disturbed>>

\* Mutant: the peer is stored under the id of the host itself.
AddUnderOwnID(s) ==
    /\ far[s] = "looked_up"
    /\ far' = [far EXCEPT ![s] = "read"]
    /\ lookup' = [lookup EXCEPT ![s[2]][s[2]] = s]
    /\ UNCHANGED <<phase, table, dialling, near, broken, faults, disturbed>>

\* The rest of handleStream: peers.Add and Start.
AddHandled(s) ==
    /\ far[s] = "looked_up"
    /\ far' = [far EXCEPT ![s] = "read"]
    /\ lookup' = [lookup EXCEPT ![s[2]][s[1]] = s]
    /\ UNCHANGED <<phase, table, dialling, near, broken, faults, disturbed>>

-----------------------------------------------------------------------------
\* The pairs of p that a fault of p breaks up.
Acquainted(p) == {{p, q} : q \in {r \in Process \ {p} : r \in table[p] \/ p \in table[r]}}
Used(p, q) == {s \in Between(p, q) : near[s] # "none"}

\* A process dies: its ends go with it and its peers keep theirs, but some DHTs
\* may find out and forget it.
Crash(p) ==
    /\ Runs(p)
    /\ faults < MaxFaults
    /\ faults' = faults + 1
    /\ disturbed' = disturbed \cup Acquainted(p)
    /\ phase'    = [phase EXCEPT ![p] = "down"]
    /\ \E forgetting \in SUBSET (Process \ {p}) :
           table' = [q \in Process |->
               CASE q = p -> {}
                 [] q \in forgetting -> table[q] \ {p}
                 [] OTHER -> table[q]]
    /\ lookup'   = [lookup EXCEPT ![p] = [q \in Process |-> NoStream]]
    /\ dialling' = [dialling EXCEPT ![p] = NoProcess]
    /\ near'     = [s \in Stream |->
           IF s[1] = p /\ near[s] # "none" THEN "gone" ELSE near[s]]
    /\ far'      = [s \in Stream |->
           IF s[2] = p /\ near[s] # "none" THEN "gone" ELSE far[s]]
    /\ broken'   = broken \cup UNION {Used(p, q) : q \in Process \ {p}}

\* The connection of two hosts is lost, and with it every stream on it.
Disconnect(p, q) ==
    /\ Used(p, q) # {}
    /\ faults < MaxFaults
    /\ faults' = faults + 1
    /\ disturbed' = disturbed \cup {{p, q}}
    /\ broken' = broken \cup Used(p, q)
    /\ UNCHANGED <<phase, table, lookup, dialling, near, far>>

-----------------------------------------------------------------------------
Next ==
    \/ \E p \in Process :
           \/ Start(p) \/ LeaveBootstrap(p)
           \/ NewStream(p) \/ NewStreamFails(p)
           \/ Crash(p)
           \/ \E q \in Process : Connect(p, q) \/ Disconnect(p, q)
    \/ \E s \in Stream : AddDialled(s) \/ HandleStream(s) \/ AddHandled(s)

Spec == Init /\ [][Next]_vars

(* Processes are started, goroutines run on, and the DHT does its work.  The *)
(* loops come round to every peer again and again, and one that is asked for *)
(* a stream often enough gives one.                                          *)
Fairness ==
    /\ \A p \in Process :
           /\ WF_vars(Start(p)) /\ WF_vars(LeaveBootstrap(p))
           /\ \A q \in Process \ {p} :
                  /\ SF_vars(Connect(p, q))
                  /\ SF_vars(dialling[p] = q /\ NewStream(p))
    /\ \A s \in Stream :
           WF_vars(AddDialled(s)) /\ WF_vars(HandleStream(s)) /\ WF_vars(AddHandled(s))

FairSpec == Spec /\ Fairness

-----------------------------------------------------------------------------
TypeOK ==
    /\ phase \in [Process -> {"down", "bootstrap", "accept"}]
    /\ table \in [Process -> SUBSET Process]
    /\ \A p, q \in Process : lookup[p][q] \in {NoStream} \cup Between(p, q)
    /\ dialling \in [Process -> Process \cup {NoProcess}]
    /\ near \in [Stream -> {"none", "looked_up", "read", "gone"}]
    /\ far \in [Stream -> {"none", "looked_up", "read", "ignored", "gone"}]
    /\ broken \subseteq Stream
    /\ faults \in 0 .. MaxFaults

\* What p has done with a stream between it and another process.
EndOf(p, s) == IF s[1] = p THEN near[s] ELSE far[s]

\* A process opens one stream to a peer in its life, however often acceptRoutine
\* goes over the table: the look-up in dialPeersAsync ends every later dial.
OneDialEach ==
    \A s, t \in Stream :
        /\ s[1] = t[1] /\ s[2] = t[2]
        /\ near[s] \in {"looked_up", "read"} /\ near[t] \in {"looked_up", "read"}
        => s = t

\* Both have opened a stream to the other.
Crossed(p, q) ==
    \E s, t \in Between(p, q) : s[1] # t[1] /\ near[s] # "none" /\ near[t] # "none"

\* A stream is left unread by its listener only if the two dialled each other, if
\* it is broken, or if a broken one of the same dialler is still read in its place:
\* no third process, no retry and no fault of others does it.
IgnoredOnlyIfCrossed ==
    \A s \in Stream : far[s] = "ignored" =>
        \/ Crossed(s[1], s[2])
        \/ s \in broken
        \/ \E t \in broken : t[1] = s[1] /\ t[2] = s[2] /\ far[t] = "read"

\* p reads the stream that q sends on to p.
Hears(p, q) == LET s == lookup[q][p] IN s # NoStream /\ EndOf(p, s) = "read"

\* In the end every two processes hear each other, unless they dialled each other
\* or a fault broke an acquaintance.
AllHear ==
    \A p, q \in Process :
        p # q => <>[](Hears(p, q) \/ Crossed(p, q) \/ disturbed # {})
=============================================================================
