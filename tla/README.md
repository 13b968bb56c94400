# Verification of gohotstuff

TLA+ models of `gohotstuff`, a chained HotStuff replica in Go. TLC checks them
on small instances; for the properties that matter most TLAPS proves them for
every number of validators and every bound. Line numbers are of the repository.

## The system

A process is a `State` (the consensus core), a `Switch` (the peer-to-peer side)
and a signing client, wired together by `node/node.go`.

| component | source | state it keeps | operations |
|---|---|---|---|
| handlers | `state/state.go`, `state/msg.go`, `types/` | the State mutex over all of the core | `onReceiveProposal`, `onReceiveVote`, `onReceiveTimeout`, `localTimeout`, `NewRoundEvent`, `schedule` |
| block tree | `state/block_tree.go`, `state/bt/basic_tree.go`, `state/quorum_cert.go` | the nodes, `keySet`, `root`, and the pointers `high`, `generic`, `locked`, `commit` | `Insert`, `LookUp`, `Reset`, `Search`, `ExecuteNInsert`, `ProcessVote`, `ProcessCommit` |
| pacemaker | `state/pacemaker.go` | `current` | `AdvanceRound`, `ProcessTimeoutRound` |
| safety rules | `state/safetyrules.go` | none | `CheckProposal`, `CheckVote`, `CheckTimeout`, `UpdatePreferredRound` (does nothing) |
| vote and timeout sets | `state/set.go` | senders by round and id, or by round and index | `AddVote`, `AddTimeout`, `HasTwoThirdsAny`, `reset`, `Reset` |
| election | `state/election.go` | validator lists by start round | `Leader`, `Validators`, `Update` (not called) |
| ticker | `state/ticker.go` | `tickChan`, `tockChan`, a `time.Timer`, the current `timeoutInfo` | `ScheduleTimeout`, `timeoutRoutine`, `Stop` (not called) |
| event loop | `state/state.go:141-183` | `peerMsgQueue`, `senderQueue` | `Start`, `HandleFunc`, `receiveRoutine` |
| peer set | `p2p/peer.go` | `lookup`, `list`, a mutex | `Add`, `Find`, `Range` |
| switch | `p2p/switch.go` | the libp2p host, the routing table | `Broadcast`, `Send`, `dialPeersAsync`, `handleStream`, `acceptRoutine`, `bootstrap`, `Stop` (not called) |
| connection | `p2p/conn.go` | a `sendQueue` per channel, the stream | `Send`, `sendRoutine`, `recvRoutine`, `handlePkt`, `FlushStop` (not called) |
| crypto | `crypto/` | keys | `Sign`, `Verify` |
| wiring, commands, format, storage | `node/`, `gohotstuff/`, `libs/`, `pb/`, `storage/` | configuration | `NewNode`, command line, generated code |

How they interact. `handlePkt` runs in a goroutine per packet and puts a message
in `peerMsgQueue` through `HandleFunc`. `receiveRoutine`, one goroutine, takes
from three channels: a message goes to its handler, under the State mutex; a
message a handler put in `senderQueue` goes to `schedule`, which gives one copy
to `peerMsgQueue` and one to the switch; a tock of the ticker goes to
`localTimeout`. The handlers call the safety rules, the sets, the pacemaker and
the block tree, and `NewRoundEvent` schedules the ticker, which has a goroutine
of its own and one per expiry. `Broadcast` runs the goroutines of
`PeerSet.Range`, and `receiveRoutine` waits there for the first result.

Which behaviours are hard: messages of all replicas lost, delayed and reordered
against timeouts; quorums that complete once more with every further message;
a timeout node whose parent each replica reads off another message; commits on
a tree whose pointers lag; a restart with nothing persisted (the WAL is a
TODO, `state.go:60-62`); ticks, expiries and tocks that cross each other; a
peer list that is read without its mutex; two processes that dial each other at
once; and bounded queues whose only reader also writes to them. `PROJECT.json` lists each at its line
under `hazards`, with the properties that would catch it.

What makes each part correct:

- handlers and pacemaker: a round is entered only behind a certified node, and
  what a replica builds on is certified; nothing moves back but by a restart;
  rounds end; committed branches agree;
- block tree: commits only go down, never without enough nodes below; the key set
  covers every live node; a block has one parent everywhere;
- ticker: never armed backwards, fires again while the round lasts, announces
  no expiry as that of an earlier round, blocks nobody;
- peer set: the list and the table are one set; a broadcast reaches every
  peer and comes back;
- switch: processes hear each other in the end; each dials a peer once;
- event loop and connection: a message is in one place on each of its ways, is
  handled once, and is lost only where the code gives it up; own messages keep
  their order;
- message formats and crypto: what a receiver's handlers see is what the sender's
  own copy says; it verifies, and its signature is for nothing else.

## Modules

| module | models | notes |
|---|---|---|
| `BlockTree` | basic tree and block tree, as operators on a tree value | the Go heap is two functions over all ids ever inserted, `par` and `anc`; pruned nodes stay in them and are no longer `Live` |
| `HotStuff` | N replicas and the network between them | one action per outcome of a handler |
| `HotStuffProperties` | what is claimed of `HotStuff` | with the inductive invariant `IInv` |
| `MCHotStuff` | constants for TLC | |
| `TreeCalls`, `MCTreeCalls` | one tree under every order of calls | longer chains and more forks than HotStuff's instances reach; each replica's tree in `HotStuff` implements it |
| `RoundTimer` | abstract: what a replica's timer promises | refined by `HotStuff` and by `Ticker` |
| `Ticker` | `ticker.go` with `Start` and `receiveRoutine` around it | channels, timer and goroutines in full |
| `PeerSet`, `MCPeerSet` | `peer.go` with the goroutines that use it | |
| `Streams`, `MCStreams` | `switch.go`: who dials whom, who reads which stream | processes die and restart, connections break |
| `Network` | abstract: the network `HotStuff` assumes | refined by `Pipeline` |
| `Pipeline`, `MCPipeline` | the queues between `senderQueue` and the addressee's `peerMsgQueue` | `receiveRoutine`, `schedule`, `sendBytes`, `sendRoutine`, `recvRoutine`, `handlePkt` |
| `Wire` | `pb/`: Marshal, Size and Unmarshal, as operators on bytes | |
| `Messages`, `MCMessages` | `msg.go`, `crypto_client.go` and the packets of `conn.go` | one connection, byte for byte |
| `HotStuffProofs` | theorems about `HotStuff`, among them its two refinements | |
| `BlockTreeProofs`, `TreeCallsProofs` | lemmas about the tree operators, theorems about `TreeCalls` | |
| `TickerProofs`, `PeerSetProofs`, `StreamsProofs`, `PipelineProofs` | theorems about the module each is named for | |
| `MessagesProofs` | lemmas about `Wire`, theorems about `Messages` | |

**HotStuff.** `round` is `pacemaker.current`, `tree` the block tree, `voteSet`
and `timeoutSet` the sets as pairs, `timer` the round of the ticker's
`timeoutInfo`. `sent` is every message queued on `senderQueue` so far, `handled`
what a replica has taken from `peerMsgQueue`. A handler is one step: the State
mutex and the single receiving goroutine make it atomic, and nothing it queues
is seen before it is `sent`. A message in `sent` may be handled by each
addressee at any later time, once, or never: `conn.go:170` starts a goroutine
per packet, `conn.go:235` gives up a send after three seconds, and
`schedule` ignores the result. The actions are

| action | code |
|---|---|
| `RejectProposal`, `AcceptProposal` | `onReceiveProposal`, 220-266 |
| `RejectVote`, `CollectVote`, `VoteQuorum` | `onReceiveVote`, 272-305, before and from the quorum on |
| `CollectTimeout`, `TimeoutQuorum`, `TimeoutQuorumInsertFails` | `onReceiveTimeout`, 310-352; the last is the error return of 337, after the pacemaker has advanced |
| `LocalTimeout` | `localTimeout`, 355-399 |
| `Restart` | the process dies and `NewNode` and `Start` run again |

`NewRoundEvent` (460-502) is an operator inside the two quorum actions, as it is
a call inside the handlers. Left out, because nothing reads them: the timeout
index (nothing increments it), `latestRound` and `latestID`, the parent a vote
names, and signatures. An id is a pair of its round and a number: the code's
ids are unique by construction, `tmo_<round>_<index>` (number 0), or random
numbers (number above 0), so an id determines its round.

**Ticker.** One action per channel operation. `go.mod` asks for Go 1.14, where
`Stop` and `Reset` do not empty a timer's channel, so an expiry can survive a
reset; and the goroutine of an expiry reads the shared `ti` only when it runs.
`receiveRoutine` is reduced to the three things it does to the ticker: move the
round and schedule, move the round and not schedule (`Follow`, what
`onReceiveProposal` does), and answer a tock.

**PeerSet.** `Open` is the look-up of `dialPeersAsync` or `handleStream`, in its own
critical section; `StartAdd` and `EndAdd` are the two values `Add` stores in
`s.list`, apart because the goroutine of `Range` reads it without the mutex;
`WithoutPeer` is the loop of `Add` that makes the first of them. A
call of `Broadcast` goes through `Broadcast`, `AddToGroup`, `Spawn` (or
`ReadTornList`: a slice is three words, and reading it during the store is
undefined), then `Try` and `Report` per goroutine, `Close` and `Return`.

**Streams.** A stream is its dialler, its listener and a number, and has two ends.
`Connect` is `connect` and the look-up at the start of `dialPeersAsync`, `NewStream`
and `AddDialled` the rest of it; `HandleStream` is `handleStream` up to its look-up,
`AddHandled` the rest. A look-up and the addition it leads to are two critical
sections of the set of peers, and two steps. The routing table is the DHT's, known
only from how `switch.go` uses it: whom the host is connected to, and whom those
are. `Crash` and `Disconnect` leave the stream in its place at the other end, as
nothing removes a peer; `disturbed` records which pairs a fault has hit. An
"ignored" stream is one that `handleStream` left open and unread.

**Pipeline.** `loop` is what `receiveRoutine` is at: its `select`, a send on
`senderQueue` in a handler, a send on its own `peerMsgQueue` in `schedule`, or the
wait for the first result of `Broadcast` or `Send`. What a handler sends is the
next of its process's messages or none; which one is `HotStuff`'s business. A
message's goroutines in `sendBytes` and in `handlePkt` are the sets `sending` and
`arriving`; queues and streams have a capacity. `Unread` links are those whose
other end ignored the stream (see `Streams`), `Fragile` those that may break.

**Wire and Messages.** `Wire` translates the generated code message by message. On
the way out, `MarshalX` and `SizeX` have a term for each field. On the way in,
`Fields` is the loop of `Unmarshal`, whose turn is `FieldAt`; `UnmarshalX` names the
wire type of each field number (`Malformed`) and takes the last field of each
(`FieldValue`), where zero stands for none. Of several vote infos, which no sender
writes, the code would merge what `Wire` takes the last of. A packet without its
message reads as an empty one, which `handlePkt` leaves as it leaves the code's
packet without one (`conn.go:197`). `Messages` carries one
message from `schedule` of its sender through
`ProtoFromConsMsg`, `Sign`, `writeMsgTo`, `recvRoutine` and `handlePkt` to
`ConsMsgFromProto` at the receiver. The text that is signed is a function of the names
of the fields that are not zero (`JSON`); their order is fixed. A signature is ideal:
its bytes are the number
of what was signed, so it verifies for exactly that text. `buffer` is the one
buffer of the reader; goroutines hold the packets unmarshalled from it. A message that
`ConsMsgFromProto` can read but not convert, without a sum or a vote info, is a nil
pointer it follows (`Panics`): the process ends. No sender of this code makes one, as
the proof of `MessagesInductive` shows (`HandlePktIs`).

**How the modules meet.** `HotStuff` lets each addressee take each sent message once,
at any later time or never. `Network` says so by itself, and `Pipeline` implements
it: `NetworkSpec` is `Network!Spec` with the messages that came to `senderQueue` as
`sent`, and what each `receiveRoutine` took as `handled`. `Messages` shows that
what is taken is what was sent. `Streams` tells which links are unread, `PeerSet`
which connections a broadcast tries. `TreeCalls` is what each replica of `HotStuff` does
to its tree. `RoundTimer` is the timer `Ticker`
implements with its goroutines, and the one each replica of `HotStuff` has.

## Runs

The `.cfg` files give the bounds. `N` validators start in round 1 on the start
block of round 0. `MaxRound` stops a replica from entering a higher round,
`TimerRounds` are the rounds whose timer may expire, `MaxProposals` bounds the
ids of a round. Deadlock is not checked anywhere: under every bound the system
stops (`Pipeline` when all messages are handled, `Streams` when nobody is left to
dial).

| run | bounds | shows |
|---|---|---|
| `four_rounds` | N=2, 4 rounds | `HighFollowsRound`, `RoundBacked`, `NeverBack` |
| `restart` | N=4, one never runs, another may restart; 3 rounds, 2 proposals a round, the timer of round 1 | `TypeOK`, `IInv`; `CertifiedHigh`, `CertifiedParents`: only certified nodes are built on; `QuorumsActedOn`; `TreesKept`: each replica's tree is that of `TreeCalls` |
| `live_two` | N=2, 2 timed rounds, 3 rounds | `SynchronizedRoundEnds`; `TreesAgreeOnBlocks`; `TimersKept`: each replica's timer is `RoundTimer` |
| `tree_calls` | 6 proposal ids, 1 timeout node, 6 rounds | `RootMovesDown`, `CommitIsFourDeep`, `KeySetShape`, `CommitPointerNotAbove` |
| `ticker` | 2 rounds, buffers of 1, 2 expiries under way | `TimerSpec`: the goroutines are `RoundTimer`; `TocksNeverEarlier`, `TimerKeepsFiring`, `ScheduleReturns` |
| `peer_set` | 2 peers, one connected to twice, 2 broadcasts | `ListMatchesTable`, `BroadcastReturns`, `EveryPeerTried` |
| `streams` | 2 processes, one configured with the other; 3 streams each way, 2 faults | `OneDialEach`, `IgnoredOnlyIfCrossed`; `AllHear` |
| `messages` | any 2 of 12 messages, at two times; rounds 0 to 16384, fields of 17 to 740 bytes, packets up to 1025 | `GotIsOwn`, `ReceivedVerifies`, `SignatureFixesContent`, `GotUpToTooLarge` |
| `pipeline` | 3 processes, 4 messages, every queue of capacity 1, one unread link, two that may break | `OnePlaceEach`, `OwnInOrder`, `NetworkSpec`; `EveryMessageHandled`, `BroadcastReturns` |
| `fork` | N=2, 6 rounds, 3 timed | violation of `Agreement` |
| `round_stalls` | N=2, 4 rounds, 2 timed | violation of `RoundEnds` |
| `group_overrun` | as `peer_set` | violation of `GroupNotNegative` |

Why the bounds are enough for their questions. N=4 is the smallest number that
tolerates a stopped validator, so with one down every quorum needs all the others,
one of which may have forgotten everything; and `4*2/3` is rounded. The first
proposal is of round 2, behind a quorum of timeouts (the leader of round 1 never
proposes: `NewRoundEvent` runs on a quorum only), so three rounds have a timeout
node, proposals and votes on top of it, and the round they lead to. Four rounds
are the fewest in which a timeout quorum names a parent that
a replica has missed; they fire `TimeoutQuorumInsertFails`. `VoteSet.reset`
forgets the rounds three and more below that of the quorum and the first votes are of
round 2, so only a quorum of round 5 drops a count that late votes then start again;
no passing run goes that far. That such a count never stands in for a quorum, and that no
quorum is left lying, is proved below (`HighIsCertified`, `QuorumsMoveTheRound`),
with no bound on the rounds. A commit
needs a chain of five nodes, which `tree_calls` reaches on a single tree, with a
fork, late votes and a late timeout node; `fork` reaches it with replicas. The
theorems below hold without the bounds. With room for one in every queue each of
them is full within the four messages of `pipeline`, and a loop that waits for
itself, a send that gives up and a stream nobody reads all happen. In `streams` two
faults are a restart during a dial, or a lost connection and a restart. In
`messages` the rounds are the values around which a varint grows, or is not sent at
all; two messages are enough to cross in the reader's buffer and to be compared. The
certificate in a proposal has the length at which a proposal of round 1 makes a packet
of exactly the 1024 bytes `recvRoutine` reads and one of round 128, whose varint is a
byte longer, makes 1025. `streams` has two processes, as a look-up and the addition that
belongs to it are about one pair; `OneDial` and `IgnoredOnlyCrossed` are proved for any
number, `AllHear` is checked for two only.

Every property of a passing run has a mutant in `PROJECT.json`, a definition
changed as a plausible bug would change it, under which TLC finds the property
violated. The mutants stand beside the definitions they would replace.

### Fairness

`HotStuff`'s `FairSpec` has weak fairness of `Receive(p)` and of
`LocalTimeout(p)`: Go's `select` serves a channel that stays ready, the timer of
a round that lasts expires and is armed again. That every message arrives is an
assumption about the network, needed by any liveness claim; only
`live_two` and `round_stalls` use it. `Ticker` has weak fairness of every
goroutine, and strong fairness of `LocalTimeout` alone: `receiveRoutine` finds
`tockChan` ready again and again between its other work, and `select` picks a
ready channel at random. Handlers that move the round have no fairness.
`PeerSet` has weak fairness of the goroutines of a broadcast and of `Add`; a
`Send` ends by itself within three seconds. Opening a connection, and making a
broadcast, need not happen.

`Pipeline` has weak fairness of each `receiveRoutine`, of each process's goroutines
of `handlePkt`, and of the goroutines of each connection: they run whenever they
can. Timeouts and broken streams need not happen. In `EveryMessageHandled` the
loop that waits for itself is an exception, not an assumption: the run reaches it.
`Streams` has weak fairness of a process's start and of the goroutines that serve
and add streams, and strong fairness of `Connect` and `NewStream`: `bootstrap` and
`acceptRoutine` come round to every peer for as long as they run, and the host of
a peer that runs gives a stream in the end. Faults have none.

### Where the code and its comments disagree

- `onReceiveProposal` commits one node deeper than its comment says. `state.go:217` has
  the ledger check "whether to commit proposal's great grantparent qc", which is three
  nodes above the proposal. `pnode` is the proposal's parent, so
  `pnode.Parent.Parent.Parent` (`state.go:256-257`), which `ProcessCommit` is given, is
  four above: the great-great-grandparent. `CommitIsFourDeep` states the rule of the
  code, that what is committed has four live nodes below it, and its passing says
  nothing for the comment: read as a rule of what is committed, `state.go:217` is false
  of every commit. The code is on the careful side. The proposal that commits carries
  the certificate of its parent, so the node three above the proposal is the head of
  three certified nodes, which is what HotStuff asks of a commit; this code waits for
  a fourth.
- `fork`: two replicas commit roots neither of which is an ancestor of the other
  (`state.go:38-39`: blocks are committed upon reaching agreement). A replica may
  vote in a round and then time out in it, so a round can have a quorum of each,
  and high nodes differ. The parent of the next timeout node is the one named by
  the message that completes the quorum (`state.go:315-316`), another at each
  replica: the same timeout node sits under the voted block at one replica, beside it
  at the other. Proposals on top of it are accepted by both, and commit the
  block at the first and prune it at the second. All replicas follow the
  program; none has to be faulty, and nothing has to be lost.
- `round_stalls`: with nothing lost, replicas stay in a round for ever
  (`state.go:354`: `localTimeout` handles the wait for a proposal and for
  votes). A vote that outruns its proposal is dropped (`CheckVote` wants the node
  in the tree), and a follower that advances on a proposal does not arm its
  timer: the ticker still has the round before, and that tick is stale.
  `SynchronizedRoundEnds` is what does hold, once every running replica has
  armed its timer for the round.
- `group_overrun`: `Range`'s goroutine counts one list and iterates over another, and
  the process panics on a negative `WaitGroup` or a closed channel
  (`peer.go:22`: iteration is thread-safe). When a connection is replaced in the same
  place, the count may be too high instead; then the channel is never closed and,
  with no peer left to answer, `Broadcast` keeps `receiveRoutine` waiting for
  ever. `BroadcastReturns` says this is the only way that happens.

### What the properties have to except

Where nothing in the repository promises otherwise, a weakness of the code shows
as the exception its property needs:

- Two processes that dial each other at once may each keep its own stream and leave
  the other's unread (`switch.go:291`), and then do not hear each other, for good.
  `AllHear` says that without this, and without faults, all hear each other. After a
  restart the old stream keeps its place and the new one is ignored, as nothing
  removes a peer (`switch.go:290`). `IgnoredOnlyIfCrossed` allows exactly that: an
  ignored stream is one of a crossing, or is broken itself, or there is a broken one of
  the same dialler that the listener still reads in its place.
- A packet above `defaultMaxPacketMsgSize` ends the receiver's `recvRoutine` for good
  (`conn.go:159-168`), and no sender looks at the size: whatever its process sends on
  that stream afterwards is not read. `GotUpToTooLarge` says that this is the only way
  a message is refused on the way, and which messages it takes.
- `receiveRoutine` is the only reader of `peerMsgQueue` and `senderQueue`, and sends
  on both; with the queue full it waits for itself and never runs again
  (`state.go:406`). This is `Stuck`, excepted in `EveryMessageHandled`. A loop that
  waits for the network does return: `BroadcastReturns`.
- `ticker.go:86` says newer ticks replace older timers. An expiry that is in the
  timer's channel when a tick resets it is taken as one of the newer round, and the
  goroutine of an expiry reads the round only when it runs. `TocksNeverEarlier` and
  `TimerSpec` are what holds: what is announced may be early, and is never a
  round that is past.

## Proofs

The theorems are of `Spec` (no fairness). Those about `HotStuff` hold for every `N`, `Running`, `StartRound`,
`MaxRound`, `MaxProposals`, `TimerRounds` and `MaxRestarts` that satisfy
`ConstantsAssumption` and `RunningAssumption` (naturals, `N > 0`, some of the
validators run) and with `NoNode` not an id. The module of every `HotStuff` run
extends these modules, so TLC evaluates the assumptions.

`HotStuffProofs.Invariance` is `Spec => []IInv`. Why the invariant is what it is:
`CertifiedHigh` alone is not inductive. The high node moves to a voted node, to
a timeout node or to a proposal's parent. For the first two, `CountsBacked` ties
the senders a replica has counted to messages in `sent`; for the third,
`CertifiedParents` carries the certificate in the message itself, where it comes
from its sender's high node. That a timeout node is new when its quorum completes, or
cannot be inserted at all, is `TreesBehindRound`; that a repeated insertion finds
the same parent is `BlocksAreProposals`. `HighFollowsRound` and `QuorumsActedOn`
are kept by every handler that moves the round or the high node, `TypeOK` by all.
The proof has one lemma per handler about the replica that runs it
(`LocalInv`), one per kind of message about what it sends (`MessageInv`), and
`LocalInvMonotone`: more messages never falsify what holds of a replica. From
`IInv`:

| theorem | states |
|---|---|
| `TypeCorrect`, `HighIsCertified`, `ParentsAreCertified`, `HighIsOfLastRound`, `QuorumsMoveTheRound` | the parts of `IInv` that are properties |
| `RoundsAreBacked` | `RoundBacked`, from `HighFollowsRound`, `CountsBacked` and `CertifiedHigh` |
| `BlocksHaveOneParent` | `TreesAgreeOnBlocks`, from `BlocksAreProposals` |
| `ReplicasNeverGoBack` | the action property `NeverBack` |
| `ThresholdIsExact` | `lens > len*2/3` on Go's integers is `3*lens > 2*len` |
| `HotStuffImplementsRoundTimer` | `TimersKept`: each replica's `round`, `timer` and timeout messages are a behaviour of `RoundTimer`; its own invariant is that no timer is ahead of its round |
| `HotStuffImplementsTreeCalls` | `TreesKept`: what a handler does to its replica's tree is a call of `TreeCalls` |
| `ReplicaTreesAreSound`, `ReplicasKeepCommits` | hence what `TreeCalls` promises, of every replica's tree; a commit is given up by a restart only |

The refinement of `TreeCalls` needs `IInv`: a handler gives `TreeCalls` a node that is
in the tree or new because `TreesBehindRound` and `BlocksAreProposals` say so. It
needs `TreesInv`, too, the invariant `TreeInv` of `TreeCalls` for each replica: that a
known id is refused as a repetition depends on the keys that `Reset` has left.
`IdsBounded` ties the ids sent to the bounds of `TreeCalls`. `TreesKept` instantiates
`TreeCalls` once for each replica, and `SameOperators` shows that its operators are
the ones `HotStuff` uses.

`BlockTreeProofs` has the lemmas about the tree operators: each returns a tree, and
each call keeps `TreeInv` and moves the root down or not at all. The theorems about
one tree and those about all replicas rest on the same lemmas.

`StreamsProofs` is about `Streams`, for every set of processes, configuration and
number of dials and faults that satisfy `StreamsAssumption`. `StreamsTypeCorrect`,
`OneDial` and `IgnoredOnlyCrossed` state `TypeOK`, `OneDialEach` and
`IgnoredOnlyIfCrossed`; `StreamsInductive` states the invariant they follow from.
`OneDialEach` needs `DialsCounted`: the one goroutine that dials has at most one
stream half way, and a peer whose stream it reads is looked up ever after. What an
ignored stream means rests on `StoredTaken`: the stream in the way is one the listener
opened itself, or one of the same dialler that the listener reads. In the second
case `OneDialEach` says that the dialler's end of one of the two is gone, and
`GoneBroken` that this one is broken.

`TreeCallsProofs` is about one tree under every order of calls, for any ids, rounds
and timeout nodes. `TreeInductive` is `TreeInv`: `IsTree` with the three state
properties of the run and two facts about chains. `ChainsOK` says that the nodes
above a node are its parent's and the parent, each of a lower round, so that a chain
has no cycle and "above" is transitive; without it nothing follows about the root
after a `Reset`. `FourBelow` is asked of every root but the first. Then
`CommitsAreKept` (`RootMovesDown`, a property of steps), `CommitsAreDeep`,
`KeysAreTheTrees` and `CommitStaysBelow` follow. The lemmas on what an insertion,
`redirectHighQCWithoutLock` and `Reset` each do to `TreeInv` are in `BlockTreeProofs`.

`TickerProofs` is about `Ticker`, for any sizes of the channels and any number of
expiries under way. `TickerImplementsRoundTimer` is the refinement `TimerSpec`, step by
step: `ReadRound`, `NewRoundEvent`, `Follow` and `LocalTimeout` are steps of
`RoundTimer`, all others stutter. When `LocalTimeout` acts on a tock of the replica's
round, the timer has to be armed for that round, though the tock was made by a
goroutine that read a shared variable, perhaps long after its expiry. `TocksBehind`
says that at every stage between the timer and `tockChan` nothing is ahead of what
`timeoutRoutine` is at, `ScheduledReached` that no scheduled round is ahead of the
replica. `OneAtATime` is about the
two goroutines that send ticks. `TickerTypeCorrect` and `TocksAreNotStale` are the
other two.

`PipelineProofs` is about `Pipeline`, for any processes, messages, capacities, unread
and fragile links that satisfy `PipelineAssumption`. Its invariant has seven parts.
`Shape` and `Capacities` give `PipelineTypeCorrect`. `Addressed` says that a
message is only on its way from its sender to an addressee. `Numbered` says that the
number of a message counts what its process has sent, so that a new message is in no
queue yet. `OnLinks` is `OnePlaceEach`, with "exactly one place" spelled out instead of
counted; `OwnPlace` is the same for the copy a process keeps for itself, and without
it a message could be handled twice at its sender. `OwnOrder` is `OwnInOrder` followed back into
`senderQueue`, the loop and `peerMsgQueue`, where the order is made.
`PipelineImplementsNetwork` is the refinement `NetworkSpec`: `QueueMessage`
is `Network!Send`, `HandleMsg` is `Network!Take`, the rest stutters.

`PeerSetProofs` is about `PeerSet`, for any peers, connections to each and broadcasts.
Between the two stores of `Add` the list lacks the peer that is added while the table
may have it, so `TableListed` leaves that peer out of both; `Shape` says that at most
one goroutine adds, and that no connection is in the list twice. `ListIsTheTable` and
`PeerSetTypeCorrect` follow. What the loop of `Add` leaves in the list is proved
(`WithoutPeerIs`) by induction on its rounds. The library's induction theorems take
an operator, which the provers cannot instantiate, but `WFMin` takes a set:
`Induction` is the principle for a set of numbers, and `RoundsExist` proves with it that
the recursive function exists.

`MessagesProofs` is about `Messages`, for any messages, hosts, times, public key and
lengths that satisfy `MessagesAssumption`: numbers are not negative and have varints
of ten bytes at most, as those of an `int64` do; strings are shorter than two megabytes
(`Limit`); a proposal has an id, as `GetNextID` prints a number. A behaviour has at most
255 messages, because a signature is modelled by bytes that hold its number.

It starts from the wire format. `EncodeVarintIs`, `ValueIs` and `FromIs` say that the
recursive functions of `Wire` satisfy their own equations, from `Recursion`: a
function that steps down in rank exists. `SovIsLength` (Size counts what
Marshal writes) and `DecodeIs` (the loop over `shift` undoes `encodeVarint`) are by
induction. `Encodes(x, F)` says of bytes `x` that wherever they stand, the fields `F`
are read from them and reading goes on behind them. It composes over `\o`
(`EncodesBoth`), and with `EncodesAll` gives the fields of a whole message; the
switches of `Unmarshal` then find each of them once. `MessageRoundTrip` and
`PacketRoundTrip` are the result. `SentIs` adds `Sign`, `Verify`, `ProtoFromConsMsg` and
`ConsMsgFromProto`, and `SignedTextFixes` shows that the signed text, which leaves out
zero fields, still tells the kind: only a vote has a `vote_info`, and only a proposal
an `id`.

The invariant of the connection goes by position: the messages of the sender's queue
are the last of `own`, those of the stream the ones before, and everything before
those has been read. Every number read is with a goroutine, as a packet of that
message, or in `got`. `MessagesTypeCorrect`, `ReceiverSeesWhatSenderSees`,
`WhatArrivesVerifies` and `SignaturesFixContent` follow. `OnlyTooLargeRefused` states
`GotUpToTooLarge`, for any `MaxPacketMsgSize`: `Sized` adds to the invariant that what has
been read was small enough, and that reading has ended only at what was not.

Model-checked only: everything under fairness, as TLAPS has no ENABLED. Every other
property of a passing run is stated by a theorem. No module has a RECURSIVE operator.

## What is not modelled

- `Stop` of the ticker and of the switch, `FlushStop`, `Election.Update` and
  `UpdatePreferredRound`: nothing calls them, or they do nothing. The timeout index:
  nothing increments it.
- Real time: round timers, the three seconds of `sendBytes` and the two seconds
  `GetNextID` sleeps may take any time.
- Of the wire format: bytes of fields no message has, which the code keeps and sends
  on, and negative integers, which no field of these messages holds. `Verify` is
  modelled though nothing in the repository calls it. Reading keys is I/O.
- Liveness with a validator down, and with more than two processes dialling:
  the first is checked for safety only (`restart`), the second for two.
- Commands, configuration files, logging; `storage/block.go` is an empty interface.

## Plan

Done, in this order: `BlockTree`, `HotStuff` and its properties, the
inductive invariant and its proof, `TreeCalls`, `RoundTimer` and `Ticker`,
`PeerSet`, `Streams`, `Wire` and `Messages`, `Network` and `Pipeline`, the
proofs about `Streams`, `TreeCalls`, `Ticker`, `Pipeline` and `PeerSet`, the
refinement of `TreeCalls` by the replicas of `HotStuff`, and the wire format and the
proofs about `Messages`.
