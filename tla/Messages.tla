------------------------------ MODULE Messages ------------------------------
(***************************************************************************)
(* What happens to a message between the schedule of its sender and the    *)
(* peerMsgQueue of a receiver: state/msg.go turns it into protobuf, the    *)
(* crypto client takes that apart, signs it and puts it together again,    *)
(* conn.go packs it, and everything is undone on the other side, where     *)
(* recvRoutine reads packets into one buffer and a goroutine handles each. *)
(*                                                                         *)
(* One connection is modelled, byte for byte by module Wire; the queues    *)
(* along the way and what may be lost in them are module Pipeline's.  A    *)
(* signature is ideal: it is the number of what was signed.                *)
(***************************************************************************)
EXTENDS Wire

CONSTANTS
    Queued,           \* the messages handlers put on senderQueue
    Hosts,            \* the names of senders
    Times,            \* what the clock may show
    PublicKey,        \* the sender's, 65 bytes
    SignatureLength,  \* about 70
    MaxPacketMsgSize, \* defaultMaxPacketMsgSize
    MaxMessages       \* bound: messages of a behaviour

\* What handlers make with the constructors of state/msg.go, of rounds that are not
\* negative and short ids; a proposal's id is a number in decimals, so not empty.
Proposals ==
    [ kind : {"proposal"}, round : Number, id : Short \ {Nil}, justify : Short,
      sender : {Nil}, timestamp : {0} ]
Votes ==
    [ kind : {"vote"}, round : Number, id : Short, parent_round : Number, parent_id : Short,
      commit_info : {Nil}, to : Short, sender : {Nil}, timestamp : {0} ]
Timeouts ==
    [ kind : {"timeout"}, round : Number, index : Number, parent_round : Number,
      parent_id : Short, sender : {Nil}, timestamp : {0} ]

ASSUME MessagesAssumption ==
    /\ Queued \subseteq Proposals \cup Votes \cup Timeouts
    /\ Hosts \subseteq Short /\ Times \subseteq Number /\ PublicKey \in Short
    /\ SignatureLength \in 1 .. Limit - 1 /\ MaxPacketMsgSize \in Nat
    /\ MaxMessages \in 1 .. 255

\* libs.ConsensusModule, as bytes, and libs.ConsensusChannel.
ConsensusModule  == <<99, 111, 110, 115, 101, 110, 115, 117, 115>>
ConsensusChannel == 0

VARIABLES
    own,       \* the messages the sender has put on its own peerMsgQueue
    signed,    \* what was signed: keys and texts
    sendQueue, \* the sender's queue for the connection
    stream,    \* packets on their way
    reading,   \* recvRoutine has not ended
    buffer,    \* the reader's buffer, used again for every packet
    read,      \* packets read so far
    handling,  \* the goroutines of handlePkt: the packet's number and the packet
    got        \* the receiver's peerMsgQueue, as numbers and messages

vars == <<own, signed, sendQueue, stream, reading, buffer, read, handling, got>>

Init ==
    /\ own = <<>> /\ signed = <<>>
    /\ sendQueue = <<>> /\ stream = <<>>
    /\ reading = TRUE /\ buffer = Nil /\ read = 0
    /\ handling = {} /\ got = {}

-----------------------------------------------------------------------------
\* ProposalMsg, VoteMsg and TimeoutMsg of state/msg.go: what a handler fills in.
ProposalMsg(round, id, justify) ==
    [ kind |-> "proposal", round |-> round, id |-> id, justify |-> justify,
      sender |-> Nil, timestamp |-> 0 ]
VoteMsg(round, id, pround, pid, to) ==
    [ kind |-> "vote", round |-> round, id |-> id, parent_round |-> pround,
      parent_id |-> pid, commit_info |-> Nil, to |-> to, sender |-> Nil, timestamp |-> 0 ]
TimeoutMsg(round, pround, pid, idx) ==
    [ kind |-> "timeout", round |-> round, index |-> idx, parent_round |-> pround,
      parent_id |-> pid, sender |-> Nil, timestamp |-> 0 ]

\* ProtoFromConsMsg.  A vote's addressee does not go with it.
ProtoProposal(m) ==
    [EmptyProposal EXCEPT !.module = ConsensusModule, !.round = m.round, !.id = m.id,
        !.justify = m.justify, !.timestamp = m.timestamp, !.pid = m.sender]

ProtoVote(m) ==
    [EmptyVote EXCEPT !.module = ConsensusModule,
        !.vote_info = <<[ proposal_round |-> m.round, proposal_id |-> m.id,
                          parent_round |-> m.parent_round, parent_id |-> m.parent_id ]>>,
        !.commit_info = m.commit_info, !.timestamp = m.timestamp, !.pid = m.sender]

ProtoTimeout(m) ==
    [EmptyTimeout EXCEPT !.module = ConsensusModule, !.round = m.round,
        !.parent_round = m.parent_round, !.parent_id = m.parent_id, !.index = m.index,
        !.timestamp = m.timestamp, !.pid = m.sender]

ProtoFromConsMsg(m) ==
    LET msg == CASE m.kind = "proposal" -> ProtoProposal(m)
                 [] m.kind = "vote"     -> ProtoVote(m)
                 [] m.kind = "timeout"  -> ProtoTimeout(m)
    IN  MarshalMessage([module |-> ConsensusModule, sum |-> [kind |-> m.kind, msg |-> msg]])

\* The switch of ConsMsgFromProto, without the key and the signature, which nobody
\* reads.  Without a sum, or a vote info, there is nothing to convert.
ConsMsg(kind, msg) ==
    CASE kind = "proposal" ->
           <<[ProposalMsg(msg.round, msg.id, msg.justify) EXCEPT
               !.sender = msg.pid, !.timestamp = msg.timestamp]>>
      [] kind = "vote" /\ msg.vote_info # Nil ->
           LET info == msg.vote_info[1]
           IN  <<[VoteMsg(info.proposal_round, info.proposal_id, info.parent_round,
                          info.parent_id, Nil) EXCEPT
                   !.commit_info = msg.commit_info, !.sender = msg.pid,
                   !.timestamp = msg.timestamp]>>
      [] kind = "timeout" ->
           <<[TimeoutMsg(msg.round, msg.parent_round, msg.parent_id, msg.index) EXCEPT
               !.sender = msg.pid, !.timestamp = msg.timestamp]>>
      [] OTHER -> Nil

\* What cannot be read, and another module, is an error,
ConsMsgFromProto(b) ==
    LET Converted(m) ==
            IF m = Nil \/ m[1].module # ConsensusModule THEN Nil
            ELSE ConsMsg(m[1].sum.kind, m[1].sum.msg)
    IN  Converted(UnmarshalMessage(b))

\* and what is read and has nothing to convert is a nil pointer that is followed.
Panics(b) ==
    LET Nothing(m) ==
            /\ m # Nil /\ m[1].module = ConsensusModule
            /\ ConsMsg(m[1].sum.kind, m[1].sum.msg) = Nil
    IN  Nothing(UnmarshalMessage(b))

-----------------------------------------------------------------------------
Empty(kind) ==
    CASE kind = "proposal" -> EmptyProposal
      [] kind = "vote"     -> EmptyVote
      [] kind = "timeout"  -> EmptyTimeout

\* Mutant: the fields the three kinds have in common.
JSONCommon(kind, msg) == [f \in {"module", "timestamp", "pid", "pk", "signature"} |-> msg[f]]

\* json.Marshal: the fields that are not zero.  Their order is that of the struct.
JSON(kind, msg) ==
    [f \in {g \in DOMAIN Empty(kind) : msg[g] # Empty(kind)[g]} |-> msg[f]]

\* Mutant: the signature is left in what is verified.
VerifiedWithSignature(msg) == [msg EXCEPT !.module = ConsensusModule]

\* Sign builds the message anew, field by field, with its own key.
SignedPart(msg, pk) == [msg EXCEPT !.module = ConsensusModule, !.pk = pk, !.signature = Nil]

\* Verify does so with the key of the message.
VerifiedPart(msg) == [msg EXCEPT !.module = ConsensusModule, !.signature = Nil]

SignatureOf(k) == [i \in 1 .. SignatureLength |-> k]

\* Sign, the k-th: what is signed and the message with its signature.
Sign(b, k) ==
    LET Signed(kind, part) ==
            [ text |-> JSON(kind, part),
              message |-> MarshalMessage(
                  [ module |-> ConsensusModule,
                    sum |-> [ kind |-> kind,
                              msg |-> [part EXCEPT !.signature = SignatureOf(k)] ] ]) ]
        Of(sum) == Signed(sum.kind, SignedPart(sum.msg, PublicKey))
    IN  Of(UnmarshalMessage(b)[1].sum)

Verify(b) ==
    LET Signs(k, kind, msg) ==
            /\ k \in DOMAIN signed
            /\ msg.signature = SignatureOf(k)
            /\ signed[k] = [pk |-> msg.pk, text |-> JSON(kind, VerifiedPart(msg))]
        Of(sum) == sum # NoSum /\ sum.msg.signature # Nil
                               /\ Signs(sum.msg.signature[1], sum.kind, sum.msg)
        Read(m) == m # Nil /\ Of(m[1].sum)
    IN  Read(UnmarshalMessage(b))

-----------------------------------------------------------------------------
Stamped(m, host, now) == [m EXCEPT !.sender = host, !.timestamp = now]

\* schedule: stamped with time and host, the message goes to the sender itself
\* and then, signed, to the connection, unless Sign cannot read it.
Schedule ==
    /\ Len(own) < MaxMessages
    /\ \E m \in Queued, host \in Hosts, now \in Times :
           LET b == ProtoFromConsMsg(Stamped(m, host, now))
               s == Sign(b, Len(signed) + 1)
           IN  /\ own' = Append(own, Stamped(m, host, now))
               /\ IF UnmarshalMessage(b) = Nil
                    THEN UNCHANGED <<signed, sendQueue>>
                    ELSE /\ signed' = Append(signed, [pk |-> PublicKey, text |-> s.text])
                         /\ sendQueue' = Append(sendQueue, s.message)
    /\ UNCHANGED <<stream, reading, buffer, read, handling, got>>

\* writeMsgTo.  The log id is random, of 19 digits at most, and read by nobody.
PacketOf(data) ==
    [ log_id |-> [i \in 1 .. 19 |-> 55], channel_id |-> ConsensusChannel,
      module |-> ConsensusModule, eof |-> TRUE, data |-> data ]

\* sendRoutine.
WriteMsg ==
    /\ sendQueue # <<>>
    /\ sendQueue' = Tail(sendQueue)
    /\ stream' = Append(stream, MarshalPacket(PacketOf(Head(sendQueue))))
    /\ UNCHANGED <<own, signed, reading, buffer, read, handling, got>>

\* Mutant: the packet stays where it was read.
ReadMsgAgain ==
    /\ reading /\ stream # <<>>
    /\ buffer' = Head(stream) /\ read' = read + 1
    /\ handling' = handling \cup {<<read + 1, UnmarshalPacket(Head(stream))>>}
    /\ UNCHANGED <<own, signed, sendQueue, stream, reading, got>>

\* recvRoutine: a packet that is too large, or does not parse, ends it.
ReadMsg ==
    /\ reading /\ stream # <<>>
    /\ stream' = Tail(stream)
    /\ LET packet == UnmarshalPacket(Head(stream))
       IN  IF Len(Head(stream)) > MaxPacketMsgSize \/ packet = Nil
             THEN /\ reading' = FALSE
                  /\ UNCHANGED <<buffer, read, handling>>
             ELSE /\ buffer' = Head(stream) /\ read' = read + 1
                  /\ handling' = handling \cup {<<read + 1, packet>>}
                  /\ UNCHANGED reading
    /\ UNCHANGED <<own, signed, sendQueue, got>>

\* HandleFunc, on channel 0 only, as conn.go has no other.
HandleFunc(n, data) ==
    LET m == ConsMsgFromProto(data)
    IN  got' = IF m = Nil THEN got ELSE got \cup {<<n, m[1]>>}

\* Mutant: Unmarshal keeps slices of the reader's buffer.
HandlePktInBuffer ==
    /\ \E h \in handling :
           /\ handling' = handling \ {h}
           /\ HandleFunc(h[1], UnmarshalPacket(buffer)[1].data)
    /\ UNCHANGED <<own, signed, sendQueue, stream, reading, buffer, read>>

\* A packet for HandleFunc; any other is logged and left.
ForConsensus(packet) ==
    /\ packet.channel_id = ConsensusChannel
    /\ packet.module = ConsensusModule
    /\ packet.data # Nil

\* handlePkt, one goroutine of them: in any order, whatever is in the buffer.  A
\* panic ends the process, and all its goroutines with it.
HandlePkt ==
    /\ \E h \in handling :
           LET packet == h[2][1]
           IN  IF ForConsensus(packet) /\ Panics(packet.data)
                 THEN reading' = FALSE /\ handling' = {} /\ UNCHANGED got
                 ELSE /\ handling' = handling \ {h}
                      /\ IF ForConsensus(packet)
                           THEN HandleFunc(h[1], packet.data) ELSE UNCHANGED got
                      /\ UNCHANGED reading
    /\ UNCHANGED <<own, signed, sendQueue, stream, buffer, read>>

-----------------------------------------------------------------------------
Next == Schedule \/ WriteMsg \/ ReadMsg \/ HandlePkt

Spec == Init /\ [][Next]_vars

-----------------------------------------------------------------------------
\* What is under way is bytes, and every message is in one place only.
TypeOK ==
    /\ \A b \in ToSet(sendQueue) \cup ToSet(stream) \cup {buffer} :
           \A i \in DOMAIN b : b[i] \in Byte
    /\ Len(signed) <= Len(own)
    /\ read + Len(stream) + Len(sendQueue) <= Len(own)
    /\ \A h \in handling : h[1] \in 1 .. read
    /\ \A h \in handling, g \in got : h[1] # g[1]

\* What the handlers of any process get to see of a message.
Content(m) == IF m.kind = "vote" THEN [m EXCEPT !.to = Nil] ELSE m

\* The receiver's handlers see what the sender's see in its own copy: zero
\* rounds, long ids, packets overlapping in the buffer or not.
GotIsOwn == \A g \in got : Content(g[2]) = Content(own[g[1]])

\* Whatever arrives verifies, though Sign and Verify each build the text they
\* look at from another encoding of the message.
ReceivedVerifies == \A h \in handling : Verify(h[2][1].data)

\* A signature stands for one message: two that differ to the handlers, of one
\* kind or of two, have no signed text in common.
SignatureFixesContent ==
    \A i, j \in DOMAIN signed :
        signed[i] = signed[j] => Content(own[i]) = Content(own[j])

\* The k-th message makes a packet larger than recvRoutine reads.
TooLarge(k) ==
    LET s == Sign(ProtoFromConsMsg(own[k]), k)
    IN  Len(MarshalPacket(PacketOf(s.message))) > MaxPacketMsgSize

\* Once nothing is under way that will still be read, the receiver's queue has got
\* the messages up to the first whose packet is too large, and those only: no step
\* refuses or drops what another has made, and one message too large, which no
\* sender looks at, takes with it all that its process sends on this stream later.
GotUpToTooLarge ==
    handling = {} /\ (reading => sendQueue = <<>> /\ stream = <<>>)
        => {g[1] : g \in got} = {k \in DOMAIN own : \A j \in 1 .. k : ~TooLarge(j)}
=============================================================================
