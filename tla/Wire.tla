-------------------------------- MODULE Wire --------------------------------
(***************************************************************************)
(* The wire format: what the generated Marshal, Size and Unmarshal of pb/  *)
(* do to the messages of consensus (pb/hotstuff.pb.go) and to the packets  *)
(* that carry them (pb/conn.pb.go).                                        *)
(*                                                                         *)
(* A byte string is a sequence of numbers below 256, and nil is the empty  *)
(* one, as no reader tells them apart.  A message is a record with the     *)
(* names of the .proto files; a pointer to one is a sequence of at most    *)
(* one.  The result of Unmarshal is such a pointer, nil being an error.    *)
(* Fields no message has are skipped; XXX_unrecognized, which keeps them,  *)
(* is read by nobody and left out.                                         *)
(***************************************************************************)
EXTENDS Integers, Sequences, SequencesExt, FiniteSetsExt

Nil == <<>>

\* Wire types.
Varint == 0
Bytes  == 2

Byte == 0 .. 255
Text == Seq(Byte)

-----------------------------------------------------------------------------
\* encodeVarintHotstuff and encodeVarintConn: seven bits at a time, the low
\* ones first, the eighth bit set on all bytes but the last.
EncodeVarint(v) ==
    LET groups[n \in Nat] ==
            IF n < 128 THEN <<n>> ELSE <<128 + (n % 128)>> \o groups[n \div 128]
    IN  groups[v]

\* sovHotstuff and sovConn: the bytes of it, from the bits, 0 having one.
Sov(v) ==
    LET bits[n \in Nat] == IF n <= 1 THEN 1 ELSE 1 + bits[n \div 2]
    IN  (bits[v] + 6) \div 7

\* What messages are made of: the numbers whose varint the loops of Unmarshal
\* read to its end, those of an int64 among them, and byte strings of two
\* megabytes at most.
Fits(v) == v \in Nat /\ Len(EncodeVarint(v)) \in 1 .. 10
Number  == {v \in Nat : Fits(v)}
Limit   == 128 * (128 * 128)
Short   == {x \in Text : Len(x) < Limit}

\* The loop over shift in every Unmarshal: the value of the varint at place i
\* of b and the place behind it, or nothing when it has more than ten bytes or
\* b ends first.
DecodeVarint(b, i) ==
    LET last == {j \in i .. i + 9 : j <= Len(b) /\ b[j] < 128}
        To(end) ==
            LET value[j \in 1 .. end] ==
                    IF j = end THEN b[j] ELSE (b[j] % 128) + 128 * value[j + 1]
            IN  <<value[i], end + 1>>
    IN  IF last = {} THEN Nil ELSE To(Min(last))

-----------------------------------------------------------------------------
\* MarshalToSizedBuffer, one field of it each: zero values are left out.
Tag(num, wire) == EncodeVarint(8 * num + wire)

Embedded(num, b) == Tag(num, Bytes) \o EncodeVarint(Len(b)) \o b
BytesField(num, b) == IF b = Nil THEN Nil ELSE Embedded(num, b)
IntField(num, v) == IF v = 0 THEN Nil ELSE Tag(num, Varint) \o EncodeVarint(v)
BoolField(num, v) == IF v THEN Tag(num, Varint) \o <<1>> ELSE Nil

\* Mutant: the tag of a flag is not counted.
BoolSizeUntagged(v) == IF v THEN 1 ELSE 0

\* The same in Size.
EmbeddedSize(n) == 1 + n + Sov(n)
BytesSize(b) == IF b = Nil THEN 0 ELSE EmbeddedSize(Len(b))
IntSize(v) == IF v = 0 THEN 0 ELSE 1 + Sov(v)
BoolSize(v) == IF v THEN 2 ELSE 0

\* Marshal writes from the end of a buffer of Size bytes, and returns as many
\* from its start as it wrote; with too small a buffer it panics.
Buffered(size, b) ==
    LET gap == size - Len(b)
    IN  IF gap < 0 THEN Nil ELSE SubSeq([i \in 1 .. gap |-> 0] \o b, 1, Len(b))

-----------------------------------------------------------------------------
\* The loop of every Unmarshal, one turn: the field at place i of b and the place
\* behind it.  A varint or a length beyond the end is an error, and so is, here, a
\* wire type that no field of these messages has.
FieldAt(b, i) ==
    LET Field(tag, val) == [num |-> tag \div 8, wire |-> tag % 8, val |-> val]
        malformed == <<Field(Bytes, Nil), Len(b) + 1>>
        With(tag, v) ==
            CASE v # Nil /\ tag % 8 = Varint -> <<Field(tag, v[1]), v[2]>>
              [] v # Nil /\ tag % 8 = Bytes /\ v[2] + v[1] <= Len(b) + 1 ->
                     <<Field(tag, SubSeq(b, v[2], v[2] + v[1] - 1)), v[2] + v[1]>>
              [] OTHER -> malformed
        Behind(tag) ==
            IF tag = Nil THEN malformed ELSE With(tag[1], DecodeVarint(b, tag[2]))
    IN  Behind(DecodeVarint(b, i))

\* The fields of b in their order.
Fields(b) ==
    LET from[i \in 1 .. Len(b) + 1] ==
            IF i > Len(b) THEN Nil ELSE <<FieldAt(b, i)[1]>> \o from[FieldAt(b, i)[2]]
    IN  from[1]

\* The errors of the switch in Unmarshal: the number 0, and a known field with
\* another wire type than its own.
Malformed(fs, wires) ==
    \E i \in DOMAIN fs :
        \/ fs[i].num = 0
        \/ fs[i].num \in DOMAIN wires /\ fs[i].wire # wires[fs[i].num]

\* A case of the switch: of several fields of one number the last one stays.
Given(fs, num) == \E i \in DOMAIN fs : fs[i].num = num
FieldValue(fs, num, zero) ==
    IF Given(fs, num) THEN fs[Max({i \in DOMAIN fs : fs[i].num = num})].val ELSE zero

-----------------------------------------------------------------------------
\* ProposalMessage.
MarshalProposal(m) ==
    BytesField(1, m.module) \o IntField(2, m.round) \o BytesField(3, m.id)
    \o IntField(4, m.timestamp) \o BytesField(5, m.pid) \o BytesField(6, m.pk)
    \o BytesField(7, m.signature) \o BytesField(8, m.justify)

SizeProposal(m) ==
    BytesSize(m.module) + IntSize(m.round) + BytesSize(m.id) + IntSize(m.timestamp)
    + BytesSize(m.pid) + BytesSize(m.pk) + BytesSize(m.signature) + BytesSize(m.justify)

EmptyProposal ==
    [ module |-> Nil, round |-> 0, id |-> Nil, timestamp |-> 0, pid |-> Nil,
      pk |-> Nil, signature |-> Nil, justify |-> Nil ]

UnmarshalProposal(b) ==
    LET Of(fs) ==
            IF Malformed(fs, <<Bytes, Varint, Bytes, Varint, Bytes, Bytes, Bytes, Bytes>>)
              THEN Nil
              ELSE <<[ module    |-> FieldValue(fs, 1, Nil), round     |-> FieldValue(fs, 2, 0),
                       id        |-> FieldValue(fs, 3, Nil), timestamp |-> FieldValue(fs, 4, 0),
                       pid       |-> FieldValue(fs, 5, Nil), pk        |-> FieldValue(fs, 6, Nil),
                       signature |-> FieldValue(fs, 7, Nil), justify   |-> FieldValue(fs, 8, Nil) ]>>
    IN  Of(Fields(b))

-----------------------------------------------------------------------------
\* VoteInfo and VoteMessage.  A vote info with nothing but zero values is still
\* there, without bytes of its own.
MarshalVoteInfo(m) ==
    IntField(1, m.proposal_round) \o BytesField(2, m.proposal_id)
    \o IntField(3, m.parent_round) \o BytesField(4, m.parent_id)

SizeVoteInfo(m) ==
    IntSize(m.proposal_round) + BytesSize(m.proposal_id)
    + IntSize(m.parent_round) + BytesSize(m.parent_id)

UnmarshalVoteInfo(b) ==
    LET Of(fs) ==
            IF Malformed(fs, <<Varint, Bytes, Varint, Bytes>>)
              THEN Nil
              ELSE <<[ proposal_round |-> FieldValue(fs, 1, 0),
                       proposal_id    |-> FieldValue(fs, 2, Nil),
                       parent_round   |-> FieldValue(fs, 3, 0),
                       parent_id      |-> FieldValue(fs, 4, Nil) ]>>
    IN  Of(Fields(b))

MarshalVote(m) ==
    BytesField(1, m.module)
    \o (IF m.vote_info = Nil THEN Nil ELSE Embedded(2, MarshalVoteInfo(m.vote_info[1])))
    \o BytesField(3, m.commit_info) \o IntField(4, m.timestamp)
    \o BytesField(5, m.pid) \o BytesField(6, m.pk) \o BytesField(7, m.signature)

SizeVote(m) ==
    BytesSize(m.module)
    + (IF m.vote_info = Nil THEN 0 ELSE EmbeddedSize(SizeVoteInfo(m.vote_info[1])))
    + BytesSize(m.commit_info) + IntSize(m.timestamp)
    + BytesSize(m.pid) + BytesSize(m.pk) + BytesSize(m.signature)

EmptyVote ==
    [ module |-> Nil, vote_info |-> Nil, commit_info |-> Nil, timestamp |-> 0,
      pid |-> Nil, pk |-> Nil, signature |-> Nil ]

\* A vote info that is absent stays nil.  Of several, which the code would merge,
\* the last is taken.
UnmarshalVote(b) ==
    LET With(fs, info) ==
            IF \/ Malformed(fs, <<Bytes, Bytes, Bytes, Varint, Bytes, Bytes, Bytes>>)
               \/ Given(fs, 2) /\ info = Nil
              THEN Nil
              ELSE <<[ module      |-> FieldValue(fs, 1, Nil), vote_info |-> info,
                       commit_info |-> FieldValue(fs, 3, Nil), timestamp |-> FieldValue(fs, 4, 0),
                       pid         |-> FieldValue(fs, 5, Nil), pk        |-> FieldValue(fs, 6, Nil),
                       signature   |-> FieldValue(fs, 7, Nil) ]>>
        Of(fs) ==
            With(fs, IF Given(fs, 2) THEN UnmarshalVoteInfo(FieldValue(fs, 2, Nil)) ELSE Nil)
    IN  Of(Fields(b))

-----------------------------------------------------------------------------
\* TimoutMessage.
MarshalTimeout(m) ==
    BytesField(1, m.module) \o IntField(2, m.round) \o IntField(3, m.parent_round)
    \o BytesField(4, m.parent_id) \o IntField(5, m.index) \o IntField(6, m.timestamp)
    \o BytesField(7, m.pid) \o BytesField(8, m.pk) \o BytesField(9, m.signature)

SizeTimeout(m) ==
    BytesSize(m.module) + IntSize(m.round) + IntSize(m.parent_round)
    + BytesSize(m.parent_id) + IntSize(m.index) + IntSize(m.timestamp)
    + BytesSize(m.pid) + BytesSize(m.pk) + BytesSize(m.signature)

EmptyTimeout ==
    [ module |-> Nil, round |-> 0, parent_round |-> 0, parent_id |-> Nil, index |-> 0,
      timestamp |-> 0, pid |-> Nil, pk |-> Nil, signature |-> Nil ]

UnmarshalTimeout(b) ==
    LET wires == <<Bytes, Varint, Varint, Bytes, Varint, Varint, Bytes, Bytes, Bytes>>
        Of(fs) ==
            IF Malformed(fs, wires)
              THEN Nil
              ELSE <<[ module       |-> FieldValue(fs, 1, Nil), round     |-> FieldValue(fs, 2, 0),
                       parent_round |-> FieldValue(fs, 3, 0),   parent_id |-> FieldValue(fs, 4, Nil),
                       index        |-> FieldValue(fs, 5, 0),   timestamp |-> FieldValue(fs, 6, 0),
                       pid          |-> FieldValue(fs, 7, Nil), pk        |-> FieldValue(fs, 8, Nil),
                       signature    |-> FieldValue(fs, 9, Nil) ]>>
    IN  Of(Fields(b))

-----------------------------------------------------------------------------
\* Message, with one of the three as its sum: a kind and a message.
NoSum == [kind |-> "none", msg |-> Nil]

MarshalSum(sum) ==
    CASE sum.kind = "proposal" -> Embedded(2, MarshalProposal(sum.msg))
      [] sum.kind = "vote"     -> Embedded(3, MarshalVote(sum.msg))
      [] sum.kind = "timeout"  -> Embedded(4, MarshalTimeout(sum.msg))
      [] OTHER -> Nil

SizeSum(sum) ==
    CASE sum.kind = "proposal" -> EmbeddedSize(SizeProposal(sum.msg))
      [] sum.kind = "vote"     -> EmbeddedSize(SizeVote(sum.msg))
      [] sum.kind = "timeout"  -> EmbeddedSize(SizeTimeout(sum.msg))
      [] OTHER -> 0

MarshalMessage(m) ==
    Buffered(BytesSize(m.module) + SizeSum(m.sum),
             BytesField(1, m.module) \o MarshalSum(m.sum))

UnmarshalSum(f) ==
    LET Sum(kind, msg) == IF msg = Nil THEN Nil ELSE <<[kind |-> kind, msg |-> msg[1]]>>
    IN  CASE f.num = 2 -> Sum("proposal", UnmarshalProposal(f.val))
          [] f.num = 3 -> Sum("vote", UnmarshalVote(f.val))
          [] f.num = 4 -> Sum("timeout", UnmarshalTimeout(f.val))

\* Of several sums the last one stays.
UnmarshalMessage(b) ==
    LET With(fs, sum) ==
            IF Malformed(fs, <<Bytes, Bytes, Bytes, Bytes>>) \/ sum = Nil
              THEN Nil
              ELSE <<[module |-> FieldValue(fs, 1, Nil), sum |-> sum[1]]>>
        Of(fs) ==
            LET sums == {i \in DOMAIN fs : fs[i].num \in 2 .. 4}
            IN  With(fs, IF sums = {} THEN <<NoSum>> ELSE UnmarshalSum(fs[Max(sums)]))
    IN  Of(Fields(b))

-----------------------------------------------------------------------------
\* PacketMsg, and Packet, whose sum has no other member.
MarshalPacketMsg(m) ==
    BytesField(1, m.log_id) \o IntField(2, m.channel_id) \o BytesField(3, m.module)
    \o BoolField(4, m.eof) \o BytesField(5, m.data)

SizePacketMsg(m) ==
    BytesSize(m.log_id) + IntSize(m.channel_id) + BytesSize(m.module)
    + BoolSize(m.eof) + BytesSize(m.data)

UnmarshalPacketMsg(b) ==
    LET Of(fs) ==
            IF Malformed(fs, <<Bytes, Varint, Bytes, Varint, Bytes>>)
              THEN Nil
              ELSE <<[ log_id |-> FieldValue(fs, 1, Nil), channel_id |-> FieldValue(fs, 2, 0),
                       module |-> FieldValue(fs, 3, Nil), eof |-> FieldValue(fs, 4, 0) # 0,
                       data   |-> FieldValue(fs, 5, Nil) ]>>
    IN  Of(Fields(b))

MarshalPacket(m) ==
    Buffered(EmbeddedSize(SizePacketMsg(m)), Embedded(3, MarshalPacketMsg(m)))

EmptyPacketMsg ==
    [ log_id |-> Nil, channel_id |-> 0, module |-> Nil, eof |-> FALSE, data |-> Nil ]

\* A packet without its message is no error; it is an empty one here, of which
\* handlePkt makes as little: both are logged and left.
UnmarshalPacket(b) ==
    LET Of(fs) ==
            IF Malformed(fs, [n \in {3} |-> Bytes]) THEN Nil
            ELSE IF ~Given(fs, 3) THEN <<EmptyPacketMsg>>
            ELSE UnmarshalPacketMsg(FieldValue(fs, 3, Nil))
    IN  Of(Fields(b))
=============================================================================
