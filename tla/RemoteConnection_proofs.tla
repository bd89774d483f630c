----------------------- MODULE RemoteConnection_proofs -----------------------
(***************************************************************************)
(* The safety of a pair of connections for every channel configuration,    *)
(* every length of messages, every tick size and every behaviour of the    *)
(* network.                                                                *)
(***************************************************************************)
EXTENDS Channels_proofs

(***************************************************************************)
(* The inductive invariant, in three layers: what the senders make, what   *)
(* the receivers hold of it, and what may be acknowledged.                 *)
(***************************************************************************)

(* An Ack packet on the way acknowledges no packet that was not made yet. *)
AckOnTheWay(packet, limit) ==
    LET acks == DecodeAck(packet.wire)
    IN  /\ packet.type = "Ack"
        /\ acks \in Seq(RangeRecord) /\ Separated(acks)
        /\ \A s \in Covered(acks) : s < limit

ShapeInv ==
    /\ packet_sequence \in [Peers -> Nat]
    /\ sent \in [Peers -> [ChannelIds -> LengthSeqs]]
    /\ DOMAIN sent_packets = Peers /\ DOMAIN pending_acks = Peers
    /\ DOMAIN send = Peers
    /\ \A p \in Peers : DOMAIN send[p] = ChannelIds

SendInv ==
    \A p \in Peers, c \in ChannelIds : SendOK(c, send[p][c], sent[p][c])

AckVectorsInv ==
    \A p \in Peers :
        /\ pending_acks[p] \in Seq(RangeRecord) /\ Separated(pending_acks[p])
        /\ \A s \in Covered(pending_acks[p]) : s < packet_sequence[Other(p)]

NetInv ==
    \A m \in net :
        /\ m.to \in Peers
        /\ m.packet.sequence \in Nat /\ m.packet.sequence < packet_sequence[Other(m.to)]
        /\ \/ m.packet \in DataPackets(sent[Other(m.to)])
           \/ AckOnTheWay(m.packet, packet_sequence[m.to])

(* Packets are remembered from the oldest on, and none too long. *)
Remembered(packets, next, lens) ==
    /\ \A s \in DOMAIN packets :
         /\ s \in Nat /\ s < next
         /\ DOMAIN packets[s] = {"age", "info"}
         /\ packets[s].age \in Nat /\ packets[s].age < DiscardAfter
         /\ packets[s].info \in Infos(lens)
    /\ \A s, t \in DOMAIN packets : s <= t => packets[t].age <= packets[s].age

RememberedInv ==
    \A p \in Peers : Remembered(sent_packets[p], packet_sequence[p], sent[p])

SenderInv == ShapeInv /\ SendInv /\ AckVectorsInv /\ NetInv /\ RememberedInv

ReceiveOK(c, r, lens, out) ==
    IF Reliable(c) THEN ReceiveReliableOK(r, Channels[c], lens, out) ELSE ReceiveUnreliableOK(r, lens)

ReceiveInv ==
    /\ DOMAIN recv = Peers /\ DOMAIN delivered = Peers /\ DOMAIN status = Peers
    /\ \A p \in Peers : DOMAIN recv[p] = ChannelIds /\ DOMAIN delivered[p] = ChannelIds
    /\ \A p \in Peers, c \in ChannelIds : Open(p) => recv[p][c].err = "none"
    /\ \A p \in Peers, c \in ChannelIds :
         ReceiveOK(c, recv[p][c], sent[Other(p)][c], delivered[p][c])

(* The slices on the way to p that belong to message id of channel c. *)
SlicesOnTheWay(p, c, id) ==
    {k \in {m.packet : m \in {o \in net : o.to = p}} :
        k.type = "UnreliableSlice" /\ k.channel = c /\ k.id = id}

(* An id of a sliced unreliable message stands for one message for ever. *)
SliceIdsInv ==
    \A p \in Peers, c \in UnreliableIds :
        LET next == send[Other(p)][c].sliced_id
            lens == sent[Other(p)][c]
            slices == recv[p][c].slices
        IN  /\ \A id \in DOMAIN slices : id \in Nat /\ id < next
            /\ \A id \in Nat : \A k \in SlicesOnTheWay(p, c, id) :
                 /\ id < next
                 /\ \A l \in SlicesOnTheWay(p, c, id) : l.data = k.data
                 /\ id \in DOMAIN slices => ConstructorOK(slices[id], lens[k.data + 1])

(* What a packet carried, by its info, is at the end with these receiving halves. *)
StoredInfo(info, halves, outs) ==
    /\ info.type = "ReliableMessages" =>
         \A id \in info.ids : Has(halves[info.channel], outs[info.channel], id)
    /\ info.type = "ReliableSliceMessage" =>
         HasPart(halves[info.channel], outs[info.channel], info.id, info.index)

StoredAt(p, info) == StoredInfo(info, recv[p], delivered[p])

(* sent_packets remembers of a packet on the way what it carries. *)
InfoOf(packet) == SentInfo(packet, << >>)

MatchInv ==
    \A m \in net :
        LET packets == sent_packets[Other(m.to)]
            s == m.packet.sequence
        IN  s \in DOMAIN packets =>
                IF m.packet.type = "Ack" THEN packets[s].info.type = "Ack"
                ELSE packets[s].info = InfoOf(m.packet)

(* Nothing is acknowledged, or on the way to be, before it is stored. *)
AckInv ==
    \A p \in Peers : \A s \in DOMAIN sent_packets[p] :
        /\ Open(Other(p)) /\ s \in Covered(pending_acks[Other(p)])
             => StoredAt(Other(p), sent_packets[p][s].info)
        /\ \A m \in net :
             m.to = p /\ m.packet.type = "Ack" /\ s \in Covered(DecodeAck(m.packet.wire))
                 => StoredAt(Other(p), sent_packets[p][s].info)

(* The messages and the slices of p's that are, or have been, at the other end. *)
ArrivedIds(halves, outs) ==
    [c \in ChannelIds |-> {id \in Nat : Has(halves[c], outs[c], id)}]

StoredParts(halves, outs) ==
    [c \in ChannelIds |-> {x \in Nat \X Nat : HasPart(halves[c], outs[c], x[1], x[2])}]

(* The sender has ticked off nothing else. *)
TickedAt(q, c, ch, lens) ==
    Ticked(ch, lens, ArrivedIds(recv[q], delivered[q])[c], StoredParts(recv[q], delivered[q])[c])

TickedInv ==
    \A p \in Peers, c \in ChannelIds :
        Reliable(c) => TickedAt(Other(p), c, send[p][c], sent[p][c])

-----------------------------------------------------------------------------
LEMMA PeerFacts ==
    ASSUME NEW p \in Peers
    PROVE  /\ Other(p) \in Peers /\ Other(p) # p /\ Other(Other(p)) = p
           /\ \A q \in Peers : q # p => q = Other(p)
<1>1. PICK a, b \in Peers : a # b /\ Peers = {a, b}
  BY RemoteConnectionAssumption
<1>2. \E q \in Peers : q # p
  BY <1>1
<1>3. Other(p) \in Peers /\ Other(p) # p
  BY <1>2 DEF Other
<1>4. \E q \in Peers : q # Other(p)
  BY <1>3
<1>5. Other(Other(p)) \in Peers /\ Other(Other(p)) # Other(p)
  BY <1>4 DEF Other
<1> QED BY <1>1, <1>3, <1>5

-----------------------------------------------------------------------------
(* First layer: every step keeps SenderInv. *)

LEMMA SenderInit == Init => SenderInv
<1> SUFFICES ASSUME Init PROVE SenderInv
  OBVIOUS
<1>1. ShapeInv
  BY DEF Init, ShapeInv, LengthSeqs
<1>2. ASSUME NEW p \in Peers, NEW c \in ChannelIds PROVE SendOK(c, send[p][c], sent[p][c])
  <2>1. sent[p][c] = << >>
    BY DEF Init
  <2>2. CASE Reliable(c)
    <3>1. send[p][c] = NewSendReliable
      BY <2>2 DEF Init
    <3> QED BY <2>1, <2>2, <3>1 DEF SendOK, SendReliableOK, NewSendReliable
  <2>3. CASE ~Reliable(c)
    <3>1. send[p][c] = NewSendUnreliable
      BY <2>3 DEF Init
    <3> QED BY <2>1, <2>3, <3>1 DEF SendOK, SendUnreliableOK, NewSendUnreliable
  <2> QED BY <2>2, <2>3
<1>3. AckVectorsInv
  <2>1. \A p \in Peers : pending_acks[p] = << >>
    BY DEF Init
  <2>2. Covered(<< >>) = {} /\ Separated(<< >>) /\ << >> \in Seq(RangeRecord)
    BY DEF Covered, Separated
  <2> QED BY <2>1, <2>2 DEF AckVectorsInv
<1>4. NetInv
  BY DEF Init, NetInv
<1>5. RememberedInv
  <2>1. \A p \in Peers : sent_packets[p] = << >>
    BY DEF Init
  <2>2. \A next, lens : Remembered(<< >>, next, lens)
    BY DEF Remembered
  <2> QED BY <2>1, <2>2 DEF RememberedInv
<1> QED BY <1>1, <1>2, <1>3, <1>4, <1>5 DEF SenderInv, SendInv

LEMMA SenderUnchanged ==
    ASSUME SenderInv,
           UNCHANGED <<packet_sequence, sent_packets, pending_acks, send, net, sent>>
    PROVE  SenderInv'
BY DEF SenderInv, ShapeInv, SendInv, AckVectorsInv, NetInv, RememberedInv

(* The application has sent more, over one channel or over none. *)
LEMMA NetGrows ==
    ASSUME SenderInv, ShapeInv', UNCHANGED <<packet_sequence, sent_packets, pending_acks, net>>,
           \A p \in Peers : \A c \in ChannelIds : Grown(sent'[p][c], sent[p][c])
    PROVE  AckVectorsInv' /\ NetInv' /\ RememberedInv'
<1>1. \A p \in Peers : /\ DataPackets(sent[p]) \subseteq DataPackets(sent'[p])
                       /\ Infos(sent[p]) \subseteq Infos(sent'[p])
  BY GrownInfos
<1>2. AckVectorsInv'
  BY DEF SenderInv, AckVectorsInv
<1>3. NetInv'
  BY <1>1, PeerFacts DEF SenderInv, NetInv
<1>4. RememberedInv'
  BY <1>1 DEF SenderInv, RememberedInv, Remembered
<1> QED BY <1>2, <1>3, <1>4

LEMMA SendMessageSender ==
    ASSUME SenderInv, NEW p \in Peers, NEW c \in ChannelIds, NEW len \in Lengths,
           SendMessage(p, c, len)
    PROVE  SenderInv'
<1>1. /\ UNCHANGED <<packet_sequence, sent_packets, pending_acks, recv, net, duplicated, delivered>>
      /\ \/ Reliable(c) /\ SendReliableMessage(p, c, len)
         \/ ~Reliable(c) /\ SendUnreliableMessage(p, c, len)
  BY DEF SendMessage
<1>2. len \in Nat
  BY RemoteConnectionAssumption
<1>3. /\ sent \in [Peers -> [ChannelIds -> LengthSeqs]] /\ DOMAIN send = Peers
      /\ DOMAIN send[p] = ChannelIds /\ sent[p][c] \in LengthSeqs
      /\ SendOK(c, send[p][c], sent[p][c])
  BY DEF SenderInv, ShapeInv, SendInv
<1>4. CASE UNCHANGED <<send, sent>>
  BY <1>1, <1>4, SenderUnchanged
<1> DEFINE more == Append(sent[p][c], len)
<1>5. ASSUME NEW ch, SendOK(c, ch, more),
             send' = [send EXCEPT ![p][c] = ch], sent' = [sent EXCEPT ![p][c] = more]
      PROVE  SenderInv'
  <2>1. more \in LengthSeqs /\ Grown(more, sent[p][c])
    BY <1>2, <1>3, AppendGrows
  <2> HIDE DEF more
  <2>2. ShapeInv'
    BY <1>1, <1>3, <1>5, <2>1 DEF SenderInv, ShapeInv
  <2>3. ASSUME NEW q \in Peers, NEW d \in ChannelIds
        PROVE  /\ Grown(sent'[q][d], sent[q][d])
               /\ SendOK(d, send'[q][d], sent'[q][d])
    <3>1. CASE q = p /\ d = c
      BY <1>3, <1>5, <2>1, <3>1
    <3>2. CASE ~(q = p /\ d = c)
      <4>1. send'[q][d] = send[q][d] /\ sent'[q][d] = sent[q][d]
        BY <1>3, <1>5, <3>2 DEF SenderInv, ShapeInv
      <4>2. SendOK(d, send[q][d], sent[q][d])
        BY DEF SenderInv, SendInv
      <4> QED BY <4>1, <4>2, GrownReflexive
    <3> QED BY <3>1, <3>2
  <2>4. AckVectorsInv' /\ NetInv' /\ RememberedInv'
    BY <1>1, <2>2, <2>3, NetGrows
  <2>5. SendInv'
    BY <2>3 DEF SendInv
  <2> QED BY <2>2, <2>4, <2>5 DEF SenderInv
<1>6. CASE Reliable(c)
  <2>1. SendReliableMessage(p, c, len)
    BY <1>1, <1>6
  <2>2. CASE CanSendMessage(send[p][c], len, Channels[c].max)
    <3> DEFINE ch == SendReliable(send[p][c], len)
    <3>1. send' = [send EXCEPT ![p][c] = ch] /\ sent' = [sent EXCEPT ![p][c] = more]
      BY <2>1, <2>2 DEF SendReliableMessage
    <3>2. SendReliableOK(ch, more)
      BY <1>2, <1>3, <1>6, SendReliableKeeps DEF SendOK
    <3> HIDE DEF ch, more
    <3>3. SendOK(c, ch, more)
      BY <1>6, <3>2 DEF SendOK
    <3> QED BY <1>5, <3>1, <3>3
  <2>3. CASE ~CanSendMessage(send[p][c], len, Channels[c].max)
    BY <1>4, <2>1, <2>3 DEF SendReliableMessage
  <2> QED BY <2>2, <2>3
<1>7. CASE ~Reliable(c)
  <2> DEFINE ch == SendUnreliable(send[p][c], Len(sent[p][c]), len, Channels[c].max)
  <2>1. send' = [send EXCEPT ![p][c] = ch] /\ sent' = [sent EXCEPT ![p][c] = more]
    BY <1>1, <1>7 DEF SendUnreliableMessage
  <2>2. SendUnreliableOK(ch, more)
    BY <1>2, <1>3, <1>7, SendUnreliableKeeps DEF SendOK
  <2> HIDE DEF ch, more
  <2>3. SendOK(c, ch, more)
    BY <1>7, <2>2 DEF SendOK
  <2> QED BY <1>5, <2>1, <2>3
<1> QED BY <1>6, <1>7

(***************************************************************************)
(* update stops at the first packet that is young enough.  Those after it  *)
(* are no older, so no expired packet is left.                             *)
(***************************************************************************)
LEMMA OlderMonotonic ==
    ASSUME NEW a \in Nat, NEW b \in Nat, a <= b, NEW d \in Nat
    PROVE  Older(a, d) \in Nat /\ Older(b, d) \in Nat /\ Older(a, d) <= Older(b, d)
BY DiscardAfterAssumption DEF Older

LEMMA AgeSentPacketsKeeps ==
    ASSUME NEW packets, NEW next, NEW lens, Remembered(packets, next, lens), NEW d \in Nat
    PROVE  Remembered(AgeSentPackets(packets, d), next, lens)
<1> DEFINE aged == [s \in DOMAIN packets |-> [packets[s] EXCEPT !.age = Older(@, d)]]
           left == DOMAIN aged \ LostPackets(aged)
           new == AgeSentPackets(packets, d)
<1>1. new = [s \in left |-> aged[s]]
  BY DEF AgeSentPackets
<1>2. ASSUME NEW s \in DOMAIN packets
      PROVE  /\ DOMAIN aged[s] = {"age", "info"} /\ aged[s].info = packets[s].info
             /\ aged[s].age = Older(packets[s].age, d)
             /\ packets[s].age \in Nat /\ aged[s].age \in Nat
  <2>1. DOMAIN packets[s] = {"age", "info"} /\ packets[s].age \in Nat
    BY DEF Remembered
  <2>2. Older(packets[s].age, d) \in Nat
    <3> DEFINE a == packets[s].age
    <3> HIDE DEF a
    <3>1. a \in Nat /\ a <= a
      BY <2>1 DEF a
    <3>2. Older(a, d) \in Nat
      BY <3>1, OlderMonotonic
    <3> QED BY <3>2 DEF a
  <2> QED BY <2>1, <2>2
<1>3. DOMAIN aged = DOMAIN packets
  OBVIOUS
<1> HIDE DEF aged
<1>4. ASSUME NEW s \in DOMAIN aged, NEW t \in DOMAIN aged, s <= t
      PROVE  aged[t].age <= aged[s].age
  BY <1>2, <1>3, <1>4, OlderMonotonic DEF Remembered
<1>5. ASSUME NEW s \in left PROVE aged[s].age < DiscardAfter
  <2>1. PICK t \in DOMAIN aged : t <= s /\ ~(aged[t].age >= DiscardAfter)
    BY DEF LostPackets
  <2>2. aged[s].age <= aged[t].age
    BY <1>4, <2>1
  <2> QED BY <1>2, <1>3, <2>1, <2>2, DiscardAfterAssumption
<1>6. DOMAIN new = left /\ \A s \in left : new[s] = aged[s]
  BY <1>1
<1> HIDE DEF new
<1>7. \A s \in left : s \in DOMAIN packets
  BY <1>3
<1>8. Remembered(new, next, lens)
  <2>1. ASSUME NEW s \in DOMAIN new
        PROVE  /\ s \in Nat /\ s < next
               /\ DOMAIN new[s] = {"age", "info"}
               /\ new[s].age \in Nat /\ new[s].age < DiscardAfter
               /\ new[s].info \in Infos(lens)
    BY <1>2, <1>5, <1>6, <1>7 DEF Remembered
  <2>2. \A s, t \in DOMAIN new : s <= t => new[t].age <= new[s].age
    BY <1>4, <1>6
  <2> QED BY <2>1, <2>2 DEF Remembered
<1> QED BY <1>8 DEF new

LEMMA AgeUnackedKeeps ==
    ASSUME NEW ch, NEW lens, NEW d, SendReliableOK(ch, lens)
    PROVE  /\ SendReliableOK(AgeUnacked(ch, d), lens)
           /\ SameUnacked(AgeUnacked(ch, d), ch)
<1> DEFINE older == [id \in DOMAIN ch.unacked |-> AgeMessage(ch.unacked[id], d)]
           new == AgeUnacked(ch, d)
<1>1. new = [ch EXCEPT !.unacked = older]
  BY DEF AgeUnacked
<1>2. ASSUME NEW id \in DOMAIN ch.unacked
      PROVE  /\ DOMAIN older[id] = {"len", "acked", "next_slice", "age"}
             /\ older[id].len = ch.unacked[id].len
             /\ older[id].acked = ch.unacked[id].acked
             /\ older[id].next_slice = ch.unacked[id].next_slice
  BY DEF SendReliableOK, AgeMessage
<1>3. DOMAIN older = DOMAIN ch.unacked
  OBVIOUS
<1> HIDE DEF older, new
<1>4. /\ DOMAIN new = {"unacked", "next_id", "memory"} /\ new.unacked = older
      /\ new.next_id = ch.next_id /\ new.memory = ch.memory
  BY <1>1 DEF SendReliableOK
<1>5. SameUnacked(new, ch)
  BY <1>2, <1>3, <1>4 DEF SameUnacked, SendReliableOK
<1>6. SendReliableOK(new, lens)
  BY <1>5, SameStaysOK
<1> QED BY <1>5, <1>6 DEF new

LEMMA UpdateSender ==
    ASSUME SenderInv, NEW p \in Peers, Update(p, 1)
    PROVE  SenderInv'
<1>1. /\ sent_packets' = [sent_packets EXCEPT ![p] = AgeSentPackets(sent_packets[p], 1)]
      /\ send' = [send EXCEPT ![p] = [c \in ChannelIds |->
                    IF Reliable(c) THEN AgeUnacked(send[p][c], 1) ELSE send[p][c]]]
      /\ UNCHANGED <<packet_sequence, pending_acks, net, sent>>
  BY DEF Update
<1>2. ShapeInv'
  BY <1>1 DEF SenderInv, ShapeInv
<1>3. ASSUME NEW q \in Peers, NEW c \in ChannelIds PROVE SendOK(c, send'[q][c], sent'[q][c])
  <2>1. SendOK(c, send[q][c], sent[q][c])
    BY DEF SenderInv, SendInv
  <2>2. CASE q = p /\ Reliable(c)
    <3>1. send'[q][c] = AgeUnacked(send[q][c], 1) /\ sent'[q][c] = sent[q][c]
      BY <1>1, <2>2 DEF SenderInv, ShapeInv
    <3>2. SendReliableOK(send[q][c], sent[q][c])
      BY <2>1, <2>2 DEF SendOK
    <3>3. SendReliableOK(AgeUnacked(send[q][c], 1), sent[q][c])
      BY <3>2, AgeUnackedKeeps
    <3> QED BY <2>2, <3>1, <3>3 DEF SendOK
  <2>3. CASE ~(q = p /\ Reliable(c))
    <3>1. send'[q][c] = send[q][c] /\ sent'[q][c] = sent[q][c]
      BY <1>1, <2>3 DEF SenderInv, ShapeInv
    <3> QED BY <2>1, <3>1
  <2> QED BY <2>2, <2>3
<1>4. AckVectorsInv' /\ NetInv'
  BY <1>1 DEF SenderInv, AckVectorsInv, NetInv
<1>5. ASSUME NEW q \in Peers PROVE Remembered(sent_packets'[q], packet_sequence'[q], sent'[q])
  <2>1. Remembered(sent_packets[q], packet_sequence[q], sent[q])
    BY DEF SenderInv, RememberedInv
  <2>2. CASE q = p
    <3>1. sent_packets'[q] = AgeSentPackets(sent_packets[q], 1)
      BY <1>1, <2>2 DEF SenderInv, ShapeInv
    <3> QED BY <1>1, <2>1, <3>1, AgeSentPacketsKeeps
  <2>3. CASE q # p
    <3>1. sent_packets'[q] = sent_packets[q]
      BY <1>1, <2>3 DEF SenderInv, ShapeInv
    <3> QED BY <1>1, <2>1, <3>1
  <2> QED BY <2>2, <2>3
<1> QED BY <1>2, <1>3, <1>4, <1>5 DEF SenderInv, SendInv, RememberedInv

(***************************************************************************)
(* The packets of a tick: those of the channels, and the Ack packet.       *)
(***************************************************************************)
IsAckOf(k, p) ==
    /\ k.type = "Ack"
    /\ pending_acks[p] # << >>
    /\ k.wire = EncodeAck(pending_acks[p])

(* Those of channel c *)
DataFor(packets, c) == {k \in ToSet(packets) : k.type # "Ack" /\ k.channel = c}

Tick(p, packets, channels) ==
    /\ Len(packets) \in Nat /\ DOMAIN packets = 1 .. Len(packets)
    /\ \A i \in DOMAIN packets :
         /\ packets[i].sequence = packet_sequence[p] + i - 1
         /\ packets[i] \in DataPackets(sent[p]) \/ IsAckOf(packets[i], p)
    /\ DOMAIN channels = ChannelIds
    /\ \A c \in ChannelIds :
         SendOK(c, channels[c], sent[p][c]) /\ Advanced(c, channels[c], send[p][c])
    /\ FreshIds(packets, send[p], channels)
    /\ \A i \in DOMAIN packets :
         packets[i].type # "Ack" /\ Reliable(packets[i].channel) =>
             OfUnacked(packets[i], send[p][packets[i].channel].unacked)
    /\ pending_acks[p] # << >> => \E i \in DOMAIN packets : packets[i].type = "Ack"
    /\ \A c \in SubstrateIds : QueueSpreads(DataFor(packets, c), channels[c], send[p][c])

LEMMA DataPacketTypes ==
    ASSUME NEW lens, NEW k \in DataPackets(lens)
    PROVE  k.type \in {"SmallReliable", "ReliableSlice", "SmallUnreliable", "UnreliableSlice"}
<1>1. PICK c \in ChannelIds : k \in PacketsOf(c, lens[c])
  BY DEF DataPackets
<1>2. k \in ReliablePackets(c, lens[c]) \/ k \in UnreliablePackets(c, lens[c])
  BY <1>1 DEF PacketsOf
<1> QED BY <1>2 DEF ReliablePackets, UnreliablePackets

LEMMA TickPackets ==
    ASSUME SenderInv, NEW p \in Peers
    PROVE  Tick(p, PackChannels(p).packets \o AckPackets(p, PackChannels(p).sequence),
                PackChannels(p).send)
<1> DEFINE out == PackChannels(p)
           first == packet_sequence[p]
           ack == [type |-> "Ack", sequence |-> out.sequence, wire |-> EncodeAck(pending_acks[p])]
           acks == AckPackets(p, out.sequence)
           packets == out.packets \o acks
           P == DataPackets(sent[p]) \union {ack}
<1>1. /\ PackingChannels(out, first, send[p], sent[p])
      /\ \A c \in SubstrateIds : QueueSpreads(OfChannel(out.packets, c), out.send[c], send[p][c])
  BY PackChannelsKeeps DEF SenderInv, ShapeInv, SendInv
<1>2. first \in Nat
  BY DEF SenderInv, ShapeInv
<1> HIDE DEF out, first
<1>3. /\ out.sequence \in Nat
      /\ out.packets \in Seq(DataPackets(sent[p]))
      /\ Numbered(out.packets, first, out.sequence)
      /\ FreshIds(out.packets, send[p], out.send)
      /\ OfUnackedHalves(out.packets, send[p])
  BY <1>1 DEF PackingChannels
<1>4. ack.sequence = out.sequence /\ ack.type = "Ack" /\ ack.wire = EncodeAck(pending_acks[p])
  OBVIOUS
<1>5. acks = IF pending_acks[p] = << >> THEN << >> ELSE <<ack>>
  BY DEF AckPackets
<1> HIDE DEF ack, acks
<1>6. out.packets \in Seq(P) /\ ack \in P
  BY <1>3, SeqMonotonic
<1> HIDE DEF P
<1>7. /\ Len(out.packets) \in Nat /\ DOMAIN out.packets = 1 .. Len(out.packets)
      /\ \A i \in DOMAIN out.packets : out.packets[i] \in DataPackets(sent[p])
      /\ Len(out.packets) = out.sequence - first
      /\ \A i \in DOMAIN out.packets : out.packets[i].sequence = first + i - 1
  BY <1>3, ElementOfSeq, LenProperties DEF Numbered
<1>10. ToSet(out.packets) \subseteq DataPackets(sent[p])
  BY <1>7 DEF ToSet
<1>11. \A k \in ToSet(out.packets) : k.type # "Ack"
  BY <1>10, DataPacketTypes
<1>8. CASE pending_acks[p] = << >>
  <2>1. packets = out.packets
    BY <1>3, <1>5, <1>8, ConcatEmptySeq
  <2>3. \A c : DataFor(packets, c) = OfChannel(out.packets, c)
    BY <1>11, <2>1 DEF DataFor, OfChannel
  <2> HIDE DEF packets
  <2>2. Tick(p, packets, out.send)
    BY <1>1, <1>3, <1>7, <1>8, <2>1, <2>3 DEF Tick, PackingChannels, OfUnackedHalves, first
  <2> QED BY <2>2 DEF packets, acks, out
<1>9. CASE pending_acks[p] # << >>
  <2>1. packets = Append(out.packets, ack)
    BY <1>5, <1>6, <1>9, AppendIsConcat
  <2> HIDE DEF packets
  <2> DEFINE a == Len(out.packets)
  <2>2. /\ Len(packets) = a + 1 /\ packets \in Seq(P)
        /\ \A i \in 1 .. a : packets[i] = out.packets[i]
        /\ packets[a + 1] = ack
    BY <1>6, <2>1, AppendProperties
  <2>3. DOMAIN packets = 1 .. (a + 1) /\ a \in Nat
    BY <1>7, <2>2, LenProperties
  <2>4. ASSUME NEW i \in DOMAIN packets
        PROVE  /\ packets[i].sequence = first + i - 1
               /\ packets[i] \in DataPackets(sent[p]) \/ IsAckOf(packets[i], p)
               /\ packets[i].type # "Ack" =>
                    i \in DOMAIN out.packets /\ packets[i] = out.packets[i]
    <3>1. CASE i \in 1 .. a
      BY <1>7, <2>2, <3>1
    <3>2. CASE i = a + 1
      <4>1. packets[i] = ack /\ packets[i].sequence = out.sequence
        BY <1>4, <2>2, <3>2
      <4>2. out.sequence = first + i - 1
        BY <1>2, <1>3, <1>7, <3>2
      <4> QED BY <1>4, <1>9, <4>1, <4>2 DEF IsAckOf
    <3> HIDE DEF a
    <3> QED BY <2>3, <3>1, <3>2
  <2>5. FreshIds(packets, send[p], out.send)
    BY <1>3, <2>4 DEF FreshIds
  <2>7. \E i \in DOMAIN packets : packets[i].type = "Ack"
    <3>1. a + 1 \in DOMAIN packets /\ packets[a + 1].type = "Ack"
      <4> HIDE DEF a
      <4> QED BY <1>4, <2>2, <2>3
    <3> QED BY <3>1
  <2>8. \A i \in DOMAIN packets :
           packets[i].type # "Ack" /\ Reliable(packets[i].channel) =>
               OfUnacked(packets[i], send[p][packets[i].channel].unacked)
    BY <1>3, <2>4 DEF OfUnackedHalves
  <2>9. \A c : DataFor(packets, c) = OfChannel(out.packets, c)
    <3>1. ToSet(packets) = ToSet(out.packets) \union {ack}
      BY <1>6, <2>1, SetOfAppend
    <3> QED BY <1>4, <1>11, <3>1 DEF DataFor, OfChannel
  <2>6. Tick(p, packets, out.send)
    BY <1>1, <2>2, <2>3, <2>4, <2>5, <2>7, <2>8, <2>9 DEF Tick, PackingChannels, first
  <2> QED BY <2>6 DEF packets, acks, out
<1> QED BY <1>8, <1>9

(* The info that sent_packets keeps of a packet *)
LEMMA InfoOfPacket ==
    ASSUME NEW lens, NEW k \in DataPackets(lens), NEW acks
    PROVE  SentInfo(k, acks) \in Infos(lens) /\ SentInfo(k, acks) = InfoOf(k)
<1>1. PICK c \in ChannelIds : k \in PacketsOf(c, lens[c])
  BY DEF DataPackets
<1>2. CASE k.type = "SmallReliable"
  <2>1. k \in ReliablePackets(c, lens[c]) /\ Reliable(c)
    BY <1>1, <1>2 DEF PacketsOf, UnreliablePackets
  <2>2. k.channel = c /\ k.messages \in Seq(SmallMessages(lens[c]))
    BY <1>2, <2>1 DEF ReliablePackets
  <2> DEFINE ids == {m.id : m \in ToSet(k.messages)}
             info == [type |-> "ReliableMessages", channel |-> k.channel, ids |-> ids]
  <2>3. SentInfo(k, acks) = info /\ InfoOf(k) = info
    BY <1>2 DEF SentInfo, InfoOf
  <2>4. \A i \in DOMAIN k.messages : k.messages[i] \in SmallMessages(lens[c])
    BY <2>2, ElementOfSeq, LenProperties
  <2>5. \A id \in ids : id \in Nat /\ id + 1 \in DOMAIN lens[c] /\ ~IsSliced(lens[c][id + 1])
    BY <2>4 DEF ToSet, SmallMessages
  <2> HIDE DEF ids
  <2>6. info \in Infos(lens)
    BY <2>1, <2>2, <2>5 DEF Infos
  <2> QED BY <2>3, <2>6
<1>3. CASE k.type = "ReliableSlice"
  <2>1. k \in ReliablePackets(c, lens[c]) /\ Reliable(c)
    BY <1>1, <1>3 DEF PacketsOf, UnreliablePackets
  <2>2. /\ k.channel = c /\ k.id \in Nat /\ k.index \in Nat
        /\ k.id + 1 \in DOMAIN lens[c] /\ IsSliced(lens[c][k.id + 1])
        /\ k.index < NumSlices(lens[c][k.id + 1])
    BY <1>3, <2>1 DEF ReliablePackets, IsSliceOf
  <2> DEFINE info == [type |-> "ReliableSliceMessage", channel |-> k.channel,
                      id |-> k.id, index |-> k.index]
  <2>3. SentInfo(k, acks) = info /\ InfoOf(k) = info
    BY <1>3 DEF SentInfo, InfoOf
  <2>4. info \in Infos(lens)
    BY <2>1, <2>2 DEF Infos
  <2> QED BY <2>3, <2>4
<1>4. CASE k.type \in {"SmallUnreliable", "UnreliableSlice"}
  <2>1. SentInfo(k, acks) = [type |-> "None"] /\ InfoOf(k) = [type |-> "None"]
    BY <1>4 DEF SentInfo, InfoOf
  <2>2. [type |-> "None"] \in Infos(lens)
    BY DEF Infos
  <2> QED BY <2>1, <2>2
<1> QED BY <1>2, <1>3, <1>4, DataPacketTypes

LEMMA AckInfo ==
    ASSUME SenderInv, NEW p \in Peers, NEW k, IsAckOf(k, p)
    PROVE  /\ SentInfo(k, pending_acks[p]) \in Infos(sent[p])
           /\ DecodeAck(k.wire) = pending_acks[p]
           /\ AckOnTheWay(k, packet_sequence[Other(p)])
           /\ SentInfo(k, pending_acks[p]).largest < packet_sequence[Other(p)]
<1> DEFINE acks == pending_acks[p]
           n == Len(acks)
<1>1. /\ acks \in Seq(RangeRecord) /\ Separated(acks)
      /\ \A s \in Covered(acks) : s < packet_sequence[Other(p)]
  BY DEF SenderInv, AckVectorsInv
<1>2. acks # << >> /\ k.type = "Ack" /\ k.wire = EncodeAck(acks)
  BY DEF IsAckOf
<1>3. DecodeAck(k.wire) = acks
  <2> HIDE DEF acks
  <2> QED BY <1>1, <1>2, DecodeEncodes
<1>4. SentInfo(k, acks) = [type |-> "Ack", largest |-> acks[n].end - 1]
  BY <1>2 DEF SentInfo
<1> HIDE DEF acks
<1>5. n \in DOMAIN acks
  BY <1>1, <1>2, EmptySeq, LenProperties
<1>6. acks[n].start \in Nat /\ acks[n].end \in Nat /\ acks[n].start < acks[n].end
  BY <1>1, <1>5, RecordsInVector DEF Separated
<1>7. acks[n].end - 1 \in Nat
  BY <1>6
<1>8. SentInfo(k, acks) \in Infos(sent[p])
  BY <1>4, <1>7 DEF Infos
<1>9. acks[n].end - 1 < packet_sequence[Other(p)]
  <2>1. acks[n].end - 1 \in Covered(acks)
    BY <1>1, <1>5, <1>6, <1>7, CoveredIff
  <2> QED BY <1>1, <2>1
<1>10. SentInfo(k, acks).largest < packet_sequence[Other(p)]
  BY <1>4, <1>9
<1> QED BY <1>1, <1>2, <1>3, <1>8, <1>10 DEF AckOnTheWay, acks

(* What get_packets_to_send does, in terms of the packets that leave. *)
LEMMA GetPacketsFacts ==
    ASSUME SenderInv, NEW p \in Peers, GetPacketsToSend(p)
    PROVE  \E packets, channels :
             /\ Tick(p, packets, channels)
             /\ packet_sequence' = [packet_sequence EXCEPT ![p] = @ + Len(packets)]
             /\ DOMAIN sent_packets' = Peers
             /\ \A q \in Peers : q # p => sent_packets'[q] = sent_packets[q]
             /\ DOMAIN sent_packets'[p] = DOMAIN sent_packets[p] \union
                  (packet_sequence[p] .. (packet_sequence[p] + Len(packets) - 1))
             /\ \A s \in DOMAIN sent_packets[p] : sent_packets'[p][s] = sent_packets[p][s]
             /\ \A i \in DOMAIN packets :
                  sent_packets'[p][packet_sequence[p] + i - 1] =
                      [age |-> 0, info |-> SentInfo(packets[i], pending_acks[p])]
             /\ send' = [send EXCEPT ![p] = channels]
             /\ net' = net \union {[to |-> Other(p), packet |-> k] : k \in ToSet(packets)}
             /\ UNCHANGED <<pending_acks, recv, status, duplicated, sent, delivered>>
<1> DEFINE out == PackChannels(p)
           packets == out.packets \o AckPackets(p, out.sequence)
           channels == out.send
           first == packet_sequence[p]
           last == first + Len(packets) - 1
           new == [s \in DOMAIN sent_packets[p] \union (first .. last) |->
                     IF s < first THEN sent_packets[p][s]
                     ELSE [age |-> 0, info |-> SentInfo(packets[s - first + 1], pending_acks[p])]]
<1>1. Tick(p, packets, channels)
  BY TickPackets
<1>2. Transmit(p, channels, packets)
  BY DEF GetPacketsToSend
<1> HIDE DEF packets, channels
<1>3. /\ packet_sequence' = [packet_sequence EXCEPT ![p] = last + 1]
      /\ sent_packets' = [sent_packets EXCEPT ![p] = new]
      /\ send' = [send EXCEPT ![p] = channels]
      /\ net' = net \union {[to |-> Other(p), packet |-> k] : k \in ToSet(packets)}
      /\ UNCHANGED <<pending_acks, recv, status, duplicated, sent, delivered>>
  BY <1>2 DEF Transmit
<1>4. first \in Nat /\ Len(packets) \in Nat /\ DOMAIN packets = 1 .. Len(packets)
  BY <1>1 DEF Tick, SenderInv, ShapeInv
<1>5. packet_sequence' = [packet_sequence EXCEPT ![p] = @ + Len(packets)]
  <2>1. last + 1 = first + Len(packets)
    BY <1>4
  <2> HIDE DEF last
  <2> QED BY <1>3, <2>1 DEF first
<1>6. /\ DOMAIN sent_packets' = Peers /\ sent_packets'[p] = new
      /\ \A q \in Peers : q # p => sent_packets'[q] = sent_packets[q]
  <2> HIDE DEF new
  <2> QED BY <1>3 DEF SenderInv, ShapeInv
<1>7. \A s \in DOMAIN sent_packets[p] : s \in Nat /\ s < first
  BY DEF SenderInv, RememberedInv, Remembered
<1>8. \A s \in DOMAIN sent_packets[p] : new[s] = sent_packets[p][s]
  BY <1>7
<1>9. ASSUME NEW i \in DOMAIN packets
      PROVE  new[first + i - 1] = [age |-> 0, info |-> SentInfo(packets[i], pending_acks[p])]
  <2> DEFINE s == first + i - 1
  <2>1. s \in first .. last /\ ~(s < first) /\ s - first + 1 = i
    <3>1. i \in 1 .. Len(packets)
      BY <1>4
    <3> HIDE DEF first
    <3> QED BY <1>4, <3>1
  <2> HIDE DEF s, first, last
  <2>2. new[s] = [age |-> 0, info |-> SentInfo(packets[s - first + 1], pending_acks[p])]
    BY <2>1
  <2> QED BY <2>1, <2>2 DEF s
<1>10. DOMAIN new = DOMAIN sent_packets[p] \union (first .. last)
  OBVIOUS
<1> HIDE DEF new
<1> QED BY <1>1, <1>3, <1>5, <1>6, <1>8, <1>9, <1>10

LEMMA GetPacketsSender ==
    ASSUME SenderInv, NEW p \in Peers, GetPacketsToSend(p)
    PROVE  SenderInv'
<1>1. PICK packets, channels :
             /\ Tick(p, packets, channels)
             /\ packet_sequence' = [packet_sequence EXCEPT ![p] = @ + Len(packets)]
             /\ DOMAIN sent_packets' = Peers
             /\ \A q \in Peers : q # p => sent_packets'[q] = sent_packets[q]
             /\ DOMAIN sent_packets'[p] = DOMAIN sent_packets[p] \union
                  (packet_sequence[p] .. (packet_sequence[p] + Len(packets) - 1))
             /\ \A s \in DOMAIN sent_packets[p] : sent_packets'[p][s] = sent_packets[p][s]
             /\ \A i \in DOMAIN packets :
                  sent_packets'[p][packet_sequence[p] + i - 1] =
                      [age |-> 0, info |-> SentInfo(packets[i], pending_acks[p])]
             /\ send' = [send EXCEPT ![p] = channels]
             /\ net' = net \union {[to |-> Other(p), packet |-> k] : k \in ToSet(packets)}
             /\ UNCHANGED <<pending_acks, recv, status, duplicated, sent, delivered>>
  BY GetPacketsFacts
<1> DEFINE first == packet_sequence[p]
           count == Len(packets)
<1>2. /\ first \in Nat /\ count \in Nat /\ DOMAIN packets = 1 .. count
      /\ packet_sequence \in [Peers -> Nat]
      /\ DOMAIN channels = ChannelIds
  BY <1>1 DEF Tick, SenderInv, ShapeInv
<1>3. /\ packet_sequence'[p] = first + count /\ packet_sequence' \in [Peers -> Nat]
      /\ \A q \in Peers : q # p => packet_sequence'[q] = packet_sequence[q]
      /\ \A q \in Peers : packet_sequence[q] <= packet_sequence'[q]
  BY <1>1, <1>2
<1>4. ShapeInv'
  BY <1>1, <1>2, <1>3 DEF SenderInv, ShapeInv
<1>5. SendInv'
  <2> SUFFICES ASSUME NEW q \in Peers, NEW c \in ChannelIds PROVE SendOK(c, send'[q][c], sent'[q][c])
    BY DEF SendInv
  <2>1. CASE q = p
    BY <1>1, <2>1 DEF Tick, SenderInv, ShapeInv
  <2>2. CASE q # p
    BY <1>1, <2>2 DEF SenderInv, ShapeInv, SendInv
  <2> QED BY <2>1, <2>2
<1>6. AckVectorsInv'
  <2> SUFFICES ASSUME NEW q \in Peers
               PROVE  /\ pending_acks'[q] \in Seq(RangeRecord) /\ Separated(pending_acks'[q])
                      /\ \A s \in Covered(pending_acks'[q]) : s < packet_sequence'[Other(q)]
    BY DEF AckVectorsInv
  <2>1. /\ pending_acks[q] \in Seq(RangeRecord) /\ Separated(pending_acks[q])
        /\ \A s \in Covered(pending_acks[q]) : s < packet_sequence[Other(q)]
    BY DEF SenderInv, AckVectorsInv
  <2>2. Covered(pending_acks[q]) \subseteq Nat
    BY <2>1, CoveredIff
  <2>3. /\ packet_sequence[Other(q)] \in Nat /\ packet_sequence'[Other(q)] \in Nat
        /\ packet_sequence[Other(q)] <= packet_sequence'[Other(q)]
    BY <1>2, <1>3, PeerFacts
  <2>4. pending_acks' = pending_acks
    BY <1>1
  <2> QED BY <2>1, <2>2, <2>3, <2>4
<1>7. NetInv'
  <2> SUFFICES ASSUME NEW m \in net'
               PROVE  /\ m.to \in Peers
                      /\ m.packet.sequence \in Nat /\ m.packet.sequence < packet_sequence'[Other(m.to)]
                      /\ \/ m.packet \in DataPackets(sent'[Other(m.to)])
                         \/ AckOnTheWay(m.packet, packet_sequence'[m.to])
    BY DEF NetInv
  <2>1. CASE m \in net
    <3> DEFINE k == m.packet
    <3>1. /\ m.to \in Peers /\ Other(m.to) \in Peers
          /\ k.sequence \in Nat /\ k.sequence < packet_sequence[Other(m.to)]
          /\ k \in DataPackets(sent[Other(m.to)]) \/ AckOnTheWay(k, packet_sequence[m.to])
      BY <2>1, PeerFacts DEF SenderInv, NetInv
    <3>2. /\ packet_sequence[m.to] \in Nat /\ packet_sequence'[m.to] \in Nat
          /\ packet_sequence[Other(m.to)] \in Nat /\ packet_sequence'[Other(m.to)] \in Nat
          /\ packet_sequence[m.to] <= packet_sequence'[m.to]
          /\ packet_sequence[Other(m.to)] <= packet_sequence'[Other(m.to)]
      BY <1>2, <1>3, <3>1
    <3>3. k.sequence < packet_sequence'[Other(m.to)]
      BY <3>1, <3>2
    <3>4. ASSUME AckOnTheWay(k, packet_sequence[m.to]) PROVE AckOnTheWay(k, packet_sequence'[m.to])
      <4>1. Covered(DecodeAck(k.wire)) \subseteq Nat
        BY <3>4, CoveredIff DEF AckOnTheWay
      <4> QED BY <3>2, <3>4, <4>1 DEF AckOnTheWay
    <3>5. sent' = sent
      BY <1>1
    <3> QED BY <3>1, <3>3, <3>4, <3>5
  <2>2. CASE m \notin net
    <3>1. PICK k \in ToSet(packets) : m = [to |-> Other(p), packet |-> k]
      BY <1>1, <2>2
    <3>2. PICK i \in DOMAIN packets : k = packets[i]
      BY DEF ToSet
    <3>3. /\ k.sequence = first + i - 1
          /\ k \in DataPackets(sent[p]) \/ IsAckOf(k, p)
      BY <1>1, <3>2 DEF Tick
    <3>4. m.to = Other(p) /\ m.packet = k /\ Other(m.to) = p /\ Other(p) \in Peers /\ Other(p) # p
      BY <3>1, PeerFacts
    <3>5. k.sequence \in Nat /\ k.sequence < first + count
      <4>1. i \in 1 .. count
        BY <1>2
      <4> HIDE DEF first, count
      <4> QED BY <1>2, <3>3, <4>1
    <3>6. IsAckOf(k, p) => AckOnTheWay(k, packet_sequence'[m.to])
      <4>1. packet_sequence'[m.to] = packet_sequence[Other(p)]
        BY <1>3, <3>4
      <4> QED BY <4>1, AckInfo
    <3>7. sent' = sent
      BY <1>1
    <3> QED BY <1>3, <3>3, <3>4, <3>5, <3>6, <3>7
  <2> QED BY <2>1, <2>2
<1>8. RememberedInv'
  <2> SUFFICES ASSUME NEW q \in Peers
               PROVE  Remembered(sent_packets'[q], packet_sequence'[q], sent'[q])
    BY DEF RememberedInv
  <2>1. Remembered(sent_packets[q], packet_sequence[q], sent[q]) /\ sent' = sent
    BY <1>1 DEF SenderInv, RememberedInv
  <2>2. CASE q # p
    BY <1>1, <1>3, <2>1, <2>2
  <2>3. CASE q = p
    <3> DEFINE new == sent_packets'[p]
               was == sent_packets[p]
    <3>1. \A s \in DOMAIN was : s \in DOMAIN new /\ new[s] = was[s] /\ s \in Nat /\ s < first
      BY <1>1, <2>1, <2>3 DEF Remembered
    <3>2. ASSUME NEW s \in DOMAIN new, s \notin DOMAIN was
          PROVE  /\ s \in Nat /\ first <= s /\ s < first + count
                 /\ DOMAIN new[s] = {"age", "info"} /\ new[s].age = 0
                 /\ new[s].info \in Infos(sent[p])
      <4>1. s \in first .. (first + count - 1)
        BY <1>1, <3>2
      <4> DEFINE i == s - first + 1
      <4>2. i \in 1 .. count /\ first + i - 1 = s /\ s \in Nat /\ first <= s /\ s < first + count
        <5> HIDE DEF first, count
        <5> QED BY <1>2, <4>1
      <4> HIDE DEF i
      <4>3. new[s] = [age |-> 0, info |-> SentInfo(packets[i], pending_acks[p])]
        BY <1>1, <1>2, <4>2
      <4>4. SentInfo(packets[i], pending_acks[p]) \in Infos(sent[p])
        <5>1. packets[i] \in DataPackets(sent[p]) \/ IsAckOf(packets[i], p)
          BY <1>1, <1>2, <4>2 DEF Tick
        <5> QED BY <5>1, InfoOfPacket, AckInfo
      <4> HIDE DEF new
      <4> QED BY <4>2, <4>3, <4>4
    <3> HIDE DEF new
    <3>3. ASSUME NEW s \in DOMAIN new
          PROVE  /\ s \in Nat /\ s < first + count
                 /\ DOMAIN new[s] = {"age", "info"}
                 /\ new[s].age \in Nat /\ new[s].age < DiscardAfter
                 /\ new[s].info \in Infos(sent[p])
      <4>1. CASE s \in DOMAIN was
        <5>1. /\ DOMAIN was[s] = {"age", "info"}
              /\ was[s].age \in Nat /\ was[s].age < DiscardAfter
              /\ was[s].info \in Infos(sent[p])
          BY <2>1, <2>3, <4>1 DEF Remembered
        <5>2. new[s] = was[s] /\ s \in Nat /\ s < first
          BY <3>1, <4>1
        <5> HIDE DEF was, first, count
        <5>3. s < first + count
          BY <1>2, <5>2
        <5> QED BY <5>1, <5>2, <5>3
      <4>2. CASE s \notin DOMAIN was
        BY <3>2, <4>2, DiscardAfterAssumption
      <4> QED BY <4>1, <4>2
    <3>4. ASSUME NEW s \in DOMAIN new, NEW t \in DOMAIN new, s <= t
          PROVE  new[t].age <= new[s].age
      <4>1. CASE t \notin DOMAIN was
        <5>1. new[t].age = 0 /\ new[s].age \in Nat
          BY <3>2, <3>3, <4>1
        <5> QED BY <5>1
      <4>2. CASE t \in DOMAIN was
        <5>1. s \in DOMAIN was
          <6>1. t < first /\ t \in Nat /\ s \in Nat
            BY <3>1, <3>3, <4>2
          <6> HIDE DEF first, was
          <6> QED BY <1>2, <3>2, <3>4, <6>1
        <5> QED BY <2>1, <2>3, <3>1, <3>4, <4>2, <5>1 DEF Remembered
      <4> QED BY <4>1, <4>2
    <3>5. Remembered(new, first + count, sent[p])
      BY <3>3, <3>4 DEF Remembered
    <3> QED BY <1>3, <2>1, <2>3, <3>5 DEF new
  <2> QED BY <2>2, <2>3
<1> QED BY <1>4, <1>5, <1>6, <1>7, <1>8 DEF SenderInv

(* The sequence of a packet is recorded before the packet is handled. *)
LEMMA PendingAckAdded ==
    ASSUME SenderInv, NEW p \in Peers, NEW sequence \in Nat, sequence < packet_sequence[Other(p)]
    PROVE  LET acks == AddPendingAck(pending_acks[p], sequence)
           IN  /\ acks \in Seq(RangeRecord) /\ Separated(acks)
               /\ Covered(acks) \subseteq Covered(pending_acks[p]) \union {sequence}
               /\ \A s \in Covered(acks) : s < packet_sequence[Other(p)]
<1> DEFINE acks == AddPendingAck(pending_acks[p], sequence)
<1>1. /\ pending_acks[p] \in Seq(RangeRecord) /\ Separated(pending_acks[p])
      /\ \A s \in Covered(pending_acks[p]) : s < packet_sequence[Other(p)]
  BY DEF SenderInv, AckVectorsInv
<1>2. AddsAck(pending_acks[p], sequence, acks)
  BY <1>1, AddPendingAckAdds
<1> HIDE DEF acks
<1>3. acks \in Seq(RangeRecord) /\ Separated(acks)
  BY <1>2 DEF AddsAck
<1>4. Covered(acks) \subseteq Nat
  BY <1>3, CoveredIff
<1>5. Covered(acks) \subseteq Covered(pending_acks[p]) \union {sequence}
  BY <1>2, <1>4 DEF AddsAck
<1> QED BY <1>1, <1>3, <1>5 DEF acks

(* The loop over the packets that an Ack packet acknowledges, in a reachable state *)
LEMMA AckLoopOfPacket ==
    ASSUME SenderInv, NEW p \in Peers, NEW packet, packet.sequence \in Nat,
           packet.sequence < packet_sequence[Other(p)], NEW arrived, NEW stored,
           \A c \in ChannelIds :
             Reliable(c) => Ticked(send[p][c], sent[p][c], arrived[c], stored[c]),
           WholeIsArrived(sent[p], arrived, stored),
           \A s \in NewAcks(p, packet.wire) : InfoAmong(sent_packets[p][s].info, arrived, stored)
    PROVE  LET acks == AddPendingAck(pending_acks[p], packet.sequence)
               after == AckLoop(p, packet.wire, acks)
           IN  /\ Acking(after, send[p], sent[p], arrived, stored, Covered(acks))
               /\ Leaves(after, send[p], sent_packets[p], NewAcks(p, packet.wire))
               /\ CutBy(after.pending_acks, acks, Largests(p, packet.wire))
<1> DEFINE acks == AddPendingAck(pending_acks[p], packet.sequence)
           covered == Covered(acks)
           lens == sent[p]
<1>1. acks \in Seq(RangeRecord) /\ Separated(acks)
  BY PendingAckAdded
<1> HIDE DEF acks, covered
<1>2. lens \in [ChannelIds -> LengthSeqs] /\ DOMAIN send[p] = ChannelIds
  BY DEF SenderInv, ShapeInv
<1>3. Acking([send |-> send[p], pending_acks |-> acks], send[p], lens, arrived, stored, covered)
  <2> DEFINE st == [send |-> send[p], pending_acks |-> acks]
  <2>1. DOMAIN st = {"send", "pending_acks"} /\ st.send = send[p] /\ st.pending_acks = acks
    OBVIOUS
  <2> HIDE DEF st
  <2>2. Acking(st, send[p], lens, arrived, stored, covered)
    BY <1>1, <1>2, <2>1 DEF Acking, covered, KeepsUnacked
  <2> QED BY <2>2 DEF st
<1>4. packet_sequence[p] \in Nat /\ \A s \in DOMAIN sent_packets[p] : s \in 0 .. packet_sequence[p]
  BY DEF SenderInv, ShapeInv, RememberedInv, Remembered
<1>5. ASSUME NEW s \in NewAcks(p, packet.wire)
      PROVE  /\ sent_packets[p][s].info \in Infos(lens)
             /\ InfoAmong(sent_packets[p][s].info, arrived, stored)
  BY DEF NewAcks, SenderInv, RememberedInv, Remembered
<1>6. LET after == AckLoop(p, packet.wire, acks)
      IN  /\ Acking(after, send[p], lens, arrived, stored, covered)
          /\ Leaves(after, send[p], sent_packets[p], NewAcks(p, packet.wire))
          /\ CutBy(after.pending_acks, acks, Largests(p, packet.wire))
  <2> HIDE DEF lens
  <2>1. WholeIsArrived(lens, arrived, stored)
    BY DEF lens
  <2> QED BY <1>1, <1>2, <1>3, <1>4, <1>5, <2>1, AckLoopKeeps
<1> QED BY <1>6 DEF acks, covered

(* process_packet as the sender's variables see it *)
LEMMA ProcessAckSender ==
    ASSUME SenderInv, NEW p \in Peers, NEW packet, packet.sequence \in Nat,
           packet.sequence < packet_sequence[Other(p)],
           ProcessAck(p, packet, AddPendingAck(pending_acks[p], packet.sequence)),
           net' \subseteq net, UNCHANGED <<packet_sequence, sent>>
    PROVE  /\ SenderInv'
           /\ \A q \in Peers, c \in ChannelIds : ~Reliable(c) => send'[q][c] = send[q][c]
           /\ \A q \in Peers, c \in ChannelIds :
                Reliable(c) => KeepsUnacked(send'[q][c], send[q][c])
<1> DEFINE acks == AddPendingAck(pending_acks[p], packet.sequence)
           covered == Covered(acks)
           after == AckLoop(p, packet.wire, acks)
           lens == sent[p]
           all == [c \in ChannelIds |-> Nat]
<1>1. /\ send' = [send EXCEPT ![p] = after.send]
      /\ pending_acks' = [pending_acks EXCEPT ![p] = after.pending_acks]
      /\ sent_packets' = [sent_packets EXCEPT ![p] =
            [s \in DOMAIN sent_packets[p] \ NewAcks(p, packet.wire) |-> sent_packets[p][s]]]
  BY DEF ProcessAck, AckLoop
<1>2. ASSUME NEW c \in ChannelIds, Reliable(c) PROVE Ticked(send[p][c], lens[c], all[c], all[c])
  <2>1. SendReliableOK(send[p][c], lens[c])
    BY <1>2 DEF SenderInv, SendInv, SendOK
  <2>2. all[c] = Nat
    OBVIOUS
  <2>3. \A id \in DOMAIN send[p][c].unacked : id \in Nat
    BY <2>1 DEF SendReliableOK
  <2> HIDE DEF all
  <2> QED BY <2>1, <2>2, <2>3 DEF Ticked
<1>3. WholeIsArrived(lens, all, all)
  BY DEF WholeIsArrived
<1>4. ASSUME NEW s \in NewAcks(p, packet.wire) PROVE InfoAmong(sent_packets[p][s].info, all, all)
  <2> DEFINE info == sent_packets[p][s].info
  <2>1. info \in Infos(lens)
    BY DEF NewAcks, SenderInv, RememberedInv, Remembered
  <2> HIDE DEF info
  <2>2. InfoAmong(info, all, all)
    BY <2>1 DEF InfoAmong, Infos
  <2> QED BY <2>2 DEF info
<1>5. Acking(after, send[p], lens, all, all, covered)
  <2> HIDE DEF all
  <2> QED BY <1>2, <1>3, <1>4, AckLoopOfPacket
<1> HIDE DEF covered
<1> HIDE DEF after
<1>6. ASSUME NEW c \in ChannelIds PROVE SendOK(c, after.send[c], lens[c])
  BY <1>5, <1>6 DEF Acking, Ticked, SendOK, SenderInv, SendInv
<1>7. ShapeInv'
  BY <1>1, <1>5 DEF SenderInv, ShapeInv, Acking
<1>8. SendInv'
  <2> SUFFICES ASSUME NEW q \in Peers, NEW c \in ChannelIds PROVE SendOK(c, send'[q][c], sent'[q][c])
    BY DEF SendInv
  <2>1. CASE q = p
    BY <1>1, <1>6, <2>1 DEF SenderInv, ShapeInv
  <2>2. CASE q # p
    BY <1>1, <2>2 DEF SenderInv, ShapeInv, SendInv
  <2> QED BY <2>1, <2>2
<1>9. AckVectorsInv'
  <2> SUFFICES ASSUME NEW q \in Peers
               PROVE  /\ pending_acks'[q] \in Seq(RangeRecord) /\ Separated(pending_acks'[q])
                      /\ \A s \in Covered(pending_acks'[q]) : s < packet_sequence[Other(q)]
    BY DEF AckVectorsInv
  <2>1. CASE q = p
    <3>1. \A s \in covered : s < packet_sequence[Other(p)]
      BY PendingAckAdded DEF covered
    <3> QED BY <1>1, <1>5, <2>1, <3>1 DEF SenderInv, ShapeInv, Acking
  <2>2. CASE q # p
    BY <1>1, <2>2 DEF SenderInv, ShapeInv, AckVectorsInv
  <2> QED BY <2>1, <2>2
<1>10. NetInv'
  BY DEF SenderInv, NetInv
<1>11. RememberedInv'
  <2> SUFFICES ASSUME NEW q \in Peers
               PROVE  Remembered(sent_packets'[q], packet_sequence[q], sent[q])
    BY DEF RememberedInv
  <2>1. Remembered(sent_packets[q], packet_sequence[q], sent[q])
    BY DEF SenderInv, RememberedInv
  <2>2. CASE q = p
    <3> DEFINE left == [s \in DOMAIN sent_packets[p] \ NewAcks(p, packet.wire) |-> sent_packets[p][s]]
    <3>1. sent_packets'[p] = left
      BY <1>1 DEF SenderInv, ShapeInv
    <3>2. /\ DOMAIN left \subseteq DOMAIN sent_packets[p]
          /\ \A s \in DOMAIN left : left[s] = sent_packets[p][s]
      OBVIOUS
    <3> HIDE DEF left
    <3> QED BY <2>1, <2>2, <3>1, <3>2 DEF Remembered
  <2>3. CASE q # p
    BY <1>1, <2>1, <2>3 DEF SenderInv, ShapeInv
  <2> QED BY <2>2, <2>3
<1>12. ASSUME NEW q \in Peers, NEW c \in ChannelIds, ~Reliable(c) PROVE send'[q][c] = send[q][c]
  <2>1. after.send[c] = send[p][c]
    BY <1>5, <1>12 DEF Acking
  <2>2. CASE q = p
    BY <1>1, <2>1, <2>2 DEF SenderInv, ShapeInv
  <2>3. CASE q # p
    BY <1>1, <2>3 DEF SenderInv, ShapeInv
  <2> QED BY <2>2, <2>3
<1>13. ASSUME NEW q \in Peers, NEW c \in ChannelIds, Reliable(c)
       PROVE  KeepsUnacked(send'[q][c], send[q][c])
  <2>1. KeepsUnacked(after.send[c], send[p][c])
    BY <1>5, <1>13 DEF Acking
  <2>2. CASE q = p
    BY <1>1, <2>1, <2>2 DEF SenderInv, ShapeInv
  <2>3. CASE q # p
    BY <1>1, <2>3 DEF SenderInv, ShapeInv, KeepsUnacked
  <2> QED BY <2>2, <2>3
<1> QED BY <1>7, <1>8, <1>9, <1>10, <1>11, <1>12, <1>13 DEF SenderInv

LEMMA ProcessPacketSender ==
    ASSUME SenderInv, NEW m \in net, ProcessPacket(m.to, m.packet), net' \subseteq net
    PROVE  SenderInv'
<1> DEFINE p == m.to
           packet == m.packet
           acks == AddPendingAck(pending_acks[p], packet.sequence)
<1>1. /\ p \in Peers /\ packet.sequence \in Nat
      /\ packet.sequence < packet_sequence[Other(p)]
  BY DEF SenderInv, NetInv
<1>2. UNCHANGED <<packet_sequence, sent>>
  BY DEF ProcessPacket
<1>3. CASE ProcessAck(p, packet, acks)
  <2> HIDE DEF p, packet
  <2> QED BY <1>1, <1>2, <1>3, ProcessAckSender
<1>4. CASE pending_acks' = [pending_acks EXCEPT ![p] = acks] /\ UNCHANGED <<sent_packets, send>>
  <2> HIDE DEF p, packet
  <2>1. /\ acks \in Seq(RangeRecord) /\ Separated(acks)
        /\ \A s \in Covered(acks) : s < packet_sequence[Other(p)]
    BY <1>1, PendingAckAdded
  <2> HIDE DEF acks
  <2>2. AckVectorsInv'
    BY <1>1, <1>2, <1>4, <2>1 DEF SenderInv, ShapeInv, AckVectorsInv
  <2>3. ShapeInv' /\ SendInv' /\ NetInv' /\ RememberedInv'
    BY <1>2, <1>4 DEF SenderInv, ShapeInv, SendInv, NetInv, RememberedInv
  <2> QED BY <2>2, <2>3 DEF SenderInv
<1> QED
  BY <1>3, <1>4 DEF ProcessPacket, ProcessSmallReliable, ProcessReliableSlice,
                    ProcessSmallUnreliable, ProcessUnreliableSlicePacket, AfterReceive

LEMMA SenderNext == SenderInv /\ [Next]_vars => SenderInv'
<1> SUFFICES ASSUME SenderInv, [Next]_vars PROVE SenderInv'
  OBVIOUS
<1>1. ASSUME NEW p \in Senders, NEW c \in ChannelIds, NEW len \in Lengths, SendMessage(p, c, len)
      PROVE  SenderInv'
  BY <1>1, RemoteConnectionAssumption, SendMessageSender
<1>2. ASSUME NEW p \in Peers, NEW c \in ChannelIds, ReceiveMessage(p, c) PROVE SenderInv'
  BY <1>2, SenderUnchanged DEF ReceiveMessage
<1>3. ASSUME NEW p \in Leavers, Disconnect(p) PROVE SenderInv'
  BY <1>3, SenderUnchanged DEF Disconnect
<1>4. ASSUME NEW p \in Peers, Update(p, 1) PROVE SenderInv'
  BY <1>4, UpdateSender
<1>5. ASSUME NEW p \in Peers, GetPacketsToSend(p) PROVE SenderInv'
  BY <1>5, GetPacketsSender
<1>6. ASSUME NEW m \in net, Deliver(m) \/ Duplicate(m) PROVE SenderInv'
  BY <1>6, ProcessPacketSender DEF Deliver, Duplicate
<1>7. CASE UNCHANGED vars
  BY <1>7, SenderUnchanged DEF vars, core
<1> QED BY <1>1, <1>2, <1>3, <1>4, <1>5, <1>6, <1>7 DEF Next

LEMMA SenderAlways == Spec => []SenderInv
BY SenderInit, SenderNext, PTL DEF Spec

(***************************************************************************)
(* update leaves no expired packet behind, although it stops at the first  *)
(* one that is young enough: packets are remembered in the order in which  *)
(* they were sent, whatever was acked in between.                          *)
(***************************************************************************)
THEOREM NoExpiredPacketEverKept == Spec => []NoExpiredPacketKept
<1>1. SenderInv => NoExpiredPacketKept
  BY DEF SenderInv, RememberedInv, Remembered, NoExpiredPacketKept
<1> QED BY <1>1, SenderAlways, PTL

-----------------------------------------------------------------------------
(* The memory of a receiving half is what it holds, and is within its limit. *)
ReceiveExact(c, r) ==
    IF Reliable(c) THEN ReceivedExact(r, Channels[c].max) ELSE WaitingExact(r, Channels[c].max)

(***************************************************************************)
(* The receiving half new of channel c after a packet of data: what the    *)
(* packet carries is there unless there was an error, and nothing that was *)
(* there is gone.                                                          *)
(***************************************************************************)
Arrives(packet, c, new, r, lens, out) ==
    /\ ReceiveOK(c, new, lens, out)
    /\ new.err \in {"none", "ReliableChannelMaxMemoryReached"}
    /\ ReceiveExact(c, r) => ReceiveExact(c, new)
    /\ Reliable(c) => NothingLost(new, r, out)
    /\ Reliable(c) => GainsOnly(new, r, out, lens, PartsOfPacket(packet, c))
    /\ new.err = "none" =>
         /\ packet.type = "SmallReliable" =>
              \A m \in ToSet(packet.messages) : Has(new, out, m.id)
         /\ packet.type = "ReliableSlice" =>
              \/ Has(new, out, packet.id)
              \/ packet.id \in DOMAIN new.slices /\ packet.index \in new.slices[packet.id].got
    /\ ~Reliable(c) => \A x \in DOMAIN new.slices :
         IF packet.type = "UnreliableSlice" /\ x = packet.id
         THEN ConstructorOK(new.slices[x], lens[packet.data + 1])
         ELSE x \in DOMAIN r.slices /\ new.slices[x] = r.slices[x]
    /\ packet.type = "SmallUnreliable" =>
         /\ new.slices = r.slices
         /\ RoomFor(r, packet.messages, lens, Channels[c].max) =>
              Adds(new, r, DataWaiting(packet.messages))
    /\ packet.type = "UnreliableSlice" => UnreliableReceived(new, r, Channels[c], lens, packet)

LEMMA DataArrives ==
    ASSUME SenderInv, ReceiveInv, SliceIdsInv, NEW m \in net,
           ProcessPacket(m.to, m.packet), m.packet.type # "Ack"
    PROVE  \E c, new :
             /\ c \in ChannelIds
             /\ m.packet \in PacketsOf(c, sent[Other(m.to)][c])
             /\ AfterReceive(m.to, c, new)
             /\ Arrives(m.packet, c, new, recv[m.to][c], sent[Other(m.to)][c], delivered[m.to][c])
<1> DEFINE p == m.to
           k == m.packet
<1>1. p \in Peers /\ k \in DataPackets(sent[Other(p)])
  BY DEF SenderInv, NetInv, AckOnTheWay
<1>2. PICK c \in ChannelIds : k \in PacketsOf(c, sent[Other(p)][c])
  BY <1>1 DEF DataPackets
<1> DEFINE lens == sent[Other(p)][c]
           r == recv[p][c]
           out == delivered[p][c]
           cfg == Channels[c]
<1>3. /\ Open(p) /\ k.channel = c /\ lens \in LengthSeqs /\ r.err = "none"
      /\ ReceiveOK(c, r, lens, out) /\ cfg.max \in Nat
  <2>1. Open(p)
    BY DEF ProcessPacket
  <2>2. lens \in LengthSeqs
    BY <1>1, PeerFacts DEF SenderInv, ShapeInv
  <2> QED BY <1>1, <1>2, <2>1, <2>2, PacketOfChannel, ChannelFacts DEF ReceiveInv
<1>4. \/ k.type = "SmallReliable" /\ ProcessSmallReliable(p, k)
      \/ k.type = "ReliableSlice" /\ ProcessReliableSlice(p, k)
      \/ k.type = "SmallUnreliable" /\ ProcessSmallUnreliable(p, k)
      \/ k.type = "UnreliableSlice" /\ ProcessUnreliableSlicePacket(p, k)
  BY DEF ProcessPacket
<1>5. CASE k.type = "SmallReliable"
  <2> DEFINE new == ReceiveMessages(r, k.messages, cfg)
  <2>1. AfterReceive(p, c, new)
    <3>1. ProcessSmallReliable(p, k)
      BY <1>4, <1>5
    <3> HIDE DEF p, k
    <3>2. AfterReceive(p, k.channel,
                       ReceiveMessages(recv[p][k.channel], k.messages, Channels[k.channel]))
      BY <3>1 DEF ProcessSmallReliable, ReceiveMessages, FoldLeft, MapThenFoldSet
    <3> QED BY <1>3, <3>2
  <2>2. Reliable(c) /\ k \in ReliablePackets(c, lens)
    BY <1>2, <1>5 DEF PacketsOf, UnreliablePackets
  <2>3. k.messages \in Seq(SmallMessages(lens))
    BY <1>5, <2>2 DEF ReliablePackets
  <2>4. ReceiveReliableOK(r, cfg, lens, out)
    BY <1>3, <2>2 DEF ReceiveOK
  <2> HIDE DEF lens, r, out, cfg, k, p
  <2>5. /\ ReceiveReliableOK(new, cfg, lens, out)
        /\ Received(new, r, out, {k.messages[e].id : e \in DOMAIN k.messages})
        /\ KeepsReceived(new, r, cfg)
    <3> DEFINE ms == k.messages
    <3> HIDE DEF ms
    <3>1. ms \in Seq(SmallMessages(lens))
      BY <2>3 DEF ms
    <3>2. /\ ReceiveReliableOK(ReceiveMessages(r, ms, cfg), cfg, lens, out)
          /\ Received(ReceiveMessages(r, ms, cfg), r, out, {ms[e].id : e \in DOMAIN ms})
          /\ KeepsReceived(ReceiveMessages(r, ms, cfg), r, cfg)
      BY <1>3, <2>4, <3>1, ReceiveMessagesKeeps
    <3> QED BY <3>2 DEF ms
  <2> HIDE DEF new
  <2>6. NothingLost(new, r, out)
    BY <2>5 DEF Received, NothingLost
  <2>7. new.err = "none" => \A e \in ToSet(k.messages) : Has(new, out, e.id)
    BY <2>5 DEF Received, ToSet
  <2>8. new.err \in {"none", "ReliableChannelMaxMemoryReached"}
    BY <2>5 DEF Received
  <2>9. ReceiveOK(c, new, lens, out)
    BY <2>2, <2>5 DEF ReceiveOK, cfg
  <2>11. ReceiveExact(c, r) => ReceiveExact(c, new)
    BY <2>2, <2>5 DEF ReceiveExact, KeepsReceived, cfg
  <2>12. GainsOnly(new, r, out, lens, PartsOfPacket(k, c))
    <3> SUFFICES ASSUME NEW id \in Nat, id + 1 \in DOMAIN lens, NEW i \in Parts(lens[id + 1]),
                        HasPart(new, out, id, i), ~HasPart(r, out, id, i)
                 PROVE  <<id, i>> \in PartsOfPacket(k, c)
      BY DEF GainsOnly
    <3>1. PICK e \in DOMAIN k.messages : id = k.messages[e].id
      BY <2>5 DEF Received, HasPart
    <3>2. k.messages[e] \in SmallMessages(lens) /\ k.messages[e] \in ToSet(k.messages)
      BY <2>3, <3>1, ElementOfSeq, LenProperties DEF ToSet
    <3>3. i = 0
      BY <3>1, <3>2 DEF SmallMessages, Parts
    <3>4. PartsOfPacket(k, c) = {<<m1.id, 0>> : m1 \in ToSet(k.messages)}
      BY <1>3, <1>5 DEF PartsOfPacket
    <3> QED BY <3>1, <3>2, <3>3, <3>4
  <2>10. Arrives(k, c, new, r, lens, out)
    BY <1>5, <2>2, <2>6, <2>7, <2>8, <2>9, <2>11, <2>12 DEF Arrives
  <2> QED BY <1>2, <2>1, <2>10 DEF lens, r, out, k, p
<1>6. CASE k.type = "ReliableSlice"
  <2> DEFINE new == ProcessSlice(r, k, cfg)
  <2>1. AfterReceive(p, c, new)
    BY <1>3, <1>4, <1>6 DEF ProcessReliableSlice
  <2>2. Reliable(c) /\ k \in ReliablePackets(c, lens)
    BY <1>2, <1>6 DEF PacketsOf, UnreliablePackets
  <2>3. k.id \in Nat /\ k.index \in Nat /\ k.id + 1 \in DOMAIN lens /\ IsSliceOf(k, lens[k.id + 1])
    BY <1>6, <2>2 DEF ReliablePackets
  <2>4. ReceiveReliableOK(r, cfg, lens, out)
    BY <1>3, <2>2 DEF ReceiveOK
  <2> HIDE DEF lens, r, out, cfg, k, p
  <2>5. SliceReceived(new, r, cfg, lens, out, k.id, k.index)
    BY <1>3, <2>3, <2>4, ProcessSliceKeeps
  <2> HIDE DEF new
  <2>6. ReceiveOK(c, new, lens, out)
    BY <2>2, <2>5 DEF ReceiveOK, cfg, SliceReceived
  <2>8. ReceiveExact(c, r) => ReceiveExact(c, new)
    BY <2>2, <2>5 DEF ReceiveExact, KeepsReceived, SliceReceived, cfg
  <2>9. PartsOfPacket(k, c) = {<<k.id, k.index>>}
    BY <1>3, <1>6 DEF PartsOfPacket
  <2>7. Arrives(k, c, new, r, lens, out)
    BY <1>6, <2>2, <2>5, <2>6, <2>8, <2>9 DEF Arrives, SliceReceived
  <2> QED BY <1>2, <2>1, <2>7 DEF lens, r, out, k, p
<1>7. CASE k.type = "SmallUnreliable"
  <2> DEFINE new == ReceiveUnreliableMessages(r, k.messages, cfg)
  <2>1. AfterReceive(p, c, new)
    <3>1. ProcessSmallUnreliable(p, k)
      BY <1>4, <1>7
    <3> HIDE DEF p, k
    <3>2. AfterReceive(p, k.channel, ReceiveUnreliableMessages(recv[p][k.channel], k.messages,
                                                               Channels[k.channel]))
      BY <3>1 DEF ProcessSmallUnreliable, ReceiveUnreliableMessages, FoldLeft, MapThenFoldSet
    <3> QED BY <1>3, <3>2
  <2>2. ~Reliable(c) /\ k \in UnreliablePackets(c, lens)
    BY <1>2, <1>7 DEF PacketsOf, ReliablePackets
  <2>3. k.messages \in Seq(SmallUnreliables(lens))
    BY <1>7, <2>2 DEF UnreliablePackets
  <2>4. ReceiveUnreliableOK(r, lens)
    BY <1>3, <2>2 DEF ReceiveOK
  <2> HIDE DEF lens, r, out, cfg, k, p
  <2>5. /\ ReceiveUnreliableOK(new, lens) /\ new.slices = r.slices /\ new.err = r.err
        /\ KeepsWaiting(new, r, cfg)
        /\ RoomFor(r, k.messages, lens, cfg.max) => Adds(new, r, DataWaiting(k.messages))
    BY <1>3, <2>3, <2>4, ReceiveUnreliableMessagesKeeps
  <2> HIDE DEF new
  <2>6. ReceiveOK(c, new, lens, out)
    BY <2>2, <2>5 DEF ReceiveOK
  <2>8. ReceiveExact(c, r) => ReceiveExact(c, new)
    BY <2>2, <2>5 DEF ReceiveExact, KeepsWaiting, cfg
  <2>7. Arrives(k, c, new, r, lens, out)
    BY <1>3, <1>7, <2>2, <2>5, <2>6, <2>8 DEF Arrives, cfg
  <2> QED BY <1>2, <2>1, <2>7 DEF lens, r, out, k, p
<1>8. CASE k.type = "UnreliableSlice"
  <2> DEFINE new == ProcessUnreliableSlice(r, k, cfg)
  <2>1. AfterReceive(p, c, new)
    BY <1>3, <1>4, <1>8 DEF ProcessUnreliableSlicePacket
  <2>2. ~Reliable(c) /\ k \in UnreliablePackets(c, lens)
    BY <1>2, <1>8 DEF PacketsOf, ReliablePackets
  <2>3. k.id \in Nat /\ k.data \in Nat /\ k.index \in Nat /\ k.data + 1 \in DOMAIN lens
        /\ IsSliceOf(k, lens[k.data + 1])
    BY <1>8, <2>2 DEF UnreliablePackets
  <2>4. ReceiveUnreliableOK(r, lens)
    BY <1>3, <2>2 DEF ReceiveOK
  <2>5. k \in SlicesOnTheWay(p, c, k.id)
    BY <1>3, <1>8 DEF SlicesOnTheWay
  <2>6. c \in UnreliableIds
    BY <2>2 DEF UnreliableIds
  <2>7. k.id \in DOMAIN r.slices => ConstructorOK(r.slices[k.id], lens[k.data + 1])
    BY <1>1, <2>3, <2>5, <2>6 DEF SliceIdsInv
  <2> HIDE DEF lens, r, out, cfg, k, p
  <2>8. UnreliableReceived(new, r, cfg, lens, k)
    BY <1>3, <2>3, <2>4, <2>7, ProcessUnreliableSliceKeeps
  <2> HIDE DEF new
  <2>9. ReceiveOK(c, new, lens, out)
    BY <2>2, <2>8 DEF ReceiveOK, UnreliableReceived
  <2>11. ReceiveExact(c, r) => ReceiveExact(c, new)
    BY <2>2, <2>8 DEF ReceiveExact, KeepsWaiting, UnreliableReceived, cfg
  <2>10. Arrives(k, c, new, r, lens, out)
    BY <1>3, <1>8, <2>2, <2>8, <2>9, <2>11 DEF Arrives, UnreliableReceived, cfg
  <2> QED BY <1>2, <2>1, <2>10 DEF lens, r, out, k, p
<1> QED BY <1>4, <1>5, <1>6, <1>7, <1>8

LEMMA ReceiveInit == Init => ReceiveInv /\ SliceIdsInv
<1> SUFFICES ASSUME Init PROVE ReceiveInv /\ SliceIdsInv
  OBVIOUS
<1>1. ASSUME NEW p \in Peers, NEW c \in ChannelIds
      PROVE  /\ ReceiveOK(c, recv[p][c], sent[Other(p)][c], delivered[p][c])
             /\ recv[p][c].err = "none" /\ recv[p][c].slices = << >>
  <2>1. sent[Other(p)][c] = << >> /\ delivered[p][c] = << >>
    BY PeerFacts DEF Init
  <2>2. CASE Reliable(c)
    <3>1. recv[p][c] = NewReceiveReliable
      BY <2>2 DEF Init
    <3> DEFINE r == NewReceiveReliable
    <3>2. /\ DOMAIN r = {"slices", "messages", "oldest", "received", "memory", "err"}
          /\ r.slices = << >> /\ r.messages = << >> /\ r.oldest = 0 /\ r.received = {}
          /\ r.memory = 0 /\ r.err = "none"
      BY DEF NewReceiveReliable
    <3> HIDE DEF r
    <3>3. OrderedOK(r, << >>, << >>)
      BY <3>2 DEF OrderedOK
    <3>4. UnorderedOK(r, << >>, << >>)
      BY <3>2, FS_EmptySet DEF UnorderedOK, IsInjective, Has, ToSet
    <3>5. ReceiveReliableOK(r, Channels[c], << >>, << >>)
      BY <3>2, <3>3, <3>4 DEF ReceiveReliableOK
    <3> QED BY <2>1, <2>2, <3>1, <3>2, <3>5 DEF ReceiveOK, r
  <2>3. CASE ~Reliable(c)
    <3>1. recv[p][c] = NewReceiveUnreliable
      BY <2>3 DEF Init
    <3> QED BY <2>1, <2>3, <3>1 DEF ReceiveOK, ReceiveUnreliableOK, NewReceiveUnreliable
  <2> QED BY <2>2, <2>3
<1>2. ReceiveInv
  BY <1>1 DEF Init, ReceiveInv
<1>3. \A p, c, id : SlicesOnTheWay(p, c, id) = {}
  BY DEF Init, SlicesOnTheWay
<1>4. SliceIdsInv
  BY <1>1, <1>3 DEF SliceIdsInv, UnreliableIds
<1> QED BY <1>2, <1>4

LEMMA ReceiveGrows ==
    ASSUME NEW c, NEW r, NEW out, NEW old \in LengthSeqs, NEW new \in LengthSeqs, Grown(new, old),
           ReceiveOK(c, r, old, out)
    PROVE  ReceiveOK(c, r, new, out)
<1>1. Len(old) <= Len(new) /\ Len(old) \in Nat /\ Len(new) \in Nat
  <2>1. /\ Len(old) \in Nat /\ DOMAIN old = 1 .. Len(old)
        /\ Len(new) \in Nat /\ DOMAIN new = 1 .. Len(new)
    BY LenProperties DEF LengthSeqs
  <2>2. CASE Len(old) = 0
    BY <2>1, <2>2
  <2>3. CASE Len(old) # 0
    <3>1. Len(old) \in DOMAIN old
      BY <2>1, <2>3
    <3>2. Len(old) \in DOMAIN new
      BY <3>1 DEF Grown
    <3> QED BY <2>1, <3>2
  <2> QED BY <2>2, <2>3
<1>2. CASE Reliable(c)
  <2>1. ReceiveReliableOK(r, Channels[c], old, out)
    BY <1>2 DEF ReceiveOK
  <2>2. out \in Seq(Nat) /\ Len(out) \in Nat
    BY <2>1, LenProperties DEF ReceiveReliableOK
  <2>3. OrderedOK(r, old, out) => OrderedOK(r, new, out)
    BY <1>1, <2>2 DEF OrderedOK
  <2>4. UnorderedOK(r, old, out) => UnorderedOK(r, new, out)
    BY DEF UnorderedOK, Grown
  <2>5. ReceiveReliableOK(r, Channels[c], new, out)
    BY <2>1, <2>3, <2>4 DEF ReceiveReliableOK, Grown
  <2> QED BY <1>2, <2>5 DEF ReceiveOK
<1>3. CASE ~Reliable(c)
  <2>1. QueueMessages(old) \subseteq QueueMessages(new)
    BY GrownPackets
  <2>2. Seq(QueueMessages(old)) \subseteq Seq(QueueMessages(new))
    BY <2>1, SeqMonotonic
  <2> QED BY <1>3, <2>2 DEF ReceiveOK, ReceiveUnreliableOK
<1> QED BY <1>2, <1>3

LEMMA SliceOnTheWay ==
    ASSUME SenderInv, NEW p \in Peers, NEW c \in ChannelIds, NEW id,
           NEW k \in SlicesOnTheWay(p, c, id)
    PROVE  k.data \in Nat /\ k.data + 1 \in DOMAIN sent[Other(p)][c]
<1>1. PICK m \in net : m.to = p /\ m.packet = k
  BY DEF SlicesOnTheWay
<1>2. k.type = "UnreliableSlice" /\ k.channel = c
  BY DEF SlicesOnTheWay
<1>3. k \in DataPackets(sent[Other(p)])
  BY <1>1, <1>2 DEF SenderInv, NetInv, AckOnTheWay
<1>4. PICK d \in ChannelIds : k \in PacketsOf(d, sent[Other(p)][d])
  BY <1>3 DEF DataPackets
<1>5. d = c
  BY <1>2, <1>4, PacketOfChannel
<1>6. k \in UnreliablePackets(c, sent[Other(p)][c])
  BY <1>2, <1>4, <1>5 DEF PacketsOf, ReliablePackets
<1> QED BY <1>2, <1>6 DEF UnreliablePackets

(* No slice comes, no id is given out, constructors only go. *)
LEMMA SliceIdsKept ==
    ASSUME SenderInv, SliceIdsInv, net' \subseteq net,
           \A p \in Peers, c \in ChannelIds : Grown(sent'[p][c], sent[p][c]),
           \A p \in Peers, c \in UnreliableIds :
             /\ send'[p][c].sliced_id = send[p][c].sliced_id
             /\ \A x \in DOMAIN recv'[p][c].slices :
                  x \in DOMAIN recv[p][c].slices /\ recv'[p][c].slices[x] = recv[p][c].slices[x]
    PROVE  SliceIdsInv'
<1> SUFFICES ASSUME NEW p \in Peers, NEW c \in UnreliableIds
             PROVE  /\ \A id \in DOMAIN recv'[p][c].slices :
                         id \in Nat /\ id < send'[Other(p)][c].sliced_id
                    /\ \A id \in Nat : \A k \in SlicesOnTheWay(p, c, id)' :
                         /\ id < send'[Other(p)][c].sliced_id
                         /\ \A l \in SlicesOnTheWay(p, c, id)' : l.data = k.data
                         /\ id \in DOMAIN recv'[p][c].slices =>
                              ConstructorOK(recv'[p][c].slices[id], sent'[Other(p)][c][k.data + 1])
  BY DEF SliceIdsInv
<1> DEFINE q == Other(p)
<1>1. c \in ChannelIds /\ q \in Peers
  BY PeerFacts DEF UnreliableIds
<1>2. \A id : SlicesOnTheWay(p, c, id)' \subseteq SlicesOnTheWay(p, c, id)
  BY DEF SlicesOnTheWay
<1>3. send'[q][c].sliced_id = send[q][c].sliced_id
  BY <1>1
<1>4. /\ \A id \in DOMAIN recv[p][c].slices : id \in Nat /\ id < send[q][c].sliced_id
      /\ \A id \in Nat : \A k \in SlicesOnTheWay(p, c, id) :
           /\ id < send[q][c].sliced_id
           /\ \A l \in SlicesOnTheWay(p, c, id) : l.data = k.data
           /\ id \in DOMAIN recv[p][c].slices =>
                ConstructorOK(recv[p][c].slices[id], sent[q][c][k.data + 1])
  BY DEF SliceIdsInv
<1> HIDE DEF q
<1>5. \A id \in DOMAIN recv'[p][c].slices : id \in Nat /\ id < send'[q][c].sliced_id
  BY <1>3, <1>4
<1>6. ASSUME NEW id \in Nat, NEW k \in SlicesOnTheWay(p, c, id)'
      PROVE  /\ id < send'[q][c].sliced_id
             /\ \A l \in SlicesOnTheWay(p, c, id)' : l.data = k.data
             /\ id \in DOMAIN recv'[p][c].slices =>
                  ConstructorOK(recv'[p][c].slices[id], sent'[q][c][k.data + 1])
  <2>1. k \in SlicesOnTheWay(p, c, id)
    BY <1>2
  <2>2. k.data + 1 \in DOMAIN sent[q][c]
    BY <1>1, <2>1, SliceOnTheWay DEF q
  <2>3. sent'[q][c][k.data + 1] = sent[q][c][k.data + 1]
    BY <1>1, <2>2 DEF Grown
  <2> QED BY <1>2, <1>3, <1>4, <2>1, <2>3
<1> QED BY <1>5, <1>6 DEF q

(* The receiving halves are left alone. *)
LEMMA ReceiveKept ==
    ASSUME SenderInv, ReceiveInv, ShapeInv', UNCHANGED <<recv, delivered>>, DOMAIN status' = Peers,
           \A p \in Peers : status'[p] = "open" => status[p] = "open",
           \A p \in Peers, c \in ChannelIds : Grown(sent'[p][c], sent[p][c])
    PROVE  ReceiveInv'
<1>1. ASSUME NEW p \in Peers, NEW c \in ChannelIds
      PROVE  ReceiveOK(c, recv'[p][c], sent'[Other(p)][c], delivered'[p][c])
  <2>1. Other(p) \in Peers
    BY PeerFacts
  <2>2. sent[Other(p)][c] \in LengthSeqs /\ sent'[Other(p)][c] \in LengthSeqs
    BY <2>1 DEF SenderInv, ShapeInv
  <2>3. ReceiveOK(c, recv[p][c], sent[Other(p)][c], delivered[p][c])
    BY DEF ReceiveInv
  <2>4. Grown(sent'[Other(p)][c], sent[Other(p)][c])
    BY <2>1
  <2>5. ReceiveOK(c, recv[p][c], sent'[Other(p)][c], delivered[p][c])
    BY <2>2, <2>3, <2>4, ReceiveGrows
  <2> QED BY <2>5
<1>2. \A p \in Peers, c \in ChannelIds : ReceiveOK(c, recv[p][c], sent[Other(p)][c], delivered[p][c])'
  BY <1>1
<1> QED BY <1>2 DEF ReceiveInv, Open

LEMMA SendMessageReceive ==
    ASSUME SenderInv, ReceiveInv, SliceIdsInv, NEW p \in Peers, NEW c \in ChannelIds,
           NEW len \in Lengths, SendMessage(p, c, len)
    PROVE  /\ ReceiveInv' /\ SliceIdsInv'
           /\ \A q \in Peers, d \in ChannelIds : Grown(sent'[q][d], sent[q][d])
<1>1. /\ UNCHANGED <<packet_sequence, sent_packets, pending_acks, recv, net, duplicated, delivered>>
      /\ \/ Reliable(c) /\ SendReliableMessage(p, c, len)
         \/ ~Reliable(c) /\ SendUnreliableMessage(p, c, len)
  BY DEF SendMessage
<1>2. SenderInv'
  BY SendMessageSender
<1>3. /\ sent \in [Peers -> [ChannelIds -> LengthSeqs]] /\ DOMAIN send = Peers
      /\ \A q \in Peers : DOMAIN send[q] = ChannelIds
      /\ DOMAIN status = Peers
  BY DEF SenderInv, ShapeInv, ReceiveInv
<1>4. /\ DOMAIN status' = Peers
      /\ \A q \in Peers : status'[q] = "open" => status[q] = "open"
      /\ sent' = sent \/ sent' = [sent EXCEPT ![p][c] = Append(sent[p][c], len)]
  BY <1>1, <1>3 DEF SendReliableMessage, SendUnreliableMessage
<1>5. ASSUME NEW q \in Peers, NEW d \in ChannelIds PROVE Grown(sent'[q][d], sent[q][d])
  <2>1. CASE sent'[q][d] = sent[q][d]
    BY <2>1, GrownReflexive
  <2>2. CASE q = p /\ d = c /\ sent'[q][d] = Append(sent[p][c], len)
    <3>1. len \in Nat /\ sent[p][c] \in LengthSeqs
      BY <1>3, RemoteConnectionAssumption
    <3> QED BY <2>2, <3>1, AppendGrows
  <2>3. sent'[q][d] = sent[q][d] \/ (q = p /\ d = c /\ sent'[q][d] = Append(sent[p][c], len))
    <3> DEFINE more == Append(sent[p][c], len)
    <3> HIDE DEF more
    <3>1. sent' = sent \/ sent' = [sent EXCEPT ![p][c] = more]
      BY <1>4 DEF more
    <3>2. CASE q = p /\ d = c
      BY <1>3, <3>1, <3>2 DEF more
    <3>3. CASE ~(q = p /\ d = c)
      BY <1>3, <3>1, <3>3
    <3> QED BY <3>2, <3>3
  <2> QED BY <2>1, <2>2, <2>3
<1>6. ReceiveInv'
  BY <1>1, <1>2, <1>4, <1>5, ReceiveKept DEF SenderInv
<1>7. ASSUME NEW q \in Peers, NEW d \in UnreliableIds
      PROVE  send'[q][d].sliced_id = send[q][d].sliced_id
  <2>1. d \in ChannelIds /\ ~Reliable(d)
    BY DEF UnreliableIds
  <2>2. CASE Reliable(c)
    <3>1. SendReliableMessage(p, c, len) /\ d # c
      BY <1>1, <2>1, <2>2
    <3> DEFINE ch == SendReliable(send[p][c], len)
    <3>2. send' = send \/ send' = [send EXCEPT ![p][c] = ch]
      BY <3>1 DEF SendReliableMessage
    <3> HIDE DEF ch
    <3>3. send'[q][d] = send[q][d]
      BY <1>3, <2>1, <3>1, <3>2
    <3> QED BY <3>3
  <2>3. CASE ~Reliable(c)
    <3> DEFINE old == send[p][c]
               new == SendUnreliable(old, Len(sent[p][c]), len, Channels[c].max)
    <3>1. send' = [send EXCEPT ![p][c] = new]
      BY <1>1, <2>3 DEF SendUnreliableMessage
    <3>2. DOMAIN old = {"queue", "sliced_id", "memory"}
      BY <2>3 DEF SenderInv, SendInv, SendOK, SendUnreliableOK
    <3>3. new.sliced_id = old.sliced_id
      <4> HIDE DEF old
      <4> QED BY <3>2 DEF SendUnreliable
    <3> HIDE DEF new
    <3>4. CASE q = p /\ d = c
      BY <1>3, <3>1, <3>3, <3>4
    <3>5. CASE ~(q = p /\ d = c)
      <4>1. send'[q][d] = send[q][d]
        BY <1>3, <2>1, <3>1, <3>5
      <4> QED BY <4>1
    <3> QED BY <3>4, <3>5
  <2> QED BY <2>2, <2>3
<1>8. SliceIdsInv'
  BY <1>1, <1>5, <1>7, SliceIdsKept
<1> QED BY <1>5, <1>6, <1>8

(* The receiving half of channel c of p changes, and what was handed out. *)
Changes(p, c, new, out) ==
    /\ recv' = [recv EXCEPT ![p][c] = new]
    /\ \/ delivered' = [delivered EXCEPT ![p][c] = out]
       \/ delivered' = delivered /\ out = delivered[p][c]

LEMMA ReceiveChanges ==
    ASSUME SenderInv, ReceiveInv, NEW p \in Peers, NEW c \in ChannelIds, NEW new, NEW out,
           Changes(p, c, new, out),
           DOMAIN status' = Peers, UNCHANGED sent,
           \A q \in Peers : status'[q] = "open" => status[q] = "open",
           status'[p] = "open" => new.err = "none",
           ReceiveOK(c, new, sent[Other(p)][c], out)
    PROVE  /\ ReceiveInv'
           /\ recv'[p][c] = new /\ delivered'[p][c] = out
           /\ \A q \in Peers, d \in ChannelIds :
                ~(q = p /\ d = c) => recv'[q][d] = recv[q][d] /\ delivered'[q][d] = delivered[q][d]
<1>1. /\ DOMAIN recv = Peers /\ DOMAIN delivered = Peers
      /\ \A q \in Peers : DOMAIN recv[q] = ChannelIds /\ DOMAIN delivered[q] = ChannelIds
  BY DEF ReceiveInv
<1>2. /\ DOMAIN recv' = Peers /\ DOMAIN delivered' = Peers
      /\ \A q \in Peers : DOMAIN recv'[q] = ChannelIds /\ DOMAIN delivered'[q] = ChannelIds
  BY <1>1 DEF Changes
<1>3. recv'[p][c] = new /\ delivered'[p][c] = out
  BY <1>1 DEF Changes
<1>4. ASSUME NEW q \in Peers, NEW d \in ChannelIds, ~(q = p /\ d = c)
      PROVE  recv'[q][d] = recv[q][d] /\ delivered'[q][d] = delivered[q][d]
  BY <1>1, <1>4 DEF Changes
<1>5. ASSUME NEW q \in Peers, NEW d \in ChannelIds
      PROVE  /\ status'[q] = "open" => recv'[q][d].err = "none"
             /\ ReceiveOK(d, recv'[q][d], sent'[Other(q)][d], delivered'[q][d])
  <2>1. CASE q = p /\ d = c
    BY <1>3, <2>1
  <2>2. CASE ~(q = p /\ d = c)
    BY <1>4, <2>2 DEF ReceiveInv, Open
  <2> QED BY <2>1, <2>2
<1>6. /\ \A q \in Peers, d \in ChannelIds : Open(q)' => recv'[q][d].err = "none"
      /\ \A q \in Peers, d \in ChannelIds :
           ReceiveOK(d, recv[q][d], sent[Other(q)][d], delivered[q][d])'
  BY <1>5 DEF Open
<1>7. ReceiveInv'
  BY <1>2, <1>6 DEF ReceiveInv
<1> QED BY <1>3, <1>4, <1>7

LEMMA ReceiveMessageReceive ==
    ASSUME SenderInv, ReceiveInv, SliceIdsInv, NEW p \in Peers, NEW c \in ChannelIds,
           ReceiveMessage(p, c)
    PROVE  /\ ReceiveInv' /\ SliceIdsInv'
           /\ \A q \in Peers, d \in ChannelIds :
                /\ recv'[q][d].slices = recv[q][d].slices
                /\ ReceiveExact(d, recv[q][d]) => ReceiveExact(d, recv'[q][d])
                /\ Reliable(d) => \A x \in Nat :
                     Has(recv'[q][d], delivered'[q][d], x) <=> Has(recv[q][d], delivered[q][d], x)
<1> DEFINE r == recv[p][c]
           lens == sent[Other(p)][c]
           out == delivered[p][c]
<1>1. /\ Open(p)
      /\ UNCHANGED <<packet_sequence, sent_packets, pending_acks, send, status, net, sent>>
  BY DEF ReceiveMessage
<1>2. /\ ReceiveOK(c, r, lens, out) /\ r.err = "none" /\ DOMAIN status = Peers
      /\ lens \in LengthSeqs
  BY <1>1, PeerFacts DEF ReceiveInv, SenderInv, ShapeInv
<1>3. ASSUME NEW new, NEW more, recv' = [recv EXCEPT ![p][c] = new],
             delivered' = [delivered EXCEPT ![p][c] = more],
             ReceiveOK(c, new, lens, more), new.err = "none", new.slices = r.slices,
             ReceiveExact(c, r) => ReceiveExact(c, new),
             Reliable(c) => \A x \in Nat : Has(new, more, x) <=> Has(r, out, x)
      PROVE  /\ ReceiveInv' /\ SliceIdsInv'
             /\ \A q \in Peers, d \in ChannelIds :
                  /\ recv'[q][d].slices = recv[q][d].slices
                  /\ ReceiveExact(d, recv[q][d]) => ReceiveExact(d, recv'[q][d])
                  /\ Reliable(d) => \A x \in Nat :
                       Has(recv'[q][d], delivered'[q][d], x) <=> Has(recv[q][d], delivered[q][d], x)
  <2>1. /\ ReceiveInv'
        /\ recv'[p][c] = new /\ delivered'[p][c] = more
        /\ \A q \in Peers, d \in ChannelIds :
             ~(q = p /\ d = c) => recv'[q][d] = recv[q][d] /\ delivered'[q][d] = delivered[q][d]
    <3>1. /\ DOMAIN status' = Peers /\ sent' = sent
          /\ \A q \in Peers : status'[q] = "open" => status[q] = "open"
          /\ status'[p] = "open" => new.err = "none"
      BY <1>1, <1>2, <1>3
    <3>2. ReceiveOK(c, new, sent[Other(p)][c], more)
      BY <1>3
    <3>3. Changes(p, c, new, more)
      BY <1>3 DEF Changes
    <3> QED BY <3>1, <3>2, <3>3, ReceiveChanges
  <2>2. ASSUME NEW q \in Peers, NEW d \in ChannelIds
        PROVE  /\ recv'[q][d].slices = recv[q][d].slices
               /\ ReceiveExact(d, recv[q][d]) => ReceiveExact(d, recv'[q][d])
               /\ Reliable(d) => \A x \in Nat :
                    Has(recv'[q][d], delivered'[q][d], x) <=> Has(recv[q][d], delivered[q][d], x)
    <3>1. CASE q = p /\ d = c
      BY <1>3, <2>1, <3>1
    <3>2. CASE ~(q = p /\ d = c)
      BY <2>1, <3>2
    <3> QED BY <3>1, <3>2
  <2>3. \A q \in Peers, d \in ChannelIds : Grown(sent'[q][d], sent[q][d])
    BY <1>1, GrownReflexive
  <2>4. SliceIdsInv'
    BY <1>1, <2>2, <2>3, SliceIdsKept DEF UnreliableIds
  <2> QED BY <2>1, <2>2, <2>4
<1>4. CASE Reliable(c)
  <2>1. PICK id \in NextReceivable(r, Channels[c]) :
          /\ recv' = [recv EXCEPT ![p][c] = TakeMessage(r, id, Channels[c])]
          /\ delivered' = [delivered EXCEPT ![p][c] = Append(out, id)]
    BY <1>4 DEF ReceiveMessage
  <2>2. ReceiveReliableOK(r, Channels[c], lens, out)
    BY <1>2, <1>4 DEF ReceiveOK
  <2> DEFINE new == TakeMessage(r, id, Channels[c])
             more == Append(out, id)
  <2>3. MessageTaken(new, r, Channels[c], lens, out, id)
    <3> HIDE DEF r, lens, out
    <3> QED BY <1>2, <2>2, ChannelFacts, TakeMessageKeeps
  <2>4. ReceiveOK(c, new, lens, more)
    BY <1>4, <2>3 DEF ReceiveOK, MessageTaken
  <2>5. new.err = "none" /\ new.slices = r.slices
        /\ \A x \in Nat : Has(new, more, x) <=> Has(r, out, x)
    BY <1>2, <2>3 DEF MessageTaken
  <2>7. ReceiveExact(c, r) => ReceiveExact(c, new)
    BY <1>4, <2>3 DEF MessageTaken, ReceiveExact, KeepsReceived
  <2> HIDE DEF new, more
  <2>6. recv' = [recv EXCEPT ![p][c] = new] /\ delivered' = [delivered EXCEPT ![p][c] = more]
    BY <2>1 DEF new, more
  <2> QED BY <1>3, <2>4, <2>5, <2>6, <2>7
<1>5. CASE ~Reliable(c)
  <2> DEFINE new == TakeUnreliableMessage(r)
             more == Append(out, Head(recv[p][c].messages).data)
  <2>1. /\ r.messages # << >>
        /\ recv' = [recv EXCEPT ![p][c] = new]
        /\ delivered' = [delivered EXCEPT ![p][c] = more]
    BY <1>5 DEF ReceiveMessage
  <2>2. /\ ReceiveUnreliableOK(new, lens) /\ new.err = r.err /\ new.slices = r.slices
        /\ \A max \in Nat : WaitingExact(r, max) => WaitingExact(new, max)
    <3>1. ReceiveUnreliableOK(r, lens)
      BY <1>2, <1>5 DEF ReceiveOK
    <3> HIDE DEF r, lens
    <3> QED BY <2>1, <3>1, TakeUnreliableKeeps
  <2> HIDE DEF new, more
  <2>3. ReceiveOK(c, new, lens, more)
    BY <1>5, <2>2 DEF ReceiveOK
  <2>4. ReceiveExact(c, r) => ReceiveExact(c, new)
    BY <1>5, <2>2, ChannelFacts DEF ReceiveExact
  <2> QED BY <1>2, <1>3, <1>5, <2>1, <2>2, <2>3, <2>4
<1> QED BY <1>4, <1>5

LEMMA UpdateReceive ==
    ASSUME SenderInv, ReceiveInv, SliceIdsInv, NEW p \in Peers, Update(p, 1)
    PROVE  /\ ReceiveInv' /\ SliceIdsInv'
           /\ \A q \in Peers, c \in ChannelIds : Reliable(c) => recv'[q][c] = recv[q][c]
           /\ \A q \in Peers, c \in ChannelIds :
                ReceiveExact(c, recv[q][c]) => ReceiveExact(c, recv'[q][c])
<1>1. /\ send' = [send EXCEPT ![p] = [c \in ChannelIds |->
                    IF Reliable(c) THEN AgeUnacked(send[p][c], 1) ELSE send[p][c]]]
      /\ recv' = [recv EXCEPT ![p] = [c \in ChannelIds |->
                    IF Reliable(c) THEN recv[p][c] ELSE DiscardIncompleteOldSlices(recv[p][c], 1)]]
      /\ UNCHANGED <<packet_sequence, pending_acks, status, net, sent, delivered>>
  BY DEF Update
<1>2. /\ DOMAIN recv = Peers /\ DOMAIN delivered = Peers /\ DOMAIN status = Peers
      /\ \A q \in Peers : DOMAIN recv[q] = ChannelIds /\ DOMAIN delivered[q] = ChannelIds
      /\ DOMAIN send = Peers
  BY DEF ReceiveInv, SenderInv, ShapeInv
<1>3. DOMAIN recv' = Peers /\ \A q \in Peers : DOMAIN recv'[q] = ChannelIds
  BY <1>1, <1>2
<1>4. ASSUME NEW q \in Peers, NEW c \in ChannelIds
      PROVE  /\ recv'[q][c] = recv[q][c] \/ (~Reliable(c) /\ recv'[q][c] = DiscardIncompleteOldSlices(recv[q][c], 1))
             /\ ~Reliable(c) => send'[q][c] = send[q][c]
  BY <1>1, <1>2
<1>5. ASSUME NEW q \in Peers, NEW c \in ChannelIds
      PROVE  /\ ReceiveOK(c, recv'[q][c], sent[Other(q)][c], delivered[q][c])
             /\ recv'[q][c].err = recv[q][c].err
             /\ ReceiveExact(c, recv[q][c]) => ReceiveExact(c, recv'[q][c])
             /\ \A x \in DOMAIN recv'[q][c].slices :
                  x \in DOMAIN recv[q][c].slices /\ recv'[q][c].slices[x] = recv[q][c].slices[x]
  <2>1. ReceiveOK(c, recv[q][c], sent[Other(q)][c], delivered[q][c])
    BY DEF ReceiveInv
  <2>2. CASE recv'[q][c] = recv[q][c]
    BY <2>1, <2>2
  <2>3. CASE ~Reliable(c) /\ recv'[q][c] = DiscardIncompleteOldSlices(recv[q][c], 1)
    <3> DEFINE r == recv[q][c]
               new == DiscardIncompleteOldSlices(r, 1)
               lens == sent[Other(q)][c]
    <3>1. ReceiveUnreliableOK(r, lens)
      BY <2>1, <2>3 DEF ReceiveOK
    <3>2. /\ ReceiveUnreliableOK(new, lens) /\ new.err = r.err
          /\ \A max \in Nat : WaitingExact(r, max) => WaitingExact(new, max)
          /\ \A x \in DOMAIN new.slices : x \in DOMAIN r.slices /\ new.slices[x] = r.slices[x]
      <4> HIDE DEF r, lens
      <4> QED BY <3>1, DiscardKeeps
    <3> HIDE DEF new
    <3>3. recv'[q][c] = new
      BY <2>3 DEF new
    <3> QED BY <2>3, <3>2, <3>3, ChannelFacts DEF ReceiveOK, ReceiveExact
  <2> QED BY <1>4, <2>2, <2>3
<1>6. /\ \A q \in Peers, c \in ChannelIds : Open(q)' => recv'[q][c].err = "none"
      /\ \A q \in Peers, c \in ChannelIds :
           ReceiveOK(c, recv[q][c], sent[Other(q)][c], delivered[q][c])'
  BY <1>1, <1>5 DEF ReceiveInv, Open
<1>7. ReceiveInv'
  BY <1>1, <1>2, <1>3, <1>6 DEF ReceiveInv
<1>8. SliceIdsInv'
  <2>1. \A q \in Peers, c \in ChannelIds : Grown(sent'[q][c], sent[q][c])
    BY <1>1, GrownReflexive
  <2>2. \A q \in Peers, c \in UnreliableIds : c \in ChannelIds /\ send'[q][c].sliced_id = send[q][c].sliced_id
    BY <1>4 DEF UnreliableIds
  <2> QED BY <1>1, <1>5, <2>1, <2>2, SliceIdsKept
<1> QED BY <1>4, <1>5, <1>7, <1>8

LEMMA GetPacketsReceive ==
    ASSUME SenderInv, ReceiveInv, SliceIdsInv, NEW p \in Peers, GetPacketsToSend(p)
    PROVE  ReceiveInv' /\ SliceIdsInv'
<1>1. PICK packets, channels :
             /\ Tick(p, packets, channels)
             /\ send' = [send EXCEPT ![p] = channels]
             /\ net' = net \union {[to |-> Other(p), packet |-> k] : k \in ToSet(packets)}
             /\ UNCHANGED <<pending_acks, recv, status, duplicated, sent, delivered>>
  BY GetPacketsFacts
<1>2. SenderInv'
  BY GetPacketsSender
<1>3. ReceiveInv'
  <2>1. \A q \in Peers, c \in ChannelIds : Grown(sent'[q][c], sent[q][c])
    BY <1>1, GrownReflexive
  <2>2. DOMAIN status' = Peers /\ \A q \in Peers : status'[q] = "open" => status[q] = "open"
    BY <1>1 DEF ReceiveInv
  <2> QED BY <1>1, <1>2, <2>1, <2>2, ReceiveKept DEF SenderInv
<1>4. ASSUME NEW r \in Peers, NEW c \in UnreliableIds
      PROVE  LET next == send'[Other(r)][c].sliced_id
                 lens == sent'[Other(r)][c]
                 slices == recv'[r][c].slices
             IN  /\ \A id \in DOMAIN slices : id \in Nat /\ id < next
                 /\ \A id \in Nat : \A k \in SlicesOnTheWay(r, c, id)' :
                      /\ id < next
                      /\ \A l \in SlicesOnTheWay(r, c, id)' : l.data = k.data
                      /\ id \in DOMAIN slices => ConstructorOK(slices[id], lens[k.data + 1])
  <2> DEFINE q == Other(r)
             slices == recv[r][c].slices
             lens == sent[q][c]
             next == send[q][c].sliced_id
             next2 == send'[q][c].sliced_id
  <2>1. c \in ChannelIds /\ ~Reliable(c) /\ q \in Peers
    BY PeerFacts DEF UnreliableIds
  <2>2. /\ \A id \in DOMAIN slices : id \in Nat /\ id < next
        /\ \A id \in Nat : \A k \in SlicesOnTheWay(r, c, id) :
             /\ id < next
             /\ \A l \in SlicesOnTheWay(r, c, id) : l.data = k.data
             /\ id \in DOMAIN slices => ConstructorOK(slices[id], lens[k.data + 1])
    BY DEF SliceIdsInv
  <2>3. recv'[r][c].slices = slices /\ sent'[q][c] = lens
    BY <1>1
  <2>4. CASE r = p
    <3>1. q # p /\ send'[q] = send[q]
      BY <1>1, <2>4, PeerFacts DEF SenderInv, ShapeInv
    <3>2. \A id : SlicesOnTheWay(r, c, id)' = SlicesOnTheWay(r, c, id)
      <4>1. \A m \in net' : m.to = r => m \in net
        BY <1>1, <2>4, <3>1
      <4>2. net \subseteq net'
        BY <1>1
      <4> QED BY <4>1, <4>2 DEF SlicesOnTheWay
    <3> QED BY <2>2, <2>3, <3>1, <3>2
  <2>5. CASE r # p
    <3>1. q = p /\ r = Other(p)
      BY <2>5, PeerFacts
    <3>2. send'[p] = channels
      BY <1>1 DEF SenderInv, ShapeInv
    <3>3. next \in Nat /\ next2 \in Nat /\ next <= next2
      <4>1. SendOK(c, send[p][c], sent[p][c]) /\ SendOK(c, channels[c], sent[p][c])
            /\ Advanced(c, channels[c], send[p][c])
        BY <1>1, <2>1 DEF SenderInv, SendInv, Tick
      <4> QED BY <2>1, <3>1, <3>2, <4>1 DEF SendOK, SendUnreliableOK, Advanced
    <3> HIDE DEF next, next2, lens, slices, q
    <3> DEFINE Fresh(id, k) == \E i \in DOMAIN packets :
                  packets[i] = k /\ k.type = "UnreliableSlice" /\ k.channel = c /\ k.id = id
    <3>4. ASSUME NEW id, NEW k \in SlicesOnTheWay(r, c, id)'
          PROVE  k \in SlicesOnTheWay(r, c, id) \/ Fresh(id, k)
      <4>1. k.type = "UnreliableSlice" /\ k.channel = c /\ k.id = id
        BY DEF SlicesOnTheWay
      <4>2. PICK m \in net' : m.to = r /\ m.packet = k
        BY DEF SlicesOnTheWay
      <4>3. CASE m \in net
        BY <4>1, <4>2, <4>3 DEF SlicesOnTheWay
      <4>4. CASE m \notin net
        <5>1. PICK x \in ToSet(packets) : m = [to |-> Other(p), packet |-> x]
          BY <1>1, <4>2, <4>4
        <5>2. x = k
          BY <4>2, <5>1
        <5> QED BY <4>1, <5>1, <5>2 DEF ToSet
      <4> QED BY <4>3, <4>4
    <3>5. ASSUME NEW id, NEW k, Fresh(id, k)
          PROVE  /\ id \in next .. (next2 - 1)
                 /\ \A l : Fresh(id, l) => l.data = k.data
      <4>1. FreshIds(packets, send[p], channels)
        BY <1>1 DEF Tick
      <4>2. PICK i \in DOMAIN packets :
              packets[i] = k /\ k.type = "UnreliableSlice" /\ k.channel = c /\ k.id = id
        BY <3>5
      <4>3. id \in send[p][c].sliced_id .. (channels[c].sliced_id - 1)
        BY <4>1, <4>2 DEF FreshIds
      <4>4. send[p][c].sliced_id = next /\ channels[c].sliced_id = next2
        BY <3>1, <3>2 DEF next, next2
      <4>5. ASSUME NEW l, Fresh(id, l) PROVE l.data = k.data
        <5>1. PICK j \in DOMAIN packets :
                packets[j] = l /\ l.type = "UnreliableSlice" /\ l.channel = c /\ l.id = id
          BY <4>5
        <5> QED BY <4>1, <4>2, <5>1 DEF FreshIds
      <4> QED BY <4>3, <4>4, <4>5
    <3> HIDE DEF Fresh
    <3>6. \A id \in DOMAIN slices : id \in Nat /\ id < next2
      BY <2>2, <3>3
    <3>7. ASSUME NEW id \in Nat, NEW k \in SlicesOnTheWay(r, c, id)'
          PROVE  /\ id < next2
                 /\ \A l \in SlicesOnTheWay(r, c, id)' : l.data = k.data
                 /\ id \in DOMAIN slices => ConstructorOK(slices[id], lens[k.data + 1])
      <4>1. CASE Fresh(id, k)
        <5>1. next <= id /\ id < next2 /\ ~(id < next)
          BY <3>3, <3>5, <4>1
        <5>2. id \notin DOMAIN slices /\ SlicesOnTheWay(r, c, id) = {}
          BY <2>2, <5>1
        <5>3. \A l \in SlicesOnTheWay(r, c, id)' : l.data = k.data
          BY <3>4, <3>5, <4>1, <5>2
        <5> QED BY <5>1, <5>2, <5>3
      <4>2. CASE k \in SlicesOnTheWay(r, c, id)
        <5>1. id < next
          BY <2>2, <4>2
        <5>2. id < next2 /\ id \notin next .. (next2 - 1)
          BY <3>3, <5>1
        <5>3. \A l : ~Fresh(id, l)
          BY <3>5, <5>2
        <5>4. \A l \in SlicesOnTheWay(r, c, id)' : l.data = k.data
          BY <2>2, <3>4, <4>2, <5>3
        <5> QED BY <2>2, <4>2, <5>2, <5>4
      <4> QED BY <3>4, <4>1, <4>2
    <3> QED BY <2>3, <3>6, <3>7 DEF next2, q
  <2> QED BY <2>4, <2>5
<1> QED BY <1>3, <1>4 DEF SliceIdsInv

LEMMA ProcessPacketReceive ==
    ASSUME SenderInv, ReceiveInv, SliceIdsInv, NEW m \in net, ProcessPacket(m.to, m.packet),
           net' \subseteq net
    PROVE  ReceiveInv' /\ SliceIdsInv'
<1> DEFINE p == m.to
           k == m.packet
<1>1. /\ p \in Peers /\ Open(p) /\ UNCHANGED <<packet_sequence, sent, delivered>> /\ SenderInv'
      /\ k.sequence \in Nat /\ k.sequence < packet_sequence[Other(p)]
  <2>1. SenderInv'
    BY ProcessPacketSender
  <2> QED BY <2>1 DEF SenderInv, NetInv, ProcessPacket
<1>2. \A q \in Peers, c \in ChannelIds : Grown(sent'[q][c], sent[q][c])
  BY <1>1, GrownReflexive
<1>3. CASE k.type = "Ack"
  <2>1. ProcessAck(p, k, AddPendingAck(pending_acks[p], k.sequence))
    BY <1>3 DEF ProcessPacket
  <2> HIDE DEF p, k
  <2>2. UNCHANGED <<recv, status>>
    BY <2>1 DEF ProcessAck
  <2>3. \A q \in Peers, c \in ChannelIds : ~Reliable(c) => send'[q][c] = send[q][c]
    BY <1>1, <2>1, ProcessAckSender
  <2>4. DOMAIN status' = Peers /\ \A q \in Peers : status'[q] = "open" => status[q] = "open"
    BY <2>2 DEF ReceiveInv
  <2>5. ReceiveInv'
    BY <1>1, <1>2, <2>2, <2>4, ReceiveKept DEF SenderInv
  <2>6. SliceIdsInv'
    BY <1>2, <2>2, <2>3, SliceIdsKept DEF UnreliableIds
  <2> QED BY <2>5, <2>6
<1>4. CASE k.type # "Ack"
  <2> DEFINE q == Other(p)
  <2>1. PICK c, new :
             /\ c \in ChannelIds
             /\ k \in PacketsOf(c, sent[q][c])
             /\ AfterReceive(p, c, new)
             /\ Arrives(k, c, new, recv[p][c], sent[q][c], delivered[p][c])
    BY <1>4, DataArrives
  <2> c \in ChannelIds
    BY <2>1
  <2>2. /\ recv' = [recv EXCEPT ![p][c] = new] /\ send' = send
        /\ status' = IF new.err = "none" THEN status ELSE [status EXCEPT ![p] = new.err]
    BY <2>1 DEF AfterReceive
  <2> HIDE DEF p, k
  <2>3. ReceiveOK(c, new, sent[q][c], delivered[p][c])
    BY <2>1 DEF Arrives
  <2>4. /\ DOMAIN status' = Peers
        /\ \A r \in Peers : status'[r] = "open" => status[r] = "open"
        /\ status'[p] = "open" => new.err = "none"
    <3>1. DOMAIN status = Peers /\ status[p] = "open"
      BY <1>1 DEF ReceiveInv, Open
    <3>2. new.err \in {"none", "ReliableChannelMaxMemoryReached"}
      BY <2>1 DEF Arrives
    <3> QED BY <1>1, <2>2, <3>1, <3>2
  <2>5. Changes(p, c, new, delivered[p][c])
    BY <1>1, <2>2 DEF Changes
  <2>6. /\ ReceiveInv'
        /\ recv'[p][c] = new
        /\ \A r \in Peers, d \in ChannelIds : ~(r = p /\ d = c) => recv'[r][d] = recv[r][d]
    BY <1>1, <2>3, <2>4, <2>5, ReceiveChanges
  <2>7. ASSUME NEW r \in Peers, NEW d \in UnreliableIds
        PROVE  LET next == send'[Other(r)][d].sliced_id
                   lens == sent'[Other(r)][d]
                   slices == recv'[r][d].slices
               IN  /\ \A id \in DOMAIN slices : id \in Nat /\ id < next
                   /\ \A id \in Nat : \A l \in SlicesOnTheWay(r, d, id)' :
                        /\ id < next
                        /\ \A o \in SlicesOnTheWay(r, d, id)' : o.data = l.data
                        /\ id \in DOMAIN slices => ConstructorOK(slices[id], lens[l.data + 1])
    <3> DEFINE slices == recv[r][d].slices
               lens == sent[Other(r)][d]
               next == send[Other(r)][d].sliced_id
    <3>1. /\ \A id \in DOMAIN slices : id \in Nat /\ id < next
          /\ \A id \in Nat : \A l \in SlicesOnTheWay(r, d, id) :
               /\ id < next
               /\ \A o \in SlicesOnTheWay(r, d, id) : o.data = l.data
               /\ id \in DOMAIN slices => ConstructorOK(slices[id], lens[l.data + 1])
      BY DEF SliceIdsInv
    <3>2. send'[Other(r)][d].sliced_id = next /\ sent'[Other(r)][d] = lens
      BY <1>1, <2>2
    <3>3. \A id : SlicesOnTheWay(r, d, id)' \subseteq SlicesOnTheWay(r, d, id)
      BY DEF SlicesOnTheWay
    <3>4. d \in ChannelIds /\ ~Reliable(d)
      BY DEF UnreliableIds
    <3>5. CASE r = p /\ d = c
      <4>1. \A x \in DOMAIN new.slices :
              IF k.type = "UnreliableSlice" /\ x = k.id
              THEN ConstructorOK(new.slices[x], lens[k.data + 1])
              ELSE x \in DOMAIN slices /\ new.slices[x] = slices[x]
        BY <2>1, <3>4, <3>5 DEF Arrives
      <4>2. recv'[r][d].slices = new.slices
        BY <2>6, <3>5
      <4>3. CASE k.type = "UnreliableSlice"
        <5>1. k.id \in Nat /\ k \in SlicesOnTheWay(r, d, k.id)
          <6>1. k \in UnreliablePackets(c, sent[q][c])
            BY <2>1, <3>4, <3>5 DEF PacketsOf
          <6>2. k.id \in Nat /\ k.channel = c
            BY <4>3, <6>1 DEF UnreliablePackets
          <6> QED BY <3>5, <4>3, <6>2 DEF SlicesOnTheWay, p, k
        <5>2. k.id < next /\ \A o \in SlicesOnTheWay(r, d, k.id) : o.data = k.data
          BY <3>1, <5>1
        <5> HIDE DEF next, lens, slices
        <5>3. \A id \in DOMAIN new.slices : id \in Nat /\ id < next
          BY <3>1, <4>1, <4>3, <5>1, <5>2
        <5>4. ASSUME NEW id \in Nat, NEW l \in SlicesOnTheWay(r, d, id)', id \in DOMAIN new.slices
              PROVE  ConstructorOK(new.slices[id], lens[l.data + 1])
          <6>1. l \in SlicesOnTheWay(r, d, id)
            BY <3>3
          <6>2. CASE id = k.id
            <7>1. l.data = k.data
              BY <5>2, <6>1, <6>2
            <7>2. ConstructorOK(new.slices[id], lens[k.data + 1])
              BY <4>1, <4>3, <5>4, <6>2
            <7> QED BY <7>1, <7>2
          <6>3. CASE id # k.id
            BY <3>1, <4>1, <5>4, <6>1, <6>3
          <6> QED BY <6>2, <6>3
        <5> QED BY <3>1, <3>2, <3>3, <4>2, <5>3, <5>4
      <4>4. CASE k.type # "UnreliableSlice"
        <5>1. \A x \in DOMAIN new.slices : x \in DOMAIN slices /\ new.slices[x] = slices[x]
          BY <4>1, <4>4
        <5> HIDE DEF next, lens, slices
        <5> QED BY <3>1, <3>2, <3>3, <4>2, <5>1
      <4> QED BY <4>3, <4>4
    <3>6. CASE ~(r = p /\ d = c)
      <4>1. recv'[r][d].slices = slices
        BY <2>6, <3>4, <3>6
      <4> HIDE DEF next, lens, slices
      <4> QED BY <3>1, <3>2, <3>3, <4>1
    <3> QED BY <3>5, <3>6
  <2> QED BY <2>6, <2>7 DEF SliceIdsInv
<1> QED BY <1>3, <1>4

LEMMA ReceiveNext ==
    SenderInv /\ ReceiveInv /\ SliceIdsInv /\ [Next]_vars => ReceiveInv' /\ SliceIdsInv'
<1> SUFFICES ASSUME SenderInv, ReceiveInv, SliceIdsInv, [Next]_vars
             PROVE  ReceiveInv' /\ SliceIdsInv'
  OBVIOUS
<1>1. SenderInv'
  BY SenderNext
<1>2. ASSUME NEW p \in Senders, NEW c \in ChannelIds, NEW len \in Lengths, SendMessage(p, c, len)
      PROVE  ReceiveInv' /\ SliceIdsInv'
  BY <1>2, RemoteConnectionAssumption, SendMessageReceive
<1>3. ASSUME NEW p \in Peers, NEW c \in ChannelIds, ReceiveMessage(p, c)
      PROVE  ReceiveInv' /\ SliceIdsInv'
  BY <1>3, ReceiveMessageReceive
<1>4. ASSUME NEW p \in Leavers, Disconnect(p) PROVE ReceiveInv' /\ SliceIdsInv'
  <2>1. /\ status' = [status EXCEPT ![p] = "Disconnected"]
        /\ UNCHANGED <<send, recv, net, sent, delivered>>
    BY <1>4 DEF Disconnect
  <2>2. DOMAIN status' = Peers /\ \A q \in Peers : status'[q] = "open" => status[q] = "open"
    BY <2>1 DEF ReceiveInv
  <2>3. \A q \in Peers, c \in ChannelIds : Grown(sent'[q][c], sent[q][c])
    BY <2>1, GrownReflexive
  <2>4. ReceiveInv'
    BY <1>1, <2>1, <2>2, <2>3, ReceiveKept DEF SenderInv
  <2>5. SliceIdsInv'
    BY <2>1, <2>3, SliceIdsKept
  <2> QED BY <2>4, <2>5
<1>5. ASSUME NEW p \in Peers, Update(p, 1) PROVE ReceiveInv' /\ SliceIdsInv'
  BY <1>5, UpdateReceive
<1>6. ASSUME NEW p \in Peers, GetPacketsToSend(p) PROVE ReceiveInv' /\ SliceIdsInv'
  BY <1>6, GetPacketsReceive
<1>7. ASSUME NEW m \in net, Deliver(m) \/ Duplicate(m) PROVE ReceiveInv' /\ SliceIdsInv'
  BY <1>7, ProcessPacketReceive DEF Deliver, Duplicate
<1>8. CASE UNCHANGED vars
  <2>1. UNCHANGED <<send, recv, status, net, sent, delivered>>
    BY <1>8 DEF vars, core
  <2>2. \A q \in Peers, c \in ChannelIds : Grown(sent'[q][c], sent[q][c])
    BY <2>1, GrownReflexive
  <2>3. DOMAIN status' = Peers /\ \A q \in Peers : status'[q] = "open" => status[q] = "open"
    BY <2>1 DEF ReceiveInv
  <2>4. ReceiveInv'
    BY <1>1, <2>1, <2>2, <2>3, ReceiveKept DEF SenderInv
  <2>5. SliceIdsInv'
    BY <2>1, <2>2, SliceIdsKept
  <2> QED BY <2>4, <2>5
<1> QED BY <1>2, <1>3, <1>4, <1>5, <1>6, <1>7, <1>8 DEF Next

LEMMA ReceiveAlways == Spec => [](SenderInv /\ ReceiveInv /\ SliceIdsInv)
<1>1. Init => SenderInv /\ ReceiveInv /\ SliceIdsInv
  BY SenderInit, ReceiveInit
<1>2. SenderInv /\ ReceiveInv /\ SliceIdsInv /\ [Next]_vars
        => (SenderInv /\ ReceiveInv /\ SliceIdsInv)'
  BY SenderNext, ReceiveNext
<1> QED BY <1>1, <1>2, PTL DEF Spec

(***************************************************************************)
(* A ReliableOrdered channel hands out a prefix of what the other end      *)
(* sent, in the order of sending: for every packing of messages into       *)
(* packets and slices, and every loss, repetition and reordering.          *)
(***************************************************************************)
THEOREM OrderedAlwaysPrefix == Spec => []OrderedIsPrefix
<1>1. ReceiveInv => OrderedIsPrefix
  <2> SUFFICES ASSUME ReceiveInv, NEW p \in Peers, NEW c \in ChannelIds, Reliable(c),
                      Channels[c].ordered
               PROVE  /\ \A k \in DOMAIN delivered[p][c] : delivered[p][c][k] = k - 1
                      /\ Len(delivered[p][c]) <= Len(sent[Other(p)][c])
    BY DEF OrderedIsPrefix
  <2>1. ReceiveOK(c, recv[p][c], sent[Other(p)][c], delivered[p][c])
    BY DEF ReceiveInv
  <2> QED BY <2>1 DEF ReceiveOK, ReceiveReliableOK, OrderedOK
<1> QED BY <1>1, ReceiveAlways, PTL

(***************************************************************************)
(* A ReliableUnordered channel hands out every message at most once, and   *)
(* only messages that were sent.                                           *)
(***************************************************************************)
THEOREM UnorderedAlwaysOnce == Spec => []UnorderedOnce
<1>1. SenderInv /\ ReceiveInv => UnorderedOnce
  <2> SUFFICES ASSUME SenderInv, ReceiveInv, NEW p \in Peers, NEW c \in ChannelIds, Reliable(c),
                      ~Channels[c].ordered
               PROVE  /\ IsInjective(delivered[p][c])
                      /\ ToSet(delivered[p][c]) \subseteq 0 .. (Len(sent[Other(p)][c]) - 1)
                      /\ ToSet(delivered[p][c]) \intersect DOMAIN recv[p][c].messages = {}
    BY DEF UnorderedOnce
  <2> DEFINE out == delivered[p][c]
             lens == sent[Other(p)][c]
             r == recv[p][c]
  <2>1. ReceiveOK(c, r, lens, out)
    BY DEF ReceiveInv
  <2>2. UnorderedOK(r, lens, out) /\ out \in Seq(Nat)
    BY <2>1 DEF ReceiveOK, ReceiveReliableOK
  <2>3. Len(lens) \in Nat /\ DOMAIN lens = 1 .. Len(lens)
    <3>1. lens \in LengthSeqs
      BY PeerFacts DEF SenderInv, ShapeInv
    <3> QED BY <3>1, LenProperties DEF LengthSeqs
  <2> HIDE DEF out, lens, r
  <2>4. \A k \in DOMAIN out : out[k] \in Nat
    BY <2>2, ElementOfSeq, LenProperties
  <2>5. \A k \in DOMAIN out : out[k] \in 0 .. (Len(lens) - 1) /\ out[k] \notin DOMAIN r.messages
    BY <2>2, <2>3, <2>4 DEF UnorderedOK
  <2>6. /\ IsInjective(out) /\ ToSet(out) \subseteq 0 .. (Len(lens) - 1)
        /\ ToSet(out) \intersect DOMAIN r.messages = {}
    BY <2>2, <2>5 DEF UnorderedOK, ToSet
  <2> QED BY <2>6 DEF out, lens, r
<1> QED BY <1>1, ReceiveAlways, PTL

(***************************************************************************)
(* A slice constructor of an ordered channel belongs to a message that is  *)
(* still to be assembled: process_slice collects nothing twice.            *)
(***************************************************************************)
THEOREM NoConstructorEverOfAssembled == Spec => []NoConstructorOfAssembled
<1>1. ReceiveInv => NoConstructorOfAssembled
  <2> SUFFICES ASSUME ReceiveInv, NEW p \in Peers, NEW c \in ChannelIds, Reliable(c),
                      Channels[c].ordered, NEW id \in DOMAIN recv[p][c].slices
               PROVE  ~Arrived(Other(p), c, id)
    BY DEF NoConstructorOfAssembled
  <2> DEFINE out == delivered[p][c]
             r == recv[p][c]
  <2>1. Arrived(Other(p), c, id) <=> Has(r, out, id)
    BY PeerFacts DEF Arrived, Has
  <2>2. ReceiveReliableOK(r, Channels[c], sent[Other(p)][c], out)
    BY DEF ReceiveInv, ReceiveOK
  <2>3. id \in Nat /\ r.oldest <= id /\ id \notin DOMAIN r.messages /\ r.oldest \in Nat
    BY <2>2 DEF ReceiveReliableOK, OrderedOK
  <2> HIDE DEF out, r
  <2>4. ~Known(r, id, Channels[c])
    BY <2>3 DEF Known
  <2> QED BY <2>1, <2>2, <2>3, <2>4, HadIsKnown
<1> QED BY <1>1, ReceiveAlways, PTL

(***************************************************************************)
(* Messages that wait for the application have the lengths that they were  *)
(* sent with, those put together from slices too.                          *)
(***************************************************************************)
THEOREM MessagesAlwaysIntact == Spec => []MessagesIntact
<1>1. ReceiveInv => MessagesIntact
  <2> SUFFICES ASSUME ReceiveInv, NEW p \in Peers, NEW c \in ChannelIds
               PROVE  LET waiting == recv[p][c].messages
                          theirs == sent[Other(p)][c]
                      IN  IF Reliable(c)
                          THEN \A id \in DOMAIN waiting : waiting[id] = theirs[id + 1]
                          ELSE \A m \in ToSet(waiting) : m.len = theirs[m.data + 1]
    BY DEF MessagesIntact
  <2> DEFINE theirs == sent[Other(p)][c]
             r == recv[p][c]
             waiting == r.messages
  <2>1. ReceiveOK(c, r, theirs, delivered[p][c])
    BY DEF ReceiveInv
  <2>2. CASE Reliable(c)
    BY <2>1, <2>2 DEF ReceiveOK, ReceiveReliableOK
  <2>3. CASE ~Reliable(c)
    <3>1. waiting \in Seq(QueueMessages(theirs))
      BY <2>1, <2>3 DEF ReceiveOK, ReceiveUnreliableOK
    <3> HIDE DEF waiting, theirs
    <3>2. \A i \in DOMAIN waiting : waiting[i] \in QueueMessages(theirs)
      BY <3>1, ElementOfSeq, LenProperties
    <3>3. \A m \in ToSet(waiting) : m.len = theirs[m.data + 1]
      BY <3>2 DEF ToSet, QueueMessages
    <3> QED BY <2>3, <3>3 DEF waiting, theirs
  <2> QED BY <2>2, <2>3
<1> QED BY <1>1, ReceiveAlways, PTL

(***************************************************************************)
(* Every constructor of an unreliable channel has a time of last receipt   *)
(* and every time a constructor, so discard_incomplete_old_slices does not *)
(* panic and forgets nothing.                                              *)
(***************************************************************************)
THEOREM SlicesAlwaysTimed == Spec => []SlicesAreTimed
<1>1. ReceiveInv => SlicesAreTimed
  BY DEF ReceiveInv, ReceiveOK, ReceiveUnreliableOK, SlicesAreTimed, UnreliableIds
<1> QED BY <1>1, ReceiveAlways, PTL

-----------------------------------------------------------------------------
(***************************************************************************)
(* Nothing that is at an end ever leaves it: a step of a pair of           *)
(* connections conserves the messages and the slices of reliable channels. *)
(***************************************************************************)
Conserved(new, more, r, out) ==
    /\ \A id \in Nat : Has(r, out, id) => Has(new, more, id)
    /\ \A id \in Nat : \A i : HasPart(r, out, id, i) => HasPart(new, more, id, i)

Conserves ==
    \A q \in Peers, d \in ChannelIds :
        Reliable(d) => Conserved(recv'[q][d], delivered'[q][d], recv[q][d], delivered[q][d])

LEMMA ConservedSame ==
    ASSUME NEW r, NEW out PROVE Conserved(r, out, r, out)
BY DEF Conserved

LEMMA ConservedLost ==
    ASSUME NEW new, NEW r, NEW out, NothingLost(new, r, out) PROVE Conserved(new, out, r, out)
BY DEF Conserved, NothingLost, HasPart

LEMMA ConservesProcess ==
    ASSUME SenderInv, ReceiveInv, SliceIdsInv, NEW m \in net, ProcessPacket(m.to, m.packet)
    PROVE  Conserves
<1> DEFINE p == m.to
           k == m.packet
<1>1. p \in Peers /\ delivered' = delivered
  BY DEF SenderInv, NetInv, ProcessPacket
<1>2. CASE k.type = "Ack"
  <2>1. recv' = recv
    BY <1>2 DEF ProcessPacket, ProcessAck
  <2> QED BY <1>1, <2>1, ConservedSame DEF Conserves
<1>3. CASE k.type # "Ack"
  <2>1. PICK c, new :
             /\ c \in ChannelIds
             /\ AfterReceive(p, c, new)
             /\ Arrives(k, c, new, recv[p][c], sent[Other(p)][c], delivered[p][c])
    BY <1>3, DataArrives
  <2> c \in ChannelIds
    BY <2>1
  <2>2. recv' = [recv EXCEPT ![p][c] = new]
    BY <2>1 DEF AfterReceive
  <2> HIDE DEF p, k
  <2>3. DOMAIN recv = Peers /\ DOMAIN recv[p] = ChannelIds
    BY <1>1 DEF ReceiveInv
  <2> SUFFICES ASSUME NEW q \in Peers, NEW d \in ChannelIds, Reliable(d)
               PROVE  Conserved(recv'[q][d], delivered'[q][d], recv[q][d], delivered[q][d])
    BY DEF Conserves
  <2>4. CASE q = p /\ d = c
    <3>1. recv'[q][d] = new
      BY <1>1, <2>2, <2>3, <2>4
    <3>2. NothingLost(new, recv[q][d], delivered[q][d])
      BY <2>1, <2>4 DEF Arrives
    <3> QED BY <1>1, <3>1, <3>2, ConservedLost
  <2>5. CASE ~(q = p /\ d = c)
    <3>1. recv'[q][d] = recv[q][d]
      BY <1>1, <2>2, <2>3, <2>5
    <3> QED BY <1>1, <3>1, ConservedSame
  <2> QED BY <2>4, <2>5
<1> QED BY <1>2, <1>3

LEMMA ConservesNext ==
    ASSUME SenderInv, ReceiveInv, SliceIdsInv, [Next]_vars PROVE Conserves
<1>1. CASE UNCHANGED <<recv, delivered>>
  BY <1>1, ConservedSame DEF Conserves
<1>2. ASSUME NEW p \in Peers, NEW c \in ChannelIds, ReceiveMessage(p, c) PROVE Conserves
  <2>1. \A q \in Peers, d \in ChannelIds :
          /\ recv'[q][d].slices = recv[q][d].slices
          /\ Reliable(d) => \A x \in Nat :
               Has(recv'[q][d], delivered'[q][d], x) <=> Has(recv[q][d], delivered[q][d], x)
    BY <1>2, ReceiveMessageReceive
  <2> QED BY <2>1 DEF Conserves, Conserved, HasPart
<1>3. ASSUME NEW p \in Peers, Update(p, 1) PROVE Conserves
  <2>1. \A q \in Peers, c \in ChannelIds : Reliable(c) => recv'[q][c] = recv[q][c]
    BY <1>3, UpdateReceive
  <2>2. delivered' = delivered
    BY <1>3 DEF Update
  <2> QED BY <2>1, <2>2, ConservedSame DEF Conserves
<1>4. ASSUME NEW m \in net, Deliver(m) \/ Duplicate(m) PROVE Conserves
  BY <1>4, ConservesProcess DEF Deliver, Duplicate
<1> QED BY <1>1, <1>2, <1>3, <1>4
        DEF Next, SendMessage, Disconnect, GetPacketsToSend, Transmit, vars, core

(* What was stored stays stored. *)
LEMMA StoredStays ==
    ASSUME Conserves, NEW q \in Peers, NEW lens, NEW info \in Infos(lens),
           StoredInfo(info, recv[q], delivered[q])
    PROVE  StoredInfo(info, recv'[q], delivered'[q])
<1>1. CASE info.type = "ReliableMessages"
  <2>1. info.channel \in ChannelIds /\ Reliable(info.channel) /\ info.ids \subseteq Nat
    BY <1>1 DEF Infos
  <2>2. Conserved(recv'[q][info.channel], delivered'[q][info.channel],
                  recv[q][info.channel], delivered[q][info.channel])
    BY <2>1 DEF Conserves
  <2> QED BY <1>1, <2>1, <2>2 DEF StoredInfo, Conserved
<1>2. CASE info.type = "ReliableSliceMessage"
  <2>1. info.channel \in ChannelIds /\ Reliable(info.channel) /\ info.id \in Nat
    BY <1>2 DEF Infos
  <2>2. Conserved(recv'[q][info.channel], delivered'[q][info.channel],
                  recv[q][info.channel], delivered[q][info.channel])
    BY <2>1 DEF Conserves
  <2> QED BY <1>2, <2>1, <2>2 DEF StoredInfo, Conserved
<1> QED BY <1>1, <1>2 DEF StoredInfo

(* A half of a sender that ticked off no more than what was there still has not. *)
LEMMA TickedStays ==
    ASSUME Conserves, NEW q \in Peers, NEW c \in ChannelIds, Reliable(c), NEW ch, NEW lens,
           Ticked(ch, lens, ArrivedIds(recv[q], delivered[q])[c],
                  StoredParts(recv[q], delivered[q])[c])
    PROVE  Ticked(ch, lens, ArrivedIds(recv'[q], delivered'[q])[c],
                  StoredParts(recv'[q], delivered'[q])[c])
<1> DEFINE a == ArrivedIds(recv[q], delivered[q])[c]
           b == ArrivedIds(recv'[q], delivered'[q])[c]
           s == StoredParts(recv[q], delivered[q])[c]
           t == StoredParts(recv'[q], delivered'[q])[c]
<1>1. Conserved(recv'[q][c], delivered'[q][c], recv[q][c], delivered[q][c])
  BY DEF Conserves
<1>2. a \subseteq b
  BY <1>1 DEF ArrivedIds, Conserved
<1>3. s \subseteq t
  <2>1. /\ s = {x \in Nat \X Nat : HasPart(recv[q][c], delivered[q][c], x[1], x[2])}
        /\ t = {x \in Nat \X Nat : HasPart(recv'[q][c], delivered'[q][c], x[1], x[2])}
    BY DEF StoredParts
  <2> QED BY <1>1, <2>1 DEF Conserved
<1> HIDE DEF a, b, s, t
<1>4. Ticked(ch, lens, a, s)
  BY DEF a, s
<1>5. Ticked(ch, lens, b, t)
  BY <1>2, <1>3, <1>4 DEF Ticked
<1> QED BY <1>5 DEF b, t

(* The sending halves after a step, against what was at the other end before it *)
TickedHalves ==
    \A p \in Peers, c \in ChannelIds :
        Reliable(c) => TickedAt(Other(p), c, send'[p][c], sent'[p][c])

LEMMA TickedStep ==
    ASSUME Conserves, TickedHalves PROVE TickedInv'
<1> SUFFICES ASSUME NEW p \in Peers, NEW c \in ChannelIds, Reliable(c)
             PROVE  TickedAt(Other(p), c, send[p][c], sent[p][c])'
  BY DEF TickedInv
<1>1. Other(p) \in Peers
  BY PeerFacts
<1> DEFINE q == Other(p)
           ch == send'[p][c]
           lens == sent'[p][c]
<1>2. Ticked(ch, lens, ArrivedIds(recv[q], delivered[q])[c], StoredParts(recv[q], delivered[q])[c])
  BY DEF TickedHalves, TickedAt
<1> HIDE DEF q, ch, lens
<1>3. q \in Peers
  BY <1>1 DEF q
<1>4. Ticked(ch, lens, ArrivedIds(recv'[q], delivered'[q])[c],
             StoredParts(recv'[q], delivered'[q])[c])
  BY <1>2, <1>3, TickedStays
<1> QED BY <1>4 DEF TickedAt, q, ch, lens

LEMMA SameTicked ==
    ASSUME NEW ch, NEW old, NEW lens, NEW a, NEW s, Ticked(old, lens, a, s), SameUnacked(ch, old)
    PROVE  Ticked(ch, lens, a, s)
<1>1. SendReliableOK(ch, lens)
  BY SameStaysOK DEF Ticked
<1>2. ch.next_id = old.next_id /\ DOMAIN ch.unacked = DOMAIN old.unacked
  BY DEF SameUnacked
<1>3. \A id \in DOMAIN ch.unacked : ch.unacked[id].acked = old.unacked[id].acked
  BY DEF SameUnacked
<1> QED BY <1>1, <1>2, <1>3 DEF Ticked

LEMMA SendReliableTicked ==
    ASSUME NEW ch, NEW lens \in LengthSeqs, NEW a, NEW s, Ticked(ch, lens, a, s),
           NEW len \in Nat
    PROVE  Ticked(SendReliable(ch, len), Append(lens, len), a, s)
<1> DEFINE new == SendReliable(ch, len)
           id0 == ch.next_id
<1>1. SendReliableOK(new, Append(lens, len))
  BY SendReliableKeeps DEF Ticked
<1>2. id0 \in Nat
  BY LenProperties DEF Ticked, SendReliableOK, LengthSeqs
<1>3. /\ new.next_id = id0 + 1
      /\ DOMAIN new.unacked = DOMAIN ch.unacked \union {id0}
      /\ \A id \in DOMAIN ch.unacked : id # id0 => new.unacked[id] = ch.unacked[id]
      /\ new.unacked[id0].acked = {}
  BY DEF SendReliable, With, UnackedMessage
<1> HIDE DEF new
<1>4. ASSUME NEW id \in Nat, id < new.next_id, id \notin DOMAIN new.unacked PROVE id \in a
  <2>1. id # id0 /\ id \notin DOMAIN ch.unacked
    BY <1>3, <1>4
  <2>2. id < id0
    <3> HIDE DEF id0
    <3> QED BY <1>2, <1>3, <1>4, <2>1
  <2> QED BY <2>1, <2>2 DEF Ticked
<1>5. ASSUME NEW id \in DOMAIN new.unacked, NEW i \in new.unacked[id].acked
      PROVE  id \in a \/ <<id, i>> \in s
  <2>1. id # id0 /\ id \in DOMAIN ch.unacked /\ i \in ch.unacked[id].acked
    BY <1>3, <1>5
  <2> QED BY <2>1 DEF Ticked
<1>6. Ticked(new, Append(lens, len), a, s)
  BY <1>1, <1>4, <1>5 DEF Ticked
<1> QED BY <1>6 DEF new

LEMMA SendMessageTicked ==
    ASSUME SenderInv, TickedInv, NEW p \in Peers, NEW c \in ChannelIds, NEW len \in Lengths,
           SendMessage(p, c, len)
    PROVE  TickedHalves
<1>1. len \in Nat
  BY RemoteConnectionAssumption
<1>2. /\ DOMAIN send = Peers /\ DOMAIN sent = Peers
      /\ \A q \in Peers : DOMAIN send[q] = ChannelIds /\ DOMAIN sent[q] = ChannelIds
      /\ sent[p][c] \in LengthSeqs
  BY DEF SenderInv, ShapeInv
<1> SUFFICES ASSUME NEW q \in Peers, NEW d \in ChannelIds, Reliable(d)
             PROVE  TickedAt(Other(q), d, send'[q][d], sent'[q][d])
  BY DEF TickedHalves
<1>3. TickedAt(Other(q), d, send[q][d], sent[q][d])
  BY DEF TickedInv
<1>4. CASE q = p /\ d = c /\ CanSendMessage(send[p][c], len, Channels[c].max)
  <2>1. /\ send'[q][d] = SendReliable(send[q][d], len)
        /\ sent'[q][d] = Append(sent[q][d], len)
    BY <1>2, <1>4 DEF SendMessage, SendReliableMessage
  <2>2. TickedAt(Other(q), d, SendReliable(send[q][d], len), Append(sent[q][d], len))
    BY <1>1, <1>2, <1>3, <1>4, SendReliableTicked DEF TickedAt
  <2> QED BY <2>1, <2>2
<1>5. CASE ~(q = p /\ d = c /\ CanSendMessage(send[p][c], len, Channels[c].max))
  <2>1. send'[q][d] = send[q][d] /\ sent'[q][d] = sent[q][d]
    <3>1. CASE q = p /\ d = c
      BY <1>5, <3>1 DEF SendMessage, SendReliableMessage
    <3>2. CASE ~(q = p /\ d = c)
      BY <1>2, <3>2 DEF SendMessage, SendReliableMessage, SendUnreliableMessage
    <3> QED BY <3>1, <3>2
  <2> QED BY <1>3, <2>1
<1> QED BY <1>4, <1>5

LEMMA UpdateTicked ==
    ASSUME SenderInv, TickedInv, NEW p \in Peers, Update(p, 1)
    PROVE  TickedHalves
<1>1. /\ send' = [send EXCEPT ![p] = [c \in ChannelIds |->
                    IF Reliable(c) THEN AgeUnacked(send[p][c], 1) ELSE send[p][c]]]
      /\ sent' = sent /\ DOMAIN send = Peers
  BY DEF Update, SenderInv, ShapeInv
<1> SUFFICES ASSUME NEW q \in Peers, NEW d \in ChannelIds, Reliable(d)
             PROVE  TickedAt(Other(q), d, send'[q][d], sent'[q][d])
  BY DEF TickedHalves
<1>2. TickedAt(Other(q), d, send[q][d], sent[q][d])
  BY DEF TickedInv
<1>3. CASE q = p
  <2>1. send'[q][d] = AgeUnacked(send[q][d], 1)
    BY <1>1, <1>3
  <2>2. SendReliableOK(send[q][d], sent[q][d])
    BY <1>2 DEF TickedAt, Ticked
  <2>3. SameUnacked(AgeUnacked(send[q][d], 1), send[q][d])
    BY <2>2, AgeUnackedKeeps
  <2>4. TickedAt(Other(q), d, AgeUnacked(send[q][d], 1), sent[q][d])
    BY <1>2, <2>3, SameTicked DEF TickedAt
  <2> QED BY <1>1, <2>1, <2>4
<1>4. CASE q # p
  BY <1>1, <1>2, <1>4
<1> QED BY <1>3, <1>4

LEMMA GetPacketsTicked ==
    ASSUME SenderInv, TickedInv, NEW p \in Peers, GetPacketsToSend(p)
    PROVE  TickedHalves
<1>1. PICK packets, channels :
        Tick(p, packets, channels) /\ send' = [send EXCEPT ![p] = channels] /\ sent' = sent
  BY GetPacketsFacts
<1>2. DOMAIN send = Peers
  BY DEF SenderInv, ShapeInv
<1> SUFFICES ASSUME NEW q \in Peers, NEW d \in ChannelIds, Reliable(d)
             PROVE  TickedAt(Other(q), d, send'[q][d], sent'[q][d])
  BY DEF TickedHalves
<1>3. TickedAt(Other(q), d, send[q][d], sent[q][d])
  BY DEF TickedInv
<1>4. CASE q = p
  <2>1. send'[q][d] = channels[d] /\ SameUnacked(channels[d], send[q][d])
    BY <1>1, <1>2, <1>4 DEF Tick, Advanced
  <2>2. TickedAt(Other(q), d, channels[d], sent[q][d])
    BY <1>3, <2>1, SameTicked DEF TickedAt
  <2> QED BY <1>1, <2>1, <2>2
<1>5. CASE q # p
  BY <1>1, <1>2, <1>3, <1>5
<1> QED BY <1>4, <1>5

(* A constructor is never left full: all slices of a message make it a message. *)
LEMMA WholeArrives ==
    ASSUME SenderInv, ReceiveInv, NEW p \in Peers
    PROVE  WholeIsArrived(sent[p], ArrivedIds(recv[Other(p)], delivered[Other(p)]),
                          StoredParts(recv[Other(p)], delivered[Other(p)]))
<1> DEFINE q == Other(p)
           arrived == ArrivedIds(recv[q], delivered[q])
           stored == StoredParts(recv[q], delivered[q])
<1>1. q \in Peers /\ Other(q) = p
  BY PeerFacts
<1> SUFFICES ASSUME NEW c \in ChannelIds, NEW id \in Nat, Reliable(c), id + 1 \in DOMAIN sent[p][c],
                    IsSliced(sent[p][c][id + 1]),
                    \A j \in 0 .. (NumSlices(sent[p][c][id + 1]) - 1) : <<id, j>> \in stored[c]
             PROVE  id \in arrived[c]
  BY DEF WholeIsArrived
<1> DEFINE r == recv[q][c]
           out == delivered[q][c]
           len == sent[p][c][id + 1]
           n == NumSlices(len)
<1>2. /\ stored[c] = {x \in Nat \X Nat : HasPart(r, out, x[1], x[2])}
      /\ arrived[c] = {x \in Nat : Has(r, out, x)}
  BY DEF StoredParts, ArrivedIds
<1>3. \A j \in 0 .. (n - 1) : HasPart(r, out, id, j)
  BY <1>2
<1>4. n \in Nat /\ 0 \in 0 .. (n - 1)
  <2>1. sent[p][c] \in LengthSeqs
    BY DEF SenderInv, ShapeInv
  <2>2. len \in Nat /\ IsSliced(len)
    BY <2>1, ElementOfSeq, LenProperties DEF LengthSeqs
  <2> HIDE DEF len
  <2>3. n \in Nat /\ 1 <= n
    BY <2>2, SliceCount
  <2> QED BY <2>3
<1>5. ReceiveReliableOK(r, Channels[c], sent[p][c], out)
  BY <1>1 DEF ReceiveInv, ReceiveOK
<1> HIDE DEF r, out, n
<1>6. CASE Has(r, out, id)
  BY <1>2, <1>6
<1>7. CASE ~Has(r, out, id)
  <2>1. id \in DOMAIN r.slices
    BY <1>3, <1>4, <1>7 DEF HasPart
  <2>2. ConstructorOK(r.slices[id], len)
    BY <1>5, <2>1 DEF ReceiveReliableOK
  <2>3. r.slices[id].got \subseteq 0 .. (n - 1) /\ r.slices[id].got # 0 .. (n - 1)
    BY <2>2 DEF ConstructorOK, n
  <2>4. \A j \in 0 .. (n - 1) : j \in r.slices[id].got
    BY <1>3, <1>7 DEF HasPart
  <2> QED BY <2>3, <2>4
<1> QED BY <1>6, <1>7

LEMMA StoredIsAmong ==
    ASSUME NEW lens, NEW info \in Infos(lens), NEW r, NEW out, StoredInfo(info, r, out)
    PROVE  InfoAmong(info, ArrivedIds(r, out), StoredParts(r, out))
<1> DEFINE arrived == ArrivedIds(r, out)
           stored == StoredParts(r, out)
<1>1. CASE info.type = "ReliableMessages"
  <2>1. info.channel \in ChannelIds /\ info.ids \subseteq Nat
    BY <1>1 DEF Infos
  <2>2. arrived[info.channel] = {x \in Nat : Has(r[info.channel], out[info.channel], x)}
    BY <2>1 DEF ArrivedIds
  <2> QED BY <1>1, <2>1, <2>2 DEF InfoAmong, StoredInfo
<1>2. CASE info.type = "ReliableSliceMessage"
  <2>1. info.channel \in ChannelIds /\ info.id \in Nat /\ info.index \in Nat
    BY <1>2 DEF Infos
  <2>2. stored[info.channel] =
          {x \in Nat \X Nat : HasPart(r[info.channel], out[info.channel], x[1], x[2])}
    BY <2>1 DEF StoredParts
  <2>3. <<info.id, info.index>> \in stored[info.channel]
    BY <1>2, <2>1, <2>2 DEF StoredInfo
  <2> QED BY <1>2, <2>3 DEF InfoAmong
<1> QED BY <1>1, <1>2 DEF InfoAmong

(* An Ack packet ticks off only what is there, and records no more than its own sequence. *)
LEMMA ProcessAckTicked ==
    ASSUME SenderInv, ReceiveInv, TickedInv, AckInv, NEW m \in net,
           ProcessPacket(m.to, m.packet), m.packet.type = "Ack"
    PROVE  /\ TickedHalves
           /\ DOMAIN pending_acks' = Peers
           /\ \A q \in Peers : q # m.to => pending_acks'[q] = pending_acks[q]
           /\ Covered(pending_acks'[m.to])
                \subseteq Covered(pending_acks[m.to]) \union {m.packet.sequence}
           /\ \A q \in Peers :
                /\ DOMAIN sent_packets'[q] \subseteq DOMAIN sent_packets[q]
                /\ \A s \in DOMAIN sent_packets'[q] : sent_packets'[q][s] = sent_packets[q][s]
<1> DEFINE p == m.to
           k == m.packet
           acks == AddPendingAck(pending_acks[p], k.sequence)
           after == AckLoop(p, k.wire, acks)
           q0 == Other(p)
           arrived == ArrivedIds(recv[q0], delivered[q0])
           stored == StoredParts(recv[q0], delivered[q0])
<1>1. /\ p \in Peers /\ k.sequence \in Nat /\ k.sequence < packet_sequence[Other(p)]
      /\ DOMAIN send = Peers /\ DOMAIN pending_acks = Peers /\ DOMAIN sent_packets = Peers
  BY DEF SenderInv, NetInv, ShapeInv
<1>2. /\ send' = [send EXCEPT ![p] = after.send]
      /\ pending_acks' = [pending_acks EXCEPT ![p] = after.pending_acks]
      /\ sent_packets' = [sent_packets EXCEPT ![p] =
            [s \in DOMAIN sent_packets[p] \ NewAcks(p, k.wire) |-> sent_packets[p][s]]]
      /\ sent' = sent
  BY DEF ProcessPacket, ProcessAck, AckLoop
<1>3. ASSUME NEW s \in NewAcks(p, k.wire)
      PROVE  InfoAmong(sent_packets[p][s].info, arrived, stored)
  <2> DEFINE info == sent_packets[p][s].info
  <2>1. s \in DOMAIN sent_packets[p] /\ s \in Covered(DecodeAck(k.wire))
    BY DEF NewAcks
  <2>2. info \in Infos(sent[p])
    BY <1>1, <2>1 DEF SenderInv, RememberedInv, Remembered
  <2>3. StoredInfo(info, recv[q0], delivered[q0])
    BY <1>1, <2>1 DEF AckInv, StoredAt
  <2> HIDE DEF info, q0
  <2>4. InfoAmong(info, arrived, stored)
    BY <2>2, <2>3, StoredIsAmong
  <2> QED BY <2>4 DEF info
<1>4. WholeIsArrived(sent[p], arrived, stored)
  BY <1>1, WholeArrives
<1>5. ASSUME NEW c \in ChannelIds, Reliable(c)
      PROVE  Ticked(send[p][c], sent[p][c], arrived[c], stored[c])
  BY <1>1, <1>5 DEF TickedInv, TickedAt
<1>6. Acking(after, send[p], sent[p], arrived, stored, Covered(acks))
  <2> HIDE DEF p, k, arrived, stored
  <2> QED BY <1>1, <1>3, <1>4, <1>5, AckLoopOfPacket
<1>7. Covered(acks) \subseteq Covered(pending_acks[p]) \union {k.sequence}
  BY <1>1, PendingAckAdded
<1> HIDE DEF after, acks
<1>8. TickedHalves
  <2> SUFFICES ASSUME NEW q \in Peers, NEW c \in ChannelIds, Reliable(c)
               PROVE  TickedAt(Other(q), c, send'[q][c], sent'[q][c])
    BY DEF TickedHalves
  <2>1. CASE q = p
    <3>1. Ticked(after.send[c], sent[p][c], arrived[c], stored[c])
      BY <1>6 DEF Acking
    <3>2. send'[q][c] = after.send[c] /\ sent'[q][c] = sent[p][c]
      BY <1>1, <1>2, <2>1
    <3>3. TickedAt(Other(q), c, after.send[c], sent[p][c])
      BY <2>1, <3>1 DEF TickedAt
    <3> QED BY <3>2, <3>3
  <2>2. CASE q # p
    BY <1>1, <1>2, <2>2 DEF TickedInv
  <2> QED BY <2>1, <2>2
<1>9. Covered(pending_acks'[p]) \subseteq Covered(acks)
  BY <1>1, <1>2, <1>6 DEF Acking
<1>10. ASSUME NEW q \in Peers
       PROVE  /\ DOMAIN sent_packets'[q] \subseteq DOMAIN sent_packets[q]
              /\ \A s \in DOMAIN sent_packets'[q] : sent_packets'[q][s] = sent_packets[q][s]
  <2>1. CASE q = p
    BY <1>1, <1>2, <2>1
  <2>2. CASE q # p
    BY <1>1, <1>2, <2>2
  <2> QED BY <2>1, <2>2
<1> QED BY <1>1, <1>2, <1>7, <1>8, <1>9, <1>10

-----------------------------------------------------------------------------
(* What is remembered of sent packets, against the packets on the way *)

(* A step that remembers no packet anew *)
Forgets ==
    \A q \in Peers :
        /\ DOMAIN sent_packets'[q] \subseteq DOMAIN sent_packets[q]
        /\ \A s \in DOMAIN sent_packets'[q] : sent_packets'[q][s].info = sent_packets[q][s].info

LEMMA UpdateForgets ==
    ASSUME SenderInv, NEW p \in Peers, Update(p, 1) PROVE Forgets
<1>1. sent_packets' = [sent_packets EXCEPT ![p] = AgeSentPackets(sent_packets[p], 1)]
      /\ DOMAIN sent_packets = Peers
  BY DEF Update, SenderInv, ShapeInv
<1> DEFINE packets == sent_packets[p]
           aged == [s \in DOMAIN packets |-> [packets[s] EXCEPT !.age = Older(@, 1)]]
           left == DOMAIN aged \ LostPackets(aged)
<1>2. sent_packets'[p] = [s \in left |-> aged[s]]
  BY <1>1 DEF AgeSentPackets
<1>3. \A s \in DOMAIN packets : DOMAIN packets[s] = {"age", "info"}
  BY DEF SenderInv, RememberedInv, Remembered
<1>4. \A s \in DOMAIN packets : aged[s].info = packets[s].info
  BY <1>3
<1>5. left \subseteq DOMAIN packets
  OBVIOUS
<1> HIDE DEF aged, left
<1>6. \A q \in Peers : q # p => sent_packets'[q] = sent_packets[q]
  BY <1>1
<1> QED BY <1>2, <1>4, <1>5, <1>6 DEF Forgets

LEMMA MatchKept ==
    ASSUME SenderInv, MatchInv, Forgets, net' \subseteq net PROVE MatchInv'
<1> SUFFICES ASSUME NEW m \in net',
                    m.packet.sequence \in DOMAIN sent_packets'[Other(m.to)]
             PROVE  IF m.packet.type = "Ack"
                    THEN sent_packets'[Other(m.to)][m.packet.sequence].info.type = "Ack"
                    ELSE sent_packets'[Other(m.to)][m.packet.sequence].info = InfoOf(m.packet)
  BY DEF MatchInv
<1>1. m \in net /\ Other(m.to) \in Peers
  BY PeerFacts DEF SenderInv, NetInv
<1> DEFINE q == Other(m.to)
           s == m.packet.sequence
<1>2. s \in DOMAIN sent_packets[q] /\ sent_packets'[q][s].info = sent_packets[q][s].info
  BY <1>1 DEF Forgets
<1>3. IF m.packet.type = "Ack" THEN sent_packets[q][s].info.type = "Ack"
      ELSE sent_packets[q][s].info = InfoOf(m.packet)
  BY <1>1, <1>2 DEF MatchInv
<1> HIDE DEF q, s
<1>4. IF m.packet.type = "Ack" THEN sent_packets'[q][s].info.type = "Ack"
      ELSE sent_packets'[q][s].info = InfoOf(m.packet)
  BY <1>2, <1>3
<1> QED BY <1>4 DEF q, s

LEMMA GetPacketsMatch ==
    ASSUME SenderInv, MatchInv, NEW p \in Peers, GetPacketsToSend(p) PROVE MatchInv'
<1>1. PICK packets, channels :
        /\ Tick(p, packets, channels)
        /\ \A q \in Peers : q # p => sent_packets'[q] = sent_packets[q]
        /\ DOMAIN sent_packets'[p] = DOMAIN sent_packets[p] \union
             (packet_sequence[p] .. (packet_sequence[p] + Len(packets) - 1))
        /\ \A s \in DOMAIN sent_packets[p] : sent_packets'[p][s] = sent_packets[p][s]
        /\ \A i \in DOMAIN packets :
             sent_packets'[p][packet_sequence[p] + i - 1] =
                 [age |-> 0, info |-> SentInfo(packets[i], pending_acks[p])]
        /\ net' = net \union {[to |-> Other(p), packet |-> k] : k \in ToSet(packets)}
  BY GetPacketsFacts
<1>2. packet_sequence[p] \in Nat
  BY DEF SenderInv, ShapeInv
<1> SUFFICES ASSUME NEW m \in net',
                    m.packet.sequence \in DOMAIN sent_packets'[Other(m.to)]
             PROVE  IF m.packet.type = "Ack"
                    THEN sent_packets'[Other(m.to)][m.packet.sequence].info.type = "Ack"
                    ELSE sent_packets'[Other(m.to)][m.packet.sequence].info = InfoOf(m.packet)
  BY DEF MatchInv
<1> DEFINE q == Other(m.to)
           s == m.packet.sequence
<1>3. CASE m \in net
  <2>1. q \in Peers /\ s \in Nat /\ s < packet_sequence[q]
    BY <1>3, PeerFacts DEF SenderInv, NetInv
  <2>2. s \in DOMAIN sent_packets[q] /\ sent_packets'[q][s] = sent_packets[q][s]
    <3>1. CASE q = p
      <4>1. s \notin packet_sequence[p] .. (packet_sequence[p] + Len(packets) - 1)
        <5> HIDE DEF s
        <5> QED BY <1>2, <2>1, <3>1
      <4> QED BY <1>1, <3>1, <4>1
    <3>2. CASE q # p
      BY <1>1, <2>1, <3>2
    <3> QED BY <3>1, <3>2
  <2>3. IF m.packet.type = "Ack" THEN sent_packets[q][s].info.type = "Ack"
        ELSE sent_packets[q][s].info = InfoOf(m.packet)
    BY <1>3, <2>2 DEF MatchInv
  <2> QED BY <2>2, <2>3
<1>4. CASE m \notin net
  <2>1. PICK i \in DOMAIN packets : m = [to |-> Other(p), packet |-> packets[i]]
    BY <1>1, <1>4 DEF ToSet
  <2>2. q = p /\ m.packet = packets[i] /\ s = packet_sequence[p] + i - 1
    BY <1>1, <2>1, PeerFacts DEF Tick
  <2>3. sent_packets'[q][s].info = SentInfo(packets[i], pending_acks[p])
    <3> DEFINE info == SentInfo(packets[i], pending_acks[p])
    <3>1. sent_packets'[p][packet_sequence[p] + i - 1] = [age |-> 0, info |-> info]
      BY <1>1
    <3> HIDE DEF q, s, info
    <3>2. sent_packets'[q][s] = [age |-> 0, info |-> info]
      BY <2>2, <3>1
    <3> QED BY <3>2 DEF info
  <2>4. packets[i] \in DataPackets(sent[p]) \/ IsAckOf(packets[i], p)
    BY <1>1 DEF Tick
  <2>5. CASE packets[i] \in DataPackets(sent[p])
    <3>1. packets[i].type # "Ack"
      BY <2>5, DataPacketTypes
    <3>2. SentInfo(packets[i], pending_acks[p]) = InfoOf(packets[i])
      BY <2>5, InfoOfPacket
    <3> QED BY <2>2, <2>3, <3>1, <3>2
  <2>6. CASE IsAckOf(packets[i], p)
    <3>1. packets[i].type = "Ack"
      BY <2>6 DEF IsAckOf
    <3>2. SentInfo(packets[i], pending_acks[p]).type = "Ack"
      BY <3>1 DEF SentInfo
    <3> QED BY <2>2, <2>3, <3>1, <3>2
  <2> QED BY <2>4, <2>5, <2>6
<1> QED BY <1>3, <1>4

(* What a packet of data carries, by its info, is stored when there was no error. *)
LEMMA ArrivedIsStored ==
    ASSUME NEW c \in ChannelIds, NEW lens, NEW k \in PacketsOf(c, lens), NEW new, NEW r, NEW out,
           Arrives(k, c, new, r, lens, out), new.err = "none",
           NEW halves, NEW outs, halves[c] = new, outs[c] = out
    PROVE  StoredInfo(InfoOf(k), halves, outs)
<1>1. k \in ReliablePackets(c, lens) \/ k \in UnreliablePackets(c, lens)
  BY DEF PacketsOf
<1>2. /\ k.channel = c
      /\ k.type \in {"SmallReliable", "ReliableSlice", "SmallUnreliable", "UnreliableSlice"}
  BY <1>1 DEF ReliablePackets, UnreliablePackets
<1>3. CASE k.type = "SmallReliable"
  <2>1. InfoOf(k) = [type |-> "ReliableMessages", channel |-> c,
                     ids |-> {m.id : m \in ToSet(k.messages)}]
    BY <1>2, <1>3 DEF InfoOf, SentInfo
  <2>2. \A m \in ToSet(k.messages) : Has(new, out, m.id)
    BY <1>3 DEF Arrives
  <2> QED BY <2>1, <2>2 DEF StoredInfo
<1>4. CASE k.type = "ReliableSlice"
  <2>1. InfoOf(k) = [type |-> "ReliableSliceMessage", channel |-> c, id |-> k.id, index |-> k.index]
    BY <1>2, <1>4 DEF InfoOf, SentInfo
  <2>2. HasPart(new, out, k.id, k.index)
    BY <1>4 DEF Arrives, HasPart
  <2> QED BY <2>1, <2>2 DEF StoredInfo
<1>5. CASE k.type \in {"SmallUnreliable", "UnreliableSlice"}
  <2>1. InfoOf(k) = [type |-> "None"]
    BY <1>5 DEF InfoOf, SentInfo
  <2> QED BY <2>1 DEF StoredInfo
<1> QED BY <1>2, <1>3, <1>4, <1>5

-----------------------------------------------------------------------------
(* Acknowledgements, against what is stored *)

(* A sequence becomes pending only with what its packet carried stored. *)
RecordsStored ==
    \A p \in Peers : \A s \in DOMAIN sent_packets'[p] :
        status'[Other(p)] = "open" /\ s \in Covered(pending_acks'[Other(p)]) =>
            \/ status[Other(p)] = "open" /\ s \in Covered(pending_acks[Other(p)])
            \/ StoredInfo(sent_packets'[p][s].info, recv'[Other(p)], delivered'[Other(p)])

LEMMA AckKept ==
    ASSUME SenderInv, AckInv, Conserves, Forgets, net' \subseteq net, RecordsStored
    PROVE  AckInv'
<1>1. ASSUME NEW p \in Peers, NEW s \in DOMAIN sent_packets'[p],
             StoredAt(Other(p), sent_packets[p][s].info)
      PROVE  StoredInfo(sent_packets'[p][s].info, recv'[Other(p)], delivered'[Other(p)])
  <2> DEFINE info == sent_packets[p][s].info
             q == Other(p)
  <2>1. s \in DOMAIN sent_packets[p] /\ sent_packets'[p][s].info = info
    BY DEF Forgets
  <2>2. info \in Infos(sent[p])
    BY <2>1 DEF SenderInv, RememberedInv, Remembered
  <2>3. q \in Peers /\ StoredInfo(info, recv[q], delivered[q])
    BY <1>1, PeerFacts DEF StoredAt
  <2> HIDE DEF info, q
  <2>4. StoredInfo(info, recv'[q], delivered'[q])
    BY <2>2, <2>3, StoredStays
  <2> QED BY <2>1, <2>4 DEF q
<1>2. ASSUME NEW p \in Peers, NEW s \in DOMAIN sent_packets'[p],
             status'[Other(p)] = "open", s \in Covered(pending_acks'[Other(p)])
      PROVE  StoredInfo(sent_packets'[p][s].info, recv'[Other(p)], delivered'[Other(p)])
  <2>1. CASE status[Other(p)] = "open" /\ s \in Covered(pending_acks[Other(p)])
    <3>1. s \in DOMAIN sent_packets[p]
      BY DEF Forgets
    <3>2. StoredAt(Other(p), sent_packets[p][s].info)
      BY <2>1, <3>1 DEF AckInv, Open
    <3> QED BY <1>1, <3>2
  <2> QED BY <1>2, <2>1 DEF RecordsStored
<1>3. ASSUME NEW p \in Peers, NEW s \in DOMAIN sent_packets'[p], NEW m \in net',
             m.to = p, m.packet.type = "Ack", s \in Covered(DecodeAck(m.packet.wire))
      PROVE  StoredInfo(sent_packets'[p][s].info, recv'[Other(p)], delivered'[Other(p)])
  <2>1. s \in DOMAIN sent_packets[p] /\ m \in net
    BY DEF Forgets
  <2>2. StoredAt(Other(p), sent_packets[p][s].info)
    BY <1>3, <2>1 DEF AckInv
  <2> QED BY <1>1, <2>2
<1> QED BY <1>2, <1>3 DEF AckInv, Open, StoredAt

(* Sequences are given out once: no acknowledgement knows a packet of this tick. *)
LEMMA GetPacketsAck ==
    ASSUME SenderInv, AckInv, NEW p0 \in Peers, GetPacketsToSend(p0)
    PROVE  AckInv'
<1>1. PICK packets, channels :
        /\ Tick(p0, packets, channels)
        /\ \A q \in Peers : q # p0 => sent_packets'[q] = sent_packets[q]
        /\ DOMAIN sent_packets'[p0] = DOMAIN sent_packets[p0] \union
             (packet_sequence[p0] .. (packet_sequence[p0] + Len(packets) - 1))
        /\ \A s \in DOMAIN sent_packets[p0] : sent_packets'[p0][s] = sent_packets[p0][s]
        /\ net' = net \union {[to |-> Other(p0), packet |-> k] : k \in ToSet(packets)}
        /\ UNCHANGED <<pending_acks, recv, status, duplicated, sent, delivered>>
  BY GetPacketsFacts
<1>2. Open(p0)
  BY DEF GetPacketsToSend
<1>3. ASSUME NEW p \in Peers, NEW s \in DOMAIN sent_packets'[p], s < packet_sequence[p]
      PROVE  s \in DOMAIN sent_packets[p] /\ sent_packets'[p][s] = sent_packets[p][s]
  <2>1. packet_sequence[p] \in Nat
    BY DEF SenderInv, ShapeInv
  <2>2. CASE p = p0
    <3>1. s \notin packet_sequence[p] .. (packet_sequence[p] + Len(packets) - 1)
      BY <1>3, <2>1
    <3> QED BY <1>1, <2>2, <3>1
  <2>3. CASE p # p0
    BY <1>1, <2>3
  <2> QED BY <2>2, <2>3
<1>4. ASSUME NEW p \in Peers, NEW s \in DOMAIN sent_packets'[p],
             Open(Other(p)), s \in Covered(pending_acks[Other(p)])
      PROVE  StoredAt(Other(p), sent_packets'[p][s].info)
  <2>1. s < packet_sequence[p]
    <3>1. Other(p) \in Peers /\ Other(Other(p)) = p
      BY PeerFacts
    <3>2. s < packet_sequence[Other(Other(p))]
      BY <1>4, <3>1 DEF SenderInv, AckVectorsInv
    <3> QED BY <3>1, <3>2
  <2>2. s \in DOMAIN sent_packets[p] /\ sent_packets'[p][s] = sent_packets[p][s]
    BY <1>3, <2>1
  <2> QED BY <1>4, <2>2 DEF AckInv
<1>5. ASSUME NEW p \in Peers, NEW s \in DOMAIN sent_packets'[p], NEW m \in net',
             m.to = p, m.packet.type = "Ack", s \in Covered(DecodeAck(m.packet.wire))
      PROVE  StoredAt(Other(p), sent_packets'[p][s].info)
  <2>1. CASE m \in net
    <3>1. AckOnTheWay(m.packet, packet_sequence[p])
      <4>1. \/ m.packet \in DataPackets(sent[Other(m.to)])
            \/ AckOnTheWay(m.packet, packet_sequence[m.to])
        BY <2>1 DEF SenderInv, NetInv
      <4>2. m.packet \notin DataPackets(sent[Other(m.to)])
        BY <1>5, DataPacketTypes
      <4> QED BY <1>5, <4>1, <4>2
    <3>2. s < packet_sequence[p]
      BY <1>5, <3>1 DEF AckOnTheWay
    <3>3. s \in DOMAIN sent_packets[p] /\ sent_packets'[p][s] = sent_packets[p][s]
      BY <1>3, <3>2
    <3> QED BY <1>5, <2>1, <3>3 DEF AckInv
  <2>2. CASE m \notin net
    <3>1. PICK i \in DOMAIN packets : m = [to |-> Other(p0), packet |-> packets[i]]
      BY <1>1, <2>2 DEF ToSet
    <3>2. m.packet = packets[i] /\ p = Other(p0) /\ Other(p) = p0
      BY <1>5, <3>1, PeerFacts
    <3>3. IsAckOf(m.packet, p0)
      <4>1. packets[i] \in DataPackets(sent[p0]) \/ IsAckOf(packets[i], p0)
        BY <1>1 DEF Tick
      <4> QED BY <1>5, <3>2, <4>1, DataPacketTypes
    <3>4. DecodeAck(m.packet.wire) = pending_acks[p0]
      BY <3>3, AckInfo
    <3> QED BY <1>2, <1>4, <1>5, <3>2, <3>4
  <2> QED BY <2>1, <2>2
<1>6. ASSUME NEW p \in Peers, NEW s \in DOMAIN sent_packets'[p]
      PROVE  StoredAt(Other(p), sent_packets[p][s].info)' <=>
                 StoredAt(Other(p), sent_packets'[p][s].info)
  BY <1>1 DEF StoredAt
<1> QED BY <1>1, <1>4, <1>5, <1>6 DEF AckInv, Open

LEMMA ProcessRecordsStored ==
    ASSUME SenderInv, ReceiveInv, SliceIdsInv, TickedInv, MatchInv, AckInv,
           NEW m \in net, ProcessPacket(m.to, m.packet)
    PROVE  RecordsStored /\ Forgets
<1> DEFINE p == m.to
           k == m.packet
           q == Other(p)
<1>1. /\ p \in Peers /\ q \in Peers /\ Other(q) = p
      /\ k.sequence \in Nat /\ k.sequence < packet_sequence[q] /\ DOMAIN pending_acks = Peers
      /\ Open(p) /\ delivered' = delivered
      /\ \A o \in Peers : o # q => Other(o) # p
  BY PeerFacts DEF SenderInv, NetInv, ShapeInv, ProcessPacket
<1>2. CASE k.type = "Ack"
  <2>1. /\ \A o \in Peers : o # p => pending_acks'[o] = pending_acks[o]
        /\ Covered(pending_acks'[p]) \subseteq Covered(pending_acks[p]) \union {k.sequence}
        /\ Forgets
    BY <1>2, ProcessAckTicked DEF Forgets
  <2>2. status' = status
    BY <1>2 DEF ProcessPacket, ProcessAck
  <2> SUFFICES ASSUME NEW o \in Peers, NEW s \in DOMAIN sent_packets'[o],
                      status'[Other(o)] = "open", s \in Covered(pending_acks'[Other(o)]),
                      s \notin Covered(pending_acks[Other(o)])
               PROVE  StoredInfo(sent_packets'[o][s].info, recv'[Other(o)], delivered'[Other(o)])
    BY <2>1, <2>2 DEF RecordsStored
  <2>3. Other(o) \in Peers
    BY PeerFacts
  <2>4. o = q /\ s = k.sequence
    BY <1>1, <2>1, <2>3
  <2>5. s \in DOMAIN sent_packets[o] /\ sent_packets'[o][s].info = sent_packets[o][s].info
    BY <2>1 DEF Forgets
  <2>6. sent_packets[o][s].info.type = "Ack"
    BY <1>2, <2>4, <2>5 DEF MatchInv
  <2> QED BY <2>5, <2>6 DEF StoredInfo
<1>3. CASE k.type # "Ack"
  <2>1. PICK c, new :
             /\ c \in ChannelIds
             /\ k \in PacketsOf(c, sent[q][c])
             /\ AfterReceive(p, c, new)
             /\ Arrives(k, c, new, recv[p][c], sent[q][c], delivered[p][c])
    BY <1>3, DataArrives
  <2> c \in ChannelIds
    BY <2>1
  <2>2. /\ recv' = [recv EXCEPT ![p][c] = new] /\ sent_packets' = sent_packets
        /\ status' = IF new.err = "none" THEN status ELSE [status EXCEPT ![p] = new.err]
    BY <2>1 DEF AfterReceive
  <2>3. pending_acks' = [pending_acks EXCEPT ![p] = AddPendingAck(pending_acks[p], k.sequence)]
    BY <1>3 DEF ProcessPacket
  <2>4. Covered(AddPendingAck(pending_acks[p], k.sequence))
          \subseteq Covered(pending_acks[p]) \union {k.sequence}
    BY <1>1, PendingAckAdded
  <2>5. /\ DOMAIN status = Peers /\ DOMAIN recv = Peers /\ DOMAIN recv[p] = ChannelIds
        /\ new.err \in {"none", "ReliableChannelMaxMemoryReached"}
    BY <1>1, <2>1 DEF ReceiveInv, Arrives
  <2>6. Forgets
    BY <2>2 DEF Forgets
  <2>7. \A o \in Peers : status'[o] = "open" => status[o] = "open"
    BY <1>1, <2>2, <2>5
  <2>8. status'[p] = "open" => new.err = "none"
    BY <1>1, <2>2, <2>5
  <2>9. \A o \in Peers : o # p => pending_acks'[o] = pending_acks[o]
    BY <1>1, <2>3
  <2>10. Covered(pending_acks'[p]) \subseteq Covered(pending_acks[p]) \union {k.sequence}
    BY <1>1, <2>3, <2>4
  <2> SUFFICES ASSUME NEW o \in Peers, NEW s \in DOMAIN sent_packets'[o],
                      status'[Other(o)] = "open", s \in Covered(pending_acks'[Other(o)]),
                      s \notin Covered(pending_acks[Other(o)])
               PROVE  StoredInfo(sent_packets'[o][s].info, recv'[Other(o)], delivered'[Other(o)])
    <3>1. \A o \in Peers : Other(o) \in Peers
      BY PeerFacts
    <3> QED BY <2>6, <2>7, <3>1 DEF RecordsStored
  <2>11. Other(o) \in Peers
    BY PeerFacts
  <2>12. o = q /\ s = k.sequence
    BY <1>1, <2>9, <2>10, <2>11
  <2>13. sent_packets'[o][s].info = InfoOf(k)
    BY <1>3, <2>2, <2>12 DEF MatchInv
  <2>14. recv'[p][c] = new /\ delivered'[p][c] = delivered[p][c]
    BY <1>1, <2>2, <2>5
  <2>15. new.err = "none"
    BY <1>1, <2>8, <2>12
  <2> HIDE DEF p, k, q
  <2>16. StoredInfo(InfoOf(k), recv'[p], delivered'[p])
    BY <2>1, <2>14, <2>15, ArrivedIsStored
  <2> QED BY <1>1, <2>12, <2>13, <2>16
<1> QED BY <1>2, <1>3

StoredInv == TickedInv /\ MatchInv /\ AckInv

LEMMA StoredInit == Init => StoredInv
<1> SUFFICES ASSUME Init PROVE StoredInv
  OBVIOUS
<1>1. net = {} /\ \A p \in Peers : DOMAIN sent_packets[p] = {}
  BY DEF Init
<1>2. MatchInv /\ AckInv
  BY <1>1 DEF MatchInv, AckInv
<1>3. ASSUME NEW p \in Peers, NEW c \in ChannelIds, Reliable(c)
      PROVE  TickedAt(Other(p), c, send[p][c], sent[p][c])
  <2>1. SendReliableOK(send[p][c], sent[p][c])
    BY <1>3, SenderInit DEF SenderInv, SendInv, SendOK
  <2>2. send[p][c].next_id = 0 /\ DOMAIN send[p][c].unacked = {}
    BY <1>3 DEF Init, NewSendReliable
  <2> QED BY <2>1, <2>2 DEF TickedAt, Ticked
<1> QED BY <1>2, <1>3 DEF TickedInv, StoredInv

(* A step of the application or of time that remembers no packet and records none *)
LEMMA StoredQuiet ==
    ASSUME SenderInv, StoredInv, Conserves, TickedHalves, Forgets, net' \subseteq net,
           pending_acks' = pending_acks,
           \A q \in Peers : status'[q] = "open" => status[q] = "open"
    PROVE  StoredInv'
<1>1. \A q \in Peers : Other(q) \in Peers
  BY PeerFacts
<1>2. RecordsStored
  BY <1>1 DEF RecordsStored
<1> QED BY <1>2, TickedStep, MatchKept, AckKept DEF StoredInv

LEMMA StoredNext ==
    SenderInv /\ ReceiveInv /\ SliceIdsInv /\ StoredInv /\ [Next]_vars => StoredInv'
<1> SUFFICES ASSUME SenderInv, ReceiveInv, SliceIdsInv, StoredInv, [Next]_vars
             PROVE  StoredInv'
  OBVIOUS
<1>1. Conserves
  BY ConservesNext
<1>2. UNCHANGED <<send, sent>> => TickedHalves
  BY DEF TickedHalves, StoredInv, TickedInv
<1>3. UNCHANGED sent_packets => Forgets
  BY DEF Forgets
<1>4. ASSUME NEW p \in Senders, NEW c \in ChannelIds, NEW len \in Lengths, SendMessage(p, c, len)
      PROVE  StoredInv'
  <2>1. p \in Peers
    BY RemoteConnectionAssumption
  <2>2. TickedHalves
    BY <1>4, <2>1, SendMessageTicked DEF StoredInv
  <2>3. UNCHANGED <<sent_packets, pending_acks, net>>
    BY <1>4 DEF SendMessage
  <2>4. \A q \in Peers : status'[q] = "open" => status[q] = "open"
    BY <1>4, <2>1 DEF SendMessage, SendReliableMessage, SendUnreliableMessage, ReceiveInv
  <2> QED BY <1>1, <1>3, <2>2, <2>3, <2>4, StoredQuiet
<1>5. ASSUME NEW p \in Peers, NEW c \in ChannelIds, ReceiveMessage(p, c) PROVE StoredInv'
  <2>1. UNCHANGED <<sent_packets, pending_acks, send, status, net, sent>>
    BY <1>5 DEF ReceiveMessage
  <2> QED BY <1>1, <1>2, <1>3, <2>1, StoredQuiet
<1>6. ASSUME NEW p \in Leavers, Disconnect(p) PROVE StoredInv'
  <2>1. /\ UNCHANGED <<sent_packets, pending_acks, send, net, sent>>
        /\ \A q \in Peers : status'[q] = "open" => status[q] = "open"
    BY <1>6 DEF Disconnect, ReceiveInv
  <2> QED BY <1>1, <1>2, <1>3, <2>1, StoredQuiet
<1>7. ASSUME NEW p \in Peers, Update(p, 1) PROVE StoredInv'
  <2>1. UNCHANGED <<pending_acks, status, net>>
    BY <1>7 DEF Update
  <2>2. Forgets /\ TickedHalves
    BY <1>7, UpdateForgets, UpdateTicked DEF StoredInv
  <2> QED BY <1>1, <2>1, <2>2, StoredQuiet
<1>8. ASSUME NEW p \in Peers, GetPacketsToSend(p) PROVE StoredInv'
  BY <1>1, <1>8, GetPacketsTicked, TickedStep, GetPacketsMatch, GetPacketsAck DEF StoredInv
<1>9. ASSUME NEW m \in net, Deliver(m) \/ Duplicate(m) PROVE StoredInv'
  <2>1. ProcessPacket(m.to, m.packet) /\ net' \subseteq net
    BY <1>9 DEF Deliver, Duplicate
  <2>2. RecordsStored /\ Forgets
    BY <2>1, ProcessRecordsStored DEF StoredInv
  <2>3. TickedHalves
    <3>1. CASE m.packet.type = "Ack"
      BY <2>1, <3>1, ProcessAckTicked DEF StoredInv
    <3>2. CASE m.packet.type # "Ack"
      <4>1. UNCHANGED <<send, sent>>
        BY <2>1, <3>2 DEF ProcessPacket, ProcessSmallReliable, ProcessReliableSlice,
                          ProcessSmallUnreliable, ProcessUnreliableSlicePacket, AfterReceive
      <4> QED BY <1>2, <4>1
    <3> QED BY <3>1, <3>2
  <2> QED BY <1>1, <2>1, <2>2, <2>3, TickedStep, MatchKept, AckKept DEF StoredInv
<1>10. CASE UNCHANGED vars
  <2>1. UNCHANGED <<sent_packets, pending_acks, send, status, net, sent>>
    BY <1>10 DEF vars, core
  <2> QED BY <1>1, <1>2, <1>3, <2>1, StoredQuiet
<1> QED BY <1>4, <1>5, <1>6, <1>7, <1>8, <1>9, <1>10 DEF Next

LEMMA StoredAlways == Spec => [](SenderInv /\ ReceiveInv /\ SliceIdsInv /\ StoredInv)
<1>1. SenderInv /\ ReceiveInv /\ SliceIdsInv /\ StoredInv /\ [Next]_vars
        => (SenderInv /\ ReceiveInv /\ SliceIdsInv /\ StoredInv)'
  BY SenderNext, ReceiveNext, StoredNext
<1>2. Init => SenderInv /\ ReceiveInv /\ SliceIdsInv /\ StoredInv
  BY SenderInit, ReceiveInit, StoredInit
<1> QED BY <1>1, <1>2, PTL DEF Spec

(***************************************************************************)
(* A sender drops a message, or ticks off a slice, only when it is at the  *)
(* other end.  The receiver records a sequence before it handles the       *)
(* packet, and closes when a channel fails; ranges of sequences are        *)
(* merged, shortened and sent again; and still no Ack packet, however late *)
(* or repeated, speaks for a packet that was not stored.                   *)
(***************************************************************************)
THEOREM AckedAlwaysStored == Spec => []AckedIsStored
<1>1. SenderInv /\ StoredInv => AckedIsStored
  <2> SUFFICES ASSUME SenderInv, StoredInv, NEW p \in Peers, NEW c \in ChannelIds, Reliable(c)
               PROVE  /\ \A id \in 0 .. (send[p][c].next_id - 1) :
                           id \notin DOMAIN send[p][c].unacked => Arrived(p, c, id)
                      /\ \A id \in DOMAIN send[p][c].unacked :
                           \A i \in send[p][c].unacked[id].acked :
                             \/ Arrived(p, c, id)
                             \/ /\ id \in DOMAIN recv[Other(p)][c].slices
                                /\ i \in recv[Other(p)][c].slices[id].got
    BY DEF AckedIsStored
  <2> DEFINE q == Other(p)
             ch == send[p][c]
             arrived == {x \in Nat : Has(recv[q][c], delivered[q][c], x)}
             stored == {x \in Nat \X Nat : HasPart(recv[q][c], delivered[q][c], x[1], x[2])}
  <2>1. Ticked(ch, sent[p][c], arrived, stored)
    BY DEF StoredInv, TickedInv, TickedAt, ArrivedIds, StoredParts
  <2>2. \A id : Arrived(p, c, id) <=> Has(recv[q][c], delivered[q][c], id)
    BY DEF Arrived, Has
  <2>3. ASSUME NEW id \in 0 .. (ch.next_id - 1), id \notin DOMAIN ch.unacked
        PROVE  Arrived(p, c, id)
    <3>1. ch.next_id \in Nat
      <4>1. sent[p][c] \in LengthSeqs
        BY DEF SenderInv, ShapeInv
      <4> QED BY <2>1, <4>1, LenProperties DEF Ticked, SendReliableOK, LengthSeqs
    <3>2. id \in Nat /\ id < ch.next_id
      <4> HIDE DEF ch
      <4> QED BY <3>1
    <3>3. id \in arrived
      BY <2>1, <2>3, <3>2 DEF Ticked
    <3> QED BY <2>2, <3>3
  <2>4. ASSUME NEW id \in DOMAIN ch.unacked, NEW i \in ch.unacked[id].acked
        PROVE  HasPart(recv[q][c], delivered[q][c], id, i)
    <3>1. id \in arrived \/ <<id, i>> \in stored
      BY <2>1 DEF Ticked
    <3> QED BY <3>1 DEF HasPart
  <2> QED BY <2>2, <2>3, <2>4 DEF HasPart
<1> QED BY <1>1, StoredAlways, PTL

-----------------------------------------------------------------------------
(***************************************************************************)
(* The memory of the halves.  A counter is changed by a delta, and never   *)
(* computed anew: each step is shown to change it by what the messages and *)
(* the reservations that come or go are worth.                             *)
(***************************************************************************)
SendExact(c, ch) ==
    IF Reliable(c) THEN UnackedExact(ch, Channels[c].max) ELSE QueueExact(ch, Channels[c].max)

MemoryInv ==
    \A p \in Peers, c \in ChannelIds : SendExact(c, send[p][c]) /\ ReceiveExact(c, recv[p][c])

(* What a step does to the counters of the sending and of the receiving halves *)
SendsExactly ==
    \A p \in Peers, c \in ChannelIds : SendExact(c, send[p][c]) => SendExact(c, send'[p][c])

ReceivesExactly ==
    \A p \in Peers, c \in ChannelIds : ReceiveExact(c, recv[p][c]) => ReceiveExact(c, recv'[p][c])

LEMMA MemoryInit == Init => MemoryInv
<1> SUFFICES ASSUME Init, NEW p \in Peers, NEW c \in ChannelIds
             PROVE  SendExact(c, send[p][c]) /\ ReceiveExact(c, recv[p][c])
  BY DEF MemoryInv
<1>1. UnackedLens(<< >>) = << >> /\ Reserves(<< >>) = << >>
  BY DEF UnackedLens, Reserves
<1>2. Weighs(<< >>) /\ SumFunction(<< >>) = 0 /\ TotalLength(<< >>) = 0
  BY SumEmpty, TotalEmpty
<1>3. Channels[c].max \in Nat /\ 0 <= Channels[c].max
  BY ChannelFacts
<1>4. CASE Reliable(c)
  <2>1. /\ send[p][c].unacked = << >> /\ send[p][c].memory = 0
        /\ recv[p][c].messages = << >> /\ recv[p][c].slices = << >> /\ recv[p][c].memory = 0
    BY <1>4 DEF Init, NewSendReliable, NewReceiveReliable
  <2> QED BY <1>1, <1>2, <1>3, <1>4, <2>1 DEF SendExact, ReceiveExact, UnackedExact, ReceivedExact
<1>5. CASE ~Reliable(c)
  <2>1. /\ send[p][c].queue = << >> /\ send[p][c].memory = 0
        /\ recv[p][c].messages = << >> /\ recv[p][c].slices = << >> /\ recv[p][c].memory = 0
    BY <1>5 DEF Init, NewSendUnreliable, NewReceiveUnreliable
  <2> QED BY <1>1, <1>2, <1>3, <1>5, <2>1 DEF SendExact, ReceiveExact, QueueExact, WaitingExact
<1> QED BY <1>4, <1>5

(* send_message takes a message only when it fits. *)
LEMMA SendReliableExact ==
    ASSUME NEW ch, NEW lens \in LengthSeqs, SendReliableOK(ch, lens), NEW len \in Nat,
           NEW max \in Nat, CanSendMessage(ch, len, max), UnackedExact(ch, max)
    PROVE  UnackedExact(SendReliable(ch, len), max)
<1> DEFINE new == SendReliable(ch, len)
           w == UnackedLens(ch.unacked)
           id == ch.next_id
           more == With(w, id, len)
<1>1. DOMAIN w = DOMAIN ch.unacked /\ \A x \in DOMAIN w : w[x] = ch.unacked[x].len
  BY DEF UnackedLens
<1>2. id \notin DOMAIN w
  <2>1. Len(lens) \in Nat /\ DOMAIN lens = 1 .. Len(lens)
    BY LenProperties DEF LengthSeqs
  <2> QED BY <1>1, <2>1 DEF SendReliableOK
<1>3. new.memory = ch.memory + len /\ UnackedLens(new.unacked) = more
  <2>1. new.memory = ch.memory + len /\ new.unacked = With(ch.unacked, id, UnackedMessage(len))
    BY DEF SendReliable
  <2>2. UnackedLens(With(ch.unacked, id, UnackedMessage(len))) = more
    BY DEF UnackedLens, With, UnackedMessage
  <2> QED BY <2>1, <2>2
<1>4. Weighs(w) /\ ch.memory = SumFunction(w) /\ ch.memory + len <= max
  BY DEF UnackedExact, CanSendMessage
<1> HIDE DEF new, w, id
<1>5. Weighs(more) /\ SumFunction(more) = SumFunction(w) + len
  BY <1>2, <1>4, SumWith
<1> HIDE DEF more
<1>6. UnackedExact(new, max)
  BY <1>3, <1>4, <1>5 DEF UnackedExact
<1> QED BY <1>6 DEF new

LEMMA SendUnreliableExact ==
    ASSUME NEW ch, NEW lens \in LengthSeqs, SendUnreliableOK(ch, lens), NEW len \in Nat,
           NEW max \in Nat, NEW data, QueueExact(ch, max)
    PROVE  QueueExact(SendUnreliable(ch, data, len, max), max)
<1> DEFINE m == [data |-> data, len |-> len]
           new == [ch EXCEPT !.queue = Append(@, m), !.memory = @ + len]
           queue == ch.queue
           M == QueueMessages(lens) \union {m}
<1>1. SendUnreliable(ch, data, len, max) = IF ch.memory + len > max THEN ch ELSE new
  BY DEF SendUnreliable
<1>2. (\A x \in M : x.len \in Nat) /\ m \in M /\ m.len = len /\ queue \in Seq(M)
  <2>1. queue \in Seq(QueueMessages(lens))
    BY DEF SendUnreliableOK
  <2>2. QueueMessages(lens) \subseteq M
    OBVIOUS
  <2>3. queue \in Seq(M)
    BY <2>1, <2>2, SeqMonotonic
  <2> QED BY <2>3 DEF QueueMessages
<1>3. new.queue = Append(queue, m) /\ new.memory = ch.memory + len
  BY DEF SendUnreliableOK
<1>4. ch.memory = TotalLength(queue)
  BY DEF QueueExact
<1> HIDE DEF new, queue, m, M
<1>5. TotalLength(Append(queue, m)) = TotalLength(queue) + len /\ TotalLength(queue) \in Nat
  BY <1>2, TotalAppend
<1>6. ~(ch.memory + len > max) => QueueExact(new, max)
  BY <1>3, <1>4, <1>5 DEF QueueExact
<1> QED BY <1>1, <1>6

LEMMA SameUnackedExact ==
    ASSUME NEW ch, NEW old, SameUnacked(ch, old)
    PROVE  KeepsUnacked(ch, old)
<1>1. UnackedLens(ch.unacked) = UnackedLens(old.unacked) /\ ch.memory = old.memory
  BY DEF SameUnacked, UnackedLens
<1> QED BY <1>1 DEF KeepsUnacked, UnackedExact

LEMMA SendMessageExact ==
    ASSUME SenderInv, NEW p \in Peers, NEW c \in ChannelIds, NEW len \in Lengths,
           SendMessage(p, c, len)
    PROVE  SendsExactly
<1> SUFFICES ASSUME NEW q \in Peers, NEW d \in ChannelIds, SendExact(d, send[q][d])
             PROVE  SendExact(d, send'[q][d])
  BY DEF SendsExactly
<1>1. /\ len \in Nat /\ DOMAIN send = Peers /\ Channels[d].max \in Nat
      /\ DOMAIN send[q] = ChannelIds /\ sent[q][d] \in LengthSeqs
      /\ SendOK(d, send[q][d], sent[q][d])
  BY RemoteConnectionAssumption, ChannelFacts DEF SenderInv, ShapeInv, SendInv
<1>2. CASE q = p /\ d = c /\ Reliable(c)
  <2>1. \/ /\ CanSendMessage(send[q][d], len, Channels[d].max)
           /\ send'[q][d] = SendReliable(send[q][d], len)
        \/ send' = send
    BY <1>1, <1>2 DEF SendMessage, SendReliableMessage
  <2>2. CanSendMessage(send[q][d], len, Channels[d].max)
          => UnackedExact(SendReliable(send[q][d], len), Channels[d].max)
    BY <1>1, <1>2, SendReliableExact DEF SendExact, SendOK
  <2> QED BY <1>2, <2>1, <2>2 DEF SendExact
<1>3. CASE q = p /\ d = c /\ ~Reliable(c)
  <2>1. send'[q][d] = SendUnreliable(send[q][d], Len(sent[q][d]), len, Channels[d].max)
    BY <1>1, <1>3 DEF SendMessage, SendUnreliableMessage
  <2>2. QueueExact(SendUnreliable(send[q][d], Len(sent[q][d]), len, Channels[d].max),
                   Channels[d].max)
    BY <1>1, <1>3, SendUnreliableExact DEF SendExact, SendOK
  <2> QED BY <1>3, <2>1, <2>2 DEF SendExact
<1>4. CASE ~(q = p /\ d = c)
  <2>1. send'[q][d] = send[q][d]
    BY <1>1, <1>4 DEF SendMessage, SendReliableMessage, SendUnreliableMessage, SenderInv, ShapeInv
  <2> QED BY <2>1
<1> QED BY <1>2, <1>3, <1>4

LEMMA UpdateExact ==
    ASSUME SenderInv, NEW p \in Peers, Update(p, 1)
    PROVE  SendsExactly
<1> SUFFICES ASSUME NEW q \in Peers, NEW d \in ChannelIds, SendExact(d, send[q][d])
             PROVE  SendExact(d, send'[q][d])
  BY DEF SendsExactly
<1>1. /\ DOMAIN send = Peers /\ Channels[d].max \in Nat /\ SendOK(d, send[q][d], sent[q][d])
  BY ChannelFacts DEF SenderInv, ShapeInv, SendInv
<1>2. CASE q = p /\ Reliable(d)
  <2>1. send'[q][d] = AgeUnacked(send[q][d], 1)
    BY <1>1, <1>2 DEF Update
  <2>2. SameUnacked(AgeUnacked(send[q][d], 1), send[q][d])
    BY <1>1, <1>2, AgeUnackedKeeps DEF SendOK
  <2>3. KeepsUnacked(AgeUnacked(send[q][d], 1), send[q][d])
    BY <2>2, SameUnackedExact
  <2> QED BY <1>1, <1>2, <2>1, <2>3 DEF SendExact, KeepsUnacked
<1>3. CASE ~(q = p /\ Reliable(d))
  <2>1. send'[q][d] = send[q][d]
    BY <1>1, <1>3 DEF Update
  <2> QED BY <2>1
<1> QED BY <1>2, <1>3

LEMMA GetPacketsExact ==
    ASSUME SenderInv, NEW p \in Peers, GetPacketsToSend(p)
    PROVE  SendsExactly /\ recv' = recv
<1>1. PICK packets, channels :
        Tick(p, packets, channels) /\ send' = [send EXCEPT ![p] = channels] /\ recv' = recv
  BY GetPacketsFacts
<1>2. ASSUME NEW q \in Peers, NEW d \in ChannelIds, SendExact(d, send[q][d])
      PROVE  SendExact(d, send'[q][d])
  <2>1. DOMAIN send = Peers /\ Channels[d].max \in Nat
    BY ChannelFacts DEF SenderInv, ShapeInv
  <2>2. CASE q = p
    <3>1. send'[q][d] = channels[d] /\ Advanced(d, channels[d], send[q][d])
      BY <1>1, <2>1, <2>2 DEF Tick
    <3>2. CASE Reliable(d)
      <4>1. KeepsUnacked(channels[d], send[q][d])
        BY <3>1, <3>2, SameUnackedExact DEF Advanced
      <4> QED BY <1>2, <2>1, <3>1, <3>2, <4>1 DEF SendExact, KeepsUnacked
    <3>3. CASE ~Reliable(d)
      BY <1>2, <2>1, <3>1, <3>3 DEF SendExact, Advanced, KeepsQueue
    <3> QED BY <3>2, <3>3
  <2>3. CASE q # p
    <3>1. send'[q][d] = send[q][d]
      BY <1>1, <2>1, <2>3
    <3> QED BY <1>2, <3>1
  <2> QED BY <2>2, <2>3
<1> QED BY <1>1, <1>2 DEF SendsExactly

LEMMA ProcessPacketExact ==
    ASSUME SenderInv, ReceiveInv, SliceIdsInv, NEW m \in net, ProcessPacket(m.to, m.packet),
           net' \subseteq net
    PROVE  SendsExactly /\ ReceivesExactly
<1> DEFINE p == m.to
           k == m.packet
<1>1. /\ p \in Peers /\ k.sequence \in Nat /\ k.sequence < packet_sequence[Other(p)]
      /\ UNCHANGED <<packet_sequence, sent>>
  BY DEF SenderInv, NetInv, ProcessPacket
<1>2. CASE k.type = "Ack"
  <2>1. ProcessAck(p, k, AddPendingAck(pending_acks[p], k.sequence))
    BY <1>2 DEF ProcessPacket
  <2> HIDE DEF p, k
  <2>2. recv' = recv
    BY <2>1 DEF ProcessAck
  <2>3. \A q \in Peers, c \in ChannelIds :
          /\ ~Reliable(c) => send'[q][c] = send[q][c]
          /\ Reliable(c) => KeepsUnacked(send'[q][c], send[q][c])
    BY <1>1, <2>1, ProcessAckSender
  <2>4. SendsExactly
    BY <2>3, ChannelFacts DEF SendsExactly, SendExact, KeepsUnacked
  <2> QED BY <2>2, <2>4 DEF ReceivesExactly
<1>3. CASE k.type # "Ack"
  <2>1. PICK c, new :
             /\ c \in ChannelIds
             /\ AfterReceive(p, c, new)
             /\ Arrives(k, c, new, recv[p][c], sent[Other(p)][c], delivered[p][c])
    BY <1>3, DataArrives
  <2>2. /\ recv' = [recv EXCEPT ![p][c] = new] /\ send' = send
        /\ ReceiveExact(c, recv[p][c]) => ReceiveExact(c, new)
    BY <2>1 DEF AfterReceive, Arrives
  <2>3. DOMAIN recv = Peers /\ \A q \in Peers : DOMAIN recv[q] = ChannelIds
    BY DEF ReceiveInv
  <2> HIDE DEF p, k
  <2>4. ASSUME NEW q \in Peers, NEW d \in ChannelIds, ReceiveExact(d, recv[q][d])
        PROVE  ReceiveExact(d, recv'[q][d])
    <3>1. CASE q = p /\ d = c
      <4>1. recv'[q][d] = new
        BY <2>1, <2>2, <2>3, <3>1
      <4> QED BY <2>2, <2>4, <3>1, <4>1
    <3>2. CASE ~(q = p /\ d = c)
      <4>1. recv'[q][d] = recv[q][d]
        BY <1>1, <2>1, <2>2, <2>3, <3>2
      <4> QED BY <2>4, <4>1
    <3> QED BY <3>1, <3>2
  <2>5. SendsExactly
    BY <2>2 DEF SendsExactly
  <2> QED BY <2>4, <2>5 DEF ReceivesExactly
<1> QED BY <1>2, <1>3

LEMMA MemoryNext ==
    SenderInv /\ ReceiveInv /\ SliceIdsInv /\ MemoryInv /\ [Next]_vars => MemoryInv'
<1> SUFFICES ASSUME SenderInv, ReceiveInv, SliceIdsInv, MemoryInv, [Next]_vars
             PROVE  MemoryInv'
  OBVIOUS
<1>1. ASSUME SendsExactly, ReceivesExactly PROVE MemoryInv'
  BY <1>1 DEF MemoryInv, SendsExactly, ReceivesExactly
<1>2. (send' = send => SendsExactly) /\ (recv' = recv => ReceivesExactly)
  BY DEF SendsExactly, ReceivesExactly
<1>3. ASSUME NEW p \in Senders, NEW c \in ChannelIds, NEW len \in Lengths, SendMessage(p, c, len)
      PROVE  MemoryInv'
  <2>1. p \in Peers
    BY RemoteConnectionAssumption
  <2>2. recv' = recv
    BY <1>3 DEF SendMessage
  <2> QED BY <1>1, <1>2, <1>3, <2>1, <2>2, SendMessageExact
<1>4. ASSUME NEW p \in Peers, NEW c \in ChannelIds, ReceiveMessage(p, c) PROVE MemoryInv'
  <2>1. send' = send
    BY <1>4 DEF ReceiveMessage
  <2>2. ReceivesExactly
    BY <1>4, ReceiveMessageReceive DEF ReceivesExactly
  <2> QED BY <1>1, <1>2, <2>1, <2>2
<1>5. ASSUME NEW p \in Leavers, Disconnect(p) PROVE MemoryInv'
  BY <1>1, <1>2, <1>5 DEF Disconnect
<1>6. ASSUME NEW p \in Peers, Update(p, 1) PROVE MemoryInv'
  <2>1. ReceivesExactly
    BY <1>6, UpdateReceive DEF ReceivesExactly
  <2> QED BY <1>1, <1>6, <2>1, UpdateExact
<1>7. ASSUME NEW p \in Peers, GetPacketsToSend(p) PROVE MemoryInv'
  BY <1>1, <1>2, <1>7, GetPacketsExact
<1>8. ASSUME NEW m \in net, Deliver(m) \/ Duplicate(m) PROVE MemoryInv'
  <2>1. ProcessPacket(m.to, m.packet) /\ net' \subseteq net
    BY <1>8 DEF Deliver, Duplicate
  <2> QED BY <1>1, <2>1, ProcessPacketExact
<1>9. CASE UNCHANGED vars
  BY <1>1, <1>2, <1>9 DEF vars, core
<1> QED BY <1>3, <1>4, <1>5, <1>6, <1>7, <1>8, <1>9 DEF Next

LEMMA MemoryAlways == Spec => []MemoryInv
<1>1. SenderInv /\ ReceiveInv /\ SliceIdsInv /\ MemoryInv /\ [Next]_vars => MemoryInv'
  BY MemoryNext
<1>2. Init => MemoryInv
  BY MemoryInit
<1> QED BY <1>1, <1>2, ReceiveAlways, PTL DEF Spec

(***************************************************************************)
(* The counters memory_usage_bytes of every channel are exact in every     *)
(* reachable state and within max_memory_usage_bytes: they neither drift   *)
(* nor underflow, whatever is sent, lost, duplicated, given up or acked.   *)
(***************************************************************************)
THEOREM MemoryAlwaysExact == Spec => []MemoryIsExact
<1>1. MemoryInv => MemoryIsExact
  <2> SUFFICES ASSUME MemoryInv, NEW p \in Peers, NEW c \in ChannelIds
               PROVE  /\ send[p][c].memory = QueuedBytes(p, c)
                      /\ send[p][c].memory <= Channels[c].max
                      /\ recv[p][c].memory = HeldBytes(p, c)
                      /\ recv[p][c].memory <= Channels[c].max
    BY DEF MemoryIsExact
  <2> DEFINE ch == send[p][c]
             r == recv[p][c]
             slices == r.slices
  <2>1. SendExact(c, ch) /\ ReceiveExact(c, r)
    BY DEF MemoryInv
  <2>2. Weighs(Reserves(slices))
    BY <2>1 DEF ReceiveExact, ReceivedExact, WaitingExact
  <2>3. ReservedBytes(slices, DOMAIN slices) = SumFunction(Reserves(slices))
    <3> HIDE DEF slices
    <3> QED BY <2>2, ReservedIsSum
  <2>4. CASE Reliable(c)
    <3>1. HeldBytes(p, c) = SumFunction(r.messages) + ReservedBytes(slices, DOMAIN slices)
      BY <2>4 DEF HeldBytes, MessageBytes
    <3>2. QueuedBytes(p, c) = SumFunction(UnackedLens(ch.unacked))
      BY <2>4 DEF QueuedBytes, UnackedBytes, UnackedLens
    <3>3. UnackedExact(ch, Channels[c].max) /\ ReceivedExact(r, Channels[c].max)
      BY <2>1, <2>4 DEF SendExact, ReceiveExact
    <3> QED BY <2>3, <3>1, <3>2, <3>3 DEF UnackedExact, ReceivedExact
  <2>5. CASE ~Reliable(c)
    <3>1. HeldBytes(p, c) = TotalLength(r.messages) + ReservedBytes(slices, DOMAIN slices)
      BY <2>5 DEF HeldBytes
    <3>2. QueuedBytes(p, c) = TotalLength(ch.queue)
      BY <2>5 DEF QueuedBytes
    <3>3. QueueExact(ch, Channels[c].max) /\ WaitingExact(r, Channels[c].max)
      BY <2>1, <2>5 DEF SendExact, ReceiveExact
    <3> QED BY <2>3, <3>1, <3>2, <3>3 DEF QueueExact, WaitingExact
  <2> QED BY <2>4, <2>5
<1> QED BY <1>1, MemoryAlways, PTL
-----------------------------------------------------------------------------
(***************************************************************************)
(* What get_packets_to_send makes fits in a packet of the transport and is *)
(* read back by from_bytes.                                                *)
(***************************************************************************)
LengthsInv ==
    \A p \in Peers, c \in ChannelIds : \A k \in DOMAIN sent[p][c] : sent[p][c][k] \in Lengths

Parses(k) == SerializedSize(k) <= PacketBytes /\ FromBytesAccepts(k)

(***************************************************************************)
(* Every packet with messages or a slice on the way fits and parses, on    *)
(* any network.                                                            *)
(***************************************************************************)
MessagePacketsParse == \A m \in net : m.packet.type # "Ack" => Parses(m.packet)

LEMMA RoomFacts ==
    /\ SliceSize \in Nat /\ VarintBytes \in Nat /\ PacketBytes \in Nat
    /\ 2 * VarintBytes = VarintBytes + VarintBytes /\ 1 * VarintBytes = VarintBytes
    /\ SliceSize + 4 + (VarintBytes + VarintBytes + VarintBytes) <= PacketBytes
    /\ 1 + VarintBytes + 1 + 4 * VarintBytes + SliceSize <= PacketBytes
    /\ 1 + VarintBytes + 3 * VarintBytes <= PacketBytes
<1>1. /\ SliceSize \in Nat /\ VarintBytes \in Nat /\ PacketBytes \in Nat
  BY ReliableChannelAssumption, RemoteConnectionAssumption
<1>2. /\ SliceSize + 4 + 3 * VarintBytes <= PacketBytes
      /\ SliceSize + 2 + 5 * VarintBytes <= PacketBytes
  BY PacketRoomAssumption
<1> QED BY <1>1, <1>2

LEMMA SmallParses ==
    ASSUME NEW k, k.type \in {"SmallReliable", "SmallUnreliable"},
           NEW M, \A m \in M : m.len \in Nat, k.messages \in Seq(M),
           k.type = "SmallReliable" => SmallFits(k.messages, 2),
           k.type = "SmallUnreliable" => SmallFits(k.messages, 1)
    PROVE  Parses(k)
<1>1. FromBytesAccepts(k)
  BY DEF FromBytesAccepts
<1>2. CASE k.type = "SmallReliable"
  <2> DEFINE n == MessagesSize(k.messages, 2)
  <2>1. n \in Nat
    BY SizeIsNat
  <2>2. n <= SliceSize + 2 * VarintBytes
    BY <1>2 DEF SmallFits
  <2>3. SerializedSize(k) = 1 + VarintBytes + 1 + 2 + n
    BY <1>2 DEF SerializedSize
  <2> HIDE DEF n
  <2>4. 1 + VarintBytes + 1 + 2 + n <= PacketBytes
    BY <2>1, <2>2, RoomFacts
  <2> QED BY <1>1, <2>3, <2>4 DEF Parses
<1>3. CASE k.type = "SmallUnreliable"
  <2> DEFINE n == MessagesSize(k.messages, 1)
  <2>1. n \in Nat
    BY SizeIsNat
  <2>2. n <= SliceSize + 1 * VarintBytes
    BY <1>3 DEF SmallFits
  <2>3. SerializedSize(k) = 1 + VarintBytes + 1 + 2 + n
    BY <1>3 DEF SerializedSize
  <2> HIDE DEF n
  <2>4. 1 + VarintBytes + 1 + 2 + n <= PacketBytes
    BY <2>1, <2>2, RoomFacts
  <2> QED BY <1>1, <2>3, <2>4 DEF Parses
<1> QED BY <1>2, <1>3

LEMMA SliceParses ==
    ASSUME NEW k, k.type \in {"ReliableSlice", "UnreliableSlice"}, k.index \in Nat,
           NEW len \in Lengths, IsSliceOf(k, len)
    PROVE  Parses(k)
<1>1. len \in Nat /\ (IsSliced(len) => NumSlices(len) \in 1 .. MaxNumSlices)
  BY RemoteConnectionAssumption, PacketRoomAssumption
<1>2. IsSliced(len) /\ k.num_slices = NumSlices(len) /\ k.index < NumSlices(len)
      /\ k.len = SliceLength(len, k.index)
  BY DEF IsSliceOf
<1>3. NumSlices(len) \in Nat /\ NumSlices(len) >= 2
  BY <1>1, <1>2, SliceCount
<1>4. k.index \in 0 .. (NumSlices(len) - 1)
  BY <1>2, <1>3
<1>5. k.len \in 1 .. SliceSize
  BY <1>1, <1>2, <1>4, SliceBounds
<1>6. k.num_slices \in 1 .. MaxNumSlices
  BY <1>1, <1>2
<1>7. SerializedSize(k) = 1 + VarintBytes + 1 + 4 * VarintBytes + k.len
  BY DEF SerializedSize
<1>8. 1 + VarintBytes + 1 + 4 * VarintBytes + k.len <= PacketBytes
  <2> DEFINE l == k.len
             f == 4 * VarintBytes
  <2>1. l \in Nat /\ l <= SliceSize /\ f \in Nat
    BY <1>5, RoomFacts
  <2>2. 1 + VarintBytes + 1 + f + SliceSize <= PacketBytes
    BY RoomFacts
  <2> HIDE DEF l, f
  <2>3. 1 + VarintBytes + 1 + f + l <= PacketBytes
    BY <2>1, <2>2, RoomFacts
  <2> QED BY <2>3 DEF l, f
<1> QED BY <1>5, <1>6, <1>7, <1>8 DEF Parses, FromBytesAccepts

LEMMA DataPacketParses ==
    ASSUME NEW lens \in [ChannelIds -> LengthSeqs],
           \A c \in ChannelIds : \A i \in DOMAIN lens[c] : lens[c][i] \in Lengths,
           NEW k \in DataPackets(lens)
    PROVE  Parses(k)
<1>1. PICK c \in ChannelIds : k \in PacketsOf(c, lens[c])
  BY DEF DataPackets
<1>2. CASE k \in ReliablePackets(c, lens[c])
  <2>1. CASE k.type = "SmallReliable"
    <3>1. k.messages \in Seq(SmallMessages(lens[c])) /\ SmallFits(k.messages, 2)
      BY <1>2, <2>1 DEF ReliablePackets
    <3>2. \A m \in SmallMessages(lens[c]) : m.len \in Nat
      BY DEF SmallMessages
    <3> QED BY <2>1, <3>1, <3>2, SmallParses
  <2>2. CASE k.type # "SmallReliable"
    <3>1. /\ k.type = "ReliableSlice" /\ k.index \in Nat /\ k.id + 1 \in DOMAIN lens[c]
          /\ IsSliceOf(k, lens[c][k.id + 1])
      BY <1>2, <2>2 DEF ReliablePackets
    <3>2. lens[c][k.id + 1] \in Lengths
      BY <3>1
    <3> QED BY <3>1, <3>2, SliceParses
  <2> QED BY <2>1, <2>2
<1>3. CASE k \in UnreliablePackets(c, lens[c])
  <2>1. CASE k.type = "SmallUnreliable"
    <3>1. k.messages \in Seq(SmallUnreliables(lens[c])) /\ SmallFits(k.messages, 1)
      BY <1>3, <2>1 DEF UnreliablePackets
    <3>2. \A m \in SmallUnreliables(lens[c]) : m.len \in Nat
      BY DEF SmallUnreliables, QueueMessages
    <3> QED BY <2>1, <3>1, <3>2, SmallParses
  <2>2. CASE k.type # "SmallUnreliable"
    <3>1. /\ k.type = "UnreliableSlice" /\ k.index \in Nat /\ k.data + 1 \in DOMAIN lens[c]
          /\ IsSliceOf(k, lens[c][k.data + 1])
      BY <1>3, <2>2 DEF UnreliablePackets
    <3>2. lens[c][k.data + 1] \in Lengths
      BY <3>1
    <3> QED BY <3>1, <3>2, SliceParses
  <2> QED BY <2>1, <2>2
<1> QED BY <1>1, <1>2, <1>3 DEF PacketsOf

(* Only send_message adds to what was sent, and of the applications' lengths. *)
LEMMA LengthsNext == ShapeInv /\ LengthsInv /\ [Next]_vars => LengthsInv'
<1> SUFFICES ASSUME ShapeInv, LengthsInv, [Next]_vars PROVE LengthsInv'
  OBVIOUS
<1>1. CASE UNCHANGED sent
  BY <1>1 DEF LengthsInv
<1>2. ASSUME NEW p \in Senders, NEW c \in ChannelIds, NEW len \in Lengths, SendMessage(p, c, len)
      PROVE  LengthsInv'
  <2>1. p \in Peers /\ sent \in [Peers -> [ChannelIds -> LengthSeqs]] /\ len \in Nat
    BY RemoteConnectionAssumption DEF ShapeInv
  <2>2. CASE sent' = [sent EXCEPT ![p][c] = Append(@, len)]
    <3> DEFINE old == sent[p][c]
               new == Append(old, len)
    <3>1. /\ old \in Seq(Nat) /\ Len(old) \in Nat /\ DOMAIN old = 1 .. Len(old)
      BY <2>1, LenProperties DEF LengthSeqs
    <3>2. /\ DOMAIN new = 1 .. (Len(old) + 1)
          /\ \A i \in 1 .. Len(old) : new[i] = old[i]
          /\ new[Len(old) + 1] = len
      BY <2>1, <3>1, AppendProperties, LenProperties
    <3> HIDE DEF new, old
    <3>3. \A i \in DOMAIN new : i \in DOMAIN old \/ i = Len(old) + 1
      BY <3>1, <3>2
    <3>4. \A i \in DOMAIN old : old[i] \in Lengths
      BY <2>1 DEF LengthsInv, old
    <3>5. \A i \in DOMAIN new : new[i] \in Lengths
      BY <3>1, <3>2, <3>3, <3>4
    <3>6. \A q \in Peers, d \in ChannelIds :
             sent'[q][d] = IF q = p /\ d = c THEN new ELSE sent[q][d]
      BY <2>1, <2>2 DEF new, old
    <3> QED BY <3>5, <3>6 DEF LengthsInv
  <2>3. sent' = [sent EXCEPT ![p][c] = Append(@, len)] \/ UNCHANGED sent
    BY <1>2 DEF SendMessage, SendReliableMessage, SendUnreliableMessage
  <2> QED BY <1>1, <2>2, <2>3
<1>3. (\E p \in Senders, c \in ChannelIds, len \in Lengths : SendMessage(p, c, len))
      \/ UNCHANGED sent
  <2>1. ASSUME NEW p \in Peers, NEW c \in ChannelIds, ReceiveMessage(p, c) PROVE UNCHANGED sent
    BY <2>1 DEF ReceiveMessage
  <2>2. ASSUME NEW p \in Leavers, Disconnect(p) PROVE UNCHANGED sent
    BY <2>2 DEF Disconnect
  <2>3. ASSUME NEW p \in Peers, Update(p, 1) PROVE UNCHANGED sent
    BY <2>3 DEF Update
  <2>4. ASSUME NEW p \in Peers, GetPacketsToSend(p) PROVE UNCHANGED sent
    BY <2>4 DEF GetPacketsToSend, Transmit
  <2>5. ASSUME NEW m \in net, Deliver(m) \/ Duplicate(m) PROVE UNCHANGED sent
    BY <2>5 DEF Deliver, Duplicate, ProcessPacket
  <2>6. CASE UNCHANGED vars
    BY <2>6 DEF vars
  <2> QED BY <2>1, <2>2, <2>3, <2>4, <2>5, <2>6 DEF Next
<1> QED BY <1>1, <1>2, <1>3

LEMMA LengthsAlways == Spec => []LengthsInv
<1>1. Init => LengthsInv
  BY DEF Init, LengthsInv
<1>2. SenderInv /\ LengthsInv /\ [Next]_vars => LengthsInv'
  BY LengthsNext DEF SenderInv
<1> QED BY <1>1, <1>2, SenderAlways, PTL DEF Spec

LEMMA DataOnTheWayParses ==
    ASSUME SenderInv, LengthsInv, NEW m \in net, m.packet.type # "Ack"
    PROVE  Parses(m.packet)
<1> DEFINE k == m.packet
           lens == sent[Other(m.to)]
<1>1. m.to \in Peers /\ k \in DataPackets(lens)
  BY DEF SenderInv, NetInv, AckOnTheWay
<1>2. Other(m.to) \in Peers
  BY <1>1, PeerFacts
<1>3. lens \in [ChannelIds -> LengthSeqs]
  BY <1>2 DEF SenderInv, ShapeInv
<1>4. \A c \in ChannelIds : \A i \in DOMAIN lens[c] : lens[c][i] \in Lengths
  BY <1>2 DEF LengthsInv
<1> HIDE DEF k, lens
<1>5. Parses(k)
  BY <1>1, <1>3, <1>4, DataPacketParses
<1> QED BY <1>5 DEF k

(***************************************************************************)
(* Every packet of messages or of a slice that get_packets_to_send makes   *)
(* fits in a packet of the transport and is accepted by from_bytes, on any *)
(* network: small messages are put together up to SLICE_SIZE, every slice  *)
(* is not empty, no longer than SLICE_SIZE and one of at most 1000000.     *)
(***************************************************************************)
THEOREM MessagePacketsAlwaysParse == Spec => []MessagePacketsParse
<1>1. SenderInv /\ LengthsInv => MessagePacketsParse
  BY DataOnTheWayParses DEF MessagePacketsParse
<1> QED BY <1>1, SenderAlways, LengthsAlways, PTL
-----------------------------------------------------------------------------
(***************************************************************************)
(* On an ordered reliable network the packets on the way to a peer are     *)
(* those that it does not yet have, and it acknowledges one range, of the  *)
(* packets before them: an Ack packet stays as short as can be.            *)
(***************************************************************************)
ArrivedUpTo(p, n) ==
    /\ n <= packet_sequence[Other(p)]
    /\ \A m \in net : m.to = p => n <= m.packet.sequence
    /\ \A s \in n .. (packet_sequence[Other(p)] - 1) :
         \E m \in net : m.to = p /\ m.packet.sequence = s
    /\ \A l, m \in net : l.to = p /\ m.to = p /\ l.packet.sequence = m.packet.sequence => l = m
    /\ OneRangeTo(pending_acks[p], n)

InOrderInv ==
    /\ \A p \in Peers : \E n \in Nat : ArrivedUpTo(p, n)
    /\ \A m \in net : m.packet.type = "Ack" => Len(m.packet.wire.rest) = 0

LEMMA AddExtendsRange ==
    ASSUME NEW acks \in Seq(RangeRecord), Separated(acks), NEW n \in Nat, OneRangeTo(acks, n)
    PROVE  OneRangeTo(AddPendingAck(acks, n), n + 1)
<1> DEFINE new == AddPendingAck(acks, n)
<1>1. CASE acks = << >>
  <2> DEFINE pushed == Append(acks, AckRange(n, n + 1))
  <2>1. new = PushRange(acks, n)
    BY <1>1 DEF AddPendingAck
  <2>2. Len(pushed) = 1 /\ pushed[1] = AckRange(n, n + 1)
    BY <1>1
  <2>3. MaxRanges \in Nat /\ MaxRanges >= 1
    BY MaxRangesAssumption
  <2> HIDE DEF pushed
  <2>4. PushRange(acks, n) = pushed
    BY <2>2, <2>3 DEF PushRange, pushed
  <2>5. pushed[1].end = n + 1
    BY <2>2 DEF AckRange
  <2> HIDE DEF new
  <2> QED BY <2>1, <2>2, <2>4, <2>5 DEF OneRangeTo, new
<1>2. CASE acks # << >>
  <2> DEFINE r == acks[1]
  <2>1. Len(acks) = 1 /\ r.end = n
    BY <1>2 DEF OneRangeTo
  <2>2. DOMAIN acks = {1} /\ 1 \in DOMAIN acks
    BY <2>1, LenProperties
  <2>3. r \in RangeRecord /\ r.start < r.end
    BY <2>2, ElementOfSeq, <2>1, LenProperties DEF Separated
  <2>4. r.start \in Nat /\ r.start < n /\ DOMAIN r = {"start", "end"}
    BY <2>1, <2>3 DEF RangeRecord
  <2>5. Stops(r, n)
    BY <2>1 DEF Stops
  <2>6. FirstStop(acks, n) = 1
    BY <2>2, <2>5 DEF FirstStop
  <2>7. new = FitAt(acks, 1, n)
    BY <2>2, <2>5, <2>6 DEF AddPendingAck
  <2>8. FitAt(acks, 1, n) = [acks EXCEPT ![1].end = n + 1]
    BY <2>1, <2>4 DEF FitAt, InRange
  <2> DEFINE longer == [acks EXCEPT ![1].end = n + 1]
  <2>9. Len(longer) = 1 /\ longer[1].end = n + 1
    BY <2>1, <2>2, <2>4
  <2> HIDE DEF longer, new
  <2> QED BY <2>7, <2>8, <2>9 DEF OneRangeTo, longer, new
<1> QED BY <1>1, <1>2

LEMMA AckedLargestShortens ==
    ASSUME NEW acks, NEW n \in Nat, OneRangeTo(acks, n), NEW largest \in Nat,
           acks # << >> => acks \in Seq(RangeRecord)
    PROVE  OneRangeTo(AckedLargest(acks, largest), n)
<1> DEFINE rest == DropBelow(acks, largest)
           new == AckedLargest(acks, largest)
<1>1. rest = << >> \/ (acks # << >> /\ rest = acks)
  <2>1. CASE acks = << >>
    BY <2>1 DEF DropBelow
  <2>2. CASE acks # << >> /\ acks[1].end <= largest
    <3>1. DOMAIN acks = {1}
      BY <2>2, LenProperties DEF OneRangeTo
    <3> QED BY <2>2, <3>1 DEF DropBelow
  <2>3. CASE acks # << >> /\ ~(acks[1].end <= largest)
    <3>1. DOMAIN acks = {1} /\ Len(acks) = 1 /\ acks[1].end = n
      BY <2>3, LenProperties DEF OneRangeTo
    <3>2. acks[1].end > largest
      BY <2>3, <3>1
    <3> DEFINE k == CHOOSE i \in DOMAIN acks :
                      /\ acks[i].end > largest
                      /\ \A j \in 1 .. (i - 1) : acks[j].end <= largest
    <3>3. k = 1
      BY <3>1, <3>2
    <3>4. rest = SubSeq(acks, k, Len(acks))
      BY <2>3, <3>1 DEF DropBelow
    <3> HIDE DEF k, rest
    <3>5. SubSeq(acks, 1, 1) = acks
      BY <2>3, <3>1, SubSeqFull
    <3> QED BY <2>3, <3>1, <3>3, <3>4, <3>5
  <2> QED BY <2>1, <2>2, <2>3
<1> HIDE DEF rest
<1>2. new = IF rest = << >> \/ largest < rest[1].start THEN rest
            ELSE IF largest + 1 = rest[1].end THEN Tail(rest)
            ELSE [rest EXCEPT ![1].start = largest + 1]
  BY DEF AckedLargest, rest
<1> HIDE DEF new
<1>3. CASE rest = << >>
  BY <1>2, <1>3 DEF OneRangeTo, new
<1>4. CASE rest # << >>
  <2>1. rest = acks /\ acks \in Seq(RangeRecord) /\ Len(acks) = 1 /\ acks[1].end = n
    BY <1>1, <1>4 DEF OneRangeTo
  <2>7. DOMAIN acks = 1 .. 1 /\ 1 \in 1 .. Len(acks)
    BY <2>1, LenProperties
  <2>2. DOMAIN acks = {1} /\ acks[1] \in RangeRecord
    BY <2>1, <2>7, ElementOfSeq
  <2>3. Tail(acks) = << >>
    <3>1. Tail(acks) \in Seq(RangeRecord) /\ Len(Tail(acks)) = 0
      BY <1>4, <2>1, HeadTailProperties
    <3> QED BY <3>1, EmptySeq
  <2> DEFINE shorter == [acks EXCEPT ![1].start = largest + 1]
  <2>4. Len(shorter) = 1 /\ shorter[1].end = n
    BY <2>1, <2>2 DEF RangeRecord
  <2> HIDE DEF shorter
  <2>5. new \in {acks, Tail(acks), shorter}
    BY <1>2, <2>1 DEF shorter
  <2>6. OneRangeTo(new, n)
    BY <2>1, <2>3, <2>4, <2>5 DEF OneRangeTo
  <2> QED BY <2>6 DEF new
<1> QED BY <1>3, <1>4
(* The loop over the acked packets only trims what is to be acknowledged. *)
LEMMA AckLoopTrims ==
    ASSUME SenderInv, NEW p \in Peers, NEW wire, NEW n \in Nat,
           NEW acks \in Seq(RangeRecord), Separated(acks), OneRangeTo(acks, n)
    PROVE  OneRangeTo(AckLoop(p, wire, acks).pending_acks, n)
<1> DEFINE S == NewAcks(p, wire)
           packets == sent_packets[p]
           lens == sent[p]
           start == [send |-> send[p], pending_acks |-> acks]
           loop == [of |-> "trims", packets |-> packets, end |-> n]
           pick == [t \in SUBSET S |-> Max(t)]
           Runs(f) == f = [t \in SUBSET S |-> IF t = {} THEN start
                             ELSE AckPacket(f[t \ {Max(t)}], packets[Max(t)].info)]
           iter == CHOOSE f : Runs(f)
<1>1. packet_sequence[p] \in Nat /\ S \in SUBSET (0 .. packet_sequence[p])
  BY DEF NewAcks, SenderInv, ShapeInv, RememberedInv, Remembered
<1>2. \A s \in S : packets[s].info \in Infos(lens)
  BY DEF NewAcks, SenderInv, RememberedInv, Remembered
<1> HIDE DEF S, lens
<1>3. IsFiniteSet(S) /\ Picks(pick, S)
  BY <1>1, MaxPicks
<1>4. \A s, e : Body(loop, s, e) = AckPacket(s, packets[e].info)
  BY DEF Body
<1>5. \A done, s : Keeps(loop, done, s) <=>
          /\ DOMAIN s = {"send", "pending_acks"}
          /\ s.pending_acks \in Seq(RangeRecord) /\ Separated(s.pending_acks)
          /\ OneRangeTo(s.pending_acks, n)
  BY DEF Keeps
<1> HIDE DEF loop
<1>6. \A f : Computes(f, loop, start, S, pick) <=> Runs(f)
  <2> HIDE DEF start, packets
  <2> QED BY <1>4 DEF Computes
<1>7. Runs(iter)
  <2>1. \E f : Runs(f)
    BY <1>3, <1>6, LoopDefined
  <2> HIDE DEF Runs
  <2> QED BY <2>1
<1>8. AckLoop(p, wire, acks) = iter[S]
  BY DEF AckLoop, MapThenFoldSet, S
<1> HIDE DEF iter
<1>9. Computes(iter, loop, start, S, pick)
  BY <1>6, <1>7
<1>10. ASSUME NEW t \in SUBSET S, t # {}, NEW s, Keeps(loop, t \ {pick[t]}, s)
       PROVE  Keeps(loop, t, Body(loop, s, pick[t]))
  <2> DEFINE info == packets[pick[t]].info
             new == AckPacket(s, info)
  <2>1. pick[t] \in S
    BY <1>3, <1>10 DEF Picks
  <2>2. info \in Infos(lens)
    BY <1>2, <2>1
  <2>3. /\ DOMAIN s = {"send", "pending_acks"}
        /\ s.pending_acks \in Seq(RangeRecord) /\ Separated(s.pending_acks)
        /\ OneRangeTo(s.pending_acks, n)
    BY <1>5, <1>10
  <2>4. Body(loop, s, pick[t]) = new
    BY <1>4
  <2> HIDE DEF info
  <2>5. CASE info.type # "Ack"
    <3>1. info.type \in {"ReliableMessages", "ReliableSliceMessage", "None"}
      BY <2>2, <2>5 DEF Infos
    <3>2. DOMAIN new = DOMAIN s /\ new.pending_acks = s.pending_acks
      BY <2>3, <3>1 DEF AckPacket
    <3> HIDE DEF new, pick
    <3> QED BY <1>5, <2>3, <2>4, <3>2
  <2>6. CASE info.type = "Ack"
    <3> DEFINE l == info.largest
               trimmed == AckedLargest(s.pending_acks, l)
    <3>1. l \in Nat
      BY <2>2, <2>6 DEF Infos
    <3>2. new = [s EXCEPT !.pending_acks = trimmed]
      BY <2>6 DEF AckPacket
    <3>3. DOMAIN new = DOMAIN s /\ new.pending_acks = trimmed
      <4> HIDE DEF trimmed
      <4> QED BY <2>3, <3>2
    <3> HIDE DEF l, new, pick
    <3>4. TrimsAcks(s.pending_acks, l, trimmed)
      BY <2>3, <3>1, AckedLargestTrims
    <3>5. OneRangeTo(trimmed, n)
      BY <2>3, <3>1, AckedLargestShortens
    <3> HIDE DEF trimmed
    <3>6. trimmed \in Seq(RangeRecord) /\ Separated(trimmed)
      BY <3>4 DEF TrimsAcks
    <3> QED BY <1>5, <2>3, <2>4, <3>3, <3>5, <3>6
  <2> QED BY <2>5, <2>6
<1>11. Keeps(loop, {}, start)
  <2>1. DOMAIN start = {"send", "pending_acks"} /\ start.pending_acks = acks
    OBVIOUS
  <2> HIDE DEF start
  <2> QED BY <1>5, <2>1
<1>12. Keeps(loop, S, iter[S])
  <2> HIDE DEF pick, start
  <2> QED BY <1>3, <1>9, <1>10, <1>11, LoopKeeps
<1> QED BY <1>5, <1>8, <1>12

(* Nothing leaves the network or is added to it, and no acks change. *)
LEMMA InOrderUnchanged ==
    ASSUME InOrderInv, UNCHANGED <<net, packet_sequence, pending_acks>>
    PROVE  InOrderInv'
BY DEF InOrderInv, ArrivedUpTo

LEMMA InOrderDeliver ==
    ASSUME OrderedNetwork, SenderInv, InOrderInv, NEW m \in net, Deliver(m)
    PROVE  InOrderInv'
<1> DEFINE p == m.to
           k == m.packet
           acks == AddPendingAck(pending_acks[p], k.sequence)
<1>1. /\ net' = net \ {m} /\ UNCHANGED packet_sequence /\ ProcessPacket(p, k)
      /\ \A o \in net : o.to = p => k.sequence <= o.packet.sequence
  BY DEF Deliver, Arrivable, ProcessPacket
<1>2. /\ p \in Peers /\ k.sequence \in Nat /\ k.sequence < packet_sequence[Other(p)]
      /\ packet_sequence[Other(p)] \in Nat
  BY PeerFacts DEF SenderInv, NetInv, ShapeInv
<1>3. PICK n \in Nat : ArrivedUpTo(p, n)
  BY <1>2 DEF InOrderInv
<1>4. k.sequence = n
  <2>1. n <= k.sequence
    BY <1>3 DEF ArrivedUpTo
  <2>2. n \in n .. (packet_sequence[Other(p)] - 1)
    BY <1>2, <2>1
  <2>3. PICK o \in net : o.to = p /\ o.packet.sequence = n
    BY <1>3, <2>2 DEF ArrivedUpTo
  <2>4. k.sequence <= n
    BY <1>1, <2>3
  <2> QED BY <1>2, <2>1, <2>4
<1>5. /\ pending_acks[p] \in Seq(RangeRecord) /\ Separated(pending_acks[p])
      /\ DOMAIN pending_acks = Peers
  BY <1>2 DEF SenderInv, AckVectorsInv, ShapeInv
<1>6. OneRangeTo(acks, n + 1)
  BY <1>3, <1>4, <1>5, AddExtendsRange DEF ArrivedUpTo
<1>7. acks \in Seq(RangeRecord) /\ Separated(acks)
  BY <1>2, PendingAckAdded
<1>8. /\ OneRangeTo(pending_acks'[p], n + 1)
      /\ \A q \in Peers : q # p => pending_acks'[q] = pending_acks[q]
  <2>1. CASE ProcessAck(p, k, acks)
    <3> DEFINE after == AckLoop(p, k.wire, acks)
    <3>1. pending_acks' = [pending_acks EXCEPT ![p] = after.pending_acks]
      BY <2>1 DEF ProcessAck, AckLoop
    <3> HIDE DEF p, k, acks
    <3>2. OneRangeTo(after.pending_acks, n + 1)
      BY <1>2, <1>6, <1>7, AckLoopTrims
    <3> HIDE DEF after
    <3> QED BY <1>2, <1>5, <3>1, <3>2
  <2>2. CASE pending_acks' = [pending_acks EXCEPT ![p] = acks]
    <3> HIDE DEF acks, p
    <3> QED BY <1>2, <1>5, <1>6, <2>2
  <2> QED BY <1>1, <2>1, <2>2 DEF ProcessPacket
<1> HIDE DEF acks
<1>9. ArrivedUpTo(p, n + 1)'
  <2>1. n + 1 <= packet_sequence[Other(p)]
    BY <1>2, <1>4
  <2>2. ASSUME NEW o \in net', o.to = p PROVE n + 1 <= o.packet.sequence
    <3>1. o \in net /\ o # m /\ n <= o.packet.sequence
      BY <1>1, <1>3, <2>2 DEF ArrivedUpTo
    <3>2. o.packet.sequence # n
      BY <1>3, <1>4, <2>2, <3>1 DEF ArrivedUpTo
    <3>3. o.packet.sequence \in Nat
      BY <3>1 DEF SenderInv, NetInv
    <3> QED BY <3>1, <3>2, <3>3
  <2>3. ASSUME NEW s \in (n + 1) .. (packet_sequence[Other(p)] - 1)
        PROVE  \E o \in net' : o.to = p /\ o.packet.sequence = s
    <3>1. s \in n .. (packet_sequence[Other(p)] - 1) /\ s # n
      BY <1>2
    <3>2. PICK o \in net : o.to = p /\ o.packet.sequence = s
      BY <1>3, <3>1 DEF ArrivedUpTo
    <3>3. o # m
      BY <1>4, <3>1, <3>2
    <3> QED BY <1>1, <3>2, <3>3
  <2>4. \A l, o \in net' : l.to = p /\ o.to = p /\ l.packet.sequence = o.packet.sequence => l = o
    BY <1>1, <1>3 DEF ArrivedUpTo
  <2> HIDE DEF p, k
  <2> QED BY <1>1, <1>8, <2>1, <2>2, <2>3, <2>4 DEF ArrivedUpTo
<1>10. ASSUME NEW q \in Peers, q # p PROVE \E i \in Nat : ArrivedUpTo(q, i)'
  <2>1. PICK i \in Nat : ArrivedUpTo(q, i)
    BY DEF InOrderInv
  <2>2. pending_acks'[q] = pending_acks[q] /\ \A o \in net : o.to = q => o \in net'
    BY <1>1, <1>8, <1>10
  <2>3. net' \subseteq net /\ packet_sequence' = packet_sequence
    BY <1>1
  <2>4. ArrivedUpTo(q, i)'
    BY <2>1, <2>2, <2>3 DEF ArrivedUpTo
  <2> QED BY <2>4
<1>11. \A q \in Peers : \E i \in Nat : ArrivedUpTo(q, i)'
  <2>1. n + 1 \in Nat
    OBVIOUS
  <2> HIDE DEF p
  <2> QED BY <1>9, <1>10, <2>1
<1> QED BY <1>1, <1>11 DEF InOrderInv
LEMMA InOrderTick ==
    ASSUME SenderInv, InOrderInv, NEW p \in Peers, GetPacketsToSend(p)
    PROVE  InOrderInv'
<1>1. PICK packets, channels :
             /\ Tick(p, packets, channels)
             /\ packet_sequence' = [packet_sequence EXCEPT ![p] = @ + Len(packets)]
             /\ net' = net \union {[to |-> Other(p), packet |-> k] : k \in ToSet(packets)}
             /\ UNCHANGED pending_acks
  BY GetPacketsFacts
<1>11. PICK first, count, q :
          first = packet_sequence[p] /\ count = Len(packets) /\ q = Other(p)
  OBVIOUS
<1>2. /\ first \in Nat /\ count \in Nat /\ DOMAIN packets = 1 .. count
      /\ packet_sequence \in [Peers -> Nat]
      /\ \A i \in 1 .. count : packets[i].sequence = first + i - 1
      /\ \A i \in 1 .. count : packets[i] \in DataPackets(sent[p]) \/ IsAckOf(packets[i], p)
  BY <1>1, <1>11 DEF Tick, SenderInv, ShapeInv
<1>3. /\ packet_sequence'[p] = first + count /\ packet_sequence'[q] = packet_sequence[q]
      /\ q \in Peers /\ q # p /\ Other(q) = p /\ \A r \in Peers : r # q => r = p
  BY <1>1, <1>2, <1>11, PeerFacts
<1>4. /\ \A m \in net' : m \in net \/
            \E i \in 1 .. count : m = [to |-> q, packet |-> packets[i]]
      /\ \A i \in 1 .. count : [to |-> q, packet |-> packets[i]] \in net'
      /\ net \subseteq net'
  BY <1>1, <1>2, <1>11 DEF ToSet
<1>5. \A m \in net : m.packet.sequence \in Nat /\ (m.to = q => m.packet.sequence < first)
  BY <1>3, <1>11 DEF SenderInv, NetInv
<1>6. \A m \in net' : m \notin net =>
         \E i \in 1 .. count :
            /\ m.to = q /\ m.packet = packets[i] /\ m = [to |-> q, packet |-> packets[i]]
            /\ m.packet.sequence = first + i - 1
  <2> SUFFICES ASSUME NEW m \in net', m \notin net
               PROVE  \E i \in 1 .. count :
                        /\ m.to = q /\ m.packet = packets[i] /\ m = [to |-> q, packet |-> packets[i]]
                        /\ m.packet.sequence = first + i - 1
    OBVIOUS
  <2>1. PICK i \in 1 .. count : m = [to |-> q, packet |-> packets[i]]
    BY <1>4
  <2>2. m.to = q /\ m.packet = packets[i]
    BY <2>1
  <2> QED BY <1>2, <2>1, <2>2
<1>7. PICK n \in Nat : ArrivedUpTo(q, n)
  BY <1>3 DEF InOrderInv
<1>8. ArrivedUpTo(q, n)'
  <2>1. /\ n <= first
        /\ \A m \in net : m.to = q => n <= m.packet.sequence
        /\ \A s \in n .. (first - 1) : \E m \in net : m.to = q /\ m.packet.sequence = s
        /\ \A l, m \in net : l.to = q /\ m.to = q /\ l.packet.sequence = m.packet.sequence => l = m
        /\ OneRangeTo(pending_acks[q], n)
    BY <1>3, <1>7, <1>11 DEF ArrivedUpTo
  <2>2. n <= first + count
    BY <1>2, <2>1
  <2>3. ASSUME NEW m \in net', m.to = q PROVE n <= m.packet.sequence
    <3>1. CASE m \in net
      BY <2>1, <2>3, <3>1
    <3>2. CASE m \notin net
      <4>1. PICK i \in 1 .. count : m.packet.sequence = first + i - 1
        BY <1>6, <3>2
      <4> QED BY <1>2, <2>1, <4>1
    <3> QED BY <3>1, <3>2
  <2>4. ASSUME NEW s \in n .. (first + count - 1)
        PROVE  \E m \in net' : m.to = q /\ m.packet.sequence = s
    <3>1. CASE s < first
      <4>1. s \in n .. (first - 1)
        BY <1>2, <3>1
      <4> QED BY <1>4, <2>1, <4>1
    <3>2. CASE ~(s < first)
      <4> DEFINE i == s - first + 1
                 m == [to |-> q, packet |-> packets[i]]
      <4>1. i \in 1 .. count /\ first + i - 1 = s
        BY <1>2, <3>2
      <4>2. m.to = q /\ m.packet = packets[i]
        OBVIOUS
      <4> HIDE DEF i
      <4>3. packets[i].sequence = s /\ m \in net'
        BY <1>2, <1>4, <4>1
      <4> HIDE DEF m
      <4> QED BY <4>2, <4>3
    <3> QED BY <3>1, <3>2
  <2>5. ASSUME NEW l \in net', NEW m \in net', l.to = q, m.to = q,
               l.packet.sequence = m.packet.sequence
        PROVE  l = m
    <3>1. CASE l \in net /\ m \in net
      BY <2>1, <2>5, <3>1
    <3>2. CASE l \notin net /\ m \notin net
      <4>1. PICK i \in 1 .. count : l = [to |-> q, packet |-> packets[i]]
                                    /\ l.packet.sequence = first + i - 1
        BY <1>6, <3>2
      <4>2. PICK j \in 1 .. count : m = [to |-> q, packet |-> packets[j]]
                                    /\ m.packet.sequence = first + j - 1
        BY <1>6, <3>2
      <4>3. i = j
        BY <1>2, <2>5, <4>1, <4>2
      <4> QED BY <4>1, <4>2, <4>3
    <3>3. CASE l \in net /\ m \notin net
      <4>1. PICK j \in 1 .. count : m.packet.sequence = first + j - 1
        BY <1>6, <3>3
      <4>2. l.packet.sequence < first /\ l.packet.sequence \in Nat
        BY <1>5, <2>5, <3>3
      <4> QED BY <1>2, <2>5, <4>1, <4>2
    <3>4. CASE l \notin net /\ m \in net
      <4>1. PICK j \in 1 .. count : l.packet.sequence = first + j - 1
        BY <1>6, <3>4
      <4>2. m.packet.sequence < first /\ m.packet.sequence \in Nat
        BY <1>5, <2>5, <3>4
      <4> QED BY <1>2, <2>5, <4>1, <4>2
    <3> QED BY <3>1, <3>2, <3>3, <3>4
  <2>6. packet_sequence'[Other(q)] = first + count /\ OneRangeTo(pending_acks'[q], n)
    BY <1>1, <1>3, <2>1
  <2>7. /\ \A m \in net' : m.to = q => n <= m.packet.sequence
        /\ \A s \in n .. (first + count - 1) : \E m \in net' : m.to = q /\ m.packet.sequence = s
        /\ \A l, m \in net' : l.to = q /\ m.to = q /\ l.packet.sequence = m.packet.sequence => l = m
    BY <2>3, <2>4, <2>5
  <2> QED BY <1>2, <2>2, <2>6, <2>7 DEF ArrivedUpTo
<1>9. \E i \in Nat : ArrivedUpTo(p, i)'
  <2>1. PICK i \in Nat : ArrivedUpTo(p, i)
    BY DEF InOrderInv
  <2>2. \A m \in net' : m.to = p => m \in net
    BY <1>3, <1>6
  <2>3. packet_sequence'[Other(p)] = packet_sequence[Other(p)] /\ pending_acks' = pending_acks
    BY <1>1, <1>3, <1>11
  <2>4. ArrivedUpTo(p, i)'
    BY <1>4, <2>1, <2>2, <2>3 DEF ArrivedUpTo
  <2> QED BY <2>4
<1>10. ASSUME NEW m \in net', m.packet.type = "Ack" PROVE Len(m.packet.wire.rest) = 0
  <2>1. CASE m \in net
    BY <1>10, <2>1 DEF InOrderInv
  <2>2. CASE m \notin net
    <3>1. PICK i \in 1 .. count : m.packet = packets[i]
      BY <1>6, <2>2
    <3>2. pending_acks[p] # << >> /\ m.packet.wire = EncodeAck(pending_acks[p])
      BY <1>2, <1>10, <3>1, DataPacketTypes DEF IsAckOf
    <3>3. Len(pending_acks[p]) = 1
      BY <3>2 DEF InOrderInv, ArrivedUpTo, OneRangeTo
    <3>4. Len(EncodeAck(pending_acks[p]).rest) = 0
      BY <3>3 DEF EncodeAck
    <3> QED BY <3>2, <3>4
  <2> QED BY <2>1, <2>2
<1> QED BY <1>3, <1>7, <1>8, <1>9, <1>10 DEF InOrderInv

LEMMA InOrderInit == Init => InOrderInv
<1> SUFFICES ASSUME Init PROVE InOrderInv
  OBVIOUS
<1>1. net = {} /\ \A p \in Peers : packet_sequence[p] = 0 /\ pending_acks[p] = << >>
  BY DEF Init
<1>2. ASSUME NEW p \in Peers PROVE ArrivedUpTo(p, 0)
  <2>1. packet_sequence[Other(p)] = 0
    BY <1>1, PeerFacts
  <2> QED BY <1>1, <2>1 DEF ArrivedUpTo, OneRangeTo
<1> QED BY <1>1, <1>2 DEF InOrderInv

LEMMA InOrderNext ==
    ASSUME OrderedNetwork, SenderInv, InOrderInv, [Next]_vars
    PROVE  InOrderInv'
<1>1. ASSUME NEW p \in Senders, NEW c \in ChannelIds, NEW len \in Lengths, SendMessage(p, c, len)
      PROVE  InOrderInv'
  BY <1>1, InOrderUnchanged DEF SendMessage
<1>2. ASSUME NEW p \in Peers, NEW c \in ChannelIds, ReceiveMessage(p, c) PROVE InOrderInv'
  BY <1>2, InOrderUnchanged DEF ReceiveMessage
<1>3. ASSUME NEW p \in Leavers, Disconnect(p) PROVE InOrderInv'
  BY <1>3, InOrderUnchanged DEF Disconnect
<1>4. ASSUME NEW p \in Peers, Update(p, 1) PROVE InOrderInv'
  BY <1>4, InOrderUnchanged DEF Update
<1>5. ASSUME NEW p \in Peers, GetPacketsToSend(p) PROVE InOrderInv'
  BY <1>5, InOrderTick
<1>6. ASSUME NEW m \in net, Deliver(m) PROVE InOrderInv'
  BY <1>6, InOrderDeliver
<1>7. ASSUME NEW m \in net, Duplicate(m) PROVE InOrderInv'
  BY <1>7 DEF Duplicate
<1>8. CASE UNCHANGED vars
  BY <1>8, InOrderUnchanged DEF vars, core
<1> QED BY <1>1, <1>2, <1>3, <1>4, <1>5, <1>6, <1>7, <1>8 DEF Next

(***************************************************************************)
(* On an ordered reliable network every packet that get_packets_to_send    *)
(* makes, the Ack packets too, fits in a packet of the transport and is    *)
(* accepted by from_bytes.  (On another network add_pending_ack can insert *)
(* ranges to the left without limit, and with them grows the Ack packet.)  *)
(***************************************************************************)
THEOREM PacketsAlwaysParse == Spec => [](OrderedNetwork => PacketsParse)
<1>1. Init => (OrderedNetwork => InOrderInv)
  BY InOrderInit
<1>2. SenderInv /\ (OrderedNetwork => InOrderInv) /\ [Next]_vars => (OrderedNetwork => InOrderInv)'
  BY InOrderNext
<1>3. SenderInv /\ LengthsInv /\ (OrderedNetwork => InOrderInv) => (OrderedNetwork => PacketsParse)
  <2> SUFFICES ASSUME SenderInv, LengthsInv, InOrderInv, NEW m \in net
               PROVE  SerializedSize(m.packet) <= PacketBytes /\ FromBytesAccepts(m.packet)
    BY DEF PacketsParse
  <2>1. CASE m.packet.type # "Ack"
    BY <2>1, DataOnTheWayParses DEF Parses
  <2>2. CASE m.packet.type = "Ack"
    <3>1. Len(m.packet.wire.rest) = 0
      BY <2>2 DEF InOrderInv
    <3>2. SerializedSize(m.packet) = 1 + VarintBytes + (3 + 2 * Len(m.packet.wire.rest)) * VarintBytes
      BY <2>2 DEF SerializedSize
    <3>3. SerializedSize(m.packet) = 1 + VarintBytes + 3 * VarintBytes
      BY <3>1, <3>2, RoomFacts
    <3>4. FromBytesAccepts(m.packet)
      BY <2>2 DEF FromBytesAccepts
    <3> QED BY <3>3, <3>4, RoomFacts
  <2> QED BY <2>1, <2>2
<1> QED BY <1>1, <1>2, <1>3, SenderAlways, LengthsAlways, PTL DEF Spec

-----------------------------------------------------------------------------
(***************************************************************************)
(* Over an ordered reliable network every message of a channel that has it *)
(* for a substrate is in one place: in the queue of the sender, in the     *)
(* packets on the way, waiting at the receiver, or handed out.             *)
(***************************************************************************)
PairsInv == \A m \in net : m = [to |-> m.to, packet |-> m.packet]

CountInv == \A p \in Peers, c \in ChannelIds : Len(sent[p][c]) <= MaxMessages[c]

PlacedAt(p, c) ==
    Placed(OnTheWay(p, c), send[p][c], recv[Other(p)][c], delivered[Other(p)][c], sent[p][c])

PlacesInv == \A p \in Peers, c \in SubstrateIds : PlacedAt(p, c)

LEMMA SubstrateFacts ==
    ASSUME NEW c \in SubstrateIds
    PROVE  c \in UnreliableIds /\ c \in ChannelIds /\ ~Reliable(c)
BY DEF SubstrateIds, UnreliableIds

LEMMA OnTheWayIs ==
    ASSUME SenderInv, NEW p \in Peers, NEW c \in SubstrateIds
    PROVE  OnTheWay(p, c) \in SUBSET UnreliablePackets(c, sent[p][c])
<1> SUFFICES ASSUME NEW k \in OnTheWay(p, c) PROVE k \in UnreliablePackets(c, sent[p][c])
  OBVIOUS
<1>1. PICK m \in net : m.to = Other(p) /\ m.packet = k /\ k.type # "Ack" /\ k.channel = c
  BY DEF OnTheWay
<1>2. Other(m.to) = p
  BY <1>1, PeerFacts
<1>3. k \in DataPackets(sent[p])
  BY <1>1, <1>2 DEF SenderInv, NetInv, AckOnTheWay
<1>4. PICK d \in ChannelIds : k \in PacketsOf(d, sent[p][d])
  BY <1>3 DEF DataPackets
<1>5. d = c
  BY <1>1, <1>4, PacketOfChannel
<1> QED BY <1>4, <1>5, SubstrateFacts DEF PacketsOf

(* What is known of the two halves of a channel *)
LEMMA HalvesFacts ==
    ASSUME SenderInv, ReceiveInv, SliceIdsInv, MemoryInv, NEW p \in Peers, NEW c \in SubstrateIds
    PROVE  /\ sent[p][c] \in LengthSeqs
           /\ SendUnreliableOK(send[p][c], sent[p][c])
           /\ ReceiveUnreliableOK(recv[Other(p)][c], sent[p][c])
           /\ QueueExact(send[p][c], Channels[c].max)
           /\ WaitingExact(recv[Other(p)][c], Channels[c].max)
           /\ Channels[c].max \in Nat
           /\ \A x \in DOMAIN recv[Other(p)][c].slices : x \in Nat /\ x < send[p][c].sliced_id
           /\ \A k \in OnTheWay(p, c) :
                k.type = "UnreliableSlice" => k.id \in Nat /\ k.id < send[p][c].sliced_id
<1> DEFINE q == Other(p)
<1>1. c \in ChannelIds /\ c \in UnreliableIds /\ ~Reliable(c) /\ q \in Peers /\ Other(q) = p
  BY SubstrateFacts, PeerFacts
<1> HIDE DEF q
<1>2. sent[p][c] \in LengthSeqs /\ SendUnreliableOK(send[p][c], sent[p][c])
  BY <1>1 DEF SenderInv, ShapeInv, SendInv, SendOK
<1>3. ReceiveUnreliableOK(recv[q][c], sent[p][c])
  BY <1>1 DEF ReceiveInv, ReceiveOK
<1>4. QueueExact(send[p][c], Channels[c].max) /\ WaitingExact(recv[q][c], Channels[c].max)
  BY <1>1 DEF MemoryInv, SendExact, ReceiveExact
<1>5. /\ \A x \in DOMAIN recv[q][c].slices : x \in Nat /\ x < send[p][c].sliced_id
      /\ \A id \in Nat : \A k \in SlicesOnTheWay(q, c, id) : id < send[p][c].sliced_id
  BY <1>1 DEF SliceIdsInv
<1>6. ASSUME NEW k \in OnTheWay(p, c), k.type = "UnreliableSlice"
      PROVE  k.id \in Nat /\ k.id < send[p][c].sliced_id
  <2>1. k.id \in Nat
    BY <1>6, OnTheWayIs, DataOfPacket
  <2>2. k \in SlicesOnTheWay(q, c, k.id)
    BY <1>6 DEF OnTheWay, SlicesOnTheWay, q
  <2> QED BY <1>5, <2>1, <2>2
<1> QED BY <1>1, <1>2, <1>3, <1>4, <1>5, <1>6, ChannelFacts DEF q

LEMMA RoomOfChannel ==
    ASSUME RoomForAll, NEW c \in SubstrateIds
    PROVE  \E room \in Nat :
             /\ \A len \in Lengths :
                  len <= room /\ (IsSliced(len) => NumSlices(len) * SliceSize <= room)
             /\ MaxMessages[c] \in Nat /\ MaxMessages[c] * room \in Nat
             /\ 2 * (MaxMessages[c] * room) <= Channels[c].max
<1>1. PICK room \in 0 .. Channels[c].max :
        /\ \A len \in Lengths :
             len <= room /\ (IsSliced(len) => NumSlices(len) * SliceSize <= room)
        /\ 2 * (MaxMessages[c] * room) <= Channels[c].max
  BY DEF RoomForAll
<1>2. room \in Nat /\ MaxMessages[c] \in Nat
  BY <1>1, SubstrateFacts, ChannelFacts, RemoteConnectionAssumption DEF ChannelIds
<1>3. MaxMessages[c] * room \in Nat
  BY <1>2, TimesGrows
<1> QED BY <1>1, <1>2, <1>3

LEMMA SamePlaces ==
    ASSUME NEW p \in Peers, NEW c \in SubstrateIds, PlacedAt(p, c),
           OnTheWay(p, c)' = OnTheWay(p, c), send'[p][c] = send[p][c],
           recv'[Other(p)][c] = recv[Other(p)][c],
           delivered'[Other(p)][c] = delivered[Other(p)][c], sent'[p][c] = sent[p][c]
    PROVE  PlacedAt(p, c)'
BY DEF PlacedAt

LEMMA PlacesInit == Init => PlacesInv /\ PairsInv /\ CountInv
<1> SUFFICES ASSUME Init PROVE PlacesInv /\ PairsInv /\ CountInv
  OBVIOUS
<1>1. PairsInv
  BY DEF Init, PairsInv
<1>2. CountInv
  BY RemoteConnectionAssumption DEF Init, CountInv, ChannelIds
<1>3. ASSUME NEW p \in Peers, NEW c \in SubstrateIds PROVE PlacedAt(p, c)
  <2> DEFINE q == Other(p)
  <2>1. q \in Peers /\ c \in ChannelIds /\ ~Reliable(c)
    BY PeerFacts, SubstrateFacts
  <2>2. /\ send[p][c].queue = << >> /\ send[p][c].sliced_id = 0
        /\ recv[q][c].messages = << >> /\ recv[q][c].slices = << >>
        /\ delivered[q][c] = << >> /\ sent[p][c] = << >>
    BY <2>1 DEF Init, NewSendUnreliable, NewReceiveUnreliable
  <2>3. OnTheWay(p, c) = {}
    BY DEF Init, OnTheWay
  <2>4. DOMAIN << >> = {} /\ DataWaiting(<< >>) = {} /\ ToSet(<< >>) = {} /\ Distinct(<< >>)
    BY DEF DataWaiting, ToSet, Distinct
  <2>5. << >> \in Seq(Nat) /\ IsInjective(<< >>) /\ Len(<< >>) = 0
    BY <2>4 DEF IsInjective
  <2> HIDE DEF q
  <2>6. Scattered({}, << >>)
    BY <2>4 DEF Scattered
  <2>7. HandedOnce(recv[q][c], << >>)
    BY <2>2, <2>4, <2>5 DEF HandedOnce
  <2>8. OfMessages(<< >>, << >>) /\ SlicesAreNew({}, << >>)
    BY <2>4 DEF OfMessages, SlicesAreNew
  <2>9. \A d : ~Carries({}, << >>, d)
    BY <2>4 DEF Carries
  <2>10. Placed({}, send[p][c], recv[q][c], << >>, << >>)
    BY <2>2, <2>4, <2>5, <2>6, <2>7, <2>8, <2>9 DEF Placed
  <2> QED BY <2>2, <2>3, <2>10 DEF PlacedAt, q
<1> QED BY <1>1, <1>2, <1>3 DEF PlacesInv

LEMMA PairsNext == PairsInv /\ [Next]_vars => PairsInv'
<1> SUFFICES ASSUME PairsInv, [Next]_vars PROVE PairsInv'
  OBVIOUS
<1>1. CASE net' \subseteq net
  BY <1>1 DEF PairsInv
<1>2. ASSUME NEW p \in Peers, GetPacketsToSend(p) PROVE PairsInv'
  <2>1. PICK packets : net' = net \union {[to |-> Other(p), packet |-> k] : k \in packets}
    BY <1>2 DEF GetPacketsToSend, Transmit
  <2> QED BY <2>1 DEF PairsInv
<1>3. (\E p \in Peers : GetPacketsToSend(p)) \/ net' \subseteq net
  BY DEF Next, SendMessage, ReceiveMessage, Disconnect, Update, Deliver, Duplicate, vars
<1> QED BY <1>1, <1>2, <1>3

LEMMA CountNext == ShapeInv /\ CountInv /\ [Next]_vars => CountInv'
<1> SUFFICES ASSUME ShapeInv, CountInv, [Next]_vars PROVE CountInv'
  OBVIOUS
<1>1. CASE UNCHANGED sent
  BY <1>1 DEF CountInv
<1>2. ASSUME NEW p \in Senders, NEW c \in ChannelIds, NEW len \in Lengths, SendMessage(p, c, len)
      PROVE  CountInv'
  <2> DEFINE old == sent[p][c]
             new == Append(old, len)
  <2>1. /\ p \in Peers /\ sent \in [Peers -> [ChannelIds -> LengthSeqs]] /\ len \in Nat
        /\ MaxMessages[c] \in Nat
    BY RemoteConnectionAssumption DEF ShapeInv, ChannelIds
  <2>2. CASE sent' = [sent EXCEPT ![p][c] = Append(@, len)]
    <3>1. Len(new) = Len(old) + 1 /\ Len(old) \in Nat /\ Len(old) < MaxMessages[c]
      BY <1>2, <2>1, AppendProperties, LenProperties DEF LengthSeqs, SendMessage
    <3>2. \A q \in Peers, d \in ChannelIds :
             sent'[q][d] = IF q = p /\ d = c THEN new ELSE sent[q][d]
      BY <2>1, <2>2
    <3> HIDE DEF new, old
    <3>3. Len(new) <= MaxMessages[c]
      BY <2>1, <3>1
    <3> QED BY <3>2, <3>3 DEF CountInv
  <2>3. sent' = [sent EXCEPT ![p][c] = Append(@, len)] \/ UNCHANGED sent
    BY <1>2 DEF SendMessage, SendReliableMessage, SendUnreliableMessage
  <2> QED BY <1>1, <2>2, <2>3
<1>3. (\E p \in Senders, c \in ChannelIds, len \in Lengths : SendMessage(p, c, len))
      \/ UNCHANGED sent
  BY DEF Next, ReceiveMessage, Disconnect, Update, GetPacketsToSend, Transmit, Deliver, Duplicate,
         ProcessPacket, vars
<1> QED BY <1>1, <1>2, <1>3

(* The memory has room for what is sent now, too. *)
LEMMA QueueHasRoom ==
    ASSUME NEW lens \in LengthSeqs, NEW len \in Nat, NEW ch, SendUnreliableOK(ch, lens),
           Distinct(ch.queue), NEW max \in Nat, QueueExact(ch, max),
           NEW n \in Nat, Len(lens) < n, NEW room \in Nat, Within(lens, room),
           len <= room, IsSliced(len) => NumSlices(len) * SliceSize <= room,
           n * room \in Nat, 2 * (n * room) <= max
    PROVE  ~(ch.memory + len > max)
<1> DEFINE k == Len(lens)
           m == [data |-> k, len |-> len]
           queue == ch.queue
           more == Append(lens, len)
           M == QueueMessages(more)
<1>1. /\ k \in Nat /\ DOMAIN lens = 1 .. k /\ DOMAIN more = 1 .. (k + 1) /\ Len(more) = k + 1
      /\ more[k + 1] = len /\ (\A j \in 1 .. k : more[j] = lens[j]) /\ more \in LengthSeqs
  BY AppendProperties, LenProperties DEF LengthSeqs
<1>2. queue \in Seq(QueueMessages(lens)) /\ ch.memory = TotalLength(queue)
  BY DEF SendUnreliableOK, QueueExact
<1> HIDE DEF k, more, queue
<1>3. QueueMessages(lens) \subseteq M /\ m \in M /\ m.data = k /\ m.len = len
  BY <1>1 DEF QueueMessages
<1>4. k \notin DataWaiting(queue)
  <2>1. ~(k + 1 \in DOMAIN lens)
    BY <1>1
  <2> QED BY <1>2, <2>1, DataIsKnown
<1>5. \A x \in M : x.len \in Nat
  BY DEF QueueMessages
<1> HIDE DEF M, m
<1>6. queue \in Seq(M)
  BY <1>2, <1>3, SeqMonotonic
<1>7. /\ Append(queue, m) \in Seq(M)
      /\ Distinct(Append(queue, m))
      /\ TotalLength(Append(queue, m)) = ch.memory + len /\ ch.memory \in Nat
  BY <1>2, <1>3, <1>4, <1>5, <1>6, DataOfAppend, TotalAppend, AppendProperties DEF queue
<1>8. Within(more, room)
  <2>1. \A j \in DOMAIN more : j \in DOMAIN lens \/ j = k + 1
    BY <1>1
  <2>2. \A j \in DOMAIN lens : more[j] = lens[j]
    BY <1>1
  <2> QED BY <1>1, <2>1, <2>2 DEF Within
<1>9. Len(more) <= n
  BY <1>1 DEF k
<1> DEFINE all == Append(queue, m)
           t == n * room
<1> HIDE DEF all, t
<1>10. TotalLength(all) <= n * room
  BY <1>1, <1>7, <1>8, <1>9, TotalWithin DEF M, all
<1>11. ch.memory + len <= t /\ t \in Nat /\ 2 * t <= max
  BY <1>7, <1>10 DEF all, t
<1> QED BY <1>7, <1>11

LEMMA SendMessagePlaces ==
    ASSUME RoomForAll, SenderInv, ReceiveInv, SliceIdsInv, MemoryInv, LengthsInv, PlacesInv,
           NEW p \in Peers, NEW c \in ChannelIds, NEW len \in Lengths, SendMessage(p, c, len)
    PROVE  PlacesInv'
<1>1. /\ UNCHANGED <<recv, net, delivered>> /\ Len(sent[p][c]) < MaxMessages[c] /\ len \in Nat
      /\ sent \in [Peers -> [ChannelIds -> LengthSeqs]] /\ DOMAIN send = Peers
      /\ \A x \in Peers : DOMAIN send[x] = ChannelIds
  BY RemoteConnectionAssumption DEF SendMessage, SenderInv, ShapeInv
<1>2. ASSUME NEW x \in Peers, NEW d \in SubstrateIds PROVE PlacedAt(x, d)'
  <2>1. d \in ChannelIds /\ ~Reliable(d) /\ PlacedAt(x, d) /\ OnTheWay(x, d)' = OnTheWay(x, d)
    BY <1>1, SubstrateFacts DEF PlacesInv, OnTheWay
  <2>2. CASE ~(x = p /\ d = c)
    <3>1. send'[x][d] = send[x][d] /\ sent'[x][d] = sent[x][d]
      BY <1>1, <2>1, <2>2 DEF SendMessage, SendReliableMessage, SendUnreliableMessage
    <3> QED BY <1>1, <2>1, <3>1, SamePlaces
  <2>3. CASE x = p /\ d = c
    <3> DEFINE lens == sent[p][c]
               ch == send[p][c]
               K == OnTheWay(p, c)
               r == recv[Other(p)][c]
               out == delivered[Other(p)][c]
               max == Channels[c].max
               new == SendUnreliable(ch, Len(lens), len, max)
               more == Append(lens, len)
    <3>1. send'[p][c] = new /\ sent'[p][c] = more
      <4> HIDE DEF new, more
      <4>1. send' = [send EXCEPT ![p][c] = new] /\ sent' = [sent EXCEPT ![p][c] = more]
        BY <2>1, <2>3 DEF SendMessage, SendUnreliableMessage, new, more
      <4> QED BY <1>1, <4>1
    <3>2. /\ lens \in LengthSeqs /\ SendUnreliableOK(ch, lens) /\ ReceiveUnreliableOK(r, lens)
          /\ QueueExact(ch, max) /\ max \in Nat
      BY <2>3, HalvesFacts
    <3>3. Placed(K, ch, r, out, lens) /\ K \in SUBSET UnreliablePackets(c, lens)
      BY <2>1, <2>3, OnTheWayIs DEF PlacedAt
    <3>4. PICK room \in Nat :
            /\ \A l \in Lengths : l <= room /\ (IsSliced(l) => NumSlices(l) * SliceSize <= room)
            /\ MaxMessages[c] \in Nat /\ MaxMessages[c] * room \in Nat
            /\ 2 * (MaxMessages[c] * room) <= max
      BY <2>3, RoomOfChannel
    <3>5. Within(lens, room)
      BY <3>4 DEF LengthsInv, Within
    <3>6. Len(lens) < MaxMessages[c]
      BY <1>1
    <3>7. recv'[Other(p)][c] = r /\ delivered'[Other(p)][c] = out /\ OnTheWay(p, c)' = K
      BY <1>1, <2>1, <2>3
    <3> HIDE DEF lens, ch, K, r, out, max
    <3>8. Distinct(ch.queue)
      BY <3>3 DEF Placed, Scattered
    <3>9. ~(ch.memory + len > max)
      BY <1>1, <3>2, <3>4, <3>5, <3>6, <3>8, QueueHasRoom
    <3>10. Placed(K, new, r, out, more)
      BY <1>1, <3>2, <3>3, <3>9, SendUnreliablePlaces
    <3> HIDE DEF new, more
    <3> QED BY <2>3, <3>1, <3>7, <3>10 DEF PlacedAt
  <2> QED BY <2>2, <2>3
<1> QED BY <1>2 DEF PlacesInv

LEMMA ReceiveMessagePlaces ==
    ASSUME SenderInv, ReceiveInv, SliceIdsInv, MemoryInv, PlacesInv,
           NEW q \in Peers, NEW c \in ChannelIds, ReceiveMessage(q, c)
    PROVE  PlacesInv'
<1>1. /\ UNCHANGED <<send, net, sent>> /\ DOMAIN recv = Peers /\ DOMAIN delivered = Peers
      /\ \A x \in Peers : DOMAIN recv[x] = ChannelIds /\ DOMAIN delivered[x] = ChannelIds
  BY DEF ReceiveMessage, ReceiveInv
<1>2. ASSUME NEW p \in Peers, NEW d \in SubstrateIds PROVE PlacedAt(p, d)'
  <2>1. /\ d \in ChannelIds /\ ~Reliable(d) /\ PlacedAt(p, d) /\ OnTheWay(p, d)' = OnTheWay(p, d)
        /\ Other(p) \in Peers
    BY <1>1, SubstrateFacts, PeerFacts DEF PlacesInv, OnTheWay
  <2>2. CASE ~(Other(p) = q /\ d = c)
    <3>1. PICK new, more : recv' = [recv EXCEPT ![q][c] = new] /\ delivered' = [delivered EXCEPT ![q][c] = more]
      BY DEF ReceiveMessage
    <3>2. recv'[Other(p)][d] = recv[Other(p)][d] /\ delivered'[Other(p)][d] = delivered[Other(p)][d]
      BY <1>1, <2>1, <2>2, <3>1
    <3> QED BY <1>1, <2>1, <3>2, SamePlaces
  <2>3. CASE Other(p) = q /\ d = c
    <3> DEFINE r == recv[q][c]
               out == delivered[q][c]
               lens == sent[p][c]
               K == OnTheWay(p, c)
               new == TakeUnreliableMessage(r)
               more == Append(out, Head(r.messages).data)
    <3>1. r.messages # << >> /\ recv'[q][c] = new /\ delivered'[q][c] = more
      <4>1. r.messages # << >>
        BY <2>1, <2>3 DEF ReceiveMessage
      <4>2. recv' = [recv EXCEPT ![q][c] = new] /\ delivered' = [delivered EXCEPT ![q][c] = more]
        BY <2>1, <2>3 DEF ReceiveMessage
      <4> HIDE DEF new, more
      <4> QED BY <1>1, <4>1, <4>2
    <3>2. ReceiveUnreliableOK(r, lens)
      BY <2>3, HalvesFacts
    <3>3. Placed(K, send[p][c], r, out, lens)
      BY <2>1, <2>3 DEF PlacedAt
    <3>4. sent'[p][c] = lens /\ send'[p][c] = send[p][c] /\ OnTheWay(p, c)' = K
      BY <1>1, <2>1, <2>3
    <3> HIDE DEF lens, K, r, out
    <3>5. new.messages = Tail(r.messages) /\ new.slices = r.slices
      BY <3>1, <3>2, TakeUnreliableKeeps
    <3> HIDE DEF new
    <3>6. Placed(K, send[p][c], new, more, lens)
      BY <3>1, <3>2, <3>3, <3>5, TakeUnreliablePlaces
    <3> HIDE DEF more
    <3> QED BY <2>3, <3>1, <3>4, <3>6 DEF PlacedAt
  <2> QED BY <2>2, <2>3
<1> QED BY <1>2 DEF PlacesInv

LEMMA UpdatePlaces ==
    ASSUME SenderInv, ReceiveInv, SliceIdsInv, MemoryInv, PlacesInv, NEW q \in Peers, Update(q, 1)
    PROVE  PlacesInv'
<1>1. ASSUME NEW p \in Peers, NEW c \in SubstrateIds PROVE PlacedAt(p, c)'
  <2> DEFINE r == recv[Other(p)][c]
             new == DiscardIncompleteOldSlices(r, 1)
  <2>1. /\ c \in ChannelIds /\ ~Reliable(c) /\ PlacedAt(p, c) /\ Other(p) \in Peers
        /\ ReceiveUnreliableOK(r, sent[p][c])
    BY SubstrateFacts, PeerFacts, HalvesFacts DEF PlacesInv
  <2>2. UNCHANGED <<net, sent, delivered>> /\ OnTheWay(p, c)' = OnTheWay(p, c)
    BY DEF Update, OnTheWay
  <2>3. send'[p][c] = send[p][c]
    BY <2>1 DEF Update, SenderInv, ShapeInv
  <2>4. recv'[Other(p)][c] = recv[Other(p)][c] \/ recv'[Other(p)][c] = new
    <3> HIDE DEF new
    <3>1. recv' = [recv EXCEPT ![q] = [d \in ChannelIds |->
             IF Reliable(d) THEN recv[q][d] ELSE DiscardIncompleteOldSlices(recv[q][d], 1)]]
      BY DEF Update
    <3>2. DOMAIN recv = Peers
      BY DEF ReceiveInv
    <3> QED BY <2>1, <3>1, <3>2 DEF new
  <2>5. CASE recv'[Other(p)][c] = recv[Other(p)][c]
    BY <2>1, <2>2, <2>3, <2>5, SamePlaces
  <2>6. CASE recv'[Other(p)][c] = new
    <3>1. /\ new.messages = r.messages
          /\ \A x \in DOMAIN new.slices : x \in DOMAIN r.slices /\ new.slices[x] = r.slices[x]
      <4> HIDE DEF r
      <4> QED BY <2>1, DiscardKeeps
    <3> HIDE DEF new
    <3>2. Placed(OnTheWay(p, c), send[p][c], new, delivered[Other(p)][c], sent[p][c])
      BY <2>1, <3>1, DiscardPlaces DEF PlacedAt
    <3> QED BY <2>2, <2>3, <2>6, <3>2 DEF PlacedAt
  <2> QED BY <2>4, <2>5, <2>6
<1> QED BY <1>1 DEF PlacesInv

LEMMA GetPacketsPlaces ==
    ASSUME SenderInv, ReceiveInv, SliceIdsInv, MemoryInv, PlacesInv,
           NEW p \in Peers, GetPacketsToSend(p)
    PROVE  PlacesInv'
<1>1. PICK packets, channels :
             /\ Tick(p, packets, channels)
             /\ send' = [send EXCEPT ![p] = channels]
             /\ net' = net \union {[to |-> Other(p), packet |-> k] : k \in ToSet(packets)}
             /\ UNCHANGED <<pending_acks, recv, status, duplicated, sent, delivered>>
  BY GetPacketsFacts
<1>2. ASSUME NEW q \in Peers, NEW c \in SubstrateIds PROVE PlacedAt(q, c)'
  <2>1. c \in ChannelIds /\ ~Reliable(c) /\ PlacedAt(q, c) /\ DOMAIN send = Peers
    BY SubstrateFacts DEF PlacesInv, SenderInv, ShapeInv
  <2>2. CASE q # p
    <3>1. send'[q][c] = send[q][c]
      BY <1>1, <2>1, <2>2
    <3>2. \A m \in net' : m.to = Other(q) => m \in net
      <4>1. Other(p) # Other(q)
        BY <2>2, PeerFacts
      <4> QED BY <1>1, <4>1
    <3>3. OnTheWay(q, c)' = OnTheWay(q, c)
      <4>1. net \subseteq net'
        BY <1>1
      <4> QED BY <3>2, <4>1 DEF OnTheWay
    <3> QED BY <1>1, <2>1, <3>1, <3>3, SamePlaces
  <2>3. CASE q = p
    <3> DEFINE K == OnTheWay(p, c)
               New == DataFor(packets, c)
               ch == send[p][c]
               new == channels[c]
               r == recv[Other(p)][c]
               out == delivered[Other(p)][c]
               lens == sent[p][c]
    <3>1. send'[p][c] = new
      BY <1>1, <2>1
    <3>2. OnTheWay(p, c)' = K \union New
      <4>1. ASSUME NEW k \in OnTheWay(p, c)' PROVE k \in K \union New
        <5>1. PICK m \in net' : m.to = Other(p) /\ m.packet = k /\ k.type # "Ack" /\ k.channel = c
          BY DEF OnTheWay
        <5>2. CASE m \in net
          BY <5>1, <5>2 DEF OnTheWay
        <5>3. CASE m \notin net
          <6>1. PICK x \in ToSet(packets) : m = [to |-> Other(p), packet |-> x]
            BY <1>1, <5>1, <5>3
          <6>2. x = k
            BY <5>1, <6>1
          <6> QED BY <5>1, <6>1, <6>2 DEF DataFor
        <5> QED BY <5>2, <5>3
      <4>2. K \subseteq OnTheWay(p, c)'
        <5>1. net \subseteq net'
          BY <1>1
        <5> QED BY <5>1 DEF OnTheWay
      <4>3. ASSUME NEW k \in New PROVE k \in OnTheWay(p, c)'
        <5> DEFINE m == [to |-> Other(p), packet |-> k]
        <5>1. k \in ToSet(packets) /\ k.type # "Ack" /\ k.channel = c
          BY DEF DataFor
        <5>2. m \in net' /\ m.to = Other(p) /\ m.packet = k
          BY <1>1, <5>1
        <5> HIDE DEF m
        <5> QED BY <5>1, <5>2 DEF OnTheWay
      <4> QED BY <4>1, <4>2, <4>3
    <3>3. QueueSpreads(New, new, ch) /\ SendUnreliableOK(new, lens)
      BY <1>1, <2>1 DEF Tick, SendOK
    <3>4. /\ lens \in LengthSeqs /\ SendUnreliableOK(ch, lens)
          /\ \A x \in DOMAIN r.slices : x \in Nat /\ x < ch.sliced_id
          /\ \A k \in K : k.type = "UnreliableSlice" => k.id \in Nat /\ k.id < ch.sliced_id
      BY HalvesFacts
    <3>5. /\ ch.sliced_id \in Nat /\ new.sliced_id \in Nat
          /\ Len(ch.queue) \in Nat /\ Len(new.queue) \in Nat /\ Len(lens) \in Nat
      <4> HIDE DEF ch, new, lens
      <4> QED BY <3>3, <3>4, LenProperties DEF SendUnreliableOK, LengthSeqs
    <3>6. ASSUME NEW k \in New, k.type = "UnreliableSlice"
          PROVE  k.id \in Nat /\ ch.sliced_id <= k.id
      <4>1. PICK i \in DOMAIN packets : packets[i] = k
        BY DEF DataFor, ToSet
      <4>2. k.channel = c
        BY DEF DataFor
      <4>3. FreshIds(packets, send[p], channels)
        BY <1>1 DEF Tick
      <4>4. k.id \in ch.sliced_id .. (new.sliced_id - 1)
        BY <3>6, <4>1, <4>2, <4>3 DEF FreshIds
      <4> HIDE DEF ch, new
      <4> QED BY <3>5, <4>4
    <3>7. Placed(K, ch, r, out, lens)
      BY <2>1, <2>3 DEF PlacedAt
    <3>8. recv'[Other(p)][c] = r /\ delivered'[Other(p)][c] = out /\ sent'[p][c] = lens
      BY <1>1
    <3> HIDE DEF K, New, ch, new, r, out, lens
    <3>9. Placed(K \union New, new, r, out, lens)
      BY <3>3, <3>4, <3>5, <3>6, <3>7, TickPlaces
    <3> QED BY <2>3, <3>1, <3>2, <3>8, <3>9 DEF PlacedAt
  <2> QED BY <2>2, <2>3
<1> QED BY <1>2 DEF PlacesInv

(* The messages of a packet find room. *)
LEMMA PacketHasRoom ==
    ASSUME RoomForAll, SenderInv, ReceiveInv, SliceIdsInv, MemoryInv, LengthsInv, CountInv,
           NEW p \in Peers, NEW c \in SubstrateIds, PlacedAt(p, c),
           NEW k \in OnTheWay(p, c), k.type = "SmallUnreliable"
    PROVE  RoomFor(recv[Other(p)][c], k.messages, sent[p][c], Channels[c].max)
<1> DEFINE r == recv[Other(p)][c]
           lens == sent[p][c]
           ch == send[p][c]
           K == OnTheWay(p, c)
           out == delivered[Other(p)][c]
           max == Channels[c].max
           next == ch.sliced_id
           n == MaxMessages[c]
<1>1. /\ lens \in LengthSeqs /\ SendUnreliableOK(ch, lens) /\ ReceiveUnreliableOK(r, lens)
      /\ WaitingExact(r, max) /\ max \in Nat
      /\ \A x \in DOMAIN r.slices : x \in Nat /\ x < next
  BY HalvesFacts
<1>2. Placed(K, ch, r, out, lens) /\ K \in SUBSET UnreliablePackets(c, lens)
  BY OnTheWayIs DEF PlacedAt
<1>3. PICK room \in Nat :
        /\ \A l \in Lengths : l <= room /\ (IsSliced(l) => NumSlices(l) * SliceSize <= room)
        /\ n \in Nat /\ 2 * (n * room) <= max
  BY RoomOfChannel
<1>4. Within(lens, room) /\ Len(lens) <= n
  BY <1>3, SubstrateFacts DEF LengthsInv, CountInv, Within
<1> HIDE DEF r, lens, ch, K, out, max, n
<1>5. next \in Nat /\ Len(ch.queue) \in Nat /\ Len(lens) \in Nat
  BY <1>1, LenProperties DEF SendUnreliableOK, LengthSeqs
<1>6. /\ next <= Len(lens) /\ OfMessages(r.slices, lens) /\ Distinct(r.messages)
      /\ Distinct(k.messages)
  BY <1>2, <1>5 DEF Placed, HandedOnce, Scattered, K
<1>7. DataOf(k) = DataWaiting(k.messages)
  BY <1>2, DataOfPacket DEF K
<1>8. DataWaiting(r.messages) \intersect DataWaiting(k.messages) = {}
  BY <1>2, <1>7 DEF Placed, Carries, At, K
<1>9. Weighs(Reserves(r.slices))
  BY <1>1 DEF WaitingExact
<1> HIDE DEF next
<1>10. HasRoom(r.slices, lens, max)
  BY <1>1, <1>3, <1>4, <1>5, <1>6, <1>9, RoomEnough
<1>11. RoomFor(r, k.messages, lens, max)
  BY <1>1, <1>6, <1>8, <1>10 DEF RoomFor
<1> QED BY <1>11 DEF r, lens, max

LEMMA DeliverPlaces ==
    ASSUME RoomForAll, SenderInv, ReceiveInv, SliceIdsInv, MemoryInv, LengthsInv, CountInv,
           PairsInv, PlacesInv, NEW m \in net, Deliver(m)
    PROVE  PlacesInv'
<1> DEFINE p == m.to
           q == Other(p)
           k == m.packet
<1>1. /\ p \in Peers /\ q \in Peers /\ Other(q) = p /\ ProcessPacket(p, k) /\ net' = net \ {m}
      /\ k.sequence \in Nat /\ k.sequence < packet_sequence[q]
      /\ UNCHANGED <<packet_sequence, sent, delivered>>
  BY PeerFacts DEF Deliver, SenderInv, NetInv, ProcessPacket
<1>2. ASSUME NEW x \in Peers, NEW d \in SubstrateIds, k.type = "Ack" \/ x # q \/ k.channel # d
      PROVE  OnTheWay(x, d)' = OnTheWay(x, d)
  <2>1. x # q => Other(x) # p
    BY <1>1, PeerFacts
  <2> QED BY <1>1, <1>2, <2>1 DEF OnTheWay
<1>3. CASE k.type = "Ack"
  <2>1. ProcessAck(p, k, AddPendingAck(pending_acks[p], k.sequence))
    BY <1>1, <1>3 DEF ProcessPacket
  <2> HIDE DEF p, q, k
  <2>2. recv' = recv
    BY <2>1 DEF ProcessAck
  <2>3. \A x \in Peers, c \in ChannelIds : ~Reliable(c) => send'[x][c] = send[x][c]
    BY <1>1, <2>1, ProcessAckSender DEF q
  <2>4. ASSUME NEW x \in Peers, NEW d \in SubstrateIds PROVE PlacedAt(x, d)'
    BY <1>1, <1>2, <1>3, <2>2, <2>3, SubstrateFacts, SamePlaces DEF PlacesInv
  <2> QED BY <2>4 DEF PlacesInv
<1>4. CASE k.type # "Ack"
  <2>1. PICK c, new :
             /\ c \in ChannelIds
             /\ k \in PacketsOf(c, sent[q][c])
             /\ AfterReceive(p, c, new)
             /\ Arrives(k, c, new, recv[p][c], sent[q][c], delivered[p][c])
    BY <1>1, <1>4, DataArrives
  <2>2. /\ recv' = [recv EXCEPT ![p][c] = new] /\ send' = send /\ k.channel = c
        /\ DOMAIN recv = Peers /\ \A x \in Peers : DOMAIN recv[x] = ChannelIds
    BY <2>1, PacketOfChannel DEF AfterReceive, ReceiveInv
  <2>3. ASSUME NEW x \in Peers, NEW d \in SubstrateIds PROVE PlacedAt(x, d)'
    <3>1. PlacedAt(x, d) /\ d \in ChannelIds /\ ~Reliable(d) /\ Other(x) \in Peers
      BY SubstrateFacts, PeerFacts DEF PlacesInv
    <3>2. CASE ~(x = q /\ d = c)
      <4>1. ~(Other(x) = p /\ d = c)
        BY <1>1, <3>2, PeerFacts
      <4> HIDE DEF p, q, k
      <4>2. recv'[Other(x)][d] = recv[Other(x)][d]
        BY <1>1, <2>1, <2>2, <3>1, <4>1
      <4>3. OnTheWay(x, d)' = OnTheWay(x, d)
        BY <1>2, <2>2, <3>2
      <4> QED BY <1>1, <2>2, <3>1, <4>2, <4>3, SamePlaces
    <3>3. CASE x = q /\ d = c
      <4> DEFINE K == OnTheWay(q, c)
                 ch == send[q][c]
                 r == recv[p][c]
                 out == delivered[p][c]
                 lens == sent[q][c]
      <4>1. k \in K
        BY <1>1, <1>4, <2>2 DEF OnTheWay
      <4>2. OnTheWay(q, c)' = K \ {k}
        <5>1. \A o \in net : o.to = p /\ o.packet = k => o = m
          BY DEF PairsInv
        <5> QED BY <1>1, <5>1 DEF OnTheWay
      <4>3. recv'[p][c] = new
        <5> HIDE DEF p
        <5> QED BY <1>1, <2>1, <2>2
      <4>4. /\ Placed(K, ch, r, out, lens) /\ K \in SUBSET UnreliablePackets(c, lens)
            /\ lens \in LengthSeqs /\ ReceiveUnreliableOK(r, lens)
        BY <1>1, <3>1, <3>3, OnTheWayIs, HalvesFacts DEF PlacedAt
      <4>5. k.type = "SmallUnreliable" => RoomFor(r, k.messages, lens, Channels[c].max)
        BY <1>1, <3>1, <3>3, <4>1, PacketHasRoom
      <4>6. /\ k.type = "SmallUnreliable" =>
                 /\ new.slices = r.slices
                 /\ RoomFor(r, k.messages, lens, Channels[c].max) =>
                      Adds(new, r, DataWaiting(k.messages))
            /\ k.type = "UnreliableSlice" => UnreliableReceived(new, r, Channels[c], lens, k)
        BY <2>1 DEF Arrives
      <4>7. send'[q][c] = ch /\ delivered'[p][c] = out /\ sent'[q][c] = lens
        BY <1>1, <2>2
      <4> HIDE DEF K, ch, r, out, lens, k
      <4>8. k.type \in {"SmallUnreliable", "UnreliableSlice"}
        BY <4>1, <4>4, DataOfPacket
      <4>9. Placed(K \ {k}, ch, new, out, lens)
        <5>1. CASE k.type = "SmallUnreliable"
          BY <4>1, <4>4, <4>5, <4>6, <5>1, SmallPlaces
        <5>2. CASE k.type = "UnreliableSlice"
          BY <4>1, <4>4, <4>6, <5>2, SlicePlaces
        <5> QED BY <4>8, <5>1, <5>2
      <4> HIDE DEF p, q
      <4> QED BY <1>1, <3>3, <4>2, <4>3, <4>7, <4>9 DEF PlacedAt
    <3> QED BY <3>2, <3>3
  <2> QED BY <2>3 DEF PlacesInv
<1> QED BY <1>3, <1>4

LEMMA PlacesNext ==
    ASSUME OrderedNetwork, RoomForAll
    PROVE  SenderInv /\ ReceiveInv /\ SliceIdsInv /\ MemoryInv /\ LengthsInv /\ CountInv
             /\ PairsInv /\ PlacesInv /\ [Next]_vars => PlacesInv'
<1> SUFFICES ASSUME SenderInv, ReceiveInv, SliceIdsInv, MemoryInv, LengthsInv, CountInv,
                    PairsInv, PlacesInv, [Next]_vars
             PROVE  PlacesInv'
  OBVIOUS
<1>1. ASSUME NEW p \in Senders, NEW c \in ChannelIds, NEW len \in Lengths, SendMessage(p, c, len)
      PROVE  PlacesInv'
  BY <1>1, RemoteConnectionAssumption, SendMessagePlaces
<1>2. ASSUME NEW p \in Peers, NEW c \in ChannelIds, ReceiveMessage(p, c) PROVE PlacesInv'
  BY <1>2, ReceiveMessagePlaces
<1>3. ASSUME NEW p \in Peers, Update(p, 1) PROVE PlacesInv'
  BY <1>3, UpdatePlaces
<1>4. ASSUME NEW p \in Peers, GetPacketsToSend(p) PROVE PlacesInv'
  BY <1>4, GetPacketsPlaces
<1>5. ASSUME NEW m \in net, Deliver(m) PROVE PlacesInv'
  BY <1>5, DeliverPlaces
<1>6. CASE UNCHANGED <<send, recv, net, sent, delivered>>
  <2>1. ASSUME NEW p \in Peers, NEW c \in SubstrateIds PROVE PlacedAt(p, c)'
    <3>1. OnTheWay(p, c)' = OnTheWay(p, c)
      BY <1>6 DEF OnTheWay
    <3> QED BY <1>6, <3>1, SamePlaces DEF PlacesInv
  <2> QED BY <2>1 DEF PlacesInv
<1>7. ASSUME NEW p \in Leavers, Disconnect(p) PROVE PlacesInv'
  BY <1>6, <1>7 DEF Disconnect
<1>8. ASSUME NEW m \in net, Duplicate(m) PROVE PlacesInv'
  BY <1>8 DEF Duplicate
<1>9. CASE UNCHANGED vars
  BY <1>6, <1>9 DEF vars, core
<1> QED BY <1>1, <1>2, <1>3, <1>4, <1>5, <1>7, <1>8, <1>9 DEF Next

(***************************************************************************)
(* On an ordered reliable network a channel that has it for a substrate    *)
(* loses no small message and repeats none ("not dropping messages when    *)
(* there are too many bytes to send in one tick", unreliable.rs:21): as    *)
(* long as its memory has room, each is in exactly one place.              *)
(***************************************************************************)
THEOREM SubstrateAlwaysConserves == Spec => [](OrderedNetwork /\ RoomForAll => SubstrateConserves)
<1> DEFINE Inv == OrderedNetwork /\ RoomForAll => PlacesInv
<1>1. Init => Inv /\ PairsInv /\ CountInv
  BY PlacesInit
<1>2. SenderInv /\ ReceiveInv /\ SliceIdsInv /\ MemoryInv /\ LengthsInv /\ CountInv /\ PairsInv
        /\ Inv /\ [Next]_vars => Inv'
  <2>1. (OrderedNetwork /\ RoomForAll)' = (OrderedNetwork /\ RoomForAll)
    BY DEF RoomForAll, SubstrateIds, UnreliableIds, ChannelIds, Reliable
  <2> QED BY <2>1, PlacesNext
<1>3. SenderInv /\ CountInv /\ PairsInv /\ [Next]_vars => CountInv' /\ PairsInv'
  BY CountNext, PairsNext DEF SenderInv
<1>4. SenderInv /\ Inv => (OrderedNetwork /\ RoomForAll => SubstrateConserves)
  <2> SUFFICES ASSUME SenderInv, PlacesInv, NEW p \in Peers, NEW c \in SubstrateIds
               PROVE  /\ IsInjective(delivered[p][c])
                      /\ \A k \in DOMAIN sent[p][c] : ~IsSliced(sent[p][c][k]) =>
                           \E i \in 1 .. 4 : \A j \in 1 .. 4 : Places(p, c, k - 1)[j] <=> i = j
    BY DEF SubstrateConserves
  <2>1. IsInjective(delivered[p][c])
    <3>1. Other(p) \in Peers /\ Other(Other(p)) = p
      BY PeerFacts
    <3> QED BY <3>1 DEF PlacesInv, PlacedAt, Placed, HandedOnce
  <2>2. ASSUME NEW k \in DOMAIN sent[p][c], ~IsSliced(sent[p][c][k])
        PROVE  \E i \in 1 .. 4 : \A j \in 1 .. 4 : Places(p, c, k - 1)[j] <=> i = j
    <3> DEFINE d == k - 1
               queued == d \in DataWaiting(send[p][c].queue)
               flying == \E packet \in OnTheWay(p, c) : d \in DataOf(packet)
               waiting == d \in DataWaiting(recv[Other(p)][c].messages)
               handed == d \in ToSet(delivered[Other(p)][c])
    <3>1. /\ ~(queued /\ flying) /\ ~(waiting /\ handed)
          /\ ~((queued \/ flying) /\ (waiting \/ handed))
          /\ queued \/ flying \/ waiting \/ handed
      BY <2>2 DEF PlacesInv, PlacedAt, Placed, Scattered, Carries, At, HandedOnce
    <3>2. Places(p, c, d) = <<queued, flying, waiting, handed>>
      BY DEF Places
    <3> DEFINE all == <<queued, flying, waiting, handed>>
    <3>3. all[1] = queued /\ all[2] = flying /\ all[3] = waiting /\ all[4] = handed
      OBVIOUS
    <3> HIDE DEF d, queued, flying, waiting, handed, all
    <3>4. 1 .. 4 = {1, 2, 3, 4}
      OBVIOUS
    <3>5. \E i \in {1, 2, 3, 4} : \A j \in {1, 2, 3, 4} : all[j] <=> i = j
      BY <3>1, <3>3
    <3> QED BY <3>2, <3>4, <3>5 DEF all, d
  <2> QED BY <2>1, <2>2
<1> QED BY <1>1, <1>2, <1>3, <1>4, ReceiveAlways, MemoryAlways, LengthsAlways, PTL DEF Spec

-----------------------------------------------------------------------------
(* The refinement of AckProtocol *)

(* No peer makes more packets than the bound, and none is told of more. *)
LimitsInv ==
    \A p \in Peers :
        /\ packet_sequence[p] <= MaxSequence[p]
        /\ \A s \in DOMAIN sent_packets[p] :
             sent_packets[p][s].info.type = "Ack" =>
                 sent_packets[p][s].info.largest < packet_sequence[Other(p)]

LEMMA LimitsKept ==
    ASSUME SenderInv, LimitsInv, Forgets, UNCHANGED packet_sequence
    PROVE  LimitsInv'
BY DEF LimitsInv, Forgets

LEMMA LimitsTick ==
    ASSUME SenderInv, LimitsInv, NEW p \in Peers, GetPacketsToSend(p)
    PROVE  LimitsInv'
<1>1. PICK packets, channels :
        /\ Tick(p, packets, channels)
        /\ packet_sequence' = [packet_sequence EXCEPT ![p] = @ + Len(packets)]
        /\ \A q \in Peers : q # p => sent_packets'[q] = sent_packets[q]
        /\ DOMAIN sent_packets'[p] = DOMAIN sent_packets[p] \union
             (packet_sequence[p] .. (packet_sequence[p] + Len(packets) - 1))
        /\ \A s \in DOMAIN sent_packets[p] : sent_packets'[p][s] = sent_packets[p][s]
        /\ \A i \in DOMAIN packets :
             sent_packets'[p][packet_sequence[p] + i - 1] =
                 [age |-> 0, info |-> SentInfo(packets[i], pending_acks[p])]
  BY GetPacketsFacts
<1>2. /\ packet_sequence \in [Peers -> Nat]
      /\ Len(packets) \in Nat /\ DOMAIN packets = 1 .. Len(packets)
  BY <1>1 DEF SenderInv, ShapeInv, Tick
<1>3. packet_sequence'[p] <= MaxSequence[p]
  <2> DEFINE out == PackChannels(p)
             made == out.packets \o AckPackets(p, out.sequence)
  <2>1. Tick(p, made, out.send)
    BY TickPackets
  <2>2. /\ packet_sequence' = [packet_sequence EXCEPT ![p] = packet_sequence[p] + Len(made) - 1 + 1]
        /\ packet_sequence[p] + Len(made) - 1 < MaxSequence[p]
    BY DEF GetPacketsToSend, Transmit
  <2> HIDE DEF made
  <2>3. Len(made) \in Nat /\ MaxSequence[p] \in Nat
    BY <2>1, RemoteConnectionAssumption DEF Tick
  <2> QED BY <1>2, <2>2, <2>3
<1>4. ASSUME NEW q \in Peers
      PROVE  packet_sequence[q] <= packet_sequence'[q] /\ packet_sequence'[q] <= MaxSequence[q]
  BY <1>1, <1>2, <1>3 DEF LimitsInv
<1>5. ASSUME NEW q \in Peers, NEW s \in DOMAIN sent_packets'[q],
             sent_packets'[q][s].info.type = "Ack"
      PROVE  sent_packets'[q][s].info.largest < packet_sequence'[Other(q)]
  <2>1. Other(q) \in Peers
    BY PeerFacts
  <2>2. packet_sequence[Other(q)] \in Nat /\ packet_sequence'[Other(q)] \in Nat
    BY <1>1, <1>2, <2>1
  <2>3. CASE s \in DOMAIN sent_packets[q] /\ sent_packets'[q][s] = sent_packets[q][s]
    <3>1. sent_packets[q][s].info.largest < packet_sequence[Other(q)]
      BY <1>5, <2>3 DEF LimitsInv
    <3>2. sent_packets[q][s].info.largest \in Nat
      <4>1. sent_packets[q][s].info \in Infos(sent[q]) /\ sent_packets[q][s].info.type = "Ack"
        BY <1>5, <2>3 DEF SenderInv, RememberedInv, Remembered
      <4> QED BY <4>1 DEF Infos
    <3> QED BY <1>4, <2>1, <2>2, <2>3, <3>1, <3>2
  <2>4. CASE ~(s \in DOMAIN sent_packets[q] /\ sent_packets'[q][s] = sent_packets[q][s])
    <3>1. q = p /\ s \in packet_sequence[p] .. (packet_sequence[p] + Len(packets) - 1)
      BY <1>1, <1>5, <2>4
    <3>2. PICK i \in DOMAIN packets : s = packet_sequence[p] + i - 1
      <4>1. s - packet_sequence[p] + 1 \in 1 .. Len(packets)
        BY <1>2, <3>1
      <4>2. s = packet_sequence[p] + (s - packet_sequence[p] + 1) - 1
        BY <1>2, <3>1
      <4> QED BY <1>2, <4>1, <4>2
    <3> DEFINE info == SentInfo(packets[i], pending_acks[p])
    <3>3. sent_packets'[q][s].info = info
      <4>1. sent_packets'[p][packet_sequence[p] + i - 1] = [age |-> 0, info |-> info]
        BY <1>1
      <4> HIDE DEF info
      <4> QED BY <3>1, <3>2, <4>1
    <3>4. IsAckOf(packets[i], p)
      <4>1. packets[i] \in DataPackets(sent[p]) \/ IsAckOf(packets[i], p)
        BY <1>1 DEF Tick
      <4>2. ASSUME packets[i] \in DataPackets(sent[p]) PROVE info.type # "Ack"
        BY <4>2, DataPacketTypes DEF SentInfo
      <4> QED BY <1>5, <3>3, <4>1, <4>2
    <3>5. info.largest < packet_sequence[Other(p)]
      BY <3>4, AckInfo
    <3>6. info.largest \in Nat
      <4>1. info \in Infos(sent[p]) /\ info.type = "Ack"
        BY <1>5, <3>3, <3>4, AckInfo
      <4> HIDE DEF info
      <4> QED BY <4>1 DEF Infos
    <3> HIDE DEF info
    <3> QED BY <1>4, <2>1, <2>2, <3>1, <3>3, <3>5, <3>6
  <2> QED BY <2>3, <2>4
<1> QED BY <1>4, <1>5 DEF LimitsInv

LEMMA LimitsNext ==
    SenderInv /\ ReceiveInv /\ SliceIdsInv /\ StoredInv /\ LimitsInv /\ [Next]_vars => LimitsInv'
<1> SUFFICES ASSUME SenderInv, ReceiveInv, SliceIdsInv, StoredInv, LimitsInv, [Next]_vars
             PROVE  LimitsInv'
  OBVIOUS
<1>1. ASSUME NEW p \in Peers, Update(p, 1) PROVE LimitsInv'
  BY <1>1, UpdateForgets, LimitsKept DEF Update
<1>2. ASSUME NEW p \in Peers, GetPacketsToSend(p) PROVE LimitsInv'
  BY <1>2, LimitsTick
<1>3. ASSUME NEW m \in net, Deliver(m) \/ Duplicate(m) PROVE LimitsInv'
  <2>1. ProcessPacket(m.to, m.packet) /\ UNCHANGED packet_sequence
    BY <1>3 DEF Deliver, Duplicate, ProcessPacket
  <2> QED BY <2>1, ProcessRecordsStored, LimitsKept DEF StoredInv
<1>4. UNCHANGED <<packet_sequence, sent_packets>> => LimitsInv'
  BY LimitsKept DEF Forgets
<1> QED BY <1>1, <1>2, <1>3, <1>4
        DEF Next, SendMessage, ReceiveMessage, Disconnect, vars, core

LEMMA LimitsInit == Init => LimitsInv
<1> SUFFICES ASSUME Init PROVE LimitsInv
  OBVIOUS
<1>1. \A p \in Peers : packet_sequence[p] = 0 /\ MaxSequence[p] \in Nat /\ DOMAIN sent_packets[p] = {}
  BY RemoteConnectionAssumption DEF Init
<1> QED BY <1>1 DEF LimitsInv

-----------------------------------------------------------------------------
(* What a step is to AckProtocol *)
Follows == Transfer!Next \/ UNCHANGED Transfer!vars

LEMMA EndsFacts ==
    /\ Origin \in Peers /\ Target \in Peers /\ Origin # Target
    /\ Other(Origin) = Target /\ Other(Target) = Origin
    /\ \A q \in Peers : q = Origin \/ q = Target
    /\ Channel \in ChannelIds /\ Reliable(Channel)
BY RefinementAssumption, PeerFacts DEF Target

(* The parts of what was sent, one by one *)
LEMMA OfferedPart ==
    ASSUME NEW lens \in LengthSeqs
    PROVE  /\ \A id, i : <<id, i>> \in OfferedParts(lens) <=>
                id \in Nat /\ id + 1 \in DOMAIN lens /\ i \in Parts(lens[id + 1])
           /\ \A x \in OfferedParts(lens) : x = <<x[1], x[2]>>
           /\ OfferedParts(lens) \subseteq Nat \X Nat
<1>1. DOMAIN lens = 1 .. Len(lens) /\ Len(lens) \in Nat
  BY LenProperties DEF LengthSeqs
<1>2. ASSUME NEW x \in OfferedParts(lens)
      PROVE  \E id \in Nat : id + 1 \in DOMAIN lens /\ \E i \in Parts(lens[id + 1]) : x = <<id, i>>
  <2>1. PICK k \in DOMAIN lens : \E i \in Parts(lens[k]) : x = <<k - 1, i>>
    BY DEF OfferedParts
  <2>2. k - 1 \in Nat /\ (k - 1) + 1 = k
    BY <1>1
  <2>3. PICK i \in Parts(lens[k]) : x = <<k - 1, i>>
    BY <2>1
  <2> QED BY <2>2, <2>3
<1>3. ASSUME NEW id \in Nat, id + 1 \in DOMAIN lens, NEW i \in Parts(lens[id + 1])
      PROVE  <<id, i>> \in OfferedParts(lens)
  <2> DEFINE k == id + 1
  <2>1. k \in DOMAIN lens /\ k - 1 = id /\ i \in Parts(lens[k])
    BY <1>3
  <2> HIDE DEF k
  <2>2. <<k - 1, i>> \in {<<k - 1, j>> : j \in Parts(lens[k])}
    BY <2>1
  <2>3. <<k - 1, i>> \in OfferedParts(lens)
    BY <2>1, <2>2 DEF OfferedParts
  <2> QED BY <2>1, <2>3
<1>4. ASSUME NEW len PROVE Parts(len) \subseteq Nat
  BY DEF Parts
<1>5. \A x \in OfferedParts(lens) : x \in Nat \X Nat
  BY <1>2, <1>4
<1>6. \A x \in OfferedParts(lens) : x = <<x[1], x[2]>>
  BY <1>2
<1>7. ASSUME NEW id, NEW i, <<id, i>> \in OfferedParts(lens)
      PROVE  id \in Nat /\ id + 1 \in DOMAIN lens /\ i \in Parts(lens[id + 1])
  <2>1. PICK a \in Nat : a + 1 \in DOMAIN lens /\ \E b \in Parts(lens[a + 1]) : <<id, i>> = <<a, b>>
    BY <1>2, <1>7
  <2> QED BY <2>1
<1> QED BY <1>3, <1>5, <1>6, <1>7

(* The parts of a peer that has sent lens that are at the other end *)
HeldOf(lens, r, out) == {x \in OfferedParts(lens) : HasPart(r, out, x[1], x[2])}

LEMMA StoredIs ==
    /\ PartsStored = HeldOf(sent[Origin][Channel], recv[Target][Channel], delivered[Target][Channel])
    /\ PartsStored' =
         HeldOf(sent'[Origin][Channel], recv'[Target][Channel], delivered'[Target][Channel])
BY DEF PartsStored, PartsAtOther, HeldOf, HasPart, Has, Arrived, Target

LEMMA SameParts ==
    ASSUME NEW ch, NEW old, SameUnacked(ch, old)
    PROVE  UnackedParts(ch) = UnackedParts(old)
<1>1. /\ DOMAIN ch.unacked = DOMAIN old.unacked
      /\ \A id \in DOMAIN old.unacked : /\ ch.unacked[id].len = old.unacked[id].len
                                        /\ ch.unacked[id].acked = old.unacked[id].acked
  BY DEF SameUnacked
<1>2. ASSUME NEW id, NEW i
      PROVE  <<id, i>> \in UnackedParts(ch) <=> <<id, i>> \in UnackedParts(old) /\ <<id, i>> \notin {}
  BY <1>1, UnackedPart
<1>3. UnackedParts(ch) = UnackedParts(old) \ {}
  BY <1>2, UnackedWithout
<1> QED BY <1>3

(* A step that AckProtocol does not see *)
SameSender ==
    UNCHANGED <<packet_sequence[Origin], PartsOffered, PartsUnacked, PartsRemembered>>

SameReceiver == UNCHANGED <<pending_acks[Target], PartsStored>>

SameNet == UNCHANGED <<PacketsFlying, AcksFlying>>

LEMMA Stutters ==
    ASSUME SameSender, SameReceiver, SameNet, status'[Target] = status[Target]
    PROVE  Follows
BY DEF Follows, SameSender, SameReceiver, SameNet, Open,
       Transfer!vars, Transfer!sender, Transfer!receiver

LEMMA Fails ==
    ASSUME SameSender, SameReceiver, SameNet, status'[Target] # "open"
    PROVE  Follows
<1>1. (~Open(Target))' = TRUE
  BY DEF Open
<1>2. Transfer!Fail
  BY <1>1 DEF SameSender, SameReceiver, SameNet, Transfer!Fail, Transfer!sender
<1> QED BY <1>2 DEF Follows, Transfer!Next

LEMMA SameNetIfNet ==
    ASSUME net' = net PROVE SameNet
BY DEF SameNet, PacketsFlying, AcksFlying, PacketsTo

LEMMA SameSenderIf ==
    ASSUME packet_sequence'[Origin] = packet_sequence[Origin],
           sent'[Origin][Channel] = sent[Origin][Channel],
           UnackedParts(send'[Origin][Channel]) = UnackedParts(send[Origin][Channel]),
           sent_packets'[Origin] = sent_packets[Origin]
    PROVE  SameSender
BY DEF SameSender, PartsOffered, PartsUnacked, PartsRemembered

LEMMA SameReceiverIf ==
    ASSUME pending_acks'[Target] = pending_acks[Target],
           sent'[Origin][Channel] = sent[Origin][Channel],
           \A x \in Nat \X Nat :
             HasPart(recv'[Target][Channel], delivered'[Target][Channel], x[1], x[2]) <=>
                 HasPart(recv[Target][Channel], delivered[Target][Channel], x[1], x[2]),
           sent[Origin][Channel] \in LengthSeqs
    PROVE  SameReceiver
<1>1. OfferedParts(sent[Origin][Channel]) \subseteq Nat \X Nat
  BY OfferedPart
<1>2. PartsStored' = PartsStored
  BY <1>1, StoredIs DEF HeldOf
<1> QED BY <1>2 DEF SameReceiver

(* A new message offers new parts, of which nothing is at the other end yet. *)
LEMMA NewPartsOffered ==
    ASSUME NEW lens \in LengthSeqs, NEW len \in Nat, NEW ch, SendReliableOK(ch, lens),
           NEW r, NEW cfg, NEW out, ReceiveReliableOK(r, cfg, lens, out)
    PROVE  LET more == Append(lens, len)
               new == OfferedParts(more) \ OfferedParts(lens)
           IN  /\ OfferedParts(lens) \subseteq OfferedParts(more)
               /\ UnackedParts(SendReliable(ch, len)) = UnackedParts(ch) \union new
               /\ HeldOf(more, r, out) = HeldOf(lens, r, out)
<1> DEFINE more == Append(lens, len)
           id0 == Len(lens)
           new == OfferedParts(more) \ OfferedParts(lens)
           sending == SendReliable(ch, len)
<1>1. /\ more \in LengthSeqs /\ id0 \in Nat /\ DOMAIN lens = 1 .. id0 /\ DOMAIN more = 1 .. (id0 + 1)
      /\ \A i \in DOMAIN lens : more[i] = lens[i]
      /\ more[id0 + 1] = len
  BY AppendGrows DEF Grown
<1>2. /\ DOMAIN sending.unacked = DOMAIN ch.unacked \union {id0}
      /\ \A id \in DOMAIN ch.unacked : id # id0 => sending.unacked[id] = ch.unacked[id]
      /\ sending.unacked[id0].acked = {} /\ sending.unacked[id0].len = len
  BY DEF SendReliable, With, UnackedMessage, SendReliableOK
<1> HIDE DEF more, id0, sending
<1>3. ASSUME NEW id \in Nat
      PROVE  /\ id + 1 \in DOMAIN more <=> id + 1 \in DOMAIN lens \/ id = id0
             /\ id = id0 => id + 1 \notin DOMAIN lens
             /\ id + 1 \in DOMAIN lens => more[id + 1] = lens[id + 1]
  BY <1>1
<1>4. ASSUME NEW id, NEW i
      PROVE  <<id, i>> \in OfferedParts(more) <=>
                 <<id, i>> \in OfferedParts(lens) \/ (id = id0 /\ i \in Parts(len))
  BY <1>1, <1>3, OfferedPart
<1>5. \A id, i : <<id, i>> \in OfferedParts(lens) => id # id0
  BY <1>1, <1>3, OfferedPart
<1>6. OfferedParts(lens) \subseteq OfferedParts(more)
  <2> SUFFICES ASSUME NEW x \in OfferedParts(lens) PROVE x \in OfferedParts(more)
    OBVIOUS
  <2>1. x = <<x[1], x[2]>>
    BY OfferedPart
  <2> QED BY <1>4, <2>1
<1>7. ASSUME NEW id, NEW i
      PROVE  <<id, i>> \in new <=> id = id0 /\ i \in Parts(len)
  BY <1>4, <1>5
<1>8. \A x \in new : x = <<x[1], x[2]>>
  BY <1>1, OfferedPart
<1> HIDE DEF new
<1>9. id0 \notin DOMAIN ch.unacked
  BY <1>1, <1>3 DEF SendReliableOK
<1>10. ASSUME NEW id, NEW i
       PROVE  <<id, i>> \in UnackedParts(sending) <=>
                  <<id, i>> \in UnackedParts(ch) \/ <<id, i>> \in new
  <2>1. CASE id = id0
    BY <1>2, <1>7, <1>9, <2>1, UnackedPart
  <2>2. CASE id # id0
    BY <1>2, <1>7, <2>2, UnackedPart
  <2> QED BY <2>1, <2>2
<1>11. UnackedParts(sending) = UnackedParts(ch) \union new
  <2>1. ASSUME NEW x \in UnackedParts(sending) PROVE x \in UnackedParts(ch) \union new
    BY <1>10, UnackedPart
  <2>2. ASSUME NEW x \in UnackedParts(ch) \union new PROVE x \in UnackedParts(sending)
    BY <1>8, <1>10, UnackedPart
  <2> QED BY <2>1, <2>2
<1>12. \A i : ~HasPart(r, out, id0, i)
  <2>1. id0 \notin DOMAIN r.messages /\ id0 \notin DOMAIN r.slices
    BY <1>1, <1>3 DEF ReceiveReliableOK
  <2>2. id0 \notin ToSet(out)
    <3>1. out \in Seq(Nat) /\ DOMAIN out = 1 .. Len(out) /\ Len(out) \in Nat
      BY LenProperties DEF ReceiveReliableOK
    <3>2. CASE cfg.ordered
      <4>1. Len(out) <= id0 /\ \A k \in DOMAIN out : out[k] = k - 1
        BY <3>2 DEF ReceiveReliableOK, OrderedOK, id0
      <4>2. \A k \in DOMAIN out : out[k] # id0
        BY <1>1, <3>1, <4>1
      <4> QED BY <4>2 DEF ToSet
    <3>3. CASE ~cfg.ordered
      <4>1. \A k \in DOMAIN out : out[k] + 1 \in DOMAIN lens
        BY <3>3 DEF ReceiveReliableOK, UnorderedOK
      <4>2. \A k \in DOMAIN out : out[k] # id0
        BY <1>1, <1>3, <4>1
      <4> QED BY <4>2 DEF ToSet
    <3> QED BY <3>2, <3>3
  <2> QED BY <2>1, <2>2 DEF HasPart, Has
<1>13. HeldOf(more, r, out) = HeldOf(lens, r, out)
  <2>1. ASSUME NEW x \in OfferedParts(more), HasPart(r, out, x[1], x[2])
        PROVE  x \in OfferedParts(lens)
    <3>1. x = <<x[1], x[2]>> /\ x[1] # id0
      BY <1>1, <1>12, <2>1, OfferedPart
    <3> QED BY <1>4, <2>1, <3>1
  <2> QED BY <1>6, <2>1 DEF HeldOf
<1> QED BY <1>6, <1>11, <1>13 DEF more, new, sending

LEMMA SendMessageFollows ==
    ASSUME SenderInv, ReceiveInv, NEW p \in Peers, NEW c \in ChannelIds, NEW len \in Lengths,
           SendMessage(p, c, len)
    PROVE  Follows
<1>1. /\ UNCHANGED <<packet_sequence, sent_packets, pending_acks, recv, net, duplicated, delivered>>
      /\ \/ Reliable(c) /\ SendReliableMessage(p, c, len)
         \/ ~Reliable(c) /\ SendUnreliableMessage(p, c, len)
  BY DEF SendMessage
<1>2. /\ DOMAIN send = Peers /\ DOMAIN send[p] = ChannelIds /\ DOMAIN status = Peers
      /\ sent \in [Peers -> [ChannelIds -> LengthSeqs]]
  BY DEF SenderInv, ShapeInv, ReceiveInv
<1>3. sent[Origin][Channel] \in LengthSeqs
  BY <1>2, EndsFacts
<1>4. SameNet
  BY <1>1, SameNetIfNet
<1>5. CASE /\ sent'[Origin][Channel] = sent[Origin][Channel]
           /\ send'[Origin][Channel] = send[Origin][Channel]
  <2>1. SameSender /\ SameReceiver
    BY <1>1, <1>3, <1>5, SameSenderIf, SameReceiverIf
  <2>2. status' = status \/ status' = [status EXCEPT ![p] = "SendChannelError"]
    BY <1>1 DEF SendReliableMessage, SendUnreliableMessage
  <2>3. status'[Target] = status[Target] \/ status'[Target] # "open"
    BY <1>2, <2>2, EndsFacts
  <2> QED BY <1>4, <2>1, <2>3, Stutters, Fails
<1>6. CASE ~(/\ sent'[Origin][Channel] = sent[Origin][Channel]
             /\ send'[Origin][Channel] = send[Origin][Channel])
  <2> DEFINE lens == sent[Origin][Channel]
             ch == send[Origin][Channel]
             r == recv[Target][Channel]
             out == delivered[Target][Channel]
             more == Append(lens, len)
  <2>1. p = Origin /\ c = Channel
    <3>1. \/ UNCHANGED <<send, sent>>
          \/ \E x, y : /\ send' = [send EXCEPT ![p][c] = x]
                       /\ sent' = [sent EXCEPT ![p][c] = y]
      BY <1>1 DEF SendReliableMessage, SendUnreliableMessage
    <3>2. PICK x, y : /\ send' = [send EXCEPT ![p][c] = x]
                      /\ sent' = [sent EXCEPT ![p][c] = y]
      BY <1>6, <3>1
    <3> QED BY <1>2, <1>6, <3>2, EndsFacts
  <2>2. /\ sent'[Origin][Channel] = more /\ send'[Origin][Channel] = SendReliable(ch, len)
        /\ status' = status
    <3>1. SendReliableMessage(Origin, Channel, len)
      BY <1>1, <2>1, EndsFacts
    <3>2. CanSendMessage(ch, len, Channels[Channel].max)
      BY <1>6, <3>1 DEF SendReliableMessage
    <3>3. /\ send' = [send EXCEPT ![Origin][Channel] = SendReliable(ch, len)]
          /\ sent' = [sent EXCEPT ![Origin][Channel] = more]
          /\ status' = status
      BY <3>1, <3>2 DEF SendReliableMessage
    <3> QED BY <1>2, <2>1, <3>3, EndsFacts
  <2>3. SendReliableOK(ch, lens) /\ ReceiveReliableOK(r, Channels[Channel], lens, out) /\ len \in Nat
    BY EndsFacts, RemoteConnectionAssumption DEF SenderInv, SendInv, SendOK, ReceiveInv, ReceiveOK
  <2> HIDE DEF lens, ch, r, out, more
  <2>4. lens \in LengthSeqs
    BY <1>3 DEF lens
  <2>5. /\ OfferedParts(lens) \subseteq OfferedParts(more)
        /\ UnackedParts(SendReliable(ch, len)) =
             UnackedParts(ch) \union (OfferedParts(more) \ OfferedParts(lens))
        /\ HeldOf(more, r, out) = HeldOf(lens, r, out)
    BY <2>3, <2>4, NewPartsOffered DEF more
  <2>6. /\ PartsOffered = OfferedParts(lens) /\ PartsOffered' = OfferedParts(more)
        /\ PartsUnacked = UnackedParts(ch) /\ PartsUnacked' = UnackedParts(SendReliable(ch, len))
    BY <2>2 DEF PartsOffered, PartsUnacked, lens, ch
  <2>7. PartsStored' = PartsStored
    BY <1>1, <2>2, <2>5, StoredIs DEF lens, r, out
  <2>8. PartsOffered' \in SUBSET (Nat \X Nat)
    <3>1. more \in LengthSeqs
      BY <2>3, <2>4, AppendGrows DEF more
    <3> QED BY <2>6, <3>1, OfferedPart
  <2>9. PartsRemembered' = PartsRemembered
    BY <1>1 DEF PartsRemembered
  <2>10. Open(Target)' = Open(Target)
    BY <2>2 DEF Open
  <2>11. PartsUnacked' = PartsUnacked \union (PartsOffered' \ PartsOffered)
    BY <2>5, <2>6
  <2>12. PartsOffered \subseteq PartsOffered'
    BY <2>5, <2>6
  <2>13. Transfer!Offer
    BY <1>1, <1>4, <2>7, <2>8, <2>9, <2>10, <2>11, <2>12
       DEF SameNet, Transfer!Offer, Transfer!receiver
  <2> QED BY <2>13 DEF Follows, Transfer!Next
<1> QED BY <1>5, <1>6

LEMMA ReceiveMessageFollows ==
    ASSUME SenderInv, ReceiveInv, NEW p \in Peers, NEW c \in ChannelIds, ReceiveMessage(p, c)
    PROVE  Follows
<1> DEFINE r == recv[Target][Channel]
           out == delivered[Target][Channel]
           lens == sent[Origin][Channel]
<1>1. UNCHANGED <<packet_sequence, sent_packets, pending_acks, send, status, net, sent>>
  BY DEF ReceiveMessage
<1>2. /\ DOMAIN recv = Peers /\ DOMAIN delivered = Peers
      /\ DOMAIN recv[p] = ChannelIds /\ DOMAIN delivered[p] = ChannelIds
      /\ lens \in LengthSeqs /\ ReceiveReliableOK(r, Channels[Channel], lens, out)
  BY EndsFacts DEF SenderInv, ShapeInv, ReceiveInv, ReceiveOK
<1>3. \A x \in Nat \X Nat :
        HasPart(recv'[Target][Channel], delivered'[Target][Channel], x[1], x[2]) <=>
            HasPart(r, out, x[1], x[2])
  <2>1. CASE p = Target /\ c = Channel
    <3>1. PICK id \in NextReceivable(recv[p][c], Channels[c]) :
            /\ recv' = [recv EXCEPT ![p][c] = TakeMessage(@, id, Channels[c])]
            /\ delivered' = [delivered EXCEPT ![p][c] = Append(@, id)]
      BY <2>1, EndsFacts DEF ReceiveMessage
    <3>2. /\ recv'[Target][Channel] = TakeMessage(r, id, Channels[Channel])
          /\ delivered'[Target][Channel] = Append(out, id)
      BY <1>2, <2>1, <3>1
    <3>3. MessageTaken(TakeMessage(r, id, Channels[Channel]), r, Channels[Channel], lens, out, id)
      <4>1. id \in NextReceivable(r, Channels[Channel])
        BY <2>1, <3>1
      <4>2. Channels[Channel].ordered \in BOOLEAN /\ Channels[Channel].max \in Nat
        BY EndsFacts, ChannelFacts
      <4> HIDE DEF r, out, lens
      <4> QED BY <1>2, <4>1, <4>2, TakeMessageKeeps
    <3> HIDE DEF r, out
    <3> QED BY <3>2, <3>3 DEF MessageTaken, HasPart
  <2>2. CASE ~(p = Target /\ c = Channel)
    <3>1. \E x, y : /\ recv' = [recv EXCEPT ![p][c] = x]
                    /\ delivered' = [delivered EXCEPT ![p][c] = y]
      BY DEF ReceiveMessage
    <3>2. recv'[Target][Channel] = r /\ delivered'[Target][Channel] = out
      BY <1>2, <2>2, <3>1, EndsFacts DEF ReceiveInv
    <3> QED BY <3>2
  <2> QED BY <2>1, <2>2
<1>4. SameSender /\ SameReceiver /\ SameNet
  BY <1>1, <1>2, <1>3, SameSenderIf, SameReceiverIf, SameNetIfNet
<1> QED BY <1>1, <1>4, Stutters

LEMMA DisconnectFollows ==
    ASSUME SenderInv, ReceiveInv, NEW p \in Peers, Disconnect(p) PROVE Follows
<1>1. /\ UNCHANGED <<packet_sequence, sent_packets, pending_acks, send, recv, net, sent, delivered>>
      /\ status' = [status EXCEPT ![p] = "Disconnected"] /\ DOMAIN status = Peers
      /\ sent[Origin][Channel] \in LengthSeqs
  BY EndsFacts DEF Disconnect, ReceiveInv, SenderInv, ShapeInv
<1>2. SameSender /\ SameReceiver /\ SameNet
  BY <1>1, SameSenderIf, SameReceiverIf, SameNetIfNet
<1>3. status'[Target] = status[Target] \/ status'[Target] # "open"
  BY <1>1, EndsFacts
<1> QED BY <1>2, <1>3, Stutters, Fails

LEMMA UpdateFollows ==
    ASSUME SenderInv, ReceiveInv, NEW p \in Peers, Update(p, 1) PROVE Follows
<1>1. /\ UNCHANGED <<packet_sequence, pending_acks, status, net, sent, delivered>>
      /\ send' = [send EXCEPT ![p] = [c \in ChannelIds |->
                    IF Reliable(c) THEN AgeUnacked(send[p][c], 1) ELSE send[p][c]]]
      /\ recv' = [recv EXCEPT ![p] = [c \in ChannelIds |->
                    IF Reliable(c) THEN recv[p][c] ELSE DiscardIncompleteOldSlices(recv[p][c], 1)]]
      /\ DOMAIN send = Peers /\ DOMAIN recv = Peers /\ sent[Origin][Channel] \in LengthSeqs
  BY EndsFacts DEF Update, ReceiveInv, SenderInv, ShapeInv
<1>2. UnackedParts(send'[Origin][Channel]) = UnackedParts(send[Origin][Channel])
  <2>1. CASE p = Origin
    <3>1. send'[Origin][Channel] = AgeUnacked(send[Origin][Channel], 1)
      BY <1>1, <2>1, EndsFacts
    <3>2. SendReliableOK(send[Origin][Channel], sent[Origin][Channel])
      BY EndsFacts DEF SenderInv, SendInv, SendOK
    <3>3. SameUnacked(AgeUnacked(send[Origin][Channel], 1), send[Origin][Channel])
      BY <3>2, AgeUnackedKeeps
    <3> QED BY <3>1, <3>3, SameParts
  <2>2. CASE p # Origin
    BY <1>1, <2>2, EndsFacts
  <2> QED BY <2>1, <2>2
<1>3. recv'[Target][Channel] = recv[Target][Channel]
  BY <1>1, EndsFacts DEF ReceiveInv
<1>4. SameReceiver /\ SameNet
  BY <1>1, <1>3, SameReceiverIf, SameNetIfNet
<1>5. UNCHANGED <<PartsOffered, PartsUnacked>>
  BY <1>1, <1>2 DEF PartsOffered, PartsUnacked
<1>6. Open(Target)' = Open(Target)
  BY <1>1 DEF Open
<1>7. \E lost \in SUBSET DOMAIN PartsRemembered :
        PartsRemembered' = [s \in DOMAIN PartsRemembered \ lost |-> PartsRemembered[s]]
  <2> DEFINE old == sent_packets[Origin]
             new == sent_packets'[Origin]
             lost == DOMAIN old \ DOMAIN new
  <2>1. DOMAIN new \subseteq DOMAIN old /\ \A s \in DOMAIN new : new[s].info = old[s].info
    BY UpdateForgets, EndsFacts DEF Forgets
  <2>2. /\ PartsRemembered = [s \in DOMAIN old |-> PartsOfInfo(old[s].info, Channel)]
        /\ PartsRemembered' = [s \in DOMAIN new |-> PartsOfInfo(new[s].info, Channel)]
    BY DEF PartsRemembered
  <2> HIDE DEF old, new
  <2>3. lost \in SUBSET DOMAIN PartsRemembered /\ DOMAIN PartsRemembered \ lost = DOMAIN new
    BY <2>1, <2>2
  <2> HIDE DEF lost
  <2>4. \A s \in DOMAIN new : PartsOfInfo(new[s].info, Channel) = PartsRemembered[s]
    BY <2>1, <2>2
  <2>5. PartsRemembered' = [s \in DOMAIN PartsRemembered \ lost |-> PartsRemembered[s]]
    BY <2>2, <2>3, <2>4
  <2> QED BY <2>3, <2>5
<1>8. Transfer!Forget
  BY <1>1, <1>4, <1>5, <1>6, <1>7
     DEF SameReceiver, SameNet, Transfer!Forget, Transfer!receiver
<1> QED BY <1>8 DEF Follows, Transfer!Next

(* What a packet carries, what is remembered of it, and what was sent *)
LEMMA PartsOfInfoOffered ==
    ASSUME NEW lens, NEW c \in ChannelIds, lens[c] \in LengthSeqs, NEW info \in Infos(lens)
    PROVE  PartsOfInfo(info, c) \subseteq OfferedParts(lens[c])
<1>1. CASE info.type = "ReliableMessages" /\ info.channel = c
  <2>1. PartsOfInfo(info, c) = {<<id, 0>> : id \in info.ids}
    BY <1>1 DEF PartsOfInfo
  <2>2. \A id \in info.ids : id \in Nat /\ id + 1 \in DOMAIN lens[c] /\ ~IsSliced(lens[c][id + 1])
    BY <1>1 DEF Infos
  <2>3. \A id \in info.ids : <<id, 0>> \in OfferedParts(lens[c])
    BY <2>2, OfferedPart DEF Parts
  <2> QED BY <2>1, <2>3
<1>2. CASE info.type = "ReliableSliceMessage" /\ info.channel = c
  <2>1. PartsOfInfo(info, c) = {<<info.id, info.index>>}
    BY <1>2 DEF PartsOfInfo
  <2>2. /\ info.id \in Nat /\ info.id + 1 \in DOMAIN lens[c] /\ IsSliced(lens[c][info.id + 1])
        /\ info.index \in Nat /\ info.index < NumSlices(lens[c][info.id + 1])
    BY <1>2 DEF Infos
  <2>3. info.index \in Parts(lens[c][info.id + 1])
    <3>1. lens[c][info.id + 1] \in Nat
      BY <2>2, ElementOfSeq, LenProperties DEF LengthSeqs
    <3>2. NumSlices(lens[c][info.id + 1]) \in Nat
      BY <2>2, <3>1, SliceCount
    <3> QED BY <2>2, <3>2 DEF Parts
  <2> QED BY <2>1, <2>2, <2>3, OfferedPart
<1>3. CASE ~(\/ info.type = "ReliableMessages" /\ info.channel = c
             \/ info.type = "ReliableSliceMessage" /\ info.channel = c)
  BY <1>3 DEF PartsOfInfo
<1> QED BY <1>1, <1>2, <1>3

LEMMA InfoHasParts ==
    ASSUME NEW k, NEW acks, NEW c,
           k.type \in {"SmallReliable", "ReliableSlice", "SmallUnreliable", "UnreliableSlice", "Ack"}
    PROVE  PartsOfInfo(SentInfo(k, acks), c) = PartsOfPacket(k, c)
<1>1. CASE k.type = "SmallReliable"
  <2> DEFINE ids == {m.id : m \in ToSet(k.messages)}
  <2>1. SentInfo(k, acks) = [type |-> "ReliableMessages", channel |-> k.channel, ids |-> ids]
    BY <1>1 DEF SentInfo
  <2>2. {<<id, 0>> : id \in ids} = {<<m.id, 0>> : m \in ToSet(k.messages)}
    OBVIOUS
  <2> HIDE DEF ids
  <2> QED BY <1>1, <2>1, <2>2 DEF PartsOfInfo, PartsOfPacket
<1>2. CASE k.type = "ReliableSlice"
  BY <1>2 DEF SentInfo, PartsOfInfo, PartsOfPacket
<1>3. CASE k.type = "Ack"
  <2>1. SentInfo(k, acks).type = "Ack"
    BY <1>3 DEF SentInfo
  <2> QED BY <1>3, <2>1 DEF PartsOfInfo, PartsOfPacket
<1>4. CASE k.type \in {"SmallUnreliable", "UnreliableSlice"}
  <2>1. SentInfo(k, acks).type = "None"
    BY <1>4 DEF SentInfo
  <2> QED BY <1>4, <2>1 DEF PartsOfInfo, PartsOfPacket
<1> QED BY <1>1, <1>2, <1>3, <1>4

LEMMA PacketOfUnacked ==
    ASSUME NEW c \in ChannelIds, NEW lens \in LengthSeqs, NEW k \in ReliablePackets(c, lens),
           NEW ch, SendReliableOK(ch, lens), OfUnacked(k, ch.unacked)
    PROVE  PartsOfPacket(k, c) \subseteq UnackedParts(ch)
<1>1. CASE k.type = "SmallReliable"
  <2>1. /\ PartsOfPacket(k, c) = {<<m.id, 0>> : m \in ToSet(k.messages)}
        /\ k.messages \in Seq(SmallMessages(lens))
    BY <1>1 DEF ReliablePackets, PartsOfPacket
  <2>2. ASSUME NEW j \in DOMAIN k.messages PROVE <<k.messages[j].id, 0>> \in UnackedParts(ch)
    <3> DEFINE id == k.messages[j].id
    <3>1. k.messages[j] \in SmallMessages(lens)
      BY <2>1, ElementOfSeq, LenProperties
    <3>2. id \in Nat /\ id + 1 \in DOMAIN lens /\ ~IsSliced(lens[id + 1])
      BY <3>1 DEF SmallMessages
    <3>3. id \in DOMAIN ch.unacked
      BY <1>1 DEF OfUnacked
    <3> HIDE DEF id
    <3>4. ch.unacked[id].len = lens[id + 1] /\ ch.unacked[id].acked = {}
      BY <3>2, <3>3 DEF SendReliableOK
    <3>5. 0 \in Parts(ch.unacked[id].len)
      BY <3>2, <3>4 DEF Parts
    <3>6. <<id, 0>> \in UnackedParts(ch)
      BY <3>3, <3>4, <3>5, UnackedPart
    <3> QED BY <3>6 DEF id
  <2> QED BY <2>1, <2>2 DEF ToSet
<1>2. CASE k.type = "ReliableSlice"
  <2>1. /\ PartsOfPacket(k, c) = {<<k.id, k.index>>}
        /\ k.id \in Nat /\ k.index \in Nat /\ k.num_slices \in Nat
        /\ k.id + 1 \in DOMAIN lens /\ IsSliced(lens[k.id + 1])
        /\ k.num_slices = NumSlices(lens[k.id + 1]) /\ k.index < k.num_slices
    BY <1>2 DEF ReliablePackets, PartsOfPacket, IsSliceOf
  <2>2. k.id \in DOMAIN ch.unacked /\ k.index \notin ch.unacked[k.id].acked
    BY <1>2 DEF OfUnacked
  <2>3. ch.unacked[k.id].len = lens[k.id + 1]
    BY <2>2 DEF SendReliableOK
  <2>4. k.index \in Parts(ch.unacked[k.id].len)
    BY <2>1, <2>3 DEF Parts
  <2> QED BY <2>1, <2>2, <2>4, UnackedPart
<1> QED BY <1>1, <1>2 DEF ReliablePackets

(* The packets of a tick join those on the way to the other end. *)
LEMMA PacketsJoin ==
    ASSUME NEW q \in Peers, NEW packets,
           net' = net \union {[to |-> q, packet |-> k] : k \in ToSet(packets)}
    PROVE  /\ PacketsTo(q)' = PacketsTo(q) \union ToSet(packets)
           /\ \A o \in Peers : o # q => PacketsTo(o)' = PacketsTo(o)
<1>1. \A o : PacketsTo(o)' = {m.packet : m \in {n \in net' : n.to = o}}
  BY DEF PacketsTo
<1> DEFINE new == {[to |-> q, packet |-> k] : k \in ToSet(packets)}
<1>2. \A m \in new : m.to = q /\ m.packet \in ToSet(packets)
  OBVIOUS
<1>3. \A k \in ToSet(packets) : \E m \in new : m.to = q /\ m.packet = k
  <2> SUFFICES ASSUME NEW k \in ToSet(packets) PROVE \E m \in new : m.to = q /\ m.packet = k
    OBVIOUS
  <2>1. [to |-> q, packet |-> k] \in new
    OBVIOUS
  <2> HIDE DEF new
  <2> QED BY <2>1
<1> HIDE DEF new
<1>4. net' = net \union new
  BY DEF new
<1>5. PacketsTo(q)' = PacketsTo(q) \union ToSet(packets)
  BY <1>1, <1>2, <1>3, <1>4 DEF PacketsTo
<1>6. ASSUME NEW o \in Peers, o # q PROVE PacketsTo(o)' = PacketsTo(o)
  BY <1>1, <1>2, <1>4, <1>6 DEF PacketsTo
<1> QED BY <1>5, <1>6

(* get_packets_to_send of Origin *)
LEMMA OriginTransmits ==
    ASSUME SenderInv, ReceiveInv, LimitsInv, GetPacketsToSend(Origin)
    PROVE  Follows
<1>1. PICK packets, channels :
        /\ Tick(Origin, packets, channels)
        /\ packet_sequence' = [packet_sequence EXCEPT ![Origin] = @ + Len(packets)]
        /\ DOMAIN sent_packets'[Origin] = DOMAIN sent_packets[Origin] \union
             (packet_sequence[Origin] .. (packet_sequence[Origin] + Len(packets) - 1))
        /\ \A s \in DOMAIN sent_packets[Origin] :
             sent_packets'[Origin][s] = sent_packets[Origin][s]
        /\ \A i \in DOMAIN packets :
             sent_packets'[Origin][packet_sequence[Origin] + i - 1] =
                 [age |-> 0, info |-> SentInfo(packets[i], pending_acks[Origin])]
        /\ send' = [send EXCEPT ![Origin] = channels]
        /\ net' = net \union {[to |-> Other(Origin), packet |-> k] : k \in ToSet(packets)}
        /\ UNCHANGED <<pending_acks, recv, status, duplicated, sent, delivered>>
  BY EndsFacts, GetPacketsFacts
<1> DEFINE first == packet_sequence[Origin]
           count == Len(packets)
           ch == send[Origin][Channel]
           lens == sent[Origin][Channel]
           old == sent_packets[Origin]
           all == sent_packets'[Origin]
           fresh == first .. (packet_sequence'[Origin] - 1)
<1>2. /\ first \in Nat /\ count \in Nat /\ DOMAIN packets = 1 .. count
      /\ packet_sequence'[Origin] = first + count
      /\ lens \in LengthSeqs /\ sent[Origin] \in [ChannelIds -> LengthSeqs]
      /\ SendReliableOK(ch, lens) /\ DOMAIN send = Peers
  BY <1>1, EndsFacts DEF Tick, SenderInv, ShapeInv, SendInv, SendOK
<1>3. packet_sequence'[Origin] \in first .. MaxSequence[Origin]
  <2>1. packet_sequence'[Origin] <= MaxSequence[Origin]
    BY EndsFacts, LimitsTick DEF LimitsInv
  <2>2. MaxSequence[Origin] \in Nat
    BY EndsFacts, RemoteConnectionAssumption
  <2> QED BY <1>2, <2>1, <2>2
<1>4. fresh = first .. (first + count - 1) /\ \A s \in fresh : s - first + 1 \in DOMAIN packets
  BY <1>2
<1> HIDE DEF first, count, ch, lens, old, all, fresh
<1>5. /\ PartsRemembered = [s \in DOMAIN old |-> PartsOfInfo(old[s].info, Channel)]
      /\ PartsRemembered' = [s \in DOMAIN all |-> PartsOfInfo(all[s].info, Channel)]
  BY DEF PartsRemembered, old, all
<1>6. DOMAIN all = DOMAIN old \union fresh /\ \A s \in DOMAIN old : all[s] = old[s]
  BY <1>1, <1>4 DEF all, old, first, count
<1>7. ASSUME NEW i \in DOMAIN packets
      PROVE  /\ first + i - 1 \in fresh
             /\ packets[i].sequence = first + i - 1
             /\ PartsOfPacket(packets[i], Channel) \subseteq UnackedParts(ch)
             /\ PartsOfInfo(all[first + i - 1].info, Channel) = PartsOfPacket(packets[i], Channel)
  <2> DEFINE k == packets[i]
             info == SentInfo(k, pending_acks[Origin])
  <2>1. all[first + i - 1] = [age |-> 0, info |-> info]
    BY <1>1 DEF all, first
  <2>2. all[first + i - 1].info = info
    <3> HIDE DEF info
    <3> QED BY <2>1
  <2>3. /\ k.sequence = first + i - 1
        /\ k \in DataPackets(sent[Origin]) \/ IsAckOf(k, Origin)
        /\ k.type # "Ack" /\ Reliable(k.channel) =>
             OfUnacked(k, send[Origin][k.channel].unacked)
    BY <1>1 DEF Tick, first
  <2>4. k.type \in {"SmallReliable", "ReliableSlice", "SmallUnreliable", "UnreliableSlice", "Ack"}
    BY <2>3, DataPacketTypes DEF IsAckOf
  <2>5. first + i - 1 \in fresh
    BY <1>2, <1>4
  <2> HIDE DEF k
  <2>6. PartsOfInfo(info, Channel) = PartsOfPacket(k, Channel)
    BY <2>4, InfoHasParts
  <2>7. PartsOfPacket(k, Channel) \subseteq UnackedParts(ch)
    <3>1. CASE k.type \in {"SmallReliable", "ReliableSlice"} /\ k.channel = Channel
      <4>1. PICK c \in ChannelIds : k \in PacketsOf(c, sent[Origin][c])
        BY <2>3, <3>1 DEF DataPackets, IsAckOf
      <4>2. k.channel = c
        BY <4>1, PacketOfChannel
      <4>3. k \in ReliablePackets(Channel, lens)
        BY <3>1, <4>1, <4>2, EndsFacts DEF PacketsOf, lens
      <4>4. OfUnacked(k, ch.unacked)
        BY <2>3, <3>1, EndsFacts DEF ch
      <4> QED BY <1>2, <4>3, <4>4, EndsFacts, PacketOfUnacked
    <3>2. CASE ~(k.type \in {"SmallReliable", "ReliableSlice"} /\ k.channel = Channel)
      <4>1. PartsOfPacket(k, Channel) = {}
        BY <3>2 DEF PartsOfPacket
      <4> QED BY <4>1
    <3> QED BY <3>1, <3>2
  <2> QED BY <2>2, <2>3, <2>5, <2>6, <2>7 DEF k
<1>8. ASSUME NEW s \in fresh
      PROVE  \E i \in DOMAIN packets : s = first + i - 1
  <2>1. s - first + 1 \in DOMAIN packets /\ s = first + (s - first + 1) - 1
    BY <1>2, <1>4
  <2> QED BY <2>1
<1>9. UnackedParts(ch) \subseteq OfferedParts(lens)
  <2> SUFFICES ASSUME NEW x \in UnackedParts(ch) PROVE x \in OfferedParts(lens)
    OBVIOUS
  <2>1. /\ x = <<x[1], x[2]>> /\ x[1] \in DOMAIN ch.unacked
        /\ x[2] \in Parts(ch.unacked[x[1]].len)
    BY UnackedPart
  <2>2. x[1] \in Nat /\ x[1] + 1 \in DOMAIN lens /\ ch.unacked[x[1]].len = lens[x[1] + 1]
    BY <1>2, <2>1 DEF SendReliableOK
  <2> QED BY <1>2, <2>1, <2>2, OfferedPart
<1>10. ASSUME NEW s \in fresh
       PROVE  PartsOfInfo(all[s].info, Channel) \subseteq UnackedParts(ch)
  BY <1>7, <1>8
<1>11. ASSUME NEW s \in DOMAIN old
       PROVE  PartsOfInfo(old[s].info, Channel) \subseteq OfferedParts(lens)
  <2>1. old[s].info \in Infos(sent[Origin])
    BY EndsFacts DEF SenderInv, RememberedInv, Remembered, old
  <2> QED BY <1>2, <2>1, EndsFacts, PartsOfInfoOffered DEF lens
<1>12. /\ PartsOffered = OfferedParts(lens) /\ PartsOffered' = PartsOffered
       /\ PartsUnacked = UnackedParts(ch) /\ PartsUnacked' = PartsUnacked
  <2>1. SameUnacked(channels[Channel], ch)
    BY <1>1, EndsFacts DEF Tick, Advanced, ch
  <2>2. send'[Origin][Channel] = channels[Channel]
    BY <1>1, <1>2, EndsFacts
  <2>3. UnackedParts(send'[Origin][Channel]) = UnackedParts(ch)
    BY <2>1, <2>2, SameParts
  <2> QED BY <1>1, <2>3 DEF PartsOffered, PartsUnacked, lens, ch
<1>13. /\ PartsRemembered' \in [DOMAIN PartsRemembered \union fresh -> SUBSET PartsOffered]
       /\ \A s \in DOMAIN PartsRemembered : PartsRemembered'[s] = PartsRemembered[s]
       /\ \A s \in fresh : PartsRemembered'[s] \subseteq PartsUnacked
  <2>1. \A s \in fresh : PartsOfInfo(all[s].info, Channel) \subseteq OfferedParts(lens)
    BY <1>9, <1>10
  <2>2. \A s \in DOMAIN all : PartsOfInfo(all[s].info, Channel) \subseteq OfferedParts(lens)
    BY <1>6, <1>11, <2>1
  <2>3. PartsRemembered' \in [DOMAIN PartsRemembered \union fresh -> SUBSET PartsOffered]
    BY <1>5, <1>6, <1>12, <2>2
  <2>4. \A s \in DOMAIN PartsRemembered : PartsRemembered'[s] = PartsRemembered[s]
    BY <1>5, <1>6
  <2>5. \A s \in fresh : PartsRemembered'[s] \subseteq PartsUnacked
    BY <1>5, <1>6, <1>10, <1>12
  <2> QED BY <2>3, <2>4, <2>5
<1>14. /\ PacketsTo(Target)' = PacketsTo(Target) \union ToSet(packets)
       /\ PacketsTo(Origin)' = PacketsTo(Origin)
  <2>1. net' = net \union {[to |-> Target, packet |-> k] : k \in ToSet(packets)}
    BY <1>1, EndsFacts
  <2> QED BY <2>1, EndsFacts, PacketsJoin
<1>15. AcksFlying' = AcksFlying
  BY <1>14 DEF AcksFlying
<1>16. PacketsFlying' = PacketsFlying \union {[seq |-> s, parts |-> PartsRemembered'[s]] : s \in fresh}
  <2> DEFINE image(k) == [seq |-> k.sequence, parts |-> PartsOfPacket(k, Channel)]
             added == {[seq |-> s, parts |-> PartsRemembered'[s]] : s \in fresh}
  <2>1. /\ PacketsFlying = {image(k) : k \in PacketsTo(Target)}
        /\ PacketsFlying' = {image(k) : k \in PacketsTo(Target)'}
    BY DEF PacketsFlying
  <2>2. ASSUME NEW i \in DOMAIN packets
        PROVE  /\ first + i - 1 \in fresh
               /\ image(packets[i]) =
                    [seq |-> first + i - 1, parts |-> PartsRemembered'[first + i - 1]]
    BY <1>5, <1>6, <1>7
  <2>3. added = {image(k) : k \in ToSet(packets)}
    <3> HIDE DEF image
    <3>1. ASSUME NEW x \in added PROVE \E i \in DOMAIN packets : x = image(packets[i])
      BY <1>8, <2>2
    <3>2. ASSUME NEW i \in DOMAIN packets PROVE image(packets[i]) \in added
      BY <2>2
    <3> HIDE DEF added
    <3> QED BY <3>1, <3>2 DEF ToSet
  <2> HIDE DEF image, added
  <2>4. PacketsFlying' = PacketsFlying \union added
    BY <1>14, <2>1, <2>3
  <2> QED BY <2>4 DEF added
<1>17. SameReceiver
  <2>1. recv' = recv /\ delivered' = delivered /\ sent' = sent /\ pending_acks' = pending_acks
    BY <1>1
  <2> QED BY <1>2, <2>1, SameReceiverIf DEF lens
<1>18. Open(Target)' = Open(Target)
  BY <1>1 DEF Open
<1>19. Transfer!Transmit
  BY <1>3, <1>12, <1>13, <1>15, <1>16, <1>17, <1>18
     DEF SameReceiver, Transfer!Transmit, Transfer!receiver, fresh, first
<1> QED BY <1>19 DEF Follows, Transfer!Next

(* get_packets_to_send of Target: all that counts is the Ack packet. *)
LEMMA TargetAcks ==
    ASSUME SenderInv, ReceiveInv, GetPacketsToSend(Target)
    PROVE  Follows
<1>1. PICK packets, channels :
        /\ Tick(Target, packets, channels)
        /\ packet_sequence' = [packet_sequence EXCEPT ![Target] = @ + Len(packets)]
        /\ \A q \in Peers : q # Target => sent_packets'[q] = sent_packets[q]
        /\ send' = [send EXCEPT ![Target] = channels]
        /\ net' = net \union {[to |-> Other(Target), packet |-> k] : k \in ToSet(packets)}
        /\ UNCHANGED <<pending_acks, recv, status, duplicated, sent, delivered>>
  BY EndsFacts, GetPacketsFacts
<1>2. Open(Target)
  BY DEF GetPacketsToSend
<1>3. SameSender
  <2>1. /\ DOMAIN packet_sequence = Peers /\ DOMAIN send = Peers
    BY DEF SenderInv, ShapeInv
  <2>2. /\ packet_sequence'[Origin] = packet_sequence[Origin] /\ send'[Origin] = send[Origin]
        /\ sent_packets'[Origin] = sent_packets[Origin] /\ sent' = sent
    BY <1>1, <2>1, EndsFacts
  <2> QED BY <2>2, SameSenderIf
<1>4. SameReceiver
  <2>1. recv' = recv /\ delivered' = delivered /\ sent' = sent /\ pending_acks' = pending_acks
    BY <1>1
  <2>2. sent[Origin][Channel] \in LengthSeqs
    BY EndsFacts DEF SenderInv, ShapeInv
  <2> QED BY <2>1, <2>2, SameReceiverIf
<1>5. status' = status
  BY <1>1
<1>6. /\ PacketsTo(Origin)' = PacketsTo(Origin) \union ToSet(packets)
      /\ PacketsTo(Target)' = PacketsTo(Target)
  <2>1. net' = net \union {[to |-> Origin, packet |-> k] : k \in ToSet(packets)}
    BY <1>1, EndsFacts
  <2> QED BY <2>1, EndsFacts, PacketsJoin
<1>7. PacketsFlying' = PacketsFlying
  BY <1>6 DEF PacketsFlying
<1> DEFINE acked == {DecodeAck(k.wire) : k \in {x \in ToSet(packets) : x.type = "Ack"}}
<1>8. AcksFlying' = AcksFlying \union acked
  BY <1>6 DEF AcksFlying
<1>9. ASSUME NEW k \in ToSet(packets), k.type = "Ack"
      PROVE  DecodeAck(k.wire) = pending_acks[Target] /\ pending_acks[Target] # << >>
  <2>1. k \in DataPackets(sent[Target]) \/ IsAckOf(k, Target)
    BY <1>1 DEF Tick, ToSet
  <2>2. IsAckOf(k, Target)
    BY <1>9, <2>1, DataPacketTypes
  <2> QED BY <2>2, EndsFacts, AckInfo DEF IsAckOf
<1>10. CASE pending_acks[Target] = << >>
  <2>1. acked = {}
    BY <1>9, <1>10
  <2> HIDE DEF acked
  <2>2. SameNet
    BY <1>7, <1>8, <2>1 DEF SameNet
  <2> QED BY <1>3, <1>4, <1>5, <2>2, Stutters
<1>11. CASE pending_acks[Target] # << >>
  <2>1. \E k \in ToSet(packets) : k.type = "Ack"
    BY <1>1, <1>11 DEF Tick, ToSet
  <2>2. acked = {pending_acks[Target]}
    BY <1>9, <2>1
  <2> HIDE DEF acked
  <2>3. AcksFlying' = AcksFlying \union {pending_acks[Target]}
    BY <1>8, <2>2
  <2>4. Open(Target)' = Open(Target)
    BY <1>5 DEF Open
  <2>5. Transfer!SendAck
    BY <1>2, <1>3, <1>4, <1>7, <1>11, <2>3, <2>4
       DEF SameSender, SameReceiver, Transfer!SendAck, Transfer!sender, Transfer!receiver
  <2> QED BY <2>5 DEF Follows, Transfer!Next
<1> QED BY <1>10, <1>11

(* The operators of AckProtocol are those of the connections. *)
LEMMA SameAddPendingAck ==
    ASSUME NEW ranges, NEW s
    PROVE  Transfer!AddPendingAck(ranges, s) = AddPendingAck(ranges, s)
BY DEF Transfer!AddPendingAck, AddPendingAck, Transfer!FitAt, FitAt, Transfer!Stops, Stops,
       Transfer!FirstStop, FirstStop, Transfer!PushRange, PushRange, Transfer!InRange, InRange,
       Transfer!AckRange, AckRange, Transfer!InsertAt, InsertAt, Transfer!RemoveAt, RemoveAt

LEMMA SameAckedLargest ==
    ASSUME NEW ranges, NEW l
    PROVE  Transfer!AckedLargest(ranges, l) = AckedLargest(ranges, l)
BY DEF Transfer!AckedLargest, AckedLargest, Transfer!DropBelow, DropBelow

LEMMA SameCovered ==
    ASSUME NEW ranges PROVE Transfer!Covered(ranges) = Covered(ranges)
BY DEF Transfer!Covered, Covered

(* A packet has arrived, and may arrive again or not. *)
LEMMA PacketsLeave ==
    ASSUME NEW m \in net, net' \subseteq net, net \ {m} \subseteq net'
    PROVE  /\ m.to # Target => PacketsFlying' = PacketsFlying
           /\ m.to = Target =>
                LET k == [seq |-> m.packet.sequence, parts |-> PartsOfPacket(m.packet, Channel)]
                IN  k \in PacketsFlying /\ PacketsFlying' \in {PacketsFlying, PacketsFlying \ {k}}
           /\ m.to # Origin \/ m.packet.type # "Ack" => AcksFlying' = AcksFlying
           /\ m.to = Origin /\ m.packet.type = "Ack" =>
                LET a == DecodeAck(m.packet.wire)
                IN  a \in AcksFlying /\ AcksFlying' \in {AcksFlying, AcksFlying \ {a}}
<1> DEFINE k0 == m.packet
           image(k) == [seq |-> k.sequence, parts |-> PartsOfPacket(k, Channel)]
           acks(K) == {DecodeAck(k.wire) : k \in {x \in K : x.type = "Ack"}}
<1>1. \A q : PacketsTo(q)' = {n.packet : n \in {o \in net' : o.to = q}}
  BY DEF PacketsTo
<1>2. ASSUME NEW q
      PROVE  /\ PacketsTo(q)' \subseteq PacketsTo(q)
             /\ PacketsTo(q) \subseteq PacketsTo(q)' \union {k0}
             /\ m.to # q => PacketsTo(q)' = PacketsTo(q)
             /\ m.to = q => k0 \in PacketsTo(q)
  BY <1>1 DEF PacketsTo
<1>3. /\ PacketsFlying = {image(k) : k \in PacketsTo(Target)}
      /\ PacketsFlying' = {image(k) : k \in PacketsTo(Target)'}
      /\ AcksFlying = acks(PacketsTo(Origin)) /\ AcksFlying' = acks(PacketsTo(Origin)')
  BY DEF PacketsFlying, AcksFlying
<1>4. ASSUME NEW K, NEW L, NEW x, K \subseteq L, L \subseteq K \union {x}
      PROVE  K \in {L, L \ {x}}
  BY <1>4
<1>5. m.to # Target => PacketsFlying' = PacketsFlying
  <2> HIDE DEF image
  <2> QED BY <1>2, <1>3
<1>6. ASSUME m.to = Target
      PROVE  image(k0) \in PacketsFlying /\ PacketsFlying' \in {PacketsFlying, PacketsFlying \ {image(k0)}}
  <2> HIDE DEF image, k0
  <2>1. image(k0) \in PacketsFlying
    BY <1>2, <1>3, <1>6
  <2>2. PacketsFlying' \subseteq PacketsFlying /\ PacketsFlying \subseteq PacketsFlying' \union {image(k0)}
    BY <1>2, <1>3
  <2> QED BY <1>4, <2>1, <2>2
<1>7. AcksFlying' \subseteq AcksFlying
  BY <1>2, <1>3
<1>8. ASSUME m.to # Origin \/ k0.type # "Ack" PROVE AcksFlying' = AcksFlying
  <2> HIDE DEF k0
  <2>1. {x \in PacketsTo(Origin)' : x.type = "Ack"} = {x \in PacketsTo(Origin) : x.type = "Ack"}
    BY <1>2, <1>8 DEF k0
  <2> QED BY <1>3, <2>1
<1>9. ASSUME m.to = Origin, k0.type = "Ack"
      PROVE  /\ DecodeAck(k0.wire) \in AcksFlying
             /\ AcksFlying' \in {AcksFlying, AcksFlying \ {DecodeAck(k0.wire)}}
  <2> HIDE DEF k0
  <2>1. DecodeAck(k0.wire) \in AcksFlying
    BY <1>2, <1>3, <1>9
  <2>2. AcksFlying \subseteq AcksFlying' \union {DecodeAck(k0.wire)}
    BY <1>2, <1>3
  <2> QED BY <1>4, <1>7, <2>1, <2>2
<1> QED BY <1>5, <1>6, <1>8, <1>9

(* A packet of data at Target *)
LEMMA TargetReceives ==
    ASSUME SenderInv, ReceiveInv, SliceIdsInv, NEW m \in net, m.to = Target,
           ProcessPacket(m.to, m.packet), m.packet.type # "Ack",
           net' \subseteq net, net \ {m} \subseteq net'
    PROVE  Follows
<1> DEFINE k == m.packet
           f == [seq |-> k.sequence, parts |-> PartsOfPacket(k, Channel)]
           lens == sent[Origin][Channel]
           out == delivered[Target][Channel]
           r == recv[Target][Channel]
<1>1. PICK c, new :
        /\ c \in ChannelIds
        /\ k \in PacketsOf(c, sent[Origin][c])
        /\ AfterReceive(Target, c, new)
        /\ Arrives(k, c, new, recv[Target][c], sent[Origin][c], delivered[Target][c])
  BY EndsFacts, DataArrives
<1> c \in ChannelIds
  BY <1>1
<1>2. /\ recv' = [recv EXCEPT ![Target][c] = new]
      /\ status' = IF new.err = "none" THEN status ELSE [status EXCEPT ![Target] = new.err]
      /\ UNCHANGED <<sent_packets, send, packet_sequence, sent, delivered>>
      /\ pending_acks' = [pending_acks EXCEPT ![Target] = AddPendingAck(pending_acks[Target], k.sequence)]
      /\ Open(Target)
  BY <1>1 DEF AfterReceive, ProcessPacket
<1>3. /\ DOMAIN recv = Peers /\ DOMAIN recv[Target] = ChannelIds /\ DOMAIN status = Peers
      /\ DOMAIN pending_acks = Peers /\ lens \in LengthSeqs
      /\ k.channel = c /\ new.err \in {"none", "ReliableChannelMaxMemoryReached"}
  BY <1>1, EndsFacts, PacketOfChannel DEF SenderInv, ShapeInv, ReceiveInv, Arrives
<1>4. SameSender
  BY <1>2, SameSenderIf
<1>5. /\ f \in PacketsFlying /\ PacketsFlying' \in {PacketsFlying, PacketsFlying \ {f}}
      /\ AcksFlying' = AcksFlying
  BY PacketsLeave, EndsFacts
<1>6. pending_acks'[Target] = AddPendingAck(pending_acks[Target], k.sequence)
  BY <1>2, <1>3, EndsFacts
<1>7. IF new.err = "none" THEN Open(Target)' = Open(Target) ELSE ~Open(Target)'
  BY <1>2, <1>3, EndsFacts DEF Open
<1>8. PartsStored = HeldOf(lens, r, out) /\ PartsStored' = HeldOf(lens, recv'[Target][Channel], out)
  BY <1>2, StoredIs
<1> DEFINE parts == PartsOfPacket(k, Channel)
<1>9. /\ PartsStored \subseteq PartsStored' /\ PartsStored' \subseteq PartsStored \union parts
      /\ new.err = "none" => parts \subseteq PartsStored'
  <2>1. CASE c # Channel
    <3>1. recv'[Target][Channel] = r
      BY <1>2, <1>3, <2>1, EndsFacts
    <3>2. parts = {}
      BY <1>3, <2>1 DEF PartsOfPacket
    <3> QED BY <1>8, <3>1, <3>2
  <2>2. CASE c = Channel
    <3>1. recv'[Target][Channel] = new
      BY <1>2, <1>3, <2>2, EndsFacts
    <3>2. /\ NothingLost(new, r, out) /\ GainsOnly(new, r, out, lens, parts)
          /\ k \in ReliablePackets(Channel, lens)
      BY <1>1, <2>2, EndsFacts DEF Arrives, PacketsOf
    <3>3. ASSUME new.err = "none", NEW x \in parts
          PROVE  x \in OfferedParts(lens) /\ HasPart(new, out, x[1], x[2])
      <4>1. CASE k.type = "SmallReliable"
        <5>1. PICK e \in ToSet(k.messages) : x = <<e.id, 0>>
          BY <1>3, <2>2, <3>3, <4>1 DEF PartsOfPacket
        <5>2. Has(new, out, e.id)
          BY <1>1, <2>2, <3>3, <4>1 DEF Arrives
        <5>3. k.messages \in Seq(SmallMessages(lens))
          BY <3>2, <4>1 DEF ReliablePackets
        <5>4. e \in SmallMessages(lens)
          BY <5>3, ElementOfSeq, LenProperties DEF ToSet
        <5>5. e.id \in Nat /\ e.id + 1 \in DOMAIN lens /\ 0 \in Parts(lens[e.id + 1])
          BY <5>4 DEF SmallMessages, Parts
        <5>6. <<e.id, 0>> \in OfferedParts(lens)
          BY <1>3, <5>5, OfferedPart
        <5> QED BY <5>1, <5>2, <5>6 DEF HasPart
      <4>2. CASE k.type = "ReliableSlice"
        <5>1. x = <<k.id, k.index>>
          BY <1>3, <2>2, <3>3, <4>2 DEF PartsOfPacket
        <5>2. HasPart(new, out, k.id, k.index)
          BY <1>1, <2>2, <3>3, <4>2 DEF Arrives, HasPart
        <5>3. /\ k.id \in Nat /\ k.index \in Nat /\ k.num_slices \in Nat
              /\ k.id + 1 \in DOMAIN lens /\ IsSliced(lens[k.id + 1])
              /\ k.num_slices = NumSlices(lens[k.id + 1]) /\ k.index < k.num_slices
          BY <3>2, <4>2 DEF ReliablePackets, IsSliceOf
        <5>4. k.index \in Parts(lens[k.id + 1])
          BY <5>3 DEF Parts
        <5>5. <<k.id, k.index>> \in OfferedParts(lens)
          BY <1>3, <5>3, <5>4, OfferedPart
        <5> QED BY <5>1, <5>2, <5>5
      <4> QED BY <3>2, <4>1, <4>2 DEF ReliablePackets
    <3> HIDE DEF lens, r, out, parts
    <3>4. ASSUME NEW x \in OfferedParts(lens)
          PROVE  /\ x[1] \in Nat /\ x[1] + 1 \in DOMAIN lens /\ x[2] \in Parts(lens[x[1] + 1])
                 /\ x = <<x[1], x[2]>>
      BY <1>3, OfferedPart
    <3>5. PartsStored \subseteq PartsStored'
      BY <1>8, <3>1, <3>2, <3>4 DEF HeldOf, NothingLost, HasPart
    <3>6. PartsStored' \subseteq PartsStored \union parts
      BY <1>8, <3>1, <3>2, <3>4 DEF HeldOf, GainsOnly
    <3>7. new.err = "none" => parts \subseteq PartsStored'
      BY <1>8, <3>1, <3>3 DEF HeldOf
    <3> QED BY <3>5, <3>6, <3>7
  <2> QED BY <2>1, <2>2
<1>10. f.seq = k.sequence /\ f.parts = parts
  OBVIOUS
<1> HIDE DEF f, parts
<1>11. PartsStored' \in {PartsStored \union some : some \in SUBSET f.parts}
  <2>1. PartsStored' = PartsStored \union (PartsStored' \ PartsStored)
    BY <1>9
  <2>2. PartsStored' \ PartsStored \in SUBSET f.parts
    BY <1>9, <1>10
  <2> QED BY <2>1, <2>2
<1>12. new.err = "none" => PartsStored' = PartsStored \union f.parts
  BY <1>9, <1>10
<1>13. pending_acks'[Target] = Transfer!AddPendingAck(pending_acks[Target], f.seq)
  BY <1>6, <1>10, SameAddPendingAck
<1>14. Transfer!Receive(f)
  <2>1. CASE new.err = "none"
    <3>1. Open(Target)' = Open(Target)
      BY <1>7, <2>1
    <3> QED BY <1>2, <1>4, <1>5, <1>12, <1>13, <2>1, <3>1
            DEF Transfer!Receive, SameSender, Transfer!sender
  <2>2. CASE new.err # "none"
    <3>1. (~Open(Target))' = TRUE
      BY <1>7, <2>2
    <3> QED BY <1>2, <1>4, <1>5, <1>11, <1>13, <3>1
            DEF Transfer!Receive, SameSender, Transfer!sender
  <2> QED BY <2>1, <2>2
<1> QED BY <1>5, <1>14 DEF Follows, Transfer!Next

(* What an Ack packet changes, at the peer that it reaches *)
LEMMA AckArrives ==
    ASSUME SenderInv, NEW m \in net, ProcessPacket(m.to, m.packet), m.packet.type = "Ack"
    PROVE  LET p == m.to
               k == m.packet
           IN  /\ p \in Peers /\ Open(p)
               /\ UNCHANGED <<packet_sequence, recv, status, sent, delivered>>
               /\ \A q \in Peers : q # p => /\ send'[q] = send[q]
                                            /\ pending_acks'[q] = pending_acks[q]
                                            /\ sent_packets'[q] = sent_packets[q]
               /\ CutBy(pending_acks'[p], AddPendingAck(pending_acks[p], k.sequence),
                        Largests(p, k.wire))
               /\ sent_packets'[p] =
                    [s \in DOMAIN sent_packets[p] \ NewAcks(p, k.wire) |-> sent_packets[p][s]]
               /\ \A c \in ChannelIds : Reliable(c) =>
                    UnackedParts(send'[p][c]) = UnackedParts(send[p][c])
                        \ UNION {PartsOfInfo(sent_packets[p][s].info, c) : s \in NewAcks(p, k.wire)}
<1> DEFINE p == m.to
           k == m.packet
           acks == AddPendingAck(pending_acks[p], k.sequence)
           after == AckLoop(p, k.wire, acks)
           lens == sent[p]
           all == [c \in ChannelIds |-> Nat]
<1>1. /\ p \in Peers /\ k.sequence \in Nat /\ k.sequence < packet_sequence[Other(p)]
      /\ DOMAIN send = Peers /\ DOMAIN pending_acks = Peers /\ DOMAIN sent_packets = Peers
  BY DEF SenderInv, NetInv, ShapeInv
<1>2. /\ send' = [send EXCEPT ![p] = after.send]
      /\ pending_acks' = [pending_acks EXCEPT ![p] = after.pending_acks]
      /\ sent_packets' = [sent_packets EXCEPT ![p] =
            [s \in DOMAIN sent_packets[p] \ NewAcks(p, k.wire) |-> sent_packets[p][s]]]
      /\ UNCHANGED <<packet_sequence, recv, status, sent, delivered>> /\ Open(p)
  BY DEF ProcessPacket, ProcessAck, AckLoop
<1>3. ASSUME NEW c \in ChannelIds, Reliable(c) PROVE Ticked(send[p][c], lens[c], all[c], all[c])
  <2>1. SendReliableOK(send[p][c], lens[c])
    BY <1>1, <1>3 DEF SenderInv, SendInv, SendOK
  <2>2. all[c] = Nat
    OBVIOUS
  <2>3. \A id \in DOMAIN send[p][c].unacked : id \in Nat
    BY <2>1 DEF SendReliableOK
  <2> HIDE DEF all
  <2> QED BY <2>1, <2>2, <2>3 DEF Ticked
<1>4. WholeIsArrived(lens, all, all)
  BY DEF WholeIsArrived
<1>5. ASSUME NEW s \in NewAcks(p, k.wire) PROVE InfoAmong(sent_packets[p][s].info, all, all)
  <2> DEFINE info == sent_packets[p][s].info
  <2>1. info \in Infos(lens)
    BY <1>1 DEF NewAcks, SenderInv, RememberedInv, Remembered
  <2> HIDE DEF info
  <2>2. InfoAmong(info, all, all)
    BY <2>1 DEF InfoAmong, Infos
  <2> QED BY <2>2 DEF info
<1>6. /\ Leaves(after, send[p], sent_packets[p], NewAcks(p, k.wire))
      /\ CutBy(after.pending_acks, acks, Largests(p, k.wire))
  <2> HIDE DEF all, p, k
  <2> QED BY <1>1, <1>3, <1>4, <1>5, AckLoopOfPacket
<1> HIDE DEF after, acks, p, k
<1>7. /\ send'[p] = after.send /\ pending_acks'[p] = after.pending_acks
      /\ sent_packets'[p] =
           [s \in DOMAIN sent_packets[p] \ NewAcks(p, k.wire) |-> sent_packets[p][s]]
  BY <1>1, <1>2
<1>8. \A q \in Peers : q # p => /\ send'[q] = send[q]
                                /\ pending_acks'[q] = pending_acks[q]
                                /\ sent_packets'[q] = sent_packets[q]
  BY <1>1, <1>2
<1>9. \A c \in ChannelIds : Reliable(c) =>
        UnackedParts(send'[p][c]) = UnackedParts(send[p][c])
            \ UNION {PartsOfInfo(sent_packets[p][s].info, c) : s \in NewAcks(p, k.wire)}
  BY <1>6, <1>7 DEF Leaves
<1>10. CutBy(pending_acks'[p], AddPendingAck(pending_acks[p], k.sequence), Largests(p, k.wire))
  BY <1>6, <1>7 DEF acks
<1> QED BY <1>1, <1>2, <1>7, <1>8, <1>9, <1>10 DEF p, k

(* An Ack packet at Target is a packet without parts, and may cut its ranges. *)
LEMMA TargetReceivesAck ==
    ASSUME SenderInv, LimitsInv, NEW m \in net, m.to = Target,
           ProcessPacket(m.to, m.packet), m.packet.type = "Ack",
           net' \subseteq net, net \ {m} \subseteq net'
    PROVE  Follows
<1> DEFINE k == m.packet
           f == [seq |-> k.sequence, parts |-> PartsOfPacket(k, Channel)]
           recorded == AddPendingAck(pending_acks[Target], k.sequence)
           cuts == Largests(Target, k.wire)
<1>1. /\ Open(Target)
      /\ UNCHANGED <<packet_sequence, recv, status, sent, delivered>>
      /\ send'[Origin] = send[Origin] /\ sent_packets'[Origin] = sent_packets[Origin]
      /\ CutBy(pending_acks'[Target], recorded, cuts)
  BY AckArrives, EndsFacts
<1>2. SameSender
  BY <1>1, SameSenderIf
<1>3. PartsStored' = PartsStored /\ Open(Target)' = Open(Target)
  BY <1>1, StoredIs DEF Open
<1>4. /\ f \in PacketsFlying /\ PacketsFlying' \in {PacketsFlying, PacketsFlying \ {f}}
      /\ AcksFlying' = AcksFlying
  BY PacketsLeave, EndsFacts
<1>5. f.seq = k.sequence /\ f.parts = {}
  BY DEF PartsOfPacket
<1>6. ASSUME NEW l \in cuts PROVE l \in 0 .. MaxSequence[Origin]
  <2>1. l \in Nat /\ l < packet_sequence[Origin]
    BY EndsFacts DEF Largests, NewAcks, LimitsInv
  <2>2. /\ packet_sequence[Origin] \in Nat /\ MaxSequence[Origin] \in Nat
        /\ packet_sequence[Origin] <= MaxSequence[Origin]
    BY EndsFacts, RemoteConnectionAssumption DEF LimitsInv, SenderInv, ShapeInv
  <2> QED BY <2>1, <2>2
<1> HIDE DEF f, recorded, cuts
<1>7. recorded = Transfer!AddPendingAck(pending_acks[Target], f.seq)
  BY <1>5, SameAddPendingAck DEF recorded
<1>8. pending_acks'[Target] \in
        {recorded} \union {Transfer!AckedLargest(recorded, l) : l \in 0 .. MaxSequence[Origin]}
  <2>1. CASE pending_acks'[Target] = recorded
    BY <2>1
  <2>2. CASE pending_acks'[Target] # recorded
    <3>1. PICK l \in cuts : pending_acks'[Target] = AckedLargest(recorded, l)
      BY <1>1, <2>2 DEF CutBy
    <3>2. pending_acks'[Target] = Transfer!AckedLargest(recorded, l)
      BY <3>1, SameAckedLargest
    <3> QED BY <1>6, <3>2
  <2> QED BY <2>1, <2>2
<1>9. PartsStored' = PartsStored \union f.parts
  BY <1>3, <1>5
<1>10. Transfer!Receive(f)
  BY <1>1, <1>2, <1>3, <1>4, <1>7, <1>8, <1>9
     DEF Transfer!Receive, SameSender, Transfer!sender
<1> QED BY <1>4, <1>10 DEF Follows, Transfer!Next

(* An Ack packet at Origin *)
LEMMA OriginProcessesAck ==
    ASSUME SenderInv, NEW m \in net, m.to = Origin,
           ProcessPacket(m.to, m.packet), m.packet.type = "Ack",
           net' \subseteq net, net \ {m} \subseteq net'
    PROVE  Follows
<1> DEFINE k == m.packet
           a == DecodeAck(k.wire)
           gone == NewAcks(Origin, k.wire)
           old == sent_packets[Origin]
<1>1. /\ UNCHANGED <<packet_sequence, recv, status, sent, delivered>>
      /\ pending_acks'[Target] = pending_acks[Target]
      /\ sent_packets'[Origin] = [s \in DOMAIN old \ gone |-> old[s]]
      /\ UnackedParts(send'[Origin][Channel]) = UnackedParts(send[Origin][Channel])
           \ UNION {PartsOfInfo(old[s].info, Channel) : s \in gone}
  BY AckArrives, EndsFacts
<1>2. PartsStored' = PartsStored /\ Open(Target)' = Open(Target) /\ PartsOffered' = PartsOffered
  BY <1>1, StoredIs DEF Open, PartsOffered
<1>3. /\ a \in AcksFlying /\ AcksFlying' \in {AcksFlying, AcksFlying \ {a}}
      /\ PacketsFlying' = PacketsFlying
  BY PacketsLeave, EndsFacts
<1>4. gone \subseteq DOMAIN old /\ gone = Transfer!Covered(a) \intersect DOMAIN old
  BY SameCovered DEF NewAcks
<1> HIDE DEF a, gone
<1>5. PartsRemembered = [s \in DOMAIN old |-> PartsOfInfo(old[s].info, Channel)]
  BY DEF PartsRemembered
<1>6. PartsRemembered' = [s \in DOMAIN PartsRemembered \ gone |-> PartsRemembered[s]]
  <2> DEFINE new == sent_packets'[Origin]
  <2>1. PartsRemembered' = [s \in DOMAIN new |-> PartsOfInfo(new[s].info, Channel)]
    BY DEF PartsRemembered
  <2>2. DOMAIN new = DOMAIN old \ gone /\ \A s \in DOMAIN new : new[s] = old[s]
    BY <1>1
  <2> HIDE DEF new, old
  <2> QED BY <1>5, <2>1, <2>2
<1>7. PartsUnacked' = PartsUnacked \ UNION {PartsRemembered[s] : s \in gone}
  <2> HIDE DEF old
  <2>1. {PartsRemembered[s] : s \in gone} = {PartsOfInfo(old[s].info, Channel) : s \in gone}
    BY <1>4, <1>5
  <2> QED BY <1>1, <2>1 DEF PartsUnacked
<1>8. gone = Transfer!Covered(a) \intersect DOMAIN PartsRemembered
  BY <1>4, <1>5
<1> HIDE DEF old
<1>9. Transfer!ProcessAck(a)
  BY <1>1, <1>2, <1>3, <1>6, <1>7, <1>8 DEF Transfer!ProcessAck, Transfer!receiver
<1> QED BY <1>3, <1>9 DEF Follows, Transfer!Next

(* A packet of data at Origin is of the other direction. *)
LEMMA OriginReceives ==
    ASSUME SenderInv, ReceiveInv, SliceIdsInv, NEW m \in net, m.to = Origin,
           ProcessPacket(m.to, m.packet), m.packet.type # "Ack",
           net' \subseteq net, net \ {m} \subseteq net'
    PROVE  Follows
<1>1. PICK c, new : c \in ChannelIds /\ AfterReceive(Origin, c, new)
  BY EndsFacts, DataArrives
<1>2. /\ recv' = [recv EXCEPT ![Origin][c] = new]
      /\ status' = IF new.err = "none" THEN status ELSE [status EXCEPT ![Origin] = new.err]
      /\ UNCHANGED <<sent_packets, send, packet_sequence, sent, delivered>>
      /\ pending_acks' = [pending_acks EXCEPT ![Origin] =
                            AddPendingAck(pending_acks[Origin], m.packet.sequence)]
  BY <1>1 DEF AfterReceive, ProcessPacket
<1>3. /\ DOMAIN recv = Peers /\ DOMAIN status = Peers /\ DOMAIN pending_acks = Peers
  BY DEF SenderInv, ShapeInv, ReceiveInv
<1>4. /\ recv'[Target] = recv[Target] /\ status'[Target] = status[Target]
      /\ pending_acks'[Target] = pending_acks[Target]
  BY <1>2, <1>3, EndsFacts
<1>5. SameSender
  BY <1>2, SameSenderIf
<1>6. SameReceiver
  BY <1>2, <1>4, StoredIs DEF SameReceiver
<1>7. SameNet
  BY PacketsLeave, EndsFacts DEF SameNet
<1> QED BY <1>4, <1>5, <1>6, <1>7, Stutters

LEMMA TransferInit == Init => Transfer!Init
<1> SUFFICES ASSUME Init PROVE Transfer!Init
  OBVIOUS
<1>1. /\ packet_sequence[Origin] = 0 /\ pending_acks[Target] = << >> /\ status[Target] = "open"
      /\ sent_packets[Origin] = << >> /\ sent[Origin][Channel] = << >>
      /\ send[Origin][Channel] = NewSendReliable /\ net = {}
  BY EndsFacts DEF Init
<1>2. PartsOffered = {}
  <2>1. DOMAIN sent[Origin][Channel] = {}
    BY <1>1
  <2> QED BY <2>1 DEF PartsOffered, OfferedParts
<1>3. PartsUnacked = {}
  <2>1. DOMAIN send[Origin][Channel].unacked = {}
    BY <1>1 DEF NewSendReliable
  <2> QED BY <2>1 DEF PartsUnacked, UnackedParts
<1>4. PartsRemembered = << >>
  <2>1. DOMAIN sent_packets[Origin] = {}
    BY <1>1
  <2>2. DOMAIN PartsRemembered = {}
    BY <2>1 DEF PartsRemembered
  <2>3. PartsRemembered = [s \in {} |-> {}]
    BY <2>1 DEF PartsRemembered
  <2>4. [s \in {} |-> {}] = << >>
    OBVIOUS
  <2> QED BY <2>3, <2>4
<1>5. PartsStored = {}
  BY <1>2 DEF PartsStored, PartsAtOther, PartsOffered
<1>6. PacketsFlying = {} /\ AcksFlying = {}
  BY <1>1 DEF PacketsFlying, AcksFlying, PacketsTo
<1>7. (~Open(Target)) = FALSE
  BY <1>1 DEF Open
<1> QED BY <1>1, <1>2, <1>3, <1>4, <1>5, <1>6, <1>7 DEF Transfer!Init

LEMMA PacketFollows ==
    ASSUME SenderInv, ReceiveInv, SliceIdsInv, LimitsInv, NEW m \in net, Deliver(m) \/ Duplicate(m)
    PROVE  Follows
<1>1. ProcessPacket(m.to, m.packet) /\ net' \subseteq net /\ net \ {m} \subseteq net'
  BY DEF Deliver, Duplicate
<1>2. m.to = Origin \/ m.to = Target
  BY EndsFacts DEF SenderInv, NetInv
<1> QED BY <1>1, <1>2, TargetReceives, TargetReceivesAck, OriginReceives, OriginProcessesAck

LEMMA NextFollows ==
    SenderInv /\ ReceiveInv /\ SliceIdsInv /\ LimitsInv /\ [Next]_vars => Follows
<1> SUFFICES ASSUME SenderInv, ReceiveInv, SliceIdsInv, LimitsInv, [Next]_vars PROVE Follows
  OBVIOUS
<1>1. ASSUME NEW p \in Senders, NEW c \in ChannelIds, NEW len \in Lengths, SendMessage(p, c, len)
      PROVE  Follows
  BY <1>1, SendMessageFollows, RemoteConnectionAssumption
<1>2. ASSUME NEW p \in Peers, NEW c \in ChannelIds, ReceiveMessage(p, c) PROVE Follows
  BY <1>2, ReceiveMessageFollows
<1>3. ASSUME NEW p \in Leavers, Disconnect(p) PROVE Follows
  BY <1>3, DisconnectFollows, RemoteConnectionAssumption
<1>4. ASSUME NEW p \in Peers, Update(p, 1) PROVE Follows
  BY <1>4, UpdateFollows
<1>5. ASSUME NEW p \in Peers, GetPacketsToSend(p) PROVE Follows
  BY <1>5, EndsFacts, OriginTransmits, TargetAcks
<1>6. ASSUME NEW m \in net, Deliver(m) \/ Duplicate(m) PROVE Follows
  BY <1>6, PacketFollows
<1>7. CASE UNCHANGED vars
  <2>1. UNCHANGED <<packet_sequence, sent_packets, pending_acks, send, recv, status, net, sent, delivered>>
    BY <1>7 DEF vars, core
  <2>2. SameSender
    BY <2>1, SameSenderIf
  <2>3. SameReceiver
    BY <2>1, StoredIs DEF SameReceiver
  <2>4. SameNet
    BY <2>1, SameNetIfNet
  <2> QED BY <2>1, <2>2, <2>3, <2>4, Stutters
<1> QED BY <1>1, <1>2, <1>3, <1>4, <1>5, <1>6, <1>7 DEF Next

(***************************************************************************)
(* A pair of connections implements AckProtocol, for either end and any    *)
(* reliable channel.  The packing of messages into packets of a tick, the  *)
(* slices and their retransmission, the shared table of sent packets, the  *)
(* other channels and the packets of the other direction are all steps of  *)
(* the protocol, or none: get_packets_to_send remembers of a packet what   *)
(* it carries and sends only what is unacked, process_packet stores all of *)
(* a packet or disconnects, and an Ack packet takes off the list just what *)
(* the packets it covers carried.                                          *)
(***************************************************************************)
THEOREM ConnectionsImplementAckProtocol == Spec => ImplementsAckProtocol
<1> DEFINE Inv == SenderInv /\ ReceiveInv /\ SliceIdsInv /\ StoredInv /\ LimitsInv
<1>1. Inv /\ [Next]_vars => Inv'
  BY SenderNext, ReceiveNext, StoredNext, LimitsNext
<1>2. Init => Inv
  BY SenderInit, ReceiveInit, StoredInit, LimitsInit
<1>3. Inv /\ [Next]_vars => [Transfer!Next]_(Transfer!vars)
  BY NextFollows DEF Follows
<1> HIDE DEF Inv
<1>4. Spec => []Inv
  BY <1>1, <1>2, PTL DEF Spec
<1> QED BY <1>3, <1>4, TransferInit, PTL DEF Spec, ImplementsAckProtocol, Transfer!Spec
=============================================================================
