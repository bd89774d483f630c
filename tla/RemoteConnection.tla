-------------------------- MODULE RemoteConnection --------------------------
(***************************************************************************)
(* Two RenetClient values (renet2/src/remote_connection.rs) joined by a    *)
(* network: the client's own, and the one the server keeps for it.  Both   *)
(* run the same code, so every variable is a function of the peer.         *)
(*                                                                         *)
(* The applications send and receive messages; the transports call update, *)
(* get_packets_to_send and process_packet, in any order and at any speed.  *)
(* The network reorders, loses and duplicates packets (a lost packet is    *)
(* one that stays in net for ever), unless it is the ordered reliable      *)
(* substrate of a WebSocket or an in-memory socket.                        *)
(***************************************************************************)
EXTENDS AckRanges, UnreliableChannel

CONSTANTS
    Peers,          \* the two ends
    Channels,       \* ChannelConfig of every channel, in the order of sending
    Lengths,        \* lengths of the messages the applications send
    BytesPerTick,   \* available_bytes_per_tick
    PacketBytes,    \* the most a transport takes, NETCODE_MAX_PAYLOAD_BYTES
    OrderedNetwork, \* TRUE: an ordered reliable substrate
    Senders,        \* the peers whose application sends
    Leavers,        \* the peers whose application may disconnect
    MaxMessages,    \* bound: messages an application sends, by channel
    MaxSequence,    \* bound: packets each peer makes
    MaxDuplicates   \* bound: packets the network delivers twice

ChannelConfig ==
    [reliable : BOOLEAN, ordered : BOOLEAN, substrate : BOOLEAN, max : Nat]

ASSUME RemoteConnectionAssumption ==
    /\ \E a, b \in Peers : a # b /\ Peers = {a, b}
    /\ Senders \union Leavers \subseteq Peers
    /\ Lengths \subseteq Nat
    /\ {BytesPerTick, PacketBytes, MaxDuplicates} \subseteq Nat
    /\ MaxMessages \in [DOMAIN Channels -> Nat]
    /\ MaxSequence \in [Peers -> Nat]
    /\ OrderedNetwork \in BOOLEAN
    /\ Channels \in Seq(ChannelConfig)

MaxNumSlices == 1000000

(* A slice, or a full packet of small messages, fits in a packet of the    *)
(* transport, and no message has more slices than from_bytes takes.        *)
ASSUME PacketRoomAssumption ==
    /\ SliceSize + 4 + 3 * VarintBytes <= PacketBytes
    /\ SliceSize + 2 + 5 * VarintBytes <= PacketBytes
    /\ \A len \in Lengths : IsSliced(len) => NumSlices(len) \in 1 .. MaxNumSlices

ChannelIds == DOMAIN Channels

Reliable(c) == Channels[c].reliable

Other(p) == CHOOSE q \in Peers : q # p

VARIABLES
    packet_sequence,    \* sequence of the next packet
    sent_packets,       \* packets not yet acked or given up: sequence -> [age, info]
    pending_acks,       \* ranges to acknowledge
    send,               \* send channels
    recv,               \* receive channels
    status,             \* "open", or the reason of the disconnect
    net,                \* packets on the way, each with its destination
    duplicated,         \* packets delivered a second time so far
    sent,               \* history: lengths of the messages given to send_message
    delivered           \* history: messages handed out by receive_message

core == <<packet_sequence, sent_packets, pending_acks, send, recv, status>>
vars == <<core, net, duplicated, sent, delivered>>

Open(p) == status[p] = "open"

Init ==
    /\ packet_sequence = [p \in Peers |-> 0]
    /\ sent_packets = [p \in Peers |-> << >>]
    /\ pending_acks = [p \in Peers |-> << >>]
    /\ send = [p \in Peers |-> [c \in ChannelIds |->
                 IF Reliable(c) THEN NewSendReliable ELSE NewSendUnreliable]]
    /\ recv = [p \in Peers |-> [c \in ChannelIds |->
                 IF Reliable(c) THEN NewReceiveReliable ELSE NewReceiveUnreliable]]
    /\ status = [p \in Peers |-> "open"]
    /\ net = {}
    /\ duplicated = 0
    /\ sent = [p \in Peers |-> [c \in ChannelIds |-> << >>]]
    /\ delivered = [p \in Peers |-> [c \in ChannelIds |-> << >>]]

-----------------------------------------------------------------------------
(* The application *)

(* send_message on a reliable channel: an error of the channel disconnects. *)
SendReliableMessage(p, c, len) ==
    IF CanSendMessage(send[p][c], len, Channels[c].max)
    THEN /\ send' = [send EXCEPT ![p][c] = SendReliable(@, len)]
         /\ sent' = [sent EXCEPT ![p][c] = Append(@, len)]
         /\ UNCHANGED status
    ELSE /\ status' = [status EXCEPT ![p] = "SendChannelError"]
         /\ UNCHANGED <<send, sent>>

SendUnreliableMessage(p, c, len) ==
    /\ send' = [send EXCEPT ![p][c] =
                  SendUnreliable(@, Len(sent[p][c]), len, Channels[c].max)]
    /\ sent' = [sent EXCEPT ![p][c] = Append(@, len)]
    /\ UNCHANGED status

SendMessage(p, c, len) ==
    /\ Open(p)
    /\ Len(sent[p][c]) < MaxMessages[c]
    /\ \/ Reliable(c) /\ SendReliableMessage(p, c, len)
       \/ ~Reliable(c) /\ SendUnreliableMessage(p, c, len)
    /\ UNCHANGED <<packet_sequence, sent_packets, pending_acks, recv, net, duplicated, delivered>>

(* receive_message when it returns a message *)
ReceiveMessage(p, c) ==
    /\ Open(p)
    /\ \/ /\ Reliable(c)
          /\ \E id \in NextReceivable(recv[p][c], Channels[c]) :
               /\ recv' = [recv EXCEPT ![p][c] = TakeMessage(@, id, Channels[c])]
               /\ delivered' = [delivered EXCEPT ![p][c] = Append(@, id)]
       \/ /\ ~Reliable(c)
          /\ recv[p][c].messages # << >>
          /\ recv' = [recv EXCEPT ![p][c] = TakeUnreliableMessage(@)]
          /\ delivered' = [delivered EXCEPT ![p][c] =
                             Append(@, Head(recv[p][c].messages).data)]
    /\ UNCHANGED <<packet_sequence, sent_packets, pending_acks, send, status, net, duplicated, sent>>

(* disconnect, disconnect_due_to_transport *)
Disconnect(p) ==
    /\ Open(p)
    /\ status' = [status EXCEPT ![p] = "Disconnected"]
    /\ UNCHANGED <<packet_sequence, sent_packets, pending_acks, send, recv, net,
                   duplicated, sent, delivered>>

-----------------------------------------------------------------------------
(***************************************************************************)
(* update: time passes by d, incomplete slices of unreliable channels and  *)
(* packets sent too long ago are given up.  Both loops stop at the first   *)
(* entry that is young enough.                                             *)
(***************************************************************************)
(* Fault: only the first packet is looked at. *)
LostPacketsFirstOnly(packets) ==
    {s \in DOMAIN packets :
        /\ packets[s].age >= DiscardAfter
        /\ \A t \in DOMAIN packets : s <= t}

LostPackets(packets) ==
    {s \in DOMAIN packets :
        \A t \in DOMAIN packets : t <= s => packets[t].age >= DiscardAfter}

AgeSentPackets(packets, d) ==
    LET aged == [s \in DOMAIN packets |->
                    [packets[s] EXCEPT !.age = Older(@, d)]]
    IN  [s \in DOMAIN aged \ LostPackets(aged) |-> aged[s]]

Update(p, d) ==
    /\ sent_packets' = [sent_packets EXCEPT ![p] = AgeSentPackets(@, d)]
    /\ send' = [send EXCEPT ![p] = [c \in ChannelIds |->
                  IF Reliable(c) THEN AgeUnacked(@[c], d) ELSE @[c]]]
    /\ recv' = [recv EXCEPT ![p] = [c \in ChannelIds |->
                  IF Reliable(c) THEN @[c] ELSE DiscardIncompleteOldSlices(@[c], d)]]
    /\ UNCHANGED <<packet_sequence, pending_acks, status, net, duplicated, sent, delivered>>

-----------------------------------------------------------------------------
(* get_packets_to_send *)

(* The channels in their order share the bytes of the tick. *)
PackChannel(st, c) ==
    IF Reliable(c) THEN PackReliable(st.send[c], c, st.sequence, st.bytes)
    ELSE PackUnreliable(st.send[c], c, st.sequence, st.bytes, Channels[c])

JoinPacked(st, c, packed) ==
    [bytes |-> packed.bytes, sequence |-> packed.sequence,
     packets |-> st.packets \o packed.packets,
     send |-> [st.send EXCEPT ![c] = packed.ch]]

PackChannels(p) ==
    FoldLeft(LAMBDA st, c : JoinPacked(st, c, PackChannel(st, c)),
             [bytes |-> BytesPerTick, sequence |-> packet_sequence[p],
              packets |-> << >>, send |-> send[p]],
             [c \in ChannelIds |-> c])

(* The Ack packet that closes the tick, if anything is pending. *)
AckPackets(p, sequence) ==
    IF pending_acks[p] = << >> THEN << >>
    ELSE <<[type |-> "Ack", sequence |-> sequence, wire |-> EncodeAck(pending_acks[p])]>>

(* Bytes that to_bytes takes for the messages of a packet, each with its   *)
(* length and, on a reliable channel, its id.                              *)
MessagesSize(messages, varints) ==
    FoldLeft(LAMBDA sum, m : sum + (m.len + varints * VarintBytes), 0, messages)

(* to_bytes: type, sequence, channel, and what the packet carries *)
SerializedSize(packet) ==
    CASE packet.type = "SmallReliable" ->
           1 + VarintBytes + 1 + 2 + MessagesSize(packet.messages, 2)
      [] packet.type = "SmallUnreliable" ->
           1 + VarintBytes + 1 + 2 + MessagesSize(packet.messages, 1)
      [] packet.type \in {"ReliableSlice", "UnreliableSlice"} ->
           1 + VarintBytes + 1 + 4 * VarintBytes + packet.len
      [] packet.type = "Ack" ->
           1 + VarintBytes + (3 + 2 * Len(packet.wire.rest)) * VarintBytes

(* from_bytes returns a packet: what it checks of the slices *)
FromBytesAccepts(packet) ==
    /\ packet.type \in {"ReliableSlice", "UnreliableSlice"} => packet.num_slices \in 1 .. MaxNumSlices
    /\ packet.type = "ReliableSlice" => packet.len \in 1 .. SliceSize

(* PacketSentInfo *)
SentInfo(packet, acks) ==
    CASE packet.type = "SmallReliable" ->
           [type |-> "ReliableMessages", channel |-> packet.channel,
            ids |-> {m.id : m \in ToSet(packet.messages)}]
      [] packet.type = "ReliableSlice" ->
           [type |-> "ReliableSliceMessage", channel |-> packet.channel,
            id |-> packet.id, index |-> packet.index]
      [] packet.type = "Ack" ->
           [type |-> "Ack", largest |-> acks[Len(acks)].end - 1]
      [] OTHER -> [type |-> "None"]

(* The packets leave, and sent_packets remembers them. *)
Transmit(p, channels, packets) ==
    LET first == packet_sequence[p]
        last == first + Len(packets) - 1
    IN  /\ last < MaxSequence[p]
        /\ packet_sequence' = [packet_sequence EXCEPT ![p] = last + 1]
        /\ sent_packets' = [sent_packets EXCEPT ![p] =
             [s \in DOMAIN @ \union (first .. last) |->
                IF s < first THEN @[s]
                ELSE [age |-> 0, info |-> SentInfo(packets[s - first + 1], pending_acks[p])]]]
        /\ send' = [send EXCEPT ![p] = channels]
        /\ net' = net \union {[to |-> Other(p), packet |-> packet] : packet \in ToSet(packets)}
        /\ UNCHANGED <<pending_acks, recv, status, duplicated, sent, delivered>>

GetPacketsToSend(p) ==
    /\ Open(p)
    /\ \E packed \in {PackChannels(p)} :
         Transmit(p, packed.send, packed.packets \o AckPackets(p, packed.sequence))

-----------------------------------------------------------------------------
(* process_packet *)

(* Fault: an error of a receive channel does not disconnect. *)
AfterReceiveStaysOpen(p, c, channel) ==
    /\ recv' = [recv EXCEPT ![p][c] = [channel EXCEPT !.err = "none"]]
    /\ UNCHANGED <<status, sent_packets, send>>

(* An error of a receive channel disconnects; err of the channel is then final. *)
AfterReceive(p, c, channel) ==
    /\ recv' = [recv EXCEPT ![p][c] = channel]
    /\ status' = IF channel.err = "none" THEN status
                 ELSE [status EXCEPT ![p] = channel.err]
    /\ UNCHANGED <<sent_packets, send>>

(* The messages of a packet one after the other, up to the first error. *)
ProcessSmallReliable(p, packet) ==
    LET cfg == Channels[packet.channel]
        Process(r, m) == IF r.err # "none" THEN r ELSE ProcessMessage(r, m.id, m.len, cfg)
    IN  AfterReceive(p, packet.channel,
                     FoldLeft(Process, recv[p][packet.channel], packet.messages))

ProcessSmallUnreliable(p, packet) ==
    LET cfg == Channels[packet.channel]
        Process(r, m) == ProcessUnreliableMessage(r, m, cfg)
    IN  AfterReceive(p, packet.channel,
                     FoldLeft(Process, recv[p][packet.channel], packet.messages))

ProcessReliableSlice(p, packet) ==
    AfterReceive(p, packet.channel,
        ProcessSlice(recv[p][packet.channel], packet, Channels[packet.channel]))

ProcessUnreliableSlicePacket(p, packet) ==
    AfterReceive(p, packet.channel,
        ProcessUnreliableSlice(recv[p][packet.channel], packet, Channels[packet.channel]))

(* What the ack of one packet does: st is [send, pending_acks]. *)
AckPacket(st, info) ==
    CASE info.type = "ReliableMessages" ->
           [st EXCEPT !.send[info.channel] =
              FoldSet(LAMBDA id, ch : ProcessMessageAck(ch, id), @, info.ids)]
      [] info.type = "ReliableSliceMessage" ->
           [st EXCEPT !.send[info.channel] =
              ProcessSliceMessageAck(@, info.id, info.index)]
      [] info.type = "Ack" ->
           [st EXCEPT !.pending_acks = AckedLargest(@, info.largest)]
      [] info.type = "None" -> st

(* Fault: acks are taken to be cumulative. *)
NewAcksCumulative(p, wire) ==
    {s \in DOMAIN sent_packets[p] : s <= wire.first_end}

(* The acked packets that are still remembered, by ascending sequence. *)
NewAcks(p, wire) == Covered(DecodeAck(wire)) \intersect DOMAIN sent_packets[p]

ProcessAck(p, packet, acks) ==
    LET new_acks == NewAcks(p, packet.wire)
        after == MapThenFoldSet(LAMBDA s, st : AckPacket(st, sent_packets[p][s].info),
                                [send |-> send[p], pending_acks |-> acks],
                                LAMBDA s : s, Max, new_acks)
    IN  /\ send' = [send EXCEPT ![p] = after.send]
        /\ pending_acks' = [pending_acks EXCEPT ![p] = after.pending_acks]
        /\ sent_packets' = [sent_packets EXCEPT ![p] =
                              [s \in DOMAIN @ \ new_acks |-> @[s]]]
        /\ UNCHANGED <<recv, status>>

(* The sequence is recorded before the packet is handled. *)
ProcessPacket(p, packet) ==
    LET acks == AddPendingAck(pending_acks[p], packet.sequence)
    IN  /\ Open(p)
        /\ \/ /\ packet.type = "Ack"
              /\ ProcessAck(p, packet, acks)
           \/ /\ pending_acks' = [pending_acks EXCEPT ![p] = acks]
              /\ \/ packet.type = "SmallReliable" /\ ProcessSmallReliable(p, packet)
                 \/ packet.type = "ReliableSlice" /\ ProcessReliableSlice(p, packet)
                 \/ packet.type = "SmallUnreliable" /\ ProcessSmallUnreliable(p, packet)
                 \/ packet.type = "UnreliableSlice" /\ ProcessUnreliableSlicePacket(p, packet)
        /\ UNCHANGED <<packet_sequence, sent, delivered>>

-----------------------------------------------------------------------------
(* The network.  A packet of an ordered network arrives after its elders. *)
Arrivable(m) ==
    OrderedNetwork =>
        \A o \in net : o.to = m.to => m.packet.sequence <= o.packet.sequence

Deliver(m) ==
    /\ Arrivable(m)
    /\ ProcessPacket(m.to, m.packet)
    /\ net' = net \ {m}
    /\ UNCHANGED duplicated

Duplicate(m) ==
    /\ ~OrderedNetwork
    /\ duplicated < MaxDuplicates
    /\ ProcessPacket(m.to, m.packet)
    /\ duplicated' = duplicated + 1
    /\ UNCHANGED net

Next ==
    \/ \E p \in Senders, c \in ChannelIds, len \in Lengths : SendMessage(p, c, len)
    \/ \E p \in Peers, c \in ChannelIds : ReceiveMessage(p, c)
    \/ \E p \in Leavers : Disconnect(p)
    \/ \E p \in Peers : Update(p, 1)
    \/ \E p \in Peers : GetPacketsToSend(p)
    \/ \E m \in net : Deliver(m) \/ Duplicate(m)

Spec == Init /\ [][Next]_vars
-----------------------------------------------------------------------------
TypeOK ==
    /\ \A p \in Peers : packet_sequence[p] \in 0 .. MaxSequence[p]
    /\ \A p \in Peers :
         /\ \A s \in DOMAIN sent_packets[p] : sent_packets[p][s].age \in 0 .. DiscardAfter
         /\ pending_acks[p] \in Seq([start : Nat, end : Nat])
         /\ \A c \in ChannelIds : {send[p][c].memory, recv[p][c].memory} \subseteq Nat
    /\ \A m \in net : m.to \in Peers /\ m.packet.sequence < packet_sequence[Other(m.to)]

(* Message id of p's reliable channel c is at, or has passed, the other end. *)
Arrived(p, c, id) ==
    LET q == Other(p)
    IN  id \in DOMAIN recv[q][c].messages \union ToSet(delivered[q][c])

(***************************************************************************)
(* The sender drops a message, or ticks off a slice, only when the other   *)
(* end has it.  A sequence is recorded for acknowledgement before the      *)
(* packet is handled, acknowledgements are merged into ranges, and the     *)
(* memory of sent packets outlives the packets of earlier ticks: none of   *)
(* it may acknowledge what was not stored (process_packet,                 *)
(* process_message_ack, process_slice_message_ack).                        *)
(***************************************************************************)
AckedIsStored ==
    \A p \in Peers, c \in {d \in ChannelIds : Reliable(d)} :
        /\ \A id \in 0 .. (send[p][c].next_id - 1) :
             id \notin DOMAIN send[p][c].unacked => Arrived(p, c, id)
        /\ \A id \in DOMAIN send[p][c].unacked : \A i \in send[p][c].unacked[id].acked :
             \/ Arrived(p, c, id)
             \/ /\ id \in DOMAIN recv[Other(p)][c].slices
                /\ i \in recv[Other(p)][c].slices[id].got

(***************************************************************************)
(* "Messages are guaranteed to be received and in the same order they were *)
(* sent" (channel/mod.rs, ReliableOrdered): what an application has        *)
(* received is a prefix of what the other sent, without gap or repetition. *)
(***************************************************************************)
OrderedIsPrefix ==
    \A p \in Peers, c \in {d \in ChannelIds : Reliable(d) /\ Channels[d].ordered} :
        /\ \A k \in DOMAIN delivered[p][c] : delivered[p][c][k] = k - 1
        /\ Len(delivered[p][c]) <= Len(sent[Other(p)][c])

(***************************************************************************)
(* A reliable unordered channel hands out every message at most once, and  *)
(* only messages that were sent, although old_pending moves past messages  *)
(* that are still waiting to be handed out.                                *)
(***************************************************************************)
UnorderedOnce ==
    \A p \in Peers, c \in {d \in ChannelIds : Reliable(d) /\ ~Channels[d].ordered} :
        /\ IsInjective(delivered[p][c])
        /\ ToSet(delivered[p][c]) \subseteq 0 .. (Len(sent[Other(p)][c]) - 1)
        /\ ToSet(delivered[p][c]) \intersect DOMAIN recv[p][c].messages = {}

(***************************************************************************)
(* The byte counters of both halves are the bytes really held, through     *)
(* acks of messages and of slices, reservations for slices, completions    *)
(* and deliveries, and never exceed the configured maximum: a drift would  *)
(* end in a spurious disconnect, or an underflow.                          *)
(***************************************************************************)
MessageBytes(messages) == SumFunction(messages)

UnackedBytes(unacked) == SumFunction([id \in DOMAIN unacked |-> unacked[id].len])

HeldBytes(p, c) ==
    LET r == recv[p][c]
    IN  (IF Reliable(c) THEN MessageBytes(r.messages) ELSE TotalLength(r.messages))
            + ReservedBytes(r.slices, DOMAIN r.slices)

QueuedBytes(p, c) ==
    IF Reliable(c) THEN UnackedBytes(send[p][c].unacked) ELSE TotalLength(send[p][c].queue)

MemoryIsExact ==
    \A p \in Peers, c \in ChannelIds :
        /\ send[p][c].memory = QueuedBytes(p, c) /\ send[p][c].memory <= Channels[c].max
        /\ Open(p) => recv[p][c].memory = HeldBytes(p, c) /\ recv[p][c].memory <= Channels[c].max

(***************************************************************************)
(* "If the current packet is not lost, the next ones will not be lost      *)
(* since all the next packets were sent after this one" (remote_connection *)
(* .rs:459): stopping early in update leaves no expired packet behind.     *)
(***************************************************************************)
NoExpiredPacketKept ==
    \A p \in Peers : \A s \in DOMAIN sent_packets[p] : sent_packets[p][s].age < DiscardAfter

(***************************************************************************)
(* A slice constructor of an ordered channel exists only for a message     *)
(* that is still to be assembled ("Message already assembled",             *)
(* reliable.rs:323): otherwise its memory stays reserved for slices that   *)
(* never come.  An unordered channel does not have this property: the test *)
(* of process_slice knows nothing of received_messages, and a late slice   *)
(* of a message handed out ahead of an older one is collected again.       *)
(***************************************************************************)
NoConstructorOfAssembled ==
    \A p \in Peers, c \in {d \in ChannelIds : Reliable(d) /\ Channels[d].ordered} :
        \A id \in DOMAIN recv[p][c].slices : ~Arrived(Other(p), c, id)

(***************************************************************************)
(* A message that waits for the application has the length it was sent     *)
(* with, and so does one put together from slices: the constructor starts  *)
(* from num_slices * SLICE_SIZE and learns the true length from the last   *)
(* slice alone, whenever that one arrives.                                 *)
(***************************************************************************)
MessagesIntact ==
    \A p \in Peers, c \in ChannelIds :
        LET waiting == recv[p][c].messages
            theirs == sent[Other(p)][c]
        IN  IF Reliable(c)
            THEN \A id \in DOMAIN waiting : waiting[id] = theirs[id + 1]
            ELSE \A m \in ToSet(waiting) : m.len = theirs[m.data + 1]

UnreliableIds == {c \in ChannelIds : ~Reliable(c)}

(***************************************************************************)
(* Every constructor of an unreliable channel has a time of last receipt,  *)
(* and every time a constructor: a constructor without one would never be  *)
(* discarded, a time without one makes discard_incomplete_old_slices panic *)
(* (its "discarded slice should exist").                                   *)
(***************************************************************************)
SlicesAreTimed ==
    \A p \in Peers, c \in UnreliableIds :
        Open(p) => DOMAIN recv[p][c].slices = DOMAIN recv[p][c].last_received

(***************************************************************************)
(* What get_packets_to_send makes fits in the packet of a transport and    *)
(* passes the checks of from_bytes at the other end, however messages,     *)
(* slices and acks fall together: an error of either side would disconnect *)
(* (PacketSerialization, PacketDeserialization).                           *)
(***************************************************************************)
PacketsParse ==
    \A m \in net : SerializedSize(m.packet) <= PacketBytes /\ FromBytesAccepts(m.packet)

SubstrateIds == {c \in UnreliableIds : Channels[c].substrate}

(* The packets of p's channel c that are on the way. *)
OnTheWay(p, c) ==
    {m.packet : m \in {n \in net : n.to = Other(p) /\ n.packet.type # "Ack"
                                     /\ n.packet.channel = c}}

DataOf(packet) ==
    IF packet.type = "SmallUnreliable" THEN {m.data : m \in ToSet(packet.messages)}
    ELSE {packet.data}

DataWaiting(messages) == {m.data : m \in ToSet(messages)}

(***************************************************************************)
(* "unreliable channels will behave like reliable channels by not dropping *)
(* messages when there are too many bytes to send in one tick"             *)
(* (unreliable.rs:21): over an ordered reliable network a message small    *)
(* enough not to be sliced is at any time in exactly one place: queued, on *)
(* the way, waiting, or handed out.                                        *)
(***************************************************************************)
Places(p, c, d) ==
    LET q == Other(p)
    IN  <<d \in DataWaiting(send[p][c].queue),
          \E packet \in OnTheWay(p, c) : d \in DataOf(packet),
          d \in DataWaiting(recv[q][c].messages),
          d \in ToSet(delivered[q][c])>>

SubstrateConserves ==
    \A p \in Peers, c \in SubstrateIds :
        /\ IsInjective(delivered[p][c])
        /\ \A k \in DOMAIN sent[p][c] : ~IsSliced(sent[p][c][k]) =>
             \E i \in 1 .. 4 : \A j \in 1 .. 4 : Places(p, c, k - 1)[j] <=> i = j

(***************************************************************************)
(* When it does: no channel runs out of memory, which drops messages on    *)
(* any network.  Room is what one message takes, or the slices of one, and *)
(* a receiving half may hold all messages and reserve for all at once.     *)
(***************************************************************************)
RoomForAll ==
    \A c \in SubstrateIds : \E room \in 0 .. Channels[c].max :
        /\ \A len \in Lengths :
             len <= room /\ (IsSliced(len) => NumSlices(len) * SliceSize <= room)
        /\ 2 * (MaxMessages[c] * room) <= Channels[c].max

(***************************************************************************)
(* "Once this is triggered, we stop sending messages so the 'ordered'      *)
(* setting can be maintained" (unreliable.rs:72): over an ordered reliable *)
(* network the messages of such a channel are handed out in the order they *)
(* were sent.                                                              *)
(***************************************************************************)
SubstrateInOrder ==
    \A p \in Peers, c \in SubstrateIds :
        \A i, j \in DOMAIN delivered[p][c] : i < j => delivered[p][c][i] < delivered[p][c][j]
=============================================================================
