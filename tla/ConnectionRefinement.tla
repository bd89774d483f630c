------------------------ MODULE ConnectionRefinement ------------------------
(***************************************************************************)
(* A pair of connections implements AckProtocol, in each direction and for *)
(* each reliable channel: the parts of a message are its slices, or the    *)
(* message itself, named by message id and slice index.                    *)
(***************************************************************************)
EXTENDS RemoteConnection

CONSTANTS
    Origin,     \* the peer whose messages are followed
    Channel     \* over this channel

ASSUME RefinementAssumption ==
    Origin \in Peers /\ Channel \in ChannelIds /\ Reliable(Channel)

Target == Other(Origin)

(* The parts of messages of these lengths. *)
OfferedParts(lens) == UNION {{<<k - 1, i>> : i \in Parts(lens[k])} : k \in DOMAIN lens}

(* The parts that a sending half has to deliver. *)
UnackedParts(ch) ==
    UNION {{<<id, i>> : i \in Parts(ch.unacked[id].len) \ ch.unacked[id].acked}
             : id \in DOMAIN ch.unacked}

(* What the sender remembers to have sent over channel c in a packet. *)
PartsOfInfo(info, c) ==
    CASE info.type = "ReliableMessages" /\ info.channel = c -> {<<id, 0>> : id \in info.ids}
      [] info.type = "ReliableSliceMessage" /\ info.channel = c -> {<<info.id, info.index>>}
      [] OTHER -> {}

(* What a packet carries of channel c. *)
PartsOfPacket(packet, c) ==
    CASE packet.type = "SmallReliable" /\ packet.channel = c ->
           {<<m.id, 0>> : m \in ToSet(packet.messages)}
      [] packet.type = "ReliableSlice" /\ packet.channel = c -> {<<packet.id, packet.index>>}
      [] OTHER -> {}

(* The parts of p's channel c that the other end has, or has handed out. *)
PartsAtOther(p, c) ==
    LET r == recv[Other(p)][c]
    IN  {part \in OfferedParts(sent[p][c]) :
            \/ Arrived(p, c, part[1])
            \/ part[1] \in DOMAIN r.slices /\ part[2] \in r.slices[part[1]].got}

(* The variables of AckProtocol that are not variables of the connections. *)
PartsOffered == OfferedParts(sent[Origin][Channel])

PartsUnacked == UnackedParts(send[Origin][Channel])

PartsRemembered ==
    [s \in DOMAIN sent_packets[Origin] |-> PartsOfInfo(sent_packets[Origin][s].info, Channel)]

PartsStored == PartsAtOther(Origin, Channel)

PacketsTo(q) == {m.packet : m \in {n \in net : n.to = q}}

PacketsFlying ==
    {[seq |-> packet.sequence, parts |-> PartsOfPacket(packet, Channel)]
       : packet \in PacketsTo(Target)}

AcksFlying == {DecodeAck(packet.wire) : packet \in {k \in PacketsTo(Origin) : k.type = "Ack"}}

Transfer == INSTANCE AckProtocol WITH
    Part        <- Nat \X Nat,
    MaxSequence <- MaxSequence[Origin],
    next_seq    <- packet_sequence[Origin],
    offered     <- PartsOffered,
    unacked     <- PartsUnacked,
    remembered  <- PartsRemembered,
    flying      <- PacketsFlying,
    pending     <- pending_acks[Target],
    acks        <- AcksFlying,
    stored      <- PartsStored,
    failed      <- ~Open(Target)

(***************************************************************************)
(* Every step of the connections is a step of the acknowledgement protocol *)
(* or none, for what Origin sends over Channel: packing, slicing, flushing,*)
(* resending and the table of sent packets do what the protocol's safety   *)
(* rests on.                                                               *)
(***************************************************************************)
ImplementsAckProtocol == Transfer!Spec
=============================================================================
