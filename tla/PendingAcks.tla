---------------------------- MODULE PendingAcks ----------------------------
(***************************************************************************)
(* The life of pending_acks in one RenetClient.  A packet of the peer adds *)
(* its sequence (process_packet, before anything else is done with it);    *)
(* get_packets_to_send copies the ranges into an Ack packet and remembers  *)
(* the largest sequence in it; when the peer acks that Ack packet, every   *)
(* range up to the remembered sequence is forgotten.  Packets arrive in    *)
(* any order, more than once or never, and so do the acks of the acks.     *)
(***************************************************************************)
EXTENDS AckVector

CONSTANT MaxSequence    \* bound: the peer's packets are 0 .. MaxSequence

ASSUME MaxSequenceAssumption == MaxSequence \in Nat

PeerSequences == 0 .. MaxSequence

Init ==
    /\ pending_acks = << >>
    /\ received = {}
    /\ largest_acked = {}
    /\ acked_upto = -1

(* process_packet: the sequence of any packet that decodes is recorded. *)
ReceivePacket(s) ==
    /\ pending_acks' = AddPendingAck(pending_acks, s)
    /\ received' = received \union {s}
    /\ UNCHANGED <<largest_acked, acked_upto>>

(* get_packets_to_send: an Ack packet with a copy of the ranges. *)
SendAck ==
    /\ pending_acks # << >>
    /\ largest_acked' =
         largest_acked \union {pending_acks[Len(pending_acks)].end - 1}
    /\ UNCHANGED <<pending_acks, received, acked_upto>>

(* process_packet of the peer's ack of one of the Ack packets. *)
AckIsAcked(l) ==
    /\ pending_acks' = AckedLargest(pending_acks, l)
    /\ acked_upto' = IF l > acked_upto THEN l ELSE acked_upto
    /\ UNCHANGED <<received, largest_acked>>

Next ==
    \/ \E s \in PeerSequences : ReceivePacket(s)
    \/ SendAck
    \/ \E l \in largest_acked : AckIsAcked(l)

Spec == Init /\ [][Next]_vector
-----------------------------------------------------------------------------
TypeOK ==
    /\ pending_acks \in Seq([start : Nat, end : Nat])
    /\ received \subseteq Nat
    /\ largest_acked \subseteq Nat
    /\ acked_upto \in Nat \union {-1}
=============================================================================
