----------------------------- MODULE AckVector -----------------------------
(***************************************************************************)
(* The vector pending_acks of one RenetClient, with what has happened to   *)
(* it so far, and what it promises to those who encode it, send it and     *)
(* rely on it.  PendingAcks says what happens to it.                       *)
(***************************************************************************)
EXTENDS AckRanges

VARIABLES
    pending_acks,       \* the vector of ranges
    received,           \* history: sequences handed to add_pending_ack
    largest_acked,      \* largest_acked_packet of the Ack packets sent
    acked_upto          \* history: highest sequence passed to acked_largest

vector == <<pending_acks, received, largest_acked, acked_upto>>
-----------------------------------------------------------------------------
(***************************************************************************)
(* The ranges are non-empty, ascending, and at least one sequence apart.   *)
(* Nothing sorts the vector: it rests on the order of the tests in         *)
(* add_pending_ack's loop and on the merge.  Packet::to_bytes subtracts    *)
(* neighbouring bounds in u64 and relies on it.                            *)
(***************************************************************************)
RangesSeparated == Separated(pending_acks)

(***************************************************************************)
(* No range ever covers a sequence that was not received: merging and      *)
(* trimming never acknowledge a packet that is still missing.              *)
(***************************************************************************)
OnlyReceivedCovered == Covered(pending_acks) \subseteq received

(***************************************************************************)
(* No subtraction of the encoder of an Ack packet goes below zero: the     *)
(* distances and sizes it writes as u64 are natural numbers.               *)
(***************************************************************************)
AckEncodes == pending_acks # << >> => Representable(EncodeAck(pending_acks))

(***************************************************************************)
(* What the peer decodes from an Ack packet is exactly pending_acks.       *)
(***************************************************************************)
AckRoundTrip == pending_acks # << >> => DecodeAck(EncodeAck(pending_acks)) = pending_acks

(***************************************************************************)
(* A packet handed to add_pending_ack is covered right after, whatever is  *)
(* already there, and at the limit only the oldest range is given up; an   *)
(* acked Ack takes away nothing above the largest sequence it carried.     *)
(***************************************************************************)
AcksKeptStep ==
    /\ \A s \in received' \ received : s \in Covered(pending_acks')
    /\ \A s \in Covered(pending_acks) :
         \/ s \in Covered(pending_acks')
         \/ s < pending_acks[1].end /\ Len(pending_acks) >= MaxRanges
         \/ s <= acked_upto'

AcksKept == [][AcksKeptStep]_vector
=============================================================================
