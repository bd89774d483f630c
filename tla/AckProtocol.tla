---------------------------- MODULE AckProtocol ----------------------------
(***************************************************************************)
(* The reliability protocol of a RenetClient pair for one direction and    *)
(* one reliable channel, without its packing of messages into packets:     *)
(* what the channel sends is cut into parts (messages and slices), packets *)
(* carry sets of unacked parts under fresh sequences, the receiver records *)
(* the sequence of every packet and sends the ranges back, and the sender  *)
(* takes an acked packet's parts off its list if it still remembers them.  *)
(*                                                                         *)
(* Any step may choose any packet of the network, again or never: packets  *)
(* are lost, duplicated and reordered.  RemoteConnection implements this.  *)
(***************************************************************************)
EXTENDS AckRanges

CONSTANTS
    Part,           \* parts of messages
    MaxSequence     \* bound: sequences the sender uses

ASSUME AckProtocolAssumption == MaxSequence \in Nat

VARIABLES
    next_seq,       \* packet_sequence of the sender
    offered,        \* parts of the messages given to send_message
    unacked,        \* parts the sender still has to deliver
    remembered,     \* sent_packets of the sender: sequence -> parts
    flying,         \* packets on the way to the receiver
    pending,        \* pending_acks of the receiver
    acks,           \* Ack packets on the way to the sender
    stored,         \* parts the receiver has
    failed          \* the receiver has disconnected

sender == <<next_seq, offered, unacked, remembered>>
receiver == <<pending, stored, failed>>
vars == <<sender, receiver, flying, acks>>

Init ==
    /\ next_seq = 0
    /\ offered = {} /\ unacked = {}
    /\ remembered = << >>
    /\ flying = {} /\ acks = {}
    /\ pending = << >>
    /\ stored = {} /\ failed = FALSE

(* send_message *)
Offer ==
    /\ offered' \in SUBSET Part
    /\ offered \subseteq offered'
    /\ unacked' = unacked \union (offered' \ offered)
    /\ UNCHANGED <<next_seq, remembered, receiver, flying, acks>>

(* get_packets_to_send of the sender: every packet has a sequence of its own. *)
Transmit ==
    /\ next_seq' \in next_seq .. MaxSequence
    /\ LET new == next_seq .. (next_seq' - 1)
       IN  /\ remembered' \in [DOMAIN remembered \union new -> SUBSET offered]
           /\ \A s \in DOMAIN remembered : remembered'[s] = remembered[s]
           /\ \A s \in new : remembered'[s] \subseteq unacked
           /\ flying' = flying \union {[seq |-> s, parts |-> remembered'[s]] : s \in new}
    /\ UNCHANGED <<offered, unacked, receiver, acks>>

(* update: packets sent long ago are no longer remembered. *)
Forget ==
    /\ \E lost \in SUBSET DOMAIN remembered :
         remembered' = [s \in DOMAIN remembered \ lost |-> remembered[s]]
    /\ UNCHANGED <<next_seq, offered, unacked, receiver, flying, acks>>

(* Fault: an error of the channel is logged and not acted upon. *)
ReceiveIgnoresErrors(m) ==
    /\ ~failed
    /\ pending' = AddPendingAck(pending, m.seq)
    /\ stored' \in {stored \union some : some \in SUBSET m.parts}
    /\ flying' \in {flying, flying \ {m}}
    /\ UNCHANGED <<sender, failed, acks>>

(***************************************************************************)
(* process_packet of the receiver.  The sequence is recorded first; a      *)
(* packet that carries acks may then cut the ranges; the parts are stored, *)
(* or an error disconnects after some of them.                             *)
(***************************************************************************)
Receive(m) ==
    /\ ~failed
    /\ LET recorded == AddPendingAck(pending, m.seq)
       IN  pending' \in {recorded} \union {AckedLargest(recorded, l) : l \in 0 .. MaxSequence}
    /\ \/ stored' = stored \union m.parts /\ UNCHANGED failed
       \/ /\ failed' = TRUE
          /\ stored' \in {stored \union some : some \in SUBSET m.parts}
    /\ flying' \in {flying, flying \ {m}}
    /\ UNCHANGED <<sender, acks>>

(* Fault: a disconnected receiver still sends acks. *)
SendAckAfterFailure ==
    /\ pending # << >>
    /\ acks' = acks \union {pending}
    /\ UNCHANGED <<sender, receiver, flying>>

(* get_packets_to_send of the receiver *)
SendAck ==
    /\ ~failed /\ pending # << >>
    /\ acks' = acks \union {pending}
    /\ UNCHANGED <<sender, receiver, flying>>

(* process_packet of the sender, for an Ack *)
ProcessAck(a) ==
    LET new_acks == Covered(a) \intersect DOMAIN remembered
    IN  /\ unacked' = unacked \ UNION {remembered[s] : s \in new_acks}
        /\ remembered' = [s \in DOMAIN remembered \ new_acks |-> remembered[s]]
        /\ acks' \in {acks, acks \ {a}}
        /\ UNCHANGED <<next_seq, offered, receiver, flying>>

(* The receiver disconnects for a reason of its own. *)
Fail ==
    /\ failed' = TRUE
    /\ UNCHANGED <<sender, pending, stored, flying, acks>>

Next ==
    \/ Offer \/ Transmit \/ Forget \/ SendAck \/ Fail
    \/ \E m \in flying : Receive(m)
    \/ \E a \in acks : ProcessAck(a)

Spec == Init /\ [][Next]_vars
-----------------------------------------------------------------------------
RangeRecords == [start : Nat, end : Nat]

TypeOK ==
    /\ next_seq \in 0 .. MaxSequence
    /\ offered \subseteq Part /\ unacked \subseteq offered
    /\ remembered \in [DOMAIN remembered -> SUBSET offered]
    /\ DOMAIN remembered \subseteq 0 .. (next_seq - 1)
    /\ flying \subseteq [seq : 0 .. (next_seq - 1), parts : SUBSET Part]
    /\ pending \in Seq(RangeRecords)
    /\ acks \subseteq Seq(RangeRecords)
    /\ failed \in BOOLEAN

(***************************************************************************)
(* A part leaves the sender's list only when the receiver has it.          *)
(***************************************************************************)
AckedAreStored == offered \ unacked \subseteq stored

(* The remembered parts under the sequences of these ranges have arrived. *)
Sound(ranges) ==
    \A s \in Covered(ranges) \intersect DOMAIN remembered : remembered[s] \subseteq stored

(***************************************************************************)
(* Why: recording a sequence before its packet is handled is harmless, as  *)
(* a receiver whose handling failed sends no more acks; a sequence is      *)
(* never used twice; and what is remembered of a packet is what it carried.*)
(***************************************************************************)
AcksAreSound ==
    /\ \A m \in flying : m.seq \in DOMAIN remembered => remembered[m.seq] \subseteq m.parts
    /\ Separated(pending) /\ Covered(pending) \subseteq 0 .. (next_seq - 1)
    /\ ~failed => Sound(pending)
    /\ \A a \in acks : Covered(a) \subseteq 0 .. (next_seq - 1) /\ Sound(a)
=============================================================================
