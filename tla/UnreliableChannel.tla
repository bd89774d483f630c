------------------------- MODULE UnreliableChannel -------------------------
(***************************************************************************)
(* The two halves of an unreliable channel, renet2/src/channel/            *)
(* unreliable.rs, as operators on the value of the channel.  A message is  *)
(* [data, len]: what it says and how long it is.  cfg.substrate is the     *)
(* setting ordered_reliable_substrate.  Ages stand for current_time minus  *)
(* last_received, cut off at DiscardAfter.                                 *)
(***************************************************************************)
EXTENDS ReliableChannel

CONSTANT DiscardAfter   \* DISCARD_AFTER, 3 s in the code

ASSUME DiscardAfterAssumption == DiscardAfter \in Nat \ {0}

Older(age, d) == IF age + d > DiscardAfter THEN DiscardAfter ELSE age + d

-----------------------------------------------------------------------------
(* SendChannelUnreliable *)

NewSendUnreliable == [queue |-> << >>, sliced_id |-> 0, memory |-> 0]

SendUnreliable(ch, data, len, max) ==
    IF ch.memory + len > max
    THEN ch         \* the message is dropped with a warning
    ELSE [ch EXCEPT !.queue = Append(@, [data |-> data, len |-> len]),
                    !.memory = @ + len]

(***************************************************************************)
(* get_packets_to_send empties the queue.  A message that does not fit in  *)
(* the bytes left is dropped, or, on an ordered reliable substrate, kept   *)
(* together with all that follow it.                                       *)
(***************************************************************************)
FlushUnreliable(st, c) ==
    [st EXCEPT !.packets = Append(@,
                   [type |-> "SmallUnreliable", sequence |-> st.sequence,
                    channel |-> c, messages |-> st.small]),
               !.sequence = @ + 1,
               !.small = << >>,
               !.small_bytes = 0]

UnreliableSlices(st, c, m) ==
    [i \in 1 .. NumSlices(m.len) |->
        [type |-> "UnreliableSlice", sequence |-> st.sequence + i - 1,
         channel |-> c, id |-> st.sliced_id, index |-> i - 1,
         num_slices |-> NumSlices(m.len), len |-> SliceLength(m.len, i - 1),
         data |-> m.data]]

(* Fault: small messages are put together without a limit. *)
PackUnreliableMessageUnlimited(st, c, m) ==
    LET sent == [st EXCEPT !.bytes = @ - m.len]
    IN  IF IsSliced(m.len)
        THEN [sent EXCEPT !.packets = @ \o UnreliableSlices(sent, c, m),
                          !.sequence = @ + NumSlices(m.len),
                          !.sliced_id = @ + 1]
        ELSE [sent EXCEPT !.small = Append(@, m), !.small_bytes = @ + m.len + VarintBytes]

PackUnreliableMessage(st, c, m) ==
    LET sent == [st EXCEPT !.bytes = @ - m.len]
        size == m.len + VarintBytes
        flushed == IF sent.small_bytes + size > SliceSize
                   THEN FlushUnreliable(sent, c) ELSE sent
    IN  IF IsSliced(m.len)
        THEN [sent EXCEPT !.packets = @ \o UnreliableSlices(sent, c, m),
                          !.sequence = @ + NumSlices(m.len),
                          !.sliced_id = @ + 1]
        ELSE [flushed EXCEPT !.small = Append(@, m), !.small_bytes = @ + size]

PackOrOverflow(st, c, m, cfg) ==
    IF st.bytes < m.len \/ st.overflow # << >>
    THEN IF cfg.substrate THEN [st EXCEPT !.overflow = Append(@, m)] ELSE st
    ELSE PackUnreliableMessage(st, c, m)

(* Fault: the queue is overwritten with each message instead of extended. *)
RequeueOverwrites(overflow) == IF overflow = << >> THEN << >> ELSE <<Last(overflow)>>

(* The overflow goes back with push_front, one message after the other. *)
Requeue(overflow) == Reverse(overflow)

TotalLength(messages) == FoldLeft(LAMBDA sum, m : sum + m.len, 0, messages)

(* Generate final packet for remaining small messages. *)
FinishUnreliable(st, c) == IF st.small # << >> THEN FlushUnreliable(st, c) ELSE st

(* What the loop hands back, and the channel with its overflow. *)
AfterPacking(ch, st) ==
    [bytes |-> st.bytes, sequence |-> st.sequence, packets |-> st.packets,
     ch |-> [queue |-> Requeue(st.overflow),
             sliced_id |-> st.sliced_id,
             memory |-> ch.memory - TotalLength(ch.queue) + TotalLength(st.overflow)]]

PackUnreliable(ch, c, sequence, bytes, cfg) ==
    LET start == [bytes |-> bytes, sequence |-> sequence, packets |-> << >>,
                  small |-> << >>, small_bytes |-> 0,
                  sliced_id |-> ch.sliced_id, overflow |-> << >>]
        Pack(st, m) == PackOrOverflow(st, c, m, cfg)
    IN  AfterPacking(ch, FinishUnreliable(FoldLeft(Pack, start, ch.queue), c))

-----------------------------------------------------------------------------
(* ReceiveChannelUnreliable; last_received holds the ages. *)

NewReceiveUnreliable ==
    [messages |-> << >>, slices |-> << >>, last_received |-> << >>,
     memory |-> 0, err |-> "none"]

ProcessUnreliableMessage(r, m, cfg) ==
    IF r.memory + m.len > cfg.max THEN r
    ELSE [r EXCEPT !.memory = @ + m.len, !.messages = Append(@, m)]

CollectUnreliableSlice(r, p) ==
    LET reserve == IF p.id \in DOMAIN r.slices THEN 0 ELSE p.num_slices * SliceSize
        old == IF p.id \in DOMAIN r.slices THEN r.slices[p.id] ELSE NewConstructor(p.num_slices)
        new == AddSlice(old, p.index, p.len)
    IN  IF ~ValidSlice(old, p.index, p.len)
        THEN [r EXCEPT !.memory = @ + reserve, !.slices = With(@, p.id, old),
                       !.err = "InvalidSliceMessage"]
        ELSE IF Cardinality(new.got) = new.n
        THEN [r EXCEPT !.slices = Without(@, p.id),
                       !.last_received = Without(@, p.id),
                       !.memory = @ + reserve - p.num_slices * SliceSize + new.len,
                       !.messages = Append(@, [data |-> p.data, len |-> new.len])]
        ELSE [r EXCEPT !.slices = With(@, p.id, new),
                       !.last_received = With(@, p.id, 0),
                       !.memory = @ + reserve]

ProcessUnreliableSlice(r, p, cfg) ==
    IF p.id \notin DOMAIN r.slices /\ r.memory + p.num_slices * SliceSize > cfg.max
    THEN r
    ELSE CollectUnreliableSlice(r, p)

(***************************************************************************)
(* discard_incomplete_old_slices goes through the message ids in ascending *)
(* order and stops at the first one that is young enough.                  *)
(***************************************************************************)
LostSlices(last_received) ==
    {id \in DOMAIN last_received :
        \A other \in DOMAIN last_received :
            other <= id => last_received[other] >= DiscardAfter}

ReservedBytes(slices, ids) ==
    FoldFunctionOnSet(LAMBDA k, sum : sum + k.n * SliceSize, 0, slices, ids)

(* Faults: what is reserved, or what is collected, is not given up. *)
DiscardKeepsReservation(r, d) ==
    LET aged == [id \in DOMAIN r.last_received |-> Older(r.last_received[id], d)]
        lost == LostSlices(aged)
    IN  [r EXCEPT !.last_received = [id \in DOMAIN aged \ lost |-> aged[id]],
                  !.slices = [id \in DOMAIN @ \ lost |-> @[id]]]

DiscardKeepsSlices(r, d) ==
    LET aged == [id \in DOMAIN r.last_received |-> Older(r.last_received[id], d)]
    IN  [r EXCEPT !.last_received = [id \in DOMAIN aged \ LostSlices(aged) |-> aged[id]]]

DiscardIncompleteOldSlices(r, d) ==
    LET aged == [id \in DOMAIN r.last_received |-> Older(r.last_received[id], d)]
        lost == LostSlices(aged)
    IN  [r EXCEPT !.last_received = [id \in DOMAIN aged \ lost |-> aged[id]],
                  !.slices = [id \in DOMAIN @ \ lost |-> @[id]],
                  !.memory = @ - ReservedBytes(r.slices, lost)]

TakeUnreliableMessage(r) ==
    [r EXCEPT !.messages = Tail(@), !.memory = @ - Head(r.messages).len]
=============================================================================
