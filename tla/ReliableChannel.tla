-------------------------- MODULE ReliableChannel --------------------------
(***************************************************************************)
(* The two halves of a reliable channel, renet2/src/channel/reliable.rs    *)
(* and slice_constructor.rs, as operators on the value of the channel:     *)
(* SendChannelReliable, ReceiveChannelReliable and SliceConstructor.       *)
(*                                                                         *)
(* A payload is abstracted to its length and to the id under which the     *)
(* sender stored it.  Time is kept as ages: the code only ever compares    *)
(* current_time - last_sent with resend_time, so an unacked part carries   *)
(* that difference, cut off at ResendTime; a part that was never sent      *)
(* (last_sent = None) is due like one sent ResendTime ago.                 *)
(***************************************************************************)
EXTENDS Integers, Sequences, FiniteSets, SequencesExt

CONSTANTS
    SliceSize,      \* SLICE_SIZE: longest payload of a packet
    VarintBytes,    \* varint_len of an id or of a length
    ResendTime      \* resend_time of the channel

ASSUME ReliableChannelAssumption ==
    /\ SliceSize \in Nat \ {0}
    /\ VarintBytes \in Nat
    /\ ResendTime \in Nat \ {0}

NumSlices(len) == (len + SliceSize - 1) \div SliceSize

IsSliced(len) == len > SliceSize

(* The parts a message is sent and acked in: itself, or its slices. *)
Parts(len) == IF IsSliced(len) THEN 0 .. (NumSlices(len) - 1) ELSE {0}

SliceLength(len, i) ==
    IF i = NumSlices(len) - 1 THEN len - i * SliceSize ELSE SliceSize

Without(f, x) == [y \in DOMAIN f \ {x} |-> f[y]]

With(f, x, v) == [y \in DOMAIN f \union {x} |-> IF y = x THEN v ELSE f[y]]

-----------------------------------------------------------------------------
(* SendChannelReliable *)

NewSendReliable == [unacked |-> << >>, next_id |-> 0, memory |-> 0]

UnackedMessage(len) ==
    [len |-> len, acked |-> {}, next_slice |-> 0,
     age |-> [i \in Parts(len) |-> ResendTime]]

CanSendMessage(ch, len, max) == ch.memory + len <= max

(* send_message past its memory check *)
SendReliable(ch, len) ==
    [unacked |-> With(ch.unacked, ch.next_id, UnackedMessage(len)),
     next_id |-> ch.next_id + 1,
     memory  |-> ch.memory + len]

(* process_message_ack *)
ProcessMessageAck(ch, id) ==
    IF id \in DOMAIN ch.unacked
    THEN [ch EXCEPT !.unacked = Without(@, id),
                    !.memory  = @ - ch.unacked[id].len]
    ELSE ch

(* process_slice_message_ack *)
ProcessSliceMessageAck(ch, id, i) ==
    IF id \notin DOMAIN ch.unacked \/ i \in ch.unacked[id].acked
    THEN ch
    ELSE LET m == ch.unacked[id]
             acked == m.acked \union {i}
         IN  IF Cardinality(acked) = NumSlices(m.len)
             THEN [ch EXCEPT !.unacked = Without(@, id), !.memory = @ - m.len]
             ELSE [ch EXCEPT !.unacked[id].acked = acked]

(* The passing of time, seen by the channel. *)
AgeMessage(m, d) ==
    [m EXCEPT !.age = [i \in DOMAIN @ |->
        IF @[i] + d > ResendTime THEN ResendTime ELSE @[i] + d]]

AgeUnacked(ch, d) ==
    [ch EXCEPT !.unacked = [id \in DOMAIN @ |-> AgeMessage(@[id], d)]]

Due(m, i) == m.age[i] >= ResendTime

(***************************************************************************)
(* get_packets_to_send walks the unacked messages by ascending id.  The    *)
(* value walked along is that of its local variables: the bytes left, the  *)
(* packet sequence, the packets made, the small messages held back for the *)
(* next SmallReliable packet with their size, and the updated channel.     *)
(***************************************************************************)
SmallReliablePacket(st, c) ==
    [type |-> "SmallReliable", sequence |-> st.sequence, channel |-> c,
     messages |-> st.small]

FlushSmall(st, c) ==
    [st EXCEPT !.packets = Append(@, SmallReliablePacket(st, c)),
               !.sequence = @ + 1,
               !.small = << >>,
               !.small_bytes = 0]

PackSmall(st, c, id) ==
    LET m == st.ch.unacked[id]
        size == m.len + 2 * VarintBytes     \* its length and its id
        flushed == IF st.small_bytes + size > SliceSize THEN FlushSmall(st, c) ELSE st
    IN  IF st.bytes < m.len \/ ~Due(m, 0)
        THEN st
        ELSE [flushed EXCEPT !.bytes = @ - m.len,
                             !.small_bytes = @ + size,
                             !.small = Append(@, [id |-> id, len |-> m.len]),
                             !.ch.unacked[id].age[0] = 0]

PackSlice(st, c, id, i) ==
    LET m == st.ch.unacked[id]
        len == SliceLength(m.len, i)
    IN  IF st.bytes < SliceSize \/ i \in m.acked \/ ~Due(m, i)
        THEN st
        ELSE [st EXCEPT !.bytes = @ - len,
                        !.packets = Append(@,
                            [type |-> "ReliableSlice", sequence |-> st.sequence,
                             channel |-> c, id |-> id, index |-> i,
                             num_slices |-> NumSlices(m.len), len |-> len]),
                        !.sequence = @ + 1,
                        !.ch.unacked[id].age[i] = 0,
                        !.ch.unacked[id].next_slice = i + 1]

PackSlices(st, c, id) ==
    LET n == NumSlices(st.ch.unacked[id].len)
        first == st.ch.unacked[id].next_slice
    IN  FoldLeft(LAMBDA s, i : PackSlice(s, c, id, i), st,
                 [k \in 1 .. n |-> (first + k - 1) % n])

PackMessage(st, c, id) ==
    IF IsSliced(st.ch.unacked[id].len) THEN PackSlices(st, c, id) ELSE PackSmall(st, c, id)

(* Generate final packet for remaining small messages. *)
FinishSmall(st, c) == IF st.small # << >> THEN FlushSmall(st, c) ELSE st

PackReliable(ch, c, sequence, bytes) ==
    LET start == [bytes |-> bytes, sequence |-> sequence, packets |-> << >>,
                  small |-> << >>, small_bytes |-> 0, ch |-> ch]
    IN  FinishSmall(MapThenFoldSet(LAMBDA id, st : PackMessage(st, c, id), start,
                                   LAMBDA id : id, Max, DOMAIN ch.unacked), c)

-----------------------------------------------------------------------------
(***************************************************************************)
(* ReceiveChannelReliable.  received is received_messages, which only the  *)
(* unordered channel has.  The operations that can fail set err, which the *)
(* connection turns into a disconnect.                                     *)
(***************************************************************************)
NewReceiveReliable ==
    [slices |-> << >>, messages |-> << >>, oldest |-> 0, received |-> {},
     memory |-> 0, err |-> "none"]

StoreMessage(r, id, len, max) ==
    IF r.memory + len > max
    THEN [r EXCEPT !.err = "ReliableChannelMaxMemoryReached"]
    ELSE [r EXCEPT !.memory = @ + len, !.messages = With(@, id, len)]

(* Fault: the unordered channel does not look at received_messages. *)
ProcessMessageForgets(r, id, len, cfg) ==
    IF id < r.oldest \/ id \in DOMAIN r.messages THEN r
    ELSE [StoreMessage(r, id, len, cfg.max) EXCEPT !.received = @ \union {id}]

ProcessMessage(r, id, len, cfg) ==
    CASE id < r.oldest -> r
      [] id >= r.oldest /\ cfg.ordered ->
           IF id \in DOMAIN r.messages THEN r ELSE StoreMessage(r, id, len, cfg.max)
      [] id >= r.oldest /\ ~cfg.ordered ->
           IF id \in r.received
           THEN r
           ELSE LET stored == StoreMessage(r, id, len, cfg.max)
                IN  IF stored.err # "none" THEN stored
                    ELSE [stored EXCEPT !.received = @ \union {id}]

(* SliceConstructor *)
NewConstructor(n) == [n |-> n, got |-> {}, len |-> n * SliceSize]

ValidSlice(k, i, len) ==
    IF i = k.n - 1 THEN len <= SliceSize ELSE len = SliceSize

(* Fault: the last slice does not shorten the message. *)
AddSliceKeepsLength(k, i, len) == [k EXCEPT !.got = @ \union {i}]

AddSlice(k, i, len) ==
    IF i \in k.got THEN k
    ELSE [k EXCEPT !.got = @ \union {i},
                   !.len = IF i = k.n - 1 THEN (k.n - 1) * SliceSize + len ELSE @]

(* process_slice of a slice of a message that is still to be assembled *)
CollectSlice(r, p, cfg) ==
    LET reserve == IF p.id \in DOMAIN r.slices THEN 0 ELSE p.num_slices * SliceSize
        old == IF p.id \in DOMAIN r.slices THEN r.slices[p.id] ELSE NewConstructor(p.num_slices)
        new == AddSlice(old, p.index, p.len)
        kept == [r EXCEPT !.memory = @ + reserve, !.slices = With(@, p.id, new)]
        freed == [kept EXCEPT !.memory = @ - p.num_slices * SliceSize]
        done == ProcessMessage(freed, p.id, new.len, cfg)
    IN  CASE r.memory + reserve > cfg.max ->
               [r EXCEPT !.err = "ReliableChannelMaxMemoryReached"]
          [] r.memory + reserve <= cfg.max /\ ~ValidSlice(old, p.index, p.len) ->
               [r EXCEPT !.memory = @ + reserve, !.slices = With(@, p.id, old),
                         !.err = "InvalidSliceMessage"]
          [] r.memory + reserve <= cfg.max /\ ValidSlice(old, p.index, p.len) ->
               IF Cardinality(new.got) < new.n THEN kept
               ELSE IF done.err # "none" THEN done
               ELSE [done EXCEPT !.slices = Without(@, p.id)]

(* Fault: slices of messages already handed out are collected again. *)
ProcessSliceForgets(r, p, cfg) ==
    IF p.id \in DOMAIN r.messages THEN r ELSE CollectSlice(r, p, cfg)

ProcessSlice(r, p, cfg) ==
    IF p.id \in DOMAIN r.messages \/ p.id < r.oldest
    THEN r
    ELSE CollectSlice(r, p, cfg)

(* Fault: an ordered channel hands out the oldest message it has. *)
NextReceivableSkipsGaps(r, cfg) ==
    {id \in DOMAIN r.messages : \A other \in DOMAIN r.messages : id <= other}

(* receive_message: the id it hands out, and the channel afterwards *)
NextReceivable(r, cfg) ==
    IF cfg.ordered THEN {r.oldest} \intersect DOMAIN r.messages
    ELSE {id \in DOMAIN r.messages : \A other \in DOMAIN r.messages : id <= other}

(* The unordered channel skips what it received out of order. *)
AdvanceOldest(r) ==
    LET oldest == CHOOSE n \in r.oldest .. (r.oldest + Cardinality(r.received)) :
                    /\ n \notin r.received
                    /\ \A k \in r.oldest .. (n - 1) : k \in r.received
    IN  [r EXCEPT !.oldest = oldest,
                  !.received = @ \ (r.oldest .. (oldest - 1))]

TakeMessage(r, id, cfg) ==
    LET popped == [r EXCEPT !.messages = Without(@, id),
                            !.memory = @ - r.messages[id]]
    IN  CASE cfg.ordered -> [popped EXCEPT !.oldest = @ + 1]
          [] ~cfg.ordered /\ r.oldest = id -> AdvanceOldest(popped)
          [] ~cfg.ordered /\ r.oldest # id -> popped
=============================================================================
