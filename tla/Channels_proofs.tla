--------------------------- MODULE Channels_proofs ---------------------------
(***************************************************************************)
(* What the operators of the channels do, and the loops of a connection    *)
(* over them: packing a tick, acknowledging, receiving.  The lemmas are    *)
(* about values; what they are of in a reachable state is for              *)
(* RemoteConnection_proofs to say.                                         *)
(***************************************************************************)
EXTENDS ConnectionRefinement, AckRanges_proofs, FiniteSetTheorems

(***************************************************************************)
(* The bytes of the elements of S, whose sizes are w, counted one by one:  *)
(* what every fold that adds them up computes, in whatever order.          *)
(***************************************************************************)
Units(w, S) == {u \in S \X Nat : u[2] < w[u[1]]}

Bytes(w, S) == Cardinality(Units(w, S))

Sizes(messages) == [i \in DOMAIN messages |-> messages[i].len]

(* Sizes that can be added up, those of unacked messages and of reservations *)
Weighs(w) == IsFiniteSet(DOMAIN w) /\ \A x \in DOMAIN w : w[x] \in Nat

UnackedLens(unacked) == [id \in DOMAIN unacked |-> unacked[id].len]

Reserves(slices) == [id \in DOMAIN slices |-> slices[id].n * SliceSize]

(***************************************************************************)
(* The byte counters of the halves are exact and within the maximum: those *)
(* of a queue, of the unacked messages, and of what a receiving half holds *)
(* or has reserved for slices.                                             *)
(***************************************************************************)
QueueExact(ch, max) == ch.memory = TotalLength(ch.queue) /\ ch.memory <= max

UnackedExact(ch, max) ==
    /\ Weighs(UnackedLens(ch.unacked))
    /\ ch.memory = SumFunction(UnackedLens(ch.unacked))
    /\ ch.memory <= max

ReceivedExact(r, max) ==
    /\ Weighs(r.messages) /\ Weighs(Reserves(r.slices))
    /\ r.memory = SumFunction(r.messages) + SumFunction(Reserves(r.slices))
    /\ r.memory <= max

WaitingExact(r, max) ==
    /\ Weighs(Reserves(r.slices))
    /\ r.memory = TotalLength(r.messages) + SumFunction(Reserves(r.slices))
    /\ r.memory <= max

(* What a half does to its counter *)
KeepsQueue(ch, old) == \A max \in Nat : QueueExact(old, max) => QueueExact(ch, max)

KeepsUnacked(ch, old) == \A max \in Nat : UnackedExact(old, max) => UnackedExact(ch, max)

KeepsReceived(new, r, cfg) == ReceivedExact(r, cfg.max) => ReceivedExact(new, cfg.max)

KeepsWaiting(new, r, cfg) == WaitingExact(r, cfg.max) => WaitingExact(new, cfg.max)

(***************************************************************************)
(* What a peer makes of the messages that its application gave to a        *)
(* channel, lens being their lengths: the messages of small packets, the   *)
(* messages of an unreliable queue, and the packets.                       *)
(***************************************************************************)
LengthSeqs == Seq(Nat)

(* Small messages are put together up to SliceSize; one alone may be as    *)
(* long, besides its varints.                                              *)
SmallFits(messages, varints) ==
    MessagesSize(messages, varints) <= SliceSize + varints * VarintBytes

SmallMessages(lens) ==
    {m \in [id : Nat, len : Nat] :
        m.id + 1 \in DOMAIN lens /\ m.len = lens[m.id + 1] /\ ~IsSliced(m.len)}

QueueMessages(lens) ==
    {m \in [data : Nat, len : Nat] : m.data + 1 \in DOMAIN lens /\ m.len = lens[m.data + 1]}

SmallUnreliables(lens) == {m \in QueueMessages(lens) : ~IsSliced(m.len)}

IsSliceOf(k, len) ==
    /\ IsSliced(len)
    /\ k.num_slices = NumSlices(len)
    /\ k.index < k.num_slices
    /\ k.len = SliceLength(len, k.index)

ReliablePackets(c, lens) ==
    {k \in [type : {"SmallReliable"}, sequence : Nat, channel : {c},
            messages : Seq(SmallMessages(lens))] : SmallFits(k.messages, 2)}
    \union
    {k \in [type : {"ReliableSlice"}, sequence : Nat, channel : {c}, id : Nat, index : Nat,
            num_slices : Nat, len : Nat] :
        k.id + 1 \in DOMAIN lens /\ IsSliceOf(k, lens[k.id + 1])}

UnreliablePackets(c, lens) ==
    {k \in [type : {"SmallUnreliable"}, sequence : Nat, channel : {c},
            messages : Seq(SmallUnreliables(lens))] : SmallFits(k.messages, 1)}
    \union
    {k \in [type : {"UnreliableSlice"}, sequence : Nat, channel : {c}, id : Nat, index : Nat,
            num_slices : Nat, len : Nat, data : Nat] :
        k.data + 1 \in DOMAIN lens /\ IsSliceOf(k, lens[k.data + 1])}

PacketsOf(c, lens) ==
    IF Reliable(c) THEN ReliablePackets(c, lens) ELSE UnreliablePackets(c, lens)

(* The packets of a tick have consecutive sequences from first on. *)
Numbered(packets, first, sequence) ==
    /\ Len(packets) = sequence - first
    /\ \A i \in DOMAIN packets : packets[i].sequence = first + i - 1

(* A sending half agrees with what was given to it. *)
SendReliableOK(ch, lens) ==
    /\ DOMAIN ch = {"unacked", "next_id", "memory"}
    /\ ch.next_id = Len(lens)
    /\ \A id \in DOMAIN ch.unacked :
         LET m == ch.unacked[id]
         IN  /\ id \in Nat /\ id + 1 \in DOMAIN lens
             /\ DOMAIN m = {"len", "acked", "next_slice", "age"}
             /\ m.len = lens[id + 1]
             /\ m.next_slice \in Nat
             /\ m.acked \subseteq 0 .. (NumSlices(lens[id + 1]) - 1)
             /\ ~IsSliced(lens[id + 1]) => m.acked = {}

SendUnreliableOK(ch, lens) ==
    /\ DOMAIN ch = {"queue", "sliced_id", "memory"}
    /\ ch.queue \in Seq(QueueMessages(lens))
    /\ ch.sliced_id \in Nat

SendOK(c, ch, lens) ==
    IF Reliable(c) THEN SendReliableOK(ch, lens) ELSE SendUnreliableOK(ch, lens)

(* Sending changes no more of the unacked messages than when they were sent. *)
SameUnacked(ch, old) ==
    /\ DOMAIN ch = {"unacked", "next_id", "memory"}
    /\ ch.next_id = old.next_id /\ ch.memory = old.memory
    /\ DOMAIN ch.unacked = DOMAIN old.unacked
    /\ \A id \in DOMAIN old.unacked :
         /\ DOMAIN ch.unacked[id] = {"len", "acked", "next_slice", "age"}
         /\ ch.unacked[id].len = old.unacked[id].len
         /\ ch.unacked[id].acked = old.unacked[id].acked
         /\ ch.unacked[id].next_slice \in Nat

(* At most one range, of what was received up to end. *)
OneRangeTo(acks, end) == acks = << >> \/ (Len(acks) = 1 /\ acks[1].end = end)

(* A packet carries messages or a slice that are still to be acknowledged. *)
OfUnacked(k, unacked) ==
    IF k.type = "SmallReliable"
    THEN \A j \in DOMAIN k.messages : k.messages[j].id \in DOMAIN unacked
    ELSE k.id \in DOMAIN unacked /\ k.index \notin unacked[k.id].acked

OfUnackedHalves(packets, halves) ==
    \A i \in DOMAIN packets :
        Reliable(packets[i].channel) => OfUnacked(packets[i], halves[packets[i].channel].unacked)

(* The local variables of get_packets_to_send of a reliable channel. *)
PackingReliable(st, c, first, old, lens) ==
    /\ DOMAIN st = {"bytes", "sequence", "packets", "small", "small_bytes", "ch"}
    /\ st.sequence \in Nat
    /\ st.packets \in Seq(ReliablePackets(c, lens))
    /\ Numbered(st.packets, first, st.sequence)
    /\ st.small \in Seq(SmallMessages(lens))
    /\ st.small_bytes = MessagesSize(st.small, 2) /\ SmallFits(st.small, 2)
    /\ \A j \in DOMAIN st.small : st.small[j].id \in DOMAIN old.unacked
    /\ \A j \in DOMAIN st.packets : OfUnacked(st.packets[j], old.unacked)
    /\ SameUnacked(st.ch, old)

(* The slices of a tick have ids from low on, one for each message. *)
OneMessagePerId(packets, low, high) ==
    \A i, j \in DOMAIN packets :
        packets[i].type = "UnreliableSlice" /\ packets[j].type = "UnreliableSlice" =>
            /\ packets[i].id \in low .. (high - 1)
            /\ packets[i].id = packets[j].id => packets[i].data = packets[j].data

(* Those of an unreliable channel. *)
PackingUnreliable(st, c, first, low, lens) ==
    /\ DOMAIN st = {"bytes", "sequence", "packets", "small", "small_bytes",
                    "sliced_id", "overflow"}
    /\ st.sequence \in Nat /\ st.sliced_id \in Nat /\ low <= st.sliced_id
    /\ st.packets \in Seq(UnreliablePackets(c, lens))
    /\ Numbered(st.packets, first, st.sequence)
    /\ OneMessagePerId(st.packets, low, st.sliced_id)
    /\ st.small \in Seq(SmallUnreliables(lens))
    /\ st.small_bytes = MessagesSize(st.small, 1) /\ SmallFits(st.small, 1)
    /\ st.overflow \in Seq(QueueMessages(lens))

(***************************************************************************)
(* Where the messages of a channel over an ordered reliable network are:   *)
(* in the packets of K, each in one but for slices of the same message, or *)
(* in a queue.                                                             *)
(***************************************************************************)
Distinct(messages) ==
    \A i, j \in DOMAIN messages : messages[i].data = messages[j].data => i = j

SameMessage(k, l) ==
    k.type = "UnreliableSlice" /\ l.type = "UnreliableSlice" /\ k.id = l.id

Apart(k, l) ==
    IF SameMessage(k, l) THEN k.data = l.data /\ k.index # l.index
    ELSE DataOf(k) \intersect DataOf(l) = {}

Scattered(K, queue) ==
    /\ Distinct(queue)
    /\ \A k \in K : k.type = "SmallUnreliable" => Distinct(k.messages)
    /\ \A k, l \in K : k # l => Apart(k, l)
    /\ \A k \in K : DataOf(k) \intersect DataWaiting(queue) = {}

Carries(K, queue, d) == d \in DataWaiting(queue) \/ \E k \in K : d \in DataOf(k)

(* The messages of D, and no other *)
Spread(K, queue, D) == Scattered(K, queue) /\ \A d : d \in D <=> Carries(K, queue, d)

(* The same in the middle of get_packets_to_send *)
Spreading(st, D) ==
    /\ Scattered(ToSet(st.packets), st.overflow)
    /\ Distinct(st.small)
    /\ DataWaiting(st.small) \intersect DataWaiting(st.overflow) = {}
    /\ \A k \in ToSet(st.packets) : DataOf(k) \intersect DataWaiting(st.small) = {}
    /\ \A d : d \in D <=>
          Carries(ToSet(st.packets), st.overflow, d) \/ d \in DataWaiting(st.small)

SpreadSoFar(st, queue, low, done) ==
    /\ Spreading(st, {queue[e].data : e \in done})
    /\ st.sliced_id + Len(st.overflow) <= low + Cardinality(done)

(* The packets of all channels. *)
DataPackets(lens) == UNION {PacketsOf(c, lens[c]) : c \in ChannelIds}

(* The slices of a tick have ids that their channels gave out in the tick. *)
FreshIds(packets, old, new) ==
    \A i, j \in DOMAIN packets :
        /\ packets[i].type = "UnreliableSlice" /\ packets[j].type = "UnreliableSlice"
        /\ packets[i].channel = packets[j].channel
        => /\ packets[i].id \in old[packets[i].channel].sliced_id
                                .. (new[packets[i].channel].sliced_id - 1)
           /\ packets[i].id = packets[j].id => packets[i].data = packets[j].data

(* The sending halves before and after a tick *)
Advanced(c, ch, old) ==
    IF Reliable(c) THEN SameUnacked(ch, old)
    ELSE old.sliced_id <= ch.sliced_id /\ KeepsQueue(ch, old)

(* On an ordered reliable substrate nothing of a queue is lost or repeated. *)
QueueSpreads(K, ch, old) ==
    Distinct(old.queue) =>
        /\ Spread(K, ch.queue, DataWaiting(old.queue))
        /\ ch.sliced_id + Len(ch.queue) <= old.sliced_id + Len(old.queue)

OfChannel(packets, c) == {k \in ToSet(packets) : k.channel = c}

(* The channels of done have had their turn in this tick. *)
QueuesSpread(st, old, done) ==
    /\ \A c \in ChannelIds \ done : st.send[c] = old[c] /\ OfChannel(st.packets, c) = {}
    /\ \A c \in SubstrateIds : QueueSpreads(OfChannel(st.packets, c), st.send[c], old[c])

(* The local variables of get_packets_to_send of the connection. *)
PackingChannels(st, first, old, lens) ==
    /\ DOMAIN st = {"bytes", "sequence", "packets", "send"}
    /\ st.sequence \in Nat
    /\ st.packets \in Seq(DataPackets(lens))
    /\ Numbered(st.packets, first, st.sequence)
    /\ DOMAIN st.send = ChannelIds
    /\ \A c \in ChannelIds : SendOK(c, st.send[c], lens[c]) /\ Advanced(c, st.send[c], old[c])
    /\ FreshIds(st.packets, old, st.send)
    /\ OfUnackedHalves(st.packets, old)

(* A constructor holds some slices of a message, and not all of them. *)
ConstructorOK(k, len) ==
    /\ IsSliced(len)
    /\ DOMAIN k = {"n", "got", "len"}
    /\ k.n = NumSlices(len)
    /\ k.got \subseteq 0 .. (k.n - 1) /\ k.got # 0 .. (k.n - 1)
    /\ k.len = IF k.n - 1 \in k.got THEN len ELSE k.n * SliceSize

(* Messages that have been at this end: waiting, or handed out. *)
Has(r, out, id) == id \in DOMAIN r.messages \/ id \in ToSet(out)

(* The message, or slice i of it, is at this end. *)
HasPart(r, out, id, i) ==
    Has(r, out, id) \/ (id \in DOMAIN r.slices /\ i \in r.slices[id].got)

(* No part is there that was not before, but for these. *)
GainsOnly(new, r, out, lens, parts) ==
    \A id \in Nat : id + 1 \in DOMAIN lens =>
        \A i \in Parts(lens[id + 1]) :
            HasPart(new, out, id, i) => HasPart(r, out, id, i) \/ <<id, i>> \in parts

OrderedOK(r, lens, out) ==
    /\ r.oldest = Len(out) /\ Len(out) <= Len(lens)
    /\ \A k \in DOMAIN out : out[k] = k - 1
    /\ \A id \in DOMAIN r.messages : r.oldest <= id
    /\ \A id \in DOMAIN r.slices : r.oldest <= id /\ id \notin DOMAIN r.messages

UnorderedOK(r, lens, out) ==
    /\ IsFiniteSet(r.received) /\ r.received \subseteq Nat
    /\ IsInjective(out)
    /\ \A k \in DOMAIN out : out[k] + 1 \in DOMAIN lens /\ out[k] \notin DOMAIN r.messages
    /\ \A id \in Nat : id < r.oldest \/ id \in r.received <=> Has(r, out, id)

ReceiveReliableOK(r, cfg, lens, out) ==
    /\ DOMAIN r = {"slices", "messages", "oldest", "received", "memory", "err"}
    /\ r.oldest \in Nat /\ r.memory \in Int
    /\ out \in Seq(Nat)
    /\ \A id \in DOMAIN r.messages :
         id \in Nat /\ id + 1 \in DOMAIN lens /\ r.messages[id] = lens[id + 1]
    /\ \A id \in DOMAIN r.slices :
         id \in Nat /\ id + 1 \in DOMAIN lens /\ ConstructorOK(r.slices[id], lens[id + 1])
    /\ IF cfg.ordered THEN OrderedOK(r, lens, out) ELSE UnorderedOK(r, lens, out)

ReceiveUnreliableOK(r, lens) ==
    /\ DOMAIN r = {"messages", "slices", "last_received", "memory", "err"}
    /\ r.messages \in Seq(QueueMessages(lens))
    /\ DOMAIN r.slices = DOMAIN r.last_received

(***************************************************************************)
(* The memory holds any messages that there are besides what is reserved;  *)
(* then none of a packet is dropped, if they are new.                      *)
(***************************************************************************)
HasRoom(slices, lens, max) ==
    \A s \in Seq(QueueMessages(lens)) :
        Distinct(s) => TotalLength(s) + SumFunction(Reserves(slices)) <= max

RoomFor(r, messages, lens, max) ==
    /\ WaitingExact(r, max) /\ HasRoom(r.slices, lens, max)
    /\ Distinct(r.messages) /\ Distinct(messages)
    /\ DataWaiting(r.messages) \intersect DataWaiting(messages) = {}

Adds(new, r, data) ==
    Distinct(new.messages) /\ DataWaiting(new.messages) = DataWaiting(r.messages) \union data

(***************************************************************************)
(* A reliable half in the middle of a packet: nothing that was there is    *)
(* lost, and the messages of the packet that are done with are there       *)
(* unless there was an error.                                              *)
(***************************************************************************)
Received(r, old, out, ids) ==
    /\ \A id \in Nat : Has(old, out, id) => Has(r, out, id)
    /\ \A id \in Nat : Has(r, out, id) => Has(old, out, id) \/ id \in ids
    /\ r.slices = old.slices
    /\ r.err \in {"none", "ReliableChannelMaxMemoryReached"}
    /\ r.err = "none" => \A id \in ids : Has(r, out, id)

(***************************************************************************)
(* The sending half of a reliable channel misses only messages of arrived, *)
(* and has ticked off only slices of those or of stored.                   *)
(***************************************************************************)
Ticked(ch, lens, arrived, stored) ==
    /\ SendReliableOK(ch, lens)
    /\ \A id \in Nat : id < ch.next_id /\ id \notin DOMAIN ch.unacked => id \in arrived
    /\ \A id \in DOMAIN ch.unacked : \A i \in ch.unacked[id].acked :
         id \in arrived \/ <<id, i>> \in stored

(* The loop of process_packet over the packets acked by an Ack packet. *)
Acking(st, old, lens, arrived, stored, covered) ==
    /\ DOMAIN st = {"send", "pending_acks"}
    /\ DOMAIN st.send = ChannelIds
    /\ \A c \in ChannelIds :
         IF Reliable(c)
         THEN /\ Ticked(st.send[c], lens[c], arrived[c], stored[c])
              /\ KeepsUnacked(st.send[c], old[c])
         ELSE st.send[c] = old[c]
    /\ st.pending_acks \in Seq(RangeRecord) /\ Separated(st.pending_acks)
    /\ Covered(st.pending_acks) \subseteq covered

(* Of the parts to deliver, those of the acked packets are gone, no other. *)
Leaves(st, old, packets, acked) ==
    \A c \in ChannelIds : Reliable(c) =>
        UnackedParts(st.send[c]) =
            UnackedParts(old[c]) \ UNION {PartsOfInfo(packets[s].info, c) : s \in acked}

(* The ranges are cut once, if at all. *)
CutBy(ranges, acks, cuts) ==
    ranges = acks \/ \E l \in cuts : ranges = AckedLargest(acks, l)

(***************************************************************************)
(* Loops.  The model writes the loops of the code as folds.  Body is what  *)
(* each of them does with an element, Keeps what it preserves once the     *)
(* elements of done are dealt with; loop says which one and with which     *)
(* values of the variables that it does not change.                        *)
(***************************************************************************)
Body(loop, st, e) ==
    CASE loop.of = "slices" -> PackSlice(st, loop.c, loop.id, loop.order[e])
      [] loop.of = "reliable" -> PackMessage(st, loop.c, e)
      [] loop.of = "unreliable" -> PackOrOverflow(st, loop.c, loop.queue[e], loop.cfg)
      [] loop.of = "channels" ->
           JoinPacked(st, loop.order[e], PackChannel(st, loop.order[e]))
      [] loop.of = "receive" ->
           IF st.err # "none" THEN st
           ELSE ProcessMessage(st, loop.messages[e].id, loop.messages[e].len, loop.cfg)
      [] loop.of = "receive unreliable" ->
           ProcessUnreliableMessage(st, loop.messages[e], loop.cfg)
      [] loop.of = "acked messages" -> ProcessMessageAck(st, e)
      [] loop.of \in {"acks", "trims"} -> AckPacket(st, loop.packets[e].info)
      [] loop.of = "sum" -> st + loop.size[e]
      [] loop.of = "total" -> loop.size[e] + st

Keeps(loop, done, st) ==
    CASE loop.of \in {"slices", "reliable"} ->
           PackingReliable(st, loop.c, loop.first, loop.old, loop.lens)
      [] loop.of = "unreliable" ->
           /\ PackingUnreliable(st, loop.c, loop.first, loop.low, loop.lens)
           /\ TotalLength(st.overflow) <= Bytes(Sizes(loop.queue), done)
           /\ loop.cfg.substrate /\ Distinct(loop.queue) =>
                SpreadSoFar(st, loop.queue, loop.low, done)
      [] loop.of = "channels" ->
           /\ PackingChannels(st, loop.first, loop.old, loop.lens)
           /\ QueuesSpread(st, loop.old, done)
      [] loop.of = "receive" ->
           /\ ReceiveReliableOK(st, loop.cfg, loop.lens, loop.out)
           /\ Received(st, loop.old, loop.out, {loop.messages[e].id : e \in done})
           /\ KeepsReceived(st, loop.old, loop.cfg)
      [] loop.of = "receive unreliable" ->
           /\ ReceiveUnreliableOK(st, loop.lens)
           /\ st.slices = loop.old.slices /\ st.err = loop.old.err
           /\ KeepsWaiting(st, loop.old, loop.cfg)
           /\ RoomFor(loop.old, loop.messages, loop.lens, loop.cfg.max) =>
                Adds(st, loop.old, {loop.messages[e].data : e \in done})
      [] loop.of = "acked messages" ->
           /\ Ticked(st, loop.lens, loop.arrived, loop.stored) /\ KeepsUnacked(st, loop.old)
           /\ UnackedParts(st) = UnackedParts(loop.old) \ {<<id, 0>> : id \in done}
      [] loop.of = "acks" ->
           /\ Acking(st, loop.old, loop.lens, loop.arrived, loop.stored, loop.covered)
           /\ Leaves(st, loop.old, loop.packets, done)
           /\ CutBy(st.pending_acks, loop.acks, loop.cuts)
      [] loop.of = "trims" ->
           /\ DOMAIN st = {"send", "pending_acks"}
           /\ st.pending_acks \in Seq(RangeRecord) /\ Separated(st.pending_acks)
           /\ OneRangeTo(st.pending_acks, loop.end)
      [] loop.of \in {"sum", "total"} -> st = Bytes(loop.size, done)

(* What a fold computes: f[t] is the value once the elements of t are done. *)
Computes(f, loop, base, S, pick) ==
    f = [t \in SUBSET S |-> IF t = {} THEN base ELSE Body(loop, f[t \ {pick[t]}], pick[t])]

Picks(pick, S) == \A t \in SUBSET S : t # {} => pick[t] \in t

(* Induction over the natural numbers for a set of them. *)
LEMMA SetInduction ==
    ASSUME NEW T, 0 \in T, \A n \in Nat : n \in T => n + 1 \in T
    PROVE  Nat \subseteq T
<1> DEFINE U == Nat \ T
<1>1. SUFFICES ASSUME U # {} PROVE FALSE
  OBVIOUS
<1>2. PICK n \in U : \A m \in U : n <= m
  <2>1. U \subseteq Nat
    OBVIOUS
  <2> HIDE DEF U
  <2> QED BY <1>1, <2>1, LeastNatural
<1>3. n # 0 /\ n \in Nat
  OBVIOUS
<1>4. n - 1 \in Nat /\ n - 1 < n
  BY <1>3
<1>5. n - 1 \in T
  BY <1>2, <1>4
<1>6. (n - 1) + 1 \in T
  BY <1>4, <1>5
<1> QED BY <1>3, <1>6

LEMMA SmallerWithout ==
    ASSUME NEW t, IsFiniteSet(t), NEW x \in t
    PROVE  /\ IsFiniteSet(t \ {x})
           /\ Cardinality(t \ {x}) \in Nat
           /\ Cardinality(t) = Cardinality(t \ {x}) + 1
<1>1. /\ IsFiniteSet(t \ {x})
      /\ Cardinality(t \ {x}) = Cardinality(t) - 1
  BY FS_RemoveElement
<1>2. Cardinality(t) \in Nat /\ Cardinality(t \ {x}) \in Nat
  BY <1>1, FS_CardinalityType
<1> QED BY <1>1, <1>2

(***************************************************************************)
(* A fold over a finite set is well defined: there is a function that      *)
(* satisfies its recursion, by induction on the size of the sets.          *)
(***************************************************************************)
LEMMA LoopDefined ==
    ASSUME NEW loop, NEW base, NEW S, IsFiniteSet(S), NEW pick, Picks(pick, S)
    PROVE  \E f : Computes(f, loop, base, S, pick)
<1> DEFINE Upto(n) == {t \in SUBSET S : Cardinality(t) <= n}
           Value(f, t) == IF t = {} THEN base ELSE Body(loop, f[t \ {pick[t]}], pick[t])
           Partly(f, n) == f = [t \in Upto(n) |-> Value(f, t)]
           T == {n \in Nat : \E f : Partly(f, n)}
<1>1. \A t \in SUBSET S : IsFiniteSet(t) /\ Cardinality(t) \in Nat
  BY FS_Subset, FS_CardinalityType
<1>2. 0 \in T
  <2> DEFINE f == [t \in Upto(0) |-> base]
  <2>1. \A t \in Upto(0) : t = {}
    BY <1>1, FS_EmptySet
  <2>2. Partly(f, 0)
    BY <2>1
  <2> QED BY <2>2
<1>3. ASSUME NEW n \in Nat, n \in T PROVE n + 1 \in T
  <2>1. PICK f : Partly(f, n)
    BY <1>3
  <2> DEFINE g == [t \in Upto(n + 1) |-> Value(f, t)]
  <2>2. ASSUME NEW t \in Upto(n + 1), t # {}
        PROVE  g[t \ {pick[t]}] = f[t \ {pick[t]}]
    <3> DEFINE u == t \ {pick[t]}
    <3>1. pick[t] \in t /\ IsFiniteSet(t)
      BY <1>1, <2>2 DEF Picks
    <3>2. Cardinality(u) \in Nat /\ Cardinality(t) = Cardinality(u) + 1
      BY <3>1, SmallerWithout
    <3>3. u \in Upto(n) /\ u \in Upto(n + 1)
      <4>1. u \in SUBSET S /\ Cardinality(t) <= n + 1
        OBVIOUS
      <4> HIDE DEF u
      <4> QED BY <3>2, <4>1
    <3> HIDE DEF u
    <3>4. g[u] = Value(f, u)
      <4> HIDE DEF Value
      <4> QED BY <3>3
    <3>5. f[u] = Value(f, u)
      <4> HIDE DEF Value
      <4> QED BY <2>1, <3>3
    <3>6. g[u] = f[u]
      BY <3>4, <3>5
    <3> QED BY <3>6 DEF u
  <2>3. \A t \in Upto(n + 1) : Value(f, t) = Value(g, t)
    <3> HIDE DEF g
    <3> QED BY <2>2
  <2>4. Partly(g, n + 1)
    <3> HIDE DEF Value
    <3> QED BY <2>3
  <2> HIDE DEF g, Partly
  <2> QED BY <2>4
<1>4. Nat \subseteq T
  <2> HIDE DEF T
  <2> QED BY <1>2, <1>3, SetInduction
<1>5. PICK f : Partly(f, Cardinality(S))
  BY <1>1, <1>4
<1>6. Upto(Cardinality(S)) = SUBSET S
  BY FS_Subset, FS_CardinalityType
<1> QED BY <1>5, <1>6 DEF Computes

(* What the body preserves, the fold establishes. *)
LEMMA LoopKeeps ==
    ASSUME NEW loop, NEW base, NEW S, IsFiniteSet(S), NEW pick, Picks(pick, S),
           NEW f, Computes(f, loop, base, S, pick),
           Keeps(loop, {}, base),
           ASSUME NEW t \in SUBSET S, t # {}, NEW st, Keeps(loop, t \ {pick[t]}, st)
           PROVE  Keeps(loop, t, Body(loop, st, pick[t]))
    PROVE  Keeps(loop, S, f[S])
<1> DEFINE Failing == {Cardinality(t) : t \in {u \in SUBSET S : ~Keeps(loop, u, f[u])}}
<1>1. \A t \in SUBSET S : IsFiniteSet(t) /\ Cardinality(t) \in Nat
  BY FS_Subset, FS_CardinalityType
<1>2. SUFFICES ASSUME ~Keeps(loop, S, f[S]) PROVE FALSE
  OBVIOUS
<1>3. Failing \subseteq Nat /\ Failing # {}
  BY <1>1, <1>2
<1>4. PICK n \in Failing : \A m \in Failing : n <= m
  <2> HIDE DEF Failing
  <2> QED BY <1>3, LeastNatural
<1>5. PICK t \in SUBSET S : ~Keeps(loop, t, f[t]) /\ n = Cardinality(t)
  OBVIOUS
<1>6. f[t] = IF t = {} THEN base ELSE Body(loop, f[t \ {pick[t]}], pick[t])
  BY DEF Computes
<1>7. t # {}
  BY <1>5, <1>6
<1> DEFINE u == t \ {pick[t]}
<1>8. pick[t] \in t /\ IsFiniteSet(t)
  BY <1>1, <1>7 DEF Picks
<1>9. Cardinality(u) \in Nat /\ Cardinality(t) = Cardinality(u) + 1
  BY <1>8, SmallerWithout
<1>10. u \in SUBSET S
  OBVIOUS
<1>11. Keeps(loop, u, f[u])
  <2>1. SUFFICES ASSUME ~Keeps(loop, u, f[u]) PROVE FALSE
    OBVIOUS
  <2>2. Cardinality(u) \in Failing
    <3> HIDE DEF u
    <3> QED BY <1>10, <2>1
  <2> HIDE DEF u, Failing
  <2> QED BY <1>4, <1>5, <1>9, <2>2
<1>12. Keeps(loop, t, Body(loop, f[u], pick[t]))
  BY <1>7, <1>11
<1> QED BY <1>5, <1>6, <1>7, <1>12

-----------------------------------------------------------------------------
(* The elements of a bounded set of numbers, from the largest down. *)
LEMMA MaxPicks ==
    ASSUME NEW N \in Nat, NEW S \in SUBSET (0 .. N)
    PROVE  /\ IsFiniteSet(S)
           /\ Picks([t \in SUBSET S |-> Max(t)], S)
<1>1. IsFiniteSet(S)
  <2>1. IsFiniteSet(0 .. N)
    BY FS_Interval
  <2> QED BY <2>1, FS_Subset
<1>2. ASSUME NEW t \in SUBSET S, t # {} PROVE Max(t) \in t
  <2> DEFINE below == {N - x : x \in t}
  <2>1. below \subseteq Nat /\ below # {}
    <3>1. \A x \in t : x \in 0 .. N /\ N - x \in Nat
      OBVIOUS
    <3> QED BY <1>2, <3>1
  <2>2. PICK y \in below : \A z \in below : y <= z
    <3> HIDE DEF below
    <3> QED BY <2>1, LeastNatural
  <2>3. PICK x \in t : y = N - x
    OBVIOUS
  <2>4. \A z \in t : x >= z
    <3> SUFFICES ASSUME NEW z \in t PROVE x >= z
      OBVIOUS
    <3>1. N - x <= N - z
      BY <2>2, <2>3
    <3>2. x \in Int /\ z \in Int
      OBVIOUS
    <3> QED BY <3>1, <3>2
  <2> QED BY <2>4 DEF Max
<1> QED BY <1>1, <1>2 DEF Picks

-----------------------------------------------------------------------------
(* Sums of sizes *)

LEMMA UnitsOfOne ==
    ASSUME NEW w, NEW x, w[x] \in Nat
    PROVE  IsFiniteSet(Units(w, {x})) /\ Bytes(w, {x}) = w[x]
<1> DEFINE n == w[x]
<1>1. Units(w, {x}) = {x} \X (0 .. (n - 1))
  BY DEF Units
<1>2. IsFiniteSet(0 .. (n - 1)) /\ Cardinality(0 .. (n - 1)) = n
  <2>1. 0 \in Int /\ n - 1 \in Int /\ n \in Nat
    OBVIOUS
  <2> HIDE DEF n
  <2> QED BY <2>1, FS_Interval
<1>3. IsFiniteSet({x}) /\ Cardinality({x}) = 1
  BY FS_Singleton
<1> HIDE DEF n
<1>4. /\ IsFiniteSet({x} \X (0 .. (n - 1)))
      /\ Cardinality({x} \X (0 .. (n - 1))) = 1 * n
  BY <1>2, <1>3, FS_Product
<1>5. 1 * n = n
  BY DEF n
<1>6. IsFiniteSet(Units(w, {x})) /\ Cardinality(Units(w, {x})) = n
  BY <1>1, <1>4, <1>5
<1> QED BY <1>6 DEF Bytes, n

LEMMA UnitsOfBoth ==
    ASSUME NEW w, NEW S, NEW T, S \intersect T = {},
           IsFiniteSet(Units(w, S)), IsFiniteSet(Units(w, T))
    PROVE  /\ IsFiniteSet(Units(w, S \union T))
           /\ Bytes(w, S \union T) = Bytes(w, S) + Bytes(w, T)
           /\ {Bytes(w, S), Bytes(w, T)} \subseteq Nat
<1>1. /\ Units(w, S \union T) = Units(w, S) \union Units(w, T)
      /\ Units(w, S) \intersect Units(w, T) = {}
  BY DEF Units
<1>2. Cardinality({}) = 0 /\ Bytes(w, S) \in Nat /\ Bytes(w, T) \in Nat
  BY FS_EmptySet, FS_CardinalityType DEF Bytes
<1>3. /\ IsFiniteSet(Units(w, S) \union Units(w, T))
      /\ Cardinality(Units(w, S) \union Units(w, T))
           = Bytes(w, S) + Bytes(w, T) - Cardinality(Units(w, S) \intersect Units(w, T))
  BY FS_Union DEF Bytes
<1>4. Bytes(w, S \union T) = Bytes(w, S) + Bytes(w, T) - 0
  BY <1>1, <1>2, <1>3 DEF Bytes
<1>5. Bytes(w, S \union T) = Bytes(w, S) + Bytes(w, T)
  BY <1>2, <1>4
<1>6. IsFiniteSet(Units(w, S \union T))
  BY <1>1, <1>3
<1> QED BY <1>2, <1>5, <1>6

LEMMA UnitsFinite ==
    ASSUME NEW w, NEW S, IsFiniteSet(S), \A x \in S : w[x] \in Nat
    PROVE  IsFiniteSet(Units(w, S)) /\ Bytes(w, S) \in Nat
<1> DEFINE T == {n \in Nat : \A t \in SUBSET S : Cardinality(t) = n => IsFiniteSet(Units(w, t))}
<1>1. \A t \in SUBSET S : IsFiniteSet(t) /\ Cardinality(t) \in Nat
  BY FS_Subset, FS_CardinalityType
<1>2. 0 \in T
  <2>1. Units(w, {}) = {}
    BY DEF Units
  <2>2. IsFiniteSet(Units(w, {}))
    BY <2>1, FS_EmptySet
  <2> QED BY <1>1, <2>2, FS_EmptySet
<1>3. ASSUME NEW n \in Nat, n \in T PROVE n + 1 \in T
  <2>1. SUFFICES ASSUME NEW t \in SUBSET S, Cardinality(t) = n + 1
                 PROVE  IsFiniteSet(Units(w, t))
    OBVIOUS
  <2>2. t # {}
    BY <2>1, FS_EmptySet
  <2>3. PICK x \in t : TRUE
    BY <2>2
  <2> DEFINE u == t \ {x}
  <2>4. u \in SUBSET S /\ Cardinality(u) = n
    <3>1. Cardinality(u) \in Nat /\ Cardinality(t) = Cardinality(u) + 1
      BY <1>1, SmallerWithout
    <3> HIDE DEF u
    <3>2. Cardinality(u) = n
      BY <2>1, <3>1
    <3> QED BY <3>2 DEF u
  <2>5. IsFiniteSet(Units(w, u))
    BY <1>3, <2>4
  <2>6. IsFiniteSet(Units(w, {x}))
    BY UnitsOfOne
  <2>7. u \intersect {x} = {} /\ u \union {x} = t
    OBVIOUS
  <2> HIDE DEF u
  <2>8. IsFiniteSet(Units(w, u \union {x}))
    BY <2>5, <2>6, <2>7, UnitsOfBoth
  <2> QED BY <2>7, <2>8
<1>4. Nat \subseteq T
  <2> HIDE DEF T
  <2> QED BY <1>2, <1>3, SetInduction
<1>5. IsFiniteSet(Units(w, S))
  BY <1>1, <1>4
<1> QED BY <1>5, FS_CardinalityType DEF Bytes

(* A set of sizes and its parts *)
LEMMA BytesEmpty ==
    ASSUME NEW w
    PROVE  Bytes(w, {}) = 0
<1>1. Units(w, {}) = {}
  BY DEF Units
<1> QED BY <1>1, FS_EmptySet DEF Bytes

LEMMA BytesSplit ==
    ASSUME NEW w, NEW S, IsFiniteSet(S), \A x \in S : w[x] \in Nat, NEW T \in SUBSET S
    PROVE  /\ Bytes(w, S) = Bytes(w, S \ T) + Bytes(w, T)
           /\ {Bytes(w, S), Bytes(w, S \ T), Bytes(w, T)} \subseteq Nat
<1>1. IsFiniteSet(T) /\ IsFiniteSet(S \ T)
  BY FS_Subset
<1>2. /\ IsFiniteSet(Units(w, T)) /\ IsFiniteSet(Units(w, S \ T))
      /\ {Bytes(w, S), Bytes(w, S \ T), Bytes(w, T)} \subseteq Nat
  <2>1. IsFiniteSet(Units(w, T)) /\ Bytes(w, T) \in Nat
    BY <1>1, UnitsFinite
  <2>2. IsFiniteSet(Units(w, S \ T)) /\ Bytes(w, S \ T) \in Nat
    BY <1>1, UnitsFinite
  <2>3. Bytes(w, S) \in Nat
    BY UnitsFinite
  <2> QED BY <2>1, <2>2, <2>3
<1>3. (S \ T) \union T = S /\ (S \ T) \intersect T = {}
  OBVIOUS
<1>4. Bytes(w, (S \ T) \union T) = Bytes(w, S \ T) + Bytes(w, T)
  BY <1>2, <1>3, UnitsOfBoth
<1> QED BY <1>2, <1>3, <1>4

LEMMA BytesWithout ==
    ASSUME NEW w, NEW S, IsFiniteSet(S), \A x \in S : w[x] \in Nat, NEW x \in S
    PROVE  /\ Bytes(w, S) = Bytes(w, S \ {x}) + w[x]
           /\ {Bytes(w, S), Bytes(w, S \ {x})} \subseteq Nat
<1>1. {x} \in SUBSET S
  OBVIOUS
<1>2. /\ Bytes(w, S) = Bytes(w, S \ {x}) + Bytes(w, {x})
      /\ {Bytes(w, S), Bytes(w, S \ {x})} \subseteq Nat
  BY <1>1, BytesSplit
<1>3. Bytes(w, {x}) = w[x]
  BY UnitsOfOne
<1> QED BY <1>2, <1>3

LEMMA BytesSame ==
    ASSUME NEW w, NEW v, NEW S, \A x \in S : w[x] = v[x]
    PROVE  Bytes(w, S) = Bytes(v, S)
<1>1. Units(w, S) = Units(v, S)
  BY DEF Units
<1> QED BY <1>1 DEF Bytes

(* The elements under other names *)
LEMMA BytesMoved ==
    ASSUME NEW w, NEW v, NEW S, NEW T, NEW b \in [S -> T],
           IsFiniteSet(S), \A x \in S : w[x] \in Nat /\ w[x] = v[b[x]],
           \A x, y \in S : b[x] = b[y] => x = y,
           \A z \in T : \E x \in S : b[x] = z
    PROVE  Bytes(w, S) = Bytes(v, T)
<1> DEFINE g == [u \in Units(w, S) |-> <<b[u[1]], u[2]>>]
<1>1. g \in [Units(w, S) -> Units(v, T)]
  BY DEF Units
<1>2. \A u, t \in Units(w, S) : g[u] = g[t] => u = t
  <2> SUFFICES ASSUME NEW u \in Units(w, S), NEW t \in Units(w, S), g[u] = g[t]
               PROVE  u = t
    OBVIOUS
  <2>1. u \in S \X Nat /\ t \in S \X Nat
    BY DEF Units
  <2>2. b[u[1]] = b[t[1]] /\ u[2] = t[2]
    OBVIOUS
  <2> QED BY <2>1, <2>2
<1>3. \A z \in Units(v, T) : \E u \in Units(w, S) : g[u] = z
  <2> SUFFICES ASSUME NEW z \in Units(v, T) PROVE \E u \in Units(w, S) : g[u] = z
    OBVIOUS
  <2>1. z \in T \X Nat /\ z[2] < v[z[1]] /\ z = <<z[1], z[2]>>
    BY DEF Units
  <2>2. PICK x \in S : b[x] = z[1]
    BY <2>1
  <2>3. <<x, z[2]>> \in Units(w, S)
    BY <2>1, <2>2 DEF Units
  <2>4. g[<<x, z[2]>>] = z
    BY <2>1, <2>2, <2>3
  <2> QED BY <2>3, <2>4
<1> HIDE DEF g
<1>4. g \in Bijection(Units(w, S), Units(v, T))
  BY <1>1, <1>2, <1>3 DEF Bijection, Injection, Surjection, IsInjective
<1>5. ExistsBijection(Units(w, S), Units(v, T))
  BY <1>4 DEF ExistsBijection
<1>6. IsFiniteSet(Units(w, S))
  BY UnitsFinite
<1> QED BY <1>5, <1>6, FS_Bijection DEF Bytes

(* The folds of the model add up these sizes. *)
LEMMA LoopAdds ==
    ASSUME NEW loop, loop.of \in {"sum", "total"}, NEW w, loop.size = w,
           NEW S, IsFiniteSet(S), \A x \in S : w[x] \in Nat,
           NEW pick, Picks(pick, S), NEW f, Computes(f, loop, 0, S, pick)
    PROVE  f[S] = Bytes(w, S)
<1>2. \A done, st : Keeps(loop, done, st) <=> st = Bytes(w, done)
  BY DEF Keeps
<1>3. \A st, e : Body(loop, st, e) = IF loop.of = "sum" THEN st + w[e] ELSE w[e] + st
  BY DEF Body
<1>4. Keeps(loop, {}, 0)
  BY <1>2, BytesEmpty
<1>5. ASSUME NEW t \in SUBSET S, t # {}, NEW st, Keeps(loop, t \ {pick[t]}, st)
      PROVE  Keeps(loop, t, Body(loop, st, pick[t]))
  <2> DEFINE x == pick[t]
  <2>1. x \in t /\ IsFiniteSet(t) /\ \A y \in t : w[y] \in Nat
    BY <1>5, FS_Subset DEF Picks
  <2>2. st = Bytes(w, t \ {x})
    BY <1>2, <1>5
  <2> HIDE DEF x
  <2>3. /\ Bytes(w, t) = Bytes(w, t \ {x}) + w[x]
        /\ Bytes(w, t \ {x}) \in Nat
    BY <2>1, BytesWithout
  <2>4. Body(loop, st, x) = Bytes(w, t)
    <3>1. w[x] \in Nat
      BY <2>1
    <3>2. Body(loop, st, x) = IF loop.of = "sum" THEN st + w[x] ELSE w[x] + st
      BY <1>3
    <3>3. st + w[x] = w[x] + st /\ st + w[x] = Bytes(w, t)
      <4>1. st \in Nat /\ Bytes(w, t) = st + w[x]
        BY <2>2, <2>3
      <4> QED BY <3>1, <4>1
    <3> QED BY <3>2, <3>3
  <2> QED BY <1>2, <2>4 DEF x
<1>7. Keeps(loop, S, f[S])
  BY <1>4, <1>5, LoopKeeps
<1> QED BY <1>2, <1>7

LEMMA SumFunctionIsBytes ==
    ASSUME NEW w, IsFiniteSet(DOMAIN w), \A x \in DOMAIN w : w[x] \in Nat
    PROVE  SumFunction(w) = Bytes(w, DOMAIN w)
<1> DEFINE S == DOMAIN w
           loop == [of |-> "total", size |-> w]
           Some(t) == CHOOSE x \in t : TRUE
           pick == [t \in SUBSET S |-> Some(t)]
           Runs(f) == f = [t \in SUBSET S |-> IF t = {} THEN 0
                             ELSE w[Some(t)] + f[t \ {Some(t)}]]
           iter == CHOOSE f : Runs(f)
<1>1. Picks(pick, S)
  BY DEF Picks
<1>2. SumFunction(w) = iter[S]
  BY DEF SumFunction, SumFunctionOnSet, FoldFunctionOnSet, MapThenFoldSet
<1> HIDE DEF Some
<1>3. \A s, e : Body(loop, s, e) = w[e] + s
  BY DEF Body
<1>12. loop.of = "total" /\ loop.size = w
  OBVIOUS
<1> HIDE DEF loop, S
<1>4. \A f : Computes(f, loop, 0, S, pick) <=> Runs(f)
  BY <1>3 DEF Computes
<1>5. \E f : Runs(f)
  <2>1. IsFiniteSet(S)
    BY DEF S
  <2> QED BY <1>1, <1>4, <2>1, LoopDefined
<1>6. Runs(iter)
  <2> HIDE DEF Runs
  <2> QED BY <1>5
<1> HIDE DEF iter
<1>7. Computes(iter, loop, 0, S, pick)
  BY <1>4, <1>6
<1> HIDE DEF pick, Runs
<1>8. iter[S] = Bytes(w, S)
  BY <1>1, <1>7, <1>12, LoopAdds DEF S
<1> QED BY <1>2, <1>8 DEF S

LEMMA ReservedIsBytes ==
    ASSUME NEW slices, NEW S \in SUBSET DOMAIN slices, IsFiniteSet(S),
           \A x \in S : slices[x].n * SliceSize \in Nat
    PROVE  ReservedBytes(slices, S) = Bytes([x \in DOMAIN slices |-> slices[x].n * SliceSize], S)
<1> DEFINE w == [x \in DOMAIN slices |-> slices[x].n * SliceSize]
           loop == [of |-> "sum", size |-> w]
           Some(t) == CHOOSE x \in t : TRUE
           pick == [t \in SUBSET S |-> Some(t)]
           Runs(f) == f = [t \in SUBSET S |-> IF t = {} THEN 0
                             ELSE f[t \ {Some(t)}] + slices[Some(t)].n * SliceSize]
           iter == CHOOSE f : Runs(f)
<1>1. Picks(pick, S)
  BY DEF Picks
<1>2. ReservedBytes(slices, S) = iter[S]
  BY DEF ReservedBytes, FoldFunctionOnSet, MapThenFoldSet
<1>11. \A t \in SUBSET S : t # {} => Some(t) \in S
  OBVIOUS
<1> HIDE DEF Some
<1>3. \A s : \A e \in S : Body(loop, s, e) = s + slices[e].n * SliceSize
  BY DEF Body
<1>12. loop.of = "sum" /\ loop.size = w
  OBVIOUS
<1> HIDE DEF loop
<1>4. \A f : Computes(f, loop, 0, S, pick) <=> Runs(f)
  <2> TAKE f
  <2>1. \A t \in SUBSET S : t # {} =>
          Body(loop, f[t \ {pick[t]}], pick[t]) = f[t \ {Some(t)}] + slices[Some(t)].n * SliceSize
    BY <1>3, <1>11
  <2> QED BY <2>1 DEF Computes
<1>5. \E f : Runs(f)
  BY <1>1, <1>4, LoopDefined
<1>6. Runs(iter)
  <2> HIDE DEF Runs
  <2> QED BY <1>5
<1> HIDE DEF iter
<1>7. Computes(iter, loop, 0, S, pick)
  BY <1>4, <1>6
<1>8. \A x \in S : w[x] \in Nat
  OBVIOUS
<1> HIDE DEF pick, Runs, w
<1>9. iter[S] = Bytes(w, S)
  BY <1>1, <1>7, <1>8, <1>12, LoopAdds
<1> QED BY <1>2, <1>9 DEF w

LEMMA TotalIsBytes ==
    ASSUME NEW messages, NEW n \in Nat, DOMAIN messages = 1 .. n,
           \A i \in 1 .. n : messages[i].len \in Nat
    PROVE  /\ TotalLength(messages) = Bytes(Sizes(messages), 1 .. n)
           /\ TotalLength(messages) \in Nat
<1> DEFINE S == DOMAIN messages
           w == Sizes(messages)
           loop == [of |-> "sum", size |-> w]
           pick == [t \in SUBSET S |-> Max(t)]
           Runs(f) == f = [t \in SUBSET S |-> IF t = {} THEN 0
                             ELSE f[t \ {Max(t)}] + messages[Max(t)].len]
           iter == CHOOSE f : Runs(f)
<1>1. IsFiniteSet(S) /\ Picks(pick, S)
  <2>1. S \in SUBSET (0 .. n)
    OBVIOUS
  <2> HIDE DEF S
  <2> QED BY <2>1, MaxPicks
<1>2. TotalLength(messages) = iter[S]
  BY DEF TotalLength, FoldLeft, MapThenFoldSet
<1>11. \A t \in SUBSET S : t # {} => Max(t) \in S
  BY <1>1 DEF Picks
<1>8. \A x \in S : w[x] \in Nat /\ w[x] = messages[x].len
  BY DEF Sizes
<1> HIDE DEF S, w
<1>3. \A s : \A e \in S : Body(loop, s, e) = s + messages[e].len
  BY <1>8 DEF Body
<1>12. loop.of = "sum" /\ loop.size = w
  OBVIOUS
<1> HIDE DEF loop
<1>4. \A f : Computes(f, loop, 0, S, pick) <=> Runs(f)
  <2> TAKE f
  <2>1. \A t \in SUBSET S : t # {} =>
          Body(loop, f[t \ {pick[t]}], pick[t]) = f[t \ {Max(t)}] + messages[Max(t)].len
    BY <1>3, <1>11
  <2> QED BY <2>1 DEF Computes
<1>5. \E f : Runs(f)
  BY <1>1, <1>4, LoopDefined
<1>6. Runs(iter)
  <2> HIDE DEF Runs
  <2> QED BY <1>5
<1> HIDE DEF iter
<1>7. Computes(iter, loop, 0, S, pick)
  BY <1>4, <1>6
<1> HIDE DEF pick, Runs
<1>9. iter[S] = Bytes(w, S)
  BY <1>1, <1>7, <1>8, <1>12, LoopAdds
<1>10. Bytes(w, S) \in Nat
  BY <1>1, <1>8, UnitsFinite
<1> QED BY <1>2, <1>9, <1>10 DEF w, S

LEMMA SumIsNat ==
    ASSUME NEW w, Weighs(w)
    PROVE  SumFunction(w) \in Nat
<1>1. IsFiniteSet(DOMAIN w) /\ \A x \in DOMAIN w : w[x] \in Nat
  BY DEF Weighs
<1>2. SumFunction(w) = Bytes(w, DOMAIN w) /\ Bytes(w, DOMAIN w) \in Nat
  BY <1>1, SumFunctionIsBytes, UnitsFinite
<1> QED BY <1>2

(* A size more, a size less, and some sizes less *)
LEMMA SumWith ==
    ASSUME NEW w, Weighs(w), NEW x, x \notin DOMAIN w, NEW v \in Nat
    PROVE  /\ Weighs(With(w, x, v))
           /\ SumFunction(With(w, x, v)) = SumFunction(w) + v
           /\ SumFunction(w) \in Nat
<1> DEFINE u == With(w, x, v)
           S == DOMAIN w
           T == DOMAIN u
<1>1. T = S \union {x} /\ u[x] = v /\ \A y \in S : u[y] = w[y]
  BY DEF With
<1>2. IsFiniteSet(S) /\ \A y \in S : w[y] \in Nat
  BY DEF Weighs
<1> HIDE DEF u
<1>3. IsFiniteSet(T) /\ \A y \in T : u[y] \in Nat
  BY <1>1, <1>2, FS_AddElement
<1>4. Weighs(u)
  BY <1>3 DEF Weighs
<1>5. SumFunction(w) = Bytes(w, S) /\ SumFunction(u) = Bytes(u, T)
  BY <1>2, <1>3, SumFunctionIsBytes
<1>6. Bytes(w, S) \in Nat
  BY <1>2, UnitsFinite
<1>7. T \ {x} = S /\ x \in T
  BY <1>1
<1> HIDE DEF S, T
<1>8. Bytes(u, T) = Bytes(u, T \ {x}) + u[x]
  BY <1>3, <1>7, BytesWithout
<1>9. Bytes(u, S) = Bytes(w, S)
  BY <1>1, BytesSame
<1>10. SumFunction(u) = SumFunction(w) + v
  BY <1>1, <1>5, <1>7, <1>8, <1>9
<1> QED BY <1>4, <1>5, <1>6, <1>10 DEF u

LEMMA SumLess ==
    ASSUME NEW w, Weighs(w), NEW T \in SUBSET DOMAIN w, NEW u,
           DOMAIN u = DOMAIN w \ T, \A y \in DOMAIN u : u[y] = w[y]
    PROVE  /\ Weighs(u)
           /\ SumFunction(w) = SumFunction(u) + Bytes(w, T)
           /\ {SumFunction(w), SumFunction(u), Bytes(w, T)} \subseteq Nat
<1> DEFINE S == DOMAIN w
           R == DOMAIN u
<1>1. IsFiniteSet(S) /\ \A y \in S : w[y] \in Nat
  BY DEF Weighs
<1>2. IsFiniteSet(R) /\ \A y \in R : u[y] \in Nat
  BY <1>1, FS_Subset
<1>3. SumFunction(w) = Bytes(w, S) /\ SumFunction(u) = Bytes(u, R)
  BY <1>1, <1>2, SumFunctionIsBytes
<1>4. T \in SUBSET S /\ R = S \ T
  OBVIOUS
<1>5. Bytes(u, R) = Bytes(w, R)
  BY BytesSame
<1> HIDE DEF S, R
<1>6. /\ Bytes(w, S) = Bytes(w, S \ T) + Bytes(w, T)
      /\ {Bytes(w, S), Bytes(w, S \ T), Bytes(w, T)} \subseteq Nat
  BY <1>1, <1>4, BytesSplit
<1>7. Weighs(u)
  BY <1>2 DEF Weighs, R
<1> QED BY <1>3, <1>4, <1>5, <1>6, <1>7

LEMMA SumWithout ==
    ASSUME NEW w, Weighs(w), NEW x \in DOMAIN w
    PROVE  /\ Weighs(Without(w, x))
           /\ SumFunction(w) = SumFunction(Without(w, x)) + w[x]
           /\ {SumFunction(w), SumFunction(Without(w, x))} \subseteq Nat
<1> DEFINE u == Without(w, x)
<1>1. DOMAIN u = DOMAIN w \ {x} /\ \A y \in DOMAIN u : u[y] = w[y]
  BY DEF Without
<1>2. {x} \in SUBSET DOMAIN w
  OBVIOUS
<1> HIDE DEF u
<1>3. /\ Weighs(u) /\ SumFunction(w) = SumFunction(u) + Bytes(w, {x})
      /\ {SumFunction(w), SumFunction(u)} \subseteq Nat
  BY <1>1, <1>2, SumLess
<1>4. Bytes(w, {x}) = w[x]
  BY UnitsOfOne DEF Weighs
<1> QED BY <1>3, <1>4 DEF u

LEMMA SumEmpty == Weighs(<< >>) /\ SumFunction(<< >>) = 0
<1>1. DOMAIN << >> = {}
  OBVIOUS
<1>2. IsFiniteSet({})
  BY FS_EmptySet
<1>3. Weighs(<< >>)
  BY <1>1, <1>2 DEF Weighs
<1>4. SumFunction(<< >>) = Bytes(<< >>, {})
  BY <1>1, <1>2, SumFunctionIsBytes
<1> QED BY <1>3, <1>4, BytesEmpty

LEMMA ReservedIsSum ==
    ASSUME NEW slices, Weighs(Reserves(slices)), NEW T \in SUBSET DOMAIN slices
    PROVE  /\ ReservedBytes(slices, T) = Bytes(Reserves(slices), T)
           /\ ReservedBytes(slices, DOMAIN slices) = SumFunction(Reserves(slices))
<1> DEFINE w == Reserves(slices)
           S == DOMAIN slices
<1>1. DOMAIN w = S /\ \A x \in S : w[x] = slices[x].n * SliceSize
  BY DEF Reserves
<1>2. IsFiniteSet(S) /\ \A x \in S : slices[x].n * SliceSize \in Nat
  BY <1>1 DEF Weighs
<1>3. IsFiniteSet(T)
  BY <1>2, FS_Subset
<1>4. ReservedBytes(slices, T) = Bytes(w, T)
  BY <1>2, <1>3, ReservedIsBytes DEF Reserves
<1>5. ReservedBytes(slices, S) = Bytes(w, S)
  BY <1>2, ReservedIsBytes DEF Reserves
<1>6. SumFunction(w) = Bytes(w, S)
  BY <1>1, <1>2, SumFunctionIsBytes
<1> QED BY <1>4, <1>5, <1>6

(* The total length of a sequence of messages *)
LEMMA TotalEmpty == TotalLength(<< >>) = 0
<1>1. DOMAIN << >> = 1 .. 0
  OBVIOUS
<1>2. TotalLength(<< >>) = Bytes(Sizes(<< >>), 1 .. 0)
  BY <1>1, TotalIsBytes
<1>3. 1 .. 0 = {}
  OBVIOUS
<1> QED BY <1>2, <1>3, BytesEmpty

LEMMA TotalAppend ==
    ASSUME NEW M, \A m \in M : m.len \in Nat, NEW s \in Seq(M), NEW m \in M
    PROVE  /\ TotalLength(Append(s, m)) = TotalLength(s) + m.len
           /\ TotalLength(s) \in Nat
<1> DEFINE n == Len(s)
           a == Append(s, m)
           S == 1 .. n
           T == 1 .. (n + 1)
           w == Sizes(s)
           u == Sizes(a)
<1>1. /\ n \in Nat /\ DOMAIN s = S /\ DOMAIN a = T
      /\ \A i \in S : a[i] = s[i] /\ s[i] \in M
      /\ a[n + 1] = m
  BY AppendProperties, LenProperties, ElementOfSeq
<1> HIDE DEF a, n
<1>2. T \ {n + 1} = S /\ n + 1 \in T /\ n + 1 \in Nat /\ \A i \in T : i \in S \/ i = n + 1
  BY <1>1
<1>3. /\ \A i \in S : w[i] = s[i].len /\ u[i] = w[i] /\ w[i] \in Nat
      /\ u[n + 1] = m.len
  BY <1>1, <1>2 DEF Sizes
<1>4. \A i \in T : a[i].len \in Nat /\ u[i] \in Nat
  BY <1>1, <1>2, <1>3
<1>5. TotalLength(s) = Bytes(w, S) /\ TotalLength(s) \in Nat
  <2>1. \A i \in 1 .. n : s[i].len \in Nat
    BY <1>1
  <2> QED BY <1>1, <2>1, TotalIsBytes
<1>6. TotalLength(a) = Bytes(u, T)
  BY <1>1, <1>2, <1>4, TotalIsBytes
<1> HIDE DEF w, u
<1>7. Bytes(u, T) = Bytes(u, T \ {n + 1}) + u[n + 1]
  <2>1. IsFiniteSet(T)
    BY <1>1, FS_Interval
  <2> HIDE DEF T
  <2> QED BY <1>2, <1>4, <2>1, BytesWithout
<1>8. Bytes(u, S) = Bytes(w, S)
  BY <1>3, BytesSame
<1> QED BY <1>2, <1>3, <1>5, <1>6, <1>7, <1>8 DEF a

LEMMA TotalIsNat ==
    ASSUME NEW M, \A m \in M : m.len \in Nat, NEW s \in Seq(M)
    PROVE  TotalLength(s) \in Nat
<1>1. Len(s) \in Nat /\ DOMAIN s = 1 .. Len(s) /\ \A i \in 1 .. Len(s) : s[i].len \in Nat
  BY LenProperties, ElementOfSeq
<1> QED BY <1>1, TotalIsBytes

LEMMA TotalTail ==
    ASSUME NEW M, \A m \in M : m.len \in Nat, NEW s \in Seq(M), s # << >>
    PROVE  /\ TotalLength(s) = TotalLength(Tail(s)) + Head(s).len
           /\ {TotalLength(s), TotalLength(Tail(s)), Head(s).len} \subseteq Nat
<1> DEFINE n == Len(s)
           r == Tail(s)
           S == 1 .. n
           T == 1 .. (n - 1)
           w == Sizes(s)
           u == Sizes(r)
           b == [i \in T |-> i + 1]
<1>1. /\ n \in Nat /\ n - 1 \in Nat /\ DOMAIN s = S /\ DOMAIN r = T
      /\ \A i \in T : r[i] = s[i + 1]
      /\ \A i \in S : s[i] \in M
      /\ Head(s) = s[1]
  BY HeadTailProperties, LenProperties, ElementOfSeq, EmptySeq
<1> HIDE DEF r, n
<1>2. 1 \in S /\ \A i \in T : i + 1 \in S
  BY <1>1
<1>3. /\ \A i \in S : w[i] = s[i].len /\ w[i] \in Nat
      /\ \A i \in T : u[i] = w[i + 1] /\ u[i] \in Nat /\ r[i].len \in Nat
  BY <1>1, <1>2 DEF Sizes
<1>4. TotalLength(s) = Bytes(w, S) /\ TotalLength(s) \in Nat
  <2>1. \A i \in 1 .. n : s[i].len \in Nat
    BY <1>1
  <2> QED BY <1>1, <2>1, TotalIsBytes
<1>5. TotalLength(r) = Bytes(u, T) /\ TotalLength(r) \in Nat
  BY <1>1, <1>3, TotalIsBytes
<1> HIDE DEF w, u
<1>6. IsFiniteSet(S) /\ IsFiniteSet(T)
  BY <1>1, FS_Interval
<1>7. Bytes(w, S) = Bytes(w, S \ {1}) + w[1]
  <2> HIDE DEF S
  <2> QED BY <1>2, <1>3, <1>6, BytesWithout
<1>8. Bytes(u, T) = Bytes(w, S \ {1})
  <2>1. b \in [T -> S \ {1}]
    BY <1>1, <1>2
  <2>2. \A i, j \in T : b[i] = b[j] => i = j
    BY <1>1
  <2>3. \A z \in S \ {1} : \E i \in T : b[i] = z
    <3> TAKE z \in S \ {1}
    <3>1. z - 1 \in T /\ b[z - 1] = z
      BY <1>1
    <3> QED BY <3>1
  <2>4. \A i \in T : u[i] \in Nat /\ u[i] = w[b[i]]
    BY <1>3
  <2> HIDE DEF b, S, T
  <2> QED BY <1>6, <2>1, <2>2, <2>3, <2>4, BytesMoved
<1>9. Head(s).len = w[1] /\ w[1] \in Nat
  BY <1>1, <1>2, <1>3
<1> QED BY <1>4, <1>5, <1>7, <1>8, <1>9 DEF r

LEMMA TotalReverse ==
    ASSUME NEW M, \A m \in M : m.len \in Nat, NEW s \in Seq(M)
    PROVE  TotalLength(Reverse(s)) = TotalLength(s)
<1> DEFINE n == Len(s)
           r == Reverse(s)
           S == 1 .. n
           w == Sizes(s)
           u == Sizes(r)
           b == [i \in S |-> (n - i) + 1]
<1>1. n \in Nat /\ DOMAIN s = S /\ \A i \in S : s[i] \in M
  BY LenProperties, ElementOfSeq
<1>2. DOMAIN r = S /\ \A i \in S : r[i] = s[(n - i) + 1]
  BY DEF Reverse
<1> HIDE DEF r, n
<1>3. \A i \in S : (n - i) + 1 \in S
  BY <1>1
<1>4. \A i \in S : w[i] = s[i].len /\ u[i] = w[(n - i) + 1] /\ {u[i], w[i], r[i].len} \subseteq Nat
  BY <1>1, <1>2, <1>3 DEF Sizes
<1>5. TotalLength(s) = Bytes(w, S)
  <2>1. \A i \in 1 .. n : s[i].len \in Nat
    BY <1>1
  <2> QED BY <1>1, <2>1, TotalIsBytes
<1>6. TotalLength(r) = Bytes(u, S)
  BY <1>1, <1>2, <1>4, TotalIsBytes
<1> HIDE DEF w, u
<1>7. IsFiniteSet(S)
  BY <1>1, FS_Interval
<1>8. Bytes(u, S) = Bytes(w, S)
  <2>1. b \in [S -> S]
    BY <1>3
  <2>2. \A i, j \in S : b[i] = b[j] => i = j
    BY <1>1
  <2>3. \A z \in S : \E i \in S : b[i] = z
    <3> TAKE z \in S
    <3>1. (n - z) + 1 \in S /\ b[(n - z) + 1] = z
      BY <1>1, <1>3
    <3> QED BY <3>1
  <2>4. \A i \in S : u[i] \in Nat /\ u[i] = w[b[i]]
    BY <1>4
  <2> HIDE DEF b, S
  <2> QED BY <1>7, <2>1, <2>2, <2>3, <2>4, BytesMoved
<1> QED BY <1>5, <1>6, <1>8 DEF r

(* The size of the messages of a packet, each with its varints *)
MessageSizes(messages, varints) ==
    [i \in DOMAIN messages |-> messages[i].len + varints * VarintBytes]

LEMMA SizeIsBytes ==
    ASSUME NEW messages, NEW n \in Nat, DOMAIN messages = 1 .. n, NEW v \in Nat,
           \A i \in 1 .. n : messages[i].len \in Nat
    PROVE  MessagesSize(messages, v) = Bytes(MessageSizes(messages, v), 1 .. n)
<1> DEFINE S == DOMAIN messages
           w == MessageSizes(messages, v)
           loop == [of |-> "sum", size |-> w]
           pick == [t \in SUBSET S |-> Max(t)]
           Runs(f) == f = [t \in SUBSET S |-> IF t = {} THEN 0
                             ELSE f[t \ {Max(t)}] + (messages[Max(t)].len + v * VarintBytes)]
           iter == CHOOSE f : Runs(f)
<1>1. IsFiniteSet(S) /\ Picks(pick, S)
  <2>1. S \in SUBSET (0 .. n)
    OBVIOUS
  <2> HIDE DEF S
  <2> QED BY <2>1, MaxPicks
<1>2. MessagesSize(messages, v) = iter[S]
  BY DEF MessagesSize, FoldLeft, MapThenFoldSet
<1>11. \A t \in SUBSET S : t # {} => Max(t) \in S
  BY <1>1 DEF Picks
<1>8. \A x \in S : w[x] \in Nat /\ w[x] = messages[x].len + v * VarintBytes
  <2>1. v * VarintBytes \in Nat
    BY ReliableChannelAssumption
  <2> QED BY <2>1 DEF MessageSizes
<1> HIDE DEF S, w
<1>3. \A s : \A e \in S : Body(loop, s, e) = s + (messages[e].len + v * VarintBytes)
  BY <1>8 DEF Body
<1>12. loop.of = "sum" /\ loop.size = w
  OBVIOUS
<1> HIDE DEF loop
<1>4. \A f : Computes(f, loop, 0, S, pick) <=> Runs(f)
  <2> TAKE f
  <2>1. \A t \in SUBSET S : t # {} =>
          Body(loop, f[t \ {pick[t]}], pick[t])
            = f[t \ {Max(t)}] + (messages[Max(t)].len + v * VarintBytes)
    BY <1>3, <1>11
  <2> QED BY <2>1 DEF Computes
<1>5. \E f : Runs(f)
  BY <1>1, <1>4, LoopDefined
<1>6. Runs(iter)
  <2> HIDE DEF Runs
  <2> QED BY <1>5
<1> HIDE DEF iter
<1>7. Computes(iter, loop, 0, S, pick)
  BY <1>4, <1>6
<1> HIDE DEF pick, Runs
<1>9. iter[S] = Bytes(w, S)
  BY <1>1, <1>7, <1>8, <1>12, LoopAdds
<1> QED BY <1>2, <1>9 DEF w, S

LEMMA SizeEmpty ==
    ASSUME NEW v \in Nat
    PROVE  MessagesSize(<< >>, v) = 0 /\ SmallFits(<< >>, v)
<1>1. DOMAIN << >> = 1 .. 0 /\ 1 .. 0 = {}
  OBVIOUS
<1>2. MessagesSize(<< >>, v) = Bytes(MessageSizes(<< >>, v), 1 .. 0)
  BY <1>1, SizeIsBytes
<1>3. MessagesSize(<< >>, v) = 0
  BY <1>1, <1>2, BytesEmpty
<1>4. v * VarintBytes \in Nat /\ SliceSize \in Nat
  BY ReliableChannelAssumption
<1> QED BY <1>3, <1>4 DEF SmallFits

LEMMA SizeAppend ==
    ASSUME NEW M, \A m \in M : m.len \in Nat, NEW s \in Seq(M), NEW m \in M, NEW v \in Nat
    PROVE  /\ MessagesSize(Append(s, m), v) = MessagesSize(s, v) + (m.len + v * VarintBytes)
           /\ MessagesSize(s, v) \in Nat
<1> DEFINE n == Len(s)
           a == Append(s, m)
           S == 1 .. n
           T == 1 .. (n + 1)
           w == MessageSizes(s, v)
           u == MessageSizes(a, v)
           z == v * VarintBytes
<1>1. /\ n \in Nat /\ DOMAIN s = S /\ DOMAIN a = T
      /\ \A i \in S : a[i] = s[i] /\ s[i] \in M
      /\ a[n + 1] = m
  BY AppendProperties, LenProperties, ElementOfSeq
<1>9. z \in Nat
  BY ReliableChannelAssumption
<1> HIDE DEF a, n
<1>2. T \ {n + 1} = S /\ n + 1 \in T /\ n + 1 \in Nat /\ \A i \in T : i \in S \/ i = n + 1
  BY <1>1
<1>10. /\ \A i \in S : w[i] = s[i].len + z /\ u[i] = a[i].len + z
       /\ u[n + 1] = a[n + 1].len + z
  BY <1>1, <1>2 DEF MessageSizes
<1> HIDE DEF z
<1>3. /\ \A i \in S : u[i] = w[i] /\ w[i] \in Nat
      /\ u[n + 1] = m.len + z
  BY <1>1, <1>9, <1>10
<1>4. \A i \in T : a[i].len \in Nat /\ u[i] \in Nat
  BY <1>1, <1>2, <1>3, <1>9
<1>5. MessagesSize(s, v) = Bytes(w, S)
  <2>1. \A i \in 1 .. n : s[i].len \in Nat
    BY <1>1
  <2> QED BY <1>1, <2>1, SizeIsBytes
<1>6. MessagesSize(a, v) = Bytes(u, T)
  BY <1>1, <1>2, <1>4, SizeIsBytes
<1> HIDE DEF w, u
<1>7. Bytes(u, T) = Bytes(u, T \ {n + 1}) + u[n + 1]
  <2>2. 1 \in Int /\ n + 1 \in Int
    BY <1>2
  <2>1. IsFiniteSet(T)
    BY <2>2, FS_Interval
  <2> HIDE DEF T
  <2> QED BY <1>2, <1>4, <2>1, BytesWithout
<1>8. Bytes(u, S) = Bytes(w, S) /\ Bytes(w, S) \in Nat
  <2>2. 1 \in Int /\ n \in Int
    BY <1>1
  <2>1. IsFiniteSet(S)
    BY <2>2, FS_Interval
  <2> QED BY <1>3, <2>1, BytesSame, UnitsFinite
<1> QED BY <1>2, <1>3, <1>5, <1>6, <1>7, <1>8 DEF a, z

LEMMA SizeIsNat ==
    ASSUME NEW M, \A m \in M : m.len \in Nat, NEW s \in Seq(M), NEW v \in Nat
    PROVE  MessagesSize(s, v) \in Nat
<1> DEFINE n == Len(s)
           w == MessageSizes(s, v)
<1>1. n \in Nat /\ DOMAIN s = 1 .. n /\ \A i \in 1 .. n : s[i].len \in Nat
  BY LenProperties, ElementOfSeq
<1>2. MessagesSize(s, v) = Bytes(w, 1 .. n)
  BY <1>1, SizeIsBytes
<1>3. v * VarintBytes \in Nat
  BY ReliableChannelAssumption
<1>4. \A i \in 1 .. n : w[i] \in Nat
  BY <1>1, <1>3 DEF MessageSizes
<1>5. 1 \in Int /\ n \in Int
  BY <1>1
<1>6. IsFiniteSet(1 .. n)
  BY <1>5, FS_Interval
<1> HIDE DEF w, n
<1>7. Bytes(w, 1 .. n) \in Nat
  BY <1>4, <1>6, BytesSame, UnitsFinite
<1> QED BY <1>2, <1>7

(* A message that is flushed for, or for which there is room, fits. *)
LEMMA SizeFits ==
    ASSUME NEW M, \A m \in M : m.len \in Nat /\ ~IsSliced(m.len), NEW s \in Seq(M),
           NEW m \in M, NEW v \in Nat,
           s = << >> \/ ~(MessagesSize(s, v) + (m.len + v * VarintBytes) > SliceSize)
    PROVE  /\ SmallFits(Append(s, m), v)
           /\ MessagesSize(Append(s, m), v) = MessagesSize(s, v) + (m.len + v * VarintBytes)
<1> DEFINE z == v * VarintBytes
           old == MessagesSize(s, v)
           new == MessagesSize(Append(s, m), v)
<1>1. new = old + (m.len + z) /\ old \in Nat
  BY SizeAppend
<1>2. z \in Nat /\ SliceSize \in Nat
  BY ReliableChannelAssumption
<1>3. m.len \in Nat /\ m.len <= SliceSize
  BY <1>2 DEF IsSliced
<1>4. s = << >> => old = 0
  BY SizeEmpty
<1>5. s = << >> \/ ~(old + (m.len + z) > SliceSize)
  OBVIOUS
<1>6. new <= SliceSize + z
  <2> HIDE DEF z, old, new
  <2> QED BY <1>1, <1>2, <1>3, <1>4, <1>5
<1> QED BY <1>1, <1>6 DEF SmallFits

-----------------------------------------------------------------------------
(* The packets of a tick *)

LEMMA SliceCount ==
    ASSUME NEW len \in Nat, IsSliced(len)
    PROVE  /\ NumSlices(len) \in Nat /\ NumSlices(len) >= 2
           /\ len <= NumSlices(len) * SliceSize
           /\ (NumSlices(len) - 1) * SliceSize < len
<1> DEFINE q == NumSlices(len)
<1>1. SliceSize \in Nat \ {0} /\ len > SliceSize
  BY ReliableChannelAssumption DEF IsSliced
<1>2. q \in Nat /\ q * SliceSize <= len + SliceSize - 1 /\ len + SliceSize - 1 < q * SliceSize + SliceSize
  <2> DEFINE x == len + SliceSize - 1
  <2>1. x \in Nat /\ q = x \div SliceSize
    BY <1>1 DEF NumSlices
  <2> HIDE DEF x, q
  <2>2. (x \div SliceSize) \in Nat /\ (x \div SliceSize) * SliceSize <= x
        /\ x < (x \div SliceSize) * SliceSize + SliceSize
    BY <1>1, <2>1
  <2> QED BY <2>1, <2>2 DEF x
<1> HIDE DEF q
<1>3. len <= q * SliceSize /\ (q - 1) * SliceSize < len /\ q >= 2
  BY <1>1, <1>2
<1> QED BY <1>2, <1>3 DEF q

(* Every slice but the last is full, and the last is not empty. *)
LEMMA SliceBounds ==
    ASSUME NEW len \in Nat, IsSliced(len), NEW i \in 0 .. (NumSlices(len) - 1)
    PROVE  /\ SliceLength(len, i) \in 1 .. SliceSize
           /\ i # NumSlices(len) - 1 => SliceLength(len, i) = SliceSize
           /\ i = NumSlices(len) - 1 =>
                (NumSlices(len) - 1) * SliceSize + SliceLength(len, i) = len
<1> DEFINE q == NumSlices(len)
           full == (q - 1) * SliceSize
<1>1. q \in Nat /\ q >= 2 /\ len <= q * SliceSize /\ full < len
  BY SliceCount
<1>2. SliceSize \in Nat \ {0}
  BY ReliableChannelAssumption
<1>3. q * SliceSize = full + SliceSize /\ full \in Int
  <2> HIDE DEF q
  <2> QED BY <1>1, <1>2
<1>4. CASE i = q - 1
  <2>1. SliceLength(len, i) = len - full
    BY <1>4 DEF SliceLength
  <2> HIDE DEF full, q
  <2>2. q \in Nat /\ i = q - 1 /\ SliceLength(len, i) = len - full /\ full \in Int /\ full < len
        /\ len <= full + SliceSize
    BY <1>1, <1>3, <1>4, <2>1
  <2> QED BY <1>2, <2>2 DEF full, q
<1>5. CASE i # q - 1
  BY <1>2, <1>5 DEF SliceLength
<1> QED BY <1>4, <1>5

(* Packets are numbered one after the other. *)
LEMMA AppendNumbered ==
    ASSUME NEW P, NEW packets \in Seq(P), NEW first \in Nat, NEW sequence \in Nat,
           Numbered(packets, first, sequence), NEW k \in P, k.sequence = sequence
    PROVE  /\ Append(packets, k) \in Seq(P)
           /\ Numbered(Append(packets, k), first, sequence + 1)
<1>1. /\ Append(packets, k) \in Seq(P) /\ Len(Append(packets, k)) = Len(packets) + 1
      /\ \A i \in 1 .. Len(packets) : Append(packets, k)[i] = packets[i]
      /\ Append(packets, k)[Len(packets) + 1] = k
      /\ Len(packets) \in Nat /\ DOMAIN packets = 1 .. Len(packets)
      /\ DOMAIN Append(packets, k) = 1 .. (Len(packets) + 1)
  BY AppendProperties, LenProperties
<1>2. Len(packets) = sequence - first
  BY DEF Numbered
<1>3. ASSUME NEW i \in 1 .. (Len(packets) + 1)
      PROVE  Append(packets, k)[i].sequence = first + i - 1
  <2>1. CASE i \in 1 .. Len(packets)
    BY <1>1, <2>1 DEF Numbered
  <2>2. CASE i = Len(packets) + 1
    BY <1>1, <1>2, <2>2
  <2> QED BY <1>1, <2>1, <2>2
<1>4. Len(Append(packets, k)) = (sequence + 1) - first
  BY <1>1, <1>2
<1>5. \A i \in DOMAIN Append(packets, k) : Append(packets, k)[i].sequence = first + i - 1
  BY <1>1, <1>3
<1> QED BY <1>1, <1>4, <1>5 DEF Numbered

LEMMA ConcatNumbered ==
    ASSUME NEW P, NEW a \in Seq(P), NEW b \in Seq(P),
           NEW first \in Nat, NEW middle \in Nat, NEW last \in Nat,
           Numbered(a, first, middle), Numbered(b, middle, last)
    PROVE  a \o b \in Seq(P) /\ Numbered(a \o b, first, last)
<1>1. /\ a \o b \in Seq(P) /\ Len(a \o b) = Len(a) + Len(b)
      /\ DOMAIN (a \o b) = 1 .. (Len(a) + Len(b))
      /\ Len(a) \in Nat /\ Len(b) \in Nat
      /\ DOMAIN a = 1 .. Len(a) /\ DOMAIN b = 1 .. Len(b)
  BY ConcatProperties, LenProperties
<1>2. Len(a) = middle - first /\ Len(b) = last - middle
  BY DEF Numbered
<1>3. ASSUME NEW i \in 1 .. (Len(a) + Len(b))
      PROVE  (a \o b)[i].sequence = first + i - 1
  <2>1. CASE i <= Len(a)
    <3>1. (a \o b)[i] = a[i] /\ i \in DOMAIN a
      BY <1>1, <2>1, ConcatProperties
    <3> QED BY <3>1 DEF Numbered
  <2>2. CASE i > Len(a)
    <3>1. (a \o b)[i] = b[i - Len(a)] /\ i - Len(a) \in DOMAIN b
      BY <1>1, <2>2, ConcatProperties
    <3>2. b[i - Len(a)].sequence = middle + (i - Len(a)) - 1
      BY <3>1 DEF Numbered
    <3> QED BY <1>1, <1>2, <3>1, <3>2
  <2> QED BY <1>1, <2>1, <2>2
<1>4. Len(a \o b) = last - first
  BY <1>1, <1>2
<1>5. \A i \in DOMAIN (a \o b) : (a \o b)[i].sequence = first + i - 1
  BY <1>1, <1>3
<1> QED BY <1>1, <1>4, <1>5 DEF Numbered

-----------------------------------------------------------------------------
(* get_packets_to_send of a reliable channel *)

LEMMA TouchUnacked ==
    ASSUME NEW ch, NEW old, SameUnacked(ch, old), NEW id \in DOMAIN old.unacked, NEW i
    PROVE  SameUnacked([ch EXCEPT !.unacked[id].age[i] = 0], old)
<1> DEFINE m == [ch.unacked[id] EXCEPT !.age[i] = 0]
           unacked == [ch.unacked EXCEPT ![id] = m]
           new == [ch EXCEPT !.unacked = unacked]
<1>1. new = [ch EXCEPT !.unacked[id].age[i] = 0]
  OBVIOUS
<1>2. /\ DOMAIN m = {"len", "acked", "next_slice", "age"}
      /\ m.len = ch.unacked[id].len /\ m.acked = ch.unacked[id].acked
      /\ m.next_slice = ch.unacked[id].next_slice
  BY DEF SameUnacked
<1> HIDE DEF m
<1>3. /\ DOMAIN unacked = DOMAIN ch.unacked
      /\ unacked[id] = m
      /\ \A j \in DOMAIN ch.unacked : j # id => unacked[j] = ch.unacked[j]
  BY DEF SameUnacked
<1> HIDE DEF unacked
<1>4. /\ DOMAIN new = DOMAIN ch /\ new.unacked = unacked
      /\ new.next_id = ch.next_id /\ new.memory = ch.memory
  BY DEF SameUnacked
<1> HIDE DEF new
<1>5. SameUnacked(new, old)
  BY <1>2, <1>3, <1>4 DEF SameUnacked
<1> QED BY <1>1, <1>5

LEMMA TouchNextSlice ==
    ASSUME NEW ch, NEW old, SameUnacked(ch, old), NEW id \in DOMAIN old.unacked, NEW i \in Nat
    PROVE  SameUnacked([ch EXCEPT !.unacked[id].next_slice = i], old)
<1> DEFINE m == [ch.unacked[id] EXCEPT !.next_slice = i]
           unacked == [ch.unacked EXCEPT ![id] = m]
           new == [ch EXCEPT !.unacked = unacked]
<1>1. new = [ch EXCEPT !.unacked[id].next_slice = i]
  OBVIOUS
<1>2. /\ DOMAIN m = {"len", "acked", "next_slice", "age"}
      /\ m.len = ch.unacked[id].len /\ m.acked = ch.unacked[id].acked
      /\ m.next_slice = i
  BY DEF SameUnacked
<1> HIDE DEF m
<1>3. /\ DOMAIN unacked = DOMAIN ch.unacked
      /\ unacked[id] = m
      /\ \A j \in DOMAIN ch.unacked : j # id => unacked[j] = ch.unacked[j]
  BY DEF SameUnacked
<1> HIDE DEF unacked
<1>4. /\ DOMAIN new = DOMAIN ch /\ new.unacked = unacked
      /\ new.next_id = ch.next_id /\ new.memory = ch.memory
  BY DEF SameUnacked
<1> HIDE DEF new
<1>5. SameUnacked(new, old)
  BY <1>2, <1>3, <1>4 DEF SameUnacked
<1> QED BY <1>1, <1>5

LEMMA FlushSmallKeeps ==
    ASSUME NEW st, NEW c, NEW first \in Nat, NEW old, NEW lens,
           PackingReliable(st, c, first, old, lens)
    PROVE  PackingReliable(FlushSmall(st, c), c, first, old, lens)
<1> DEFINE k == SmallReliablePacket(st, c)
           new == FlushSmall(st, c)
<1>1. k \in ReliablePackets(c, lens) /\ k.sequence = st.sequence
  BY DEF SmallReliablePacket, ReliablePackets, PackingReliable
<1>6. OfUnacked(k, old.unacked)
  BY DEF SmallReliablePacket, OfUnacked, PackingReliable
<1>2. /\ Append(st.packets, k) \in Seq(ReliablePackets(c, lens))
      /\ Numbered(Append(st.packets, k), first, st.sequence + 1)
  <2> HIDE DEF k
  <2> QED BY <1>1, AppendNumbered DEF PackingReliable
<1> HIDE DEF k
<1>3. /\ DOMAIN new = DOMAIN st
      /\ new.packets = Append(st.packets, k) /\ new.sequence = st.sequence + 1
      /\ new.small = << >> /\ new.small_bytes = 0 /\ new.ch = st.ch
  BY DEF PackingReliable, FlushSmall, k
<1>4. << >> \in Seq(SmallMessages(lens)) /\ st.sequence + 1 \in Nat
  BY DEF PackingReliable
<1>5. MessagesSize(<< >>, 2) = 0 /\ SmallFits(<< >>, 2)
  BY SizeEmpty
<1>7. \A j \in DOMAIN Append(st.packets, k) : OfUnacked(Append(st.packets, k)[j], old.unacked)
  BY <1>1, <1>6, AppendProperties DEF PackingReliable
<1> HIDE DEF new
<1> QED BY <1>2, <1>3, <1>4, <1>5, <1>7 DEF PackingReliable, new

LEMMA PackSmallKeeps ==
    ASSUME NEW st, NEW c, NEW first \in Nat, NEW old, NEW lens \in LengthSeqs,
           SendReliableOK(old, lens), PackingReliable(st, c, first, old, lens),
           NEW id \in DOMAIN old.unacked, ~IsSliced(old.unacked[id].len)
    PROVE  PackingReliable(PackSmall(st, c, id), c, first, old, lens)
<1> DEFINE m == st.ch.unacked[id]
           size == m.len + 2 * VarintBytes
           flushed == IF st.small_bytes + size > SliceSize THEN FlushSmall(st, c) ELSE st
           small == [id |-> id, len |-> m.len]
           new == [flushed EXCEPT !.bytes = @ - m.len,
                                  !.small_bytes = @ + size,
                                  !.small = Append(@, small),
                                  !.ch.unacked[id].age[0] = 0]
<1>1. PackingReliable(flushed, c, first, old, lens)
  BY FlushSmallKeeps
<1>2. small \in SmallMessages(lens)
  <2>1. m.len = old.unacked[id].len
    BY DEF PackingReliable, SameUnacked
  <2>2. id \in Nat /\ id + 1 \in DOMAIN lens /\ old.unacked[id].len = lens[id + 1]
    BY DEF SendReliableOK
  <2>3. lens[id + 1] \in Nat
    BY <2>2, ElementOfSeq, LenProperties DEF LengthSeqs
  <2> QED BY <2>1, <2>2, <2>3 DEF SmallMessages
<1>8. flushed.small = << >> \/ ~(flushed.small_bytes + size > SliceSize)
  BY DEF FlushSmall, PackingReliable
<1> HIDE DEF flushed
<1>9. /\ SmallFits(Append(flushed.small, small), 2)
      /\ flushed.small_bytes + size = MessagesSize(Append(flushed.small, small), 2)
  <2>1. /\ flushed.small \in Seq(SmallMessages(lens))
        /\ flushed.small_bytes = MessagesSize(flushed.small, 2)
    BY <1>1 DEF PackingReliable
  <2>2. \A k \in SmallMessages(lens) : k.len \in Nat /\ ~IsSliced(k.len)
    BY DEF SmallMessages
  <2>3. size = small.len + 2 * VarintBytes
    OBVIOUS
  <2> HIDE DEF size, small
  <2> QED BY <1>2, <1>8, <2>1, <2>2, <2>3, SizeFits
<1> HIDE DEF small
<1>3. /\ DOMAIN new = DOMAIN flushed
      /\ new.packets = flushed.packets /\ new.sequence = flushed.sequence
      /\ new.small = Append(flushed.small, small)
      /\ new.small_bytes = flushed.small_bytes + size
      /\ new.ch = [flushed.ch EXCEPT !.unacked[id].age[0] = 0]
  BY <1>1 DEF PackingReliable
<1>4. SameUnacked(new.ch, old)
  BY <1>1, <1>3, TouchUnacked DEF PackingReliable
<1>5. /\ Append(flushed.small, small) \in Seq(SmallMessages(lens))
      /\ \A j \in DOMAIN Append(flushed.small, small) :
           Append(flushed.small, small)[j].id \in DOMAIN old.unacked
  <2>1. small.id = id
    BY DEF small
  <2> QED BY <1>1, <1>2, <2>1, AppendProperties DEF PackingReliable
<1>6. PackingReliable(new, c, first, old, lens)
  <2> HIDE DEF new
  <2> QED BY <1>1, <1>3, <1>4, <1>5, <1>9 DEF PackingReliable
<1>7. PackSmall(st, c, id) = IF st.bytes < m.len \/ ~Due(m, 0) THEN st ELSE new
  BY DEF PackSmall, flushed, small
<1> QED BY <1>6, <1>7

LEMMA PackSliceKeeps ==
    ASSUME NEW st, NEW c, NEW first \in Nat, NEW old, NEW lens \in LengthSeqs,
           SendReliableOK(old, lens), PackingReliable(st, c, first, old, lens),
           NEW id \in DOMAIN old.unacked, IsSliced(old.unacked[id].len),
           NEW i \in 0 .. (NumSlices(old.unacked[id].len) - 1)
    PROVE  PackingReliable(PackSlice(st, c, id, i), c, first, old, lens)
<1> DEFINE m == st.ch.unacked[id]
           len == SliceLength(m.len, i)
           k == [type |-> "ReliableSlice", sequence |-> st.sequence, channel |-> c, id |-> id,
                 index |-> i, num_slices |-> NumSlices(m.len), len |-> len]
           new == [st EXCEPT !.bytes = @ - len,
                             !.packets = Append(@, k),
                             !.sequence = @ + 1,
                             !.ch.unacked[id].age[i] = 0,
                             !.ch.unacked[id].next_slice = i + 1]
<1>1. m.len = old.unacked[id].len
  BY DEF PackingReliable, SameUnacked
<1>2. id \in Nat /\ id + 1 \in DOMAIN lens /\ m.len = lens[id + 1]
  BY <1>1 DEF SendReliableOK
<1>3. m.len \in Nat
  BY <1>2, ElementOfSeq, LenProperties DEF LengthSeqs
<1>4. NumSlices(m.len) \in Nat /\ len \in 1 .. SliceSize /\ SliceSize \in Nat
  BY <1>1, <1>3, SliceCount, SliceBounds, ReliableChannelAssumption
<1>5. k \in ReliablePackets(c, lens) /\ k.sequence = st.sequence
  <2>1. i \in Nat /\ i < NumSlices(m.len) /\ len \in Nat
    BY <1>1, <1>4
  <2> HIDE DEF m
  <2>2. IsSliceOf(k, lens[id + 1])
    BY <1>1, <1>2, <2>1 DEF IsSliceOf
  <2>3. k \in [type : {"ReliableSlice"}, sequence : Nat, channel : {c}, id : Nat, index : Nat,
               num_slices : Nat, len : Nat]
    BY <1>2, <1>4, <2>1 DEF PackingReliable
  <2>4. k.id = id /\ k.sequence = st.sequence
    OBVIOUS
  <2> HIDE DEF k
  <2> QED BY <1>2, <2>2, <2>3, <2>4 DEF ReliablePackets
<1> HIDE DEF k
<1>6. /\ Append(st.packets, k) \in Seq(ReliablePackets(c, lens))
      /\ Numbered(Append(st.packets, k), first, st.sequence + 1)
  BY <1>5, AppendNumbered DEF PackingReliable
<1>7. /\ DOMAIN new = DOMAIN st
      /\ new.packets = Append(st.packets, k) /\ new.sequence = st.sequence + 1
      /\ new.small = st.small /\ new.small_bytes = st.small_bytes
      /\ new.ch = [[st.ch EXCEPT !.unacked[id].age[i] = 0] EXCEPT !.unacked[id].next_slice = i + 1]
  BY DEF PackingReliable
<1>8. SameUnacked(new.ch, old)
  <2> DEFINE touched == [st.ch EXCEPT !.unacked[id].age[i] = 0]
  <2>1. SameUnacked(touched, old)
    BY TouchUnacked DEF PackingReliable
  <2> HIDE DEF touched
  <2>2. SameUnacked([touched EXCEPT !.unacked[id].next_slice = i + 1], old)
    BY <2>1, TouchNextSlice
  <2> QED BY <1>7, <2>2 DEF touched
<1>9. ASSUME i \notin m.acked
      PROVE  PackingReliable(new, c, first, old, lens)
  <2>1. st.sequence + 1 \in Nat
    BY DEF PackingReliable
  <2>2. OfUnacked(k, old.unacked)
    <3>1. m.acked = old.unacked[id].acked
      BY DEF PackingReliable, SameUnacked
    <3> HIDE DEF m
    <3> QED BY <1>9, <3>1 DEF OfUnacked, k
  <2>3. \A j \in DOMAIN Append(st.packets, k) : OfUnacked(Append(st.packets, k)[j], old.unacked)
    BY <1>5, <2>2, AppendProperties DEF PackingReliable
  <2> HIDE DEF new
  <2> QED BY <1>6, <1>7, <1>8, <2>1, <2>3 DEF PackingReliable
<1>10. PackSlice(st, c, id, i) = IF st.bytes < SliceSize \/ i \in m.acked \/ ~Due(m, i) THEN st ELSE new
  BY DEF PackSlice, k
<1> HIDE DEF new
<1> QED BY <1>9, <1>10

(* The loop over the slices of a message. *)
LEMMA PackSlicesKeeps ==
    ASSUME NEW st, NEW c, NEW first \in Nat, NEW old, NEW lens \in LengthSeqs,
           SendReliableOK(old, lens), PackingReliable(st, c, first, old, lens),
           NEW id \in DOMAIN old.unacked, IsSliced(old.unacked[id].len)
    PROVE  PackingReliable(PackSlices(st, c, id), c, first, old, lens)
<1> DEFINE n == NumSlices(st.ch.unacked[id].len)
           from == st.ch.unacked[id].next_slice
           order == [k \in 1 .. n |-> (from + k - 1) % n]
           loop == [of |-> "slices", c |-> c, id |-> id, order |-> order, first |-> first,
                    old |-> old, lens |-> lens]
           S == DOMAIN order
           pick == [t \in SUBSET S |-> Max(t)]
           Runs(f) == f = [t \in SUBSET S |-> IF t = {} THEN st
                             ELSE PackSlice(f[t \ {Max(t)}], c, id, order[Max(t)])]
           iter == CHOOSE f : Runs(f)
<1>1. st.ch.unacked[id].len = old.unacked[id].len /\ from \in Nat
  BY DEF PackingReliable, SameUnacked
<1>2. old.unacked[id].len \in Nat
  <2>1. id \in Nat /\ id + 1 \in DOMAIN lens /\ old.unacked[id].len = lens[id + 1]
    BY DEF SendReliableOK
  <2> QED BY <2>1, ElementOfSeq, LenProperties DEF LengthSeqs
<1>3. n \in Nat /\ n >= 2
  BY <1>1, <1>2, SliceCount
<1>4. S = 1 .. n /\ \A k \in 1 .. n : order[k] \in 0 .. (n - 1)
  <2> HIDE DEF n, from
  <2> QED BY <1>1, <1>3
<1> HIDE DEF order
<1>5. IsFiniteSet(S) /\ Picks(pick, S)
  <2> HIDE DEF S, n
  <2>1. S \in SUBSET (0 .. n)
    BY <1>3, <1>4
  <2> QED BY <1>3, <2>1, MaxPicks
<1>6. \A s, e : Body(loop, s, e) = PackSlice(s, c, id, order[e])
  BY DEF Body
<1>7. \A done, s : Keeps(loop, done, s) <=> PackingReliable(s, c, first, old, lens)
  BY DEF Keeps
<1> HIDE DEF loop, S
<1>8. \A f : Computes(f, loop, st, S, pick) <=> Runs(f)
  BY <1>6 DEF Computes
<1>9. Runs(iter)
  <2>1. \E f : Runs(f)
    BY <1>5, <1>8, LoopDefined
  <2> HIDE DEF Runs
  <2> QED BY <2>1
<1>10. PackSlices(st, c, id) = iter[S]
  BY DEF PackSlices, FoldLeft, MapThenFoldSet, S, order
<1> HIDE DEF iter
<1>11. Computes(iter, loop, st, S, pick)
  BY <1>8, <1>9
<1>12. ASSUME NEW t \in SUBSET S, t # {}, NEW s, Keeps(loop, t \ {pick[t]}, s)
       PROVE  Keeps(loop, t, Body(loop, s, pick[t]))
  <2>1. pick[t] \in 1 .. n
    BY <1>4, <1>5, <1>12 DEF Picks
  <2>2. order[pick[t]] \in 0 .. (NumSlices(old.unacked[id].len) - 1)
    BY <1>1, <1>4, <2>1
  <2>3. PackingReliable(s, c, first, old, lens)
    BY <1>7, <1>12
  <2> HIDE DEF pick
  <2> QED BY <1>6, <1>7, <2>2, <2>3, PackSliceKeeps
<1>13. Keeps(loop, {}, st)
  BY <1>7
<1>14. Keeps(loop, S, iter[S])
  <2> HIDE DEF pick
  <2> QED BY <1>5, <1>11, <1>12, <1>13, LoopKeeps
<1> QED BY <1>7, <1>10, <1>14

(* The loop over the unacked messages, and the packet that is left. *)
LEMMA PackReliableKeeps ==
    ASSUME NEW c, NEW first \in Nat, NEW old, NEW lens \in LengthSeqs, NEW bytes,
           SendReliableOK(old, lens)
    PROVE  PackingReliable(PackReliable(old, c, first, bytes), c, first, old, lens)
<1> DEFINE S == DOMAIN old.unacked
           start == [bytes |-> bytes, sequence |-> first, packets |-> << >>,
                     small |-> << >>, small_bytes |-> 0, ch |-> old]
           loop == [of |-> "reliable", c |-> c, first |-> first, old |-> old, lens |-> lens]
           pick == [t \in SUBSET S |-> Max(t)]
           Runs(f) == f = [t \in SUBSET S |-> IF t = {} THEN start
                             ELSE PackMessage(f[t \ {Max(t)}], c, Max(t))]
           iter == CHOOSE f : Runs(f)
<1>1. PackingReliable(start, c, first, old, lens)
  <2>1. DOMAIN start = {"bytes", "sequence", "packets", "small", "small_bytes", "ch"}
    OBVIOUS
  <2>2. /\ start.sequence = first /\ start.packets = << >> /\ start.small = << >>
        /\ start.small_bytes = 0 /\ start.ch = old
    OBVIOUS
  <2>3. Numbered(<< >>, first, first)
    BY DEF Numbered
  <2>4. SameUnacked(old, old)
    BY DEF SameUnacked, SendReliableOK
  <2>5. << >> \in Seq(ReliablePackets(c, lens)) /\ << >> \in Seq(SmallMessages(lens))
    OBVIOUS
  <2>6. MessagesSize(<< >>, 2) = 0 /\ SmallFits(<< >>, 2)
    BY SizeEmpty
  <2> HIDE DEF start
  <2> QED BY <2>1, <2>2, <2>3, <2>4, <2>5, <2>6 DEF PackingReliable
<1>2. S \in SUBSET (0 .. Len(lens)) /\ Len(lens) \in Nat
  <2>1. Len(lens) \in Nat /\ DOMAIN lens = 1 .. Len(lens)
    BY LenProperties DEF LengthSeqs
  <2>2. \A id \in S : id \in Nat /\ id + 1 \in 1 .. Len(lens)
    BY <2>1 DEF SendReliableOK
  <2> QED BY <2>1, <2>2
<1> HIDE DEF start
<1>3. IsFiniteSet(S) /\ Picks(pick, S)
  <2> HIDE DEF S
  <2> QED BY <1>2, MaxPicks
<1>4. \A s, e : Body(loop, s, e) = PackMessage(s, c, e)
  BY DEF Body
<1>5. \A done, s : Keeps(loop, done, s) <=> PackingReliable(s, c, first, old, lens)
  BY DEF Keeps
<1> HIDE DEF loop, S
<1>6. \A f : Computes(f, loop, start, S, pick) <=> Runs(f)
  BY <1>4 DEF Computes
<1>7. Runs(iter)
  <2>1. \E f : Runs(f)
    BY <1>3, <1>6, LoopDefined
  <2> HIDE DEF Runs
  <2> QED BY <2>1
<1>8. PackReliable(old, c, first, bytes) = FinishSmall(iter[S], c)
  BY DEF PackReliable, MapThenFoldSet, S, start
<1> HIDE DEF iter
<1>9. Computes(iter, loop, start, S, pick)
  BY <1>6, <1>7
<1>10. ASSUME NEW t \in SUBSET S, t # {}, NEW s, Keeps(loop, t \ {pick[t]}, s)
       PROVE  Keeps(loop, t, Body(loop, s, pick[t]))
  <2> DEFINE id == pick[t]
  <2>1. id \in DOMAIN old.unacked
    BY <1>3, <1>10 DEF Picks, S
  <2>2. PackingReliable(s, c, first, old, lens)
    BY <1>5, <1>10
  <2> HIDE DEF id, pick
  <2>3. s.ch.unacked[id].len = old.unacked[id].len
    BY <2>1, <2>2 DEF PackingReliable, SameUnacked
  <2>4. PackingReliable(PackMessage(s, c, id), c, first, old, lens)
    BY <2>1, <2>2, <2>3, PackSlicesKeeps, PackSmallKeeps DEF PackMessage
  <2> QED BY <1>4, <1>5, <2>4 DEF id
<1>11. Keeps(loop, {}, start)
  BY <1>1, <1>5
<1>12. Keeps(loop, S, iter[S])
  <2> HIDE DEF pick
  <2> QED BY <1>3, <1>9, <1>10, <1>11, LoopKeeps
<1>13. PackingReliable(iter[S], c, first, old, lens)
  BY <1>5, <1>12
<1>14. PackingReliable(FinishSmall(iter[S], c), c, first, old, lens)
  BY <1>13, FlushSmallKeeps DEF FinishSmall
<1> QED BY <1>8, <1>14

-----------------------------------------------------------------------------
(* get_packets_to_send of an unreliable channel *)

LEMMA FlushUnreliableKeeps ==
    ASSUME NEW st, NEW c, NEW first \in Nat, NEW low \in Nat, NEW lens,
           PackingUnreliable(st, c, first, low, lens)
    PROVE  PackingUnreliable(FlushUnreliable(st, c), c, first, low, lens)
<1> DEFINE k == [type |-> "SmallUnreliable", sequence |-> st.sequence, channel |-> c,
                 messages |-> st.small]
           new == FlushUnreliable(st, c)
           packets == Append(st.packets, k)
<1>1. /\ k \in UnreliablePackets(c, lens) /\ k.sequence = st.sequence
      /\ k.type = "SmallUnreliable"
  BY DEF UnreliablePackets, PackingUnreliable
<1> HIDE DEF k
<1>2. /\ packets \in Seq(UnreliablePackets(c, lens))
      /\ Numbered(packets, first, st.sequence + 1)
  BY <1>1, AppendNumbered DEF PackingUnreliable
<1>3. /\ DOMAIN new = DOMAIN st
      /\ new.packets = packets /\ new.sequence = st.sequence + 1
      /\ new.small = << >> /\ new.small_bytes = 0
      /\ new.sliced_id = st.sliced_id /\ new.overflow = st.overflow
  BY DEF PackingUnreliable, FlushUnreliable, k
<1>4. << >> \in Seq(SmallUnreliables(lens)) /\ st.sequence + 1 \in Nat
  BY DEF PackingUnreliable
<1>5. OneMessagePerId(packets, low, st.sliced_id)
  <2>1. /\ DOMAIN packets = 1 .. (Len(st.packets) + 1) /\ Len(st.packets) \in Nat
        /\ DOMAIN st.packets = 1 .. Len(st.packets)
        /\ \A i \in 1 .. Len(st.packets) : packets[i] = st.packets[i]
        /\ packets[Len(st.packets) + 1] = k
    BY <1>1, AppendProperties, LenProperties DEF PackingUnreliable
  <2> HIDE DEF packets
  <2>2. \A i \in DOMAIN packets : packets[i].type = "UnreliableSlice" =>
            i \in DOMAIN st.packets /\ packets[i] = st.packets[i]
    BY <1>1, <2>1
  <2>3. OneMessagePerId(st.packets, low, st.sliced_id)
    BY DEF PackingUnreliable
  <2> QED BY <2>2, <2>3 DEF OneMessagePerId
<1>6. MessagesSize(<< >>, 1) = 0 /\ SmallFits(<< >>, 1)
  BY SizeEmpty
<1> HIDE DEF new, packets
<1> QED BY <1>2, <1>3, <1>4, <1>5, <1>6 DEF PackingUnreliable, new

LEMMA UnreliableSlicesAreSlices ==
    ASSUME NEW st, NEW c, NEW lens \in LengthSeqs, NEW m \in QueueMessages(lens),
           IsSliced(m.len), st.sequence \in Nat, st.sliced_id \in Nat
    PROVE  LET slices == UnreliableSlices(st, c, m) IN
           /\ slices \in Seq(UnreliablePackets(c, lens))
           /\ Numbered(slices, st.sequence, st.sequence + NumSlices(m.len))
           /\ \A i \in DOMAIN slices : slices[i].id = st.sliced_id /\ slices[i].data = m.data
           /\ NumSlices(m.len) \in Nat
<1> DEFINE slices == UnreliableSlices(st, c, m)
           n == NumSlices(m.len)
<1>1. /\ m.data \in Nat /\ m.len \in Nat /\ m.data + 1 \in DOMAIN lens
      /\ m.len = lens[m.data + 1]
  BY DEF QueueMessages
<1>2. n \in Nat /\ n >= 2
  BY <1>1, SliceCount
<1>3. DOMAIN slices = 1 .. n
  BY DEF UnreliableSlices
<1>4. ASSUME NEW i \in 1 .. n
      PROVE  /\ slices[i] \in UnreliablePackets(c, lens)
             /\ slices[i].sequence = st.sequence + i - 1
             /\ slices[i].id = st.sliced_id /\ slices[i].data = m.data
  <2> DEFINE k == slices[i]
  <2>1. k = [type |-> "UnreliableSlice", sequence |-> st.sequence + i - 1,
             channel |-> c, id |-> st.sliced_id, index |-> i - 1,
             num_slices |-> NumSlices(m.len), len |-> SliceLength(m.len, i - 1),
             data |-> m.data]
    BY DEF UnreliableSlices
  <2> HIDE DEF k, slices
  <2>2. i - 1 \in 0 .. (n - 1) /\ i - 1 \in Nat /\ st.sequence + i - 1 \in Nat /\ i - 1 < n
    BY <1>2
  <2>3. SliceLength(m.len, i - 1) \in Nat
    BY <1>1, <2>2, SliceBounds, ReliableChannelAssumption
  <2>4. IsSliceOf(k, m.len)
    BY <2>1, <2>2 DEF IsSliceOf
  <2>5. k \in [type : {"UnreliableSlice"}, sequence : Nat, channel : {c}, id : Nat, index : Nat,
               num_slices : Nat, len : Nat, data : Nat]
    BY <1>1, <1>2, <2>1, <2>2, <2>3
  <2>6. k.data = m.data /\ k.id = st.sliced_id /\ k.sequence = st.sequence + i - 1
    BY <2>1
  <2>7. k \in UnreliablePackets(c, lens)
    BY <1>1, <2>4, <2>5, <2>6 DEF UnreliablePackets
  <2> QED BY <2>6, <2>7 DEF k
<1> HIDE DEF n, slices
<1>5. slices \in Seq(UnreliablePackets(c, lens)) /\ Len(slices) = n
  <2>1. slices = [i \in 1 .. n |-> slices[i]]
    BY <1>3 DEF slices, UnreliableSlices, n
  <2> QED BY <1>2, <1>3, <1>4, <2>1
<1>6. Numbered(slices, st.sequence, st.sequence + n)
  BY <1>2, <1>3, <1>4, <1>5 DEF Numbered
<1> QED BY <1>2, <1>3, <1>4, <1>5, <1>6 DEF n, slices

LEMMA PackUnreliableMessageKeeps ==
    ASSUME NEW st, NEW c, NEW first \in Nat, NEW low \in Nat, NEW lens \in LengthSeqs,
           PackingUnreliable(st, c, first, low, lens), NEW m \in QueueMessages(lens)
    PROVE  PackingUnreliable(PackUnreliableMessage(st, c, m), c, first, low, lens)
<1> DEFINE paid == [st EXCEPT !.bytes = @ - m.len]
           size == m.len + VarintBytes
           flushed == IF paid.small_bytes + size > SliceSize
                      THEN FlushUnreliable(paid, c) ELSE paid
<1>1. PackingUnreliable(paid, c, first, low, lens)
  <2>1. /\ DOMAIN paid = DOMAIN st
        /\ paid.sequence = st.sequence /\ paid.packets = st.packets /\ paid.small = st.small
        /\ paid.small_bytes = st.small_bytes
        /\ paid.sliced_id = st.sliced_id /\ paid.overflow = st.overflow
    BY DEF PackingUnreliable
  <2> HIDE DEF paid
  <2> QED BY <2>1 DEF PackingUnreliable
<1>2. PackUnreliableMessage(st, c, m) =
        IF IsSliced(m.len)
        THEN [paid EXCEPT !.packets = @ \o UnreliableSlices(paid, c, m),
                          !.sequence = @ + NumSlices(m.len),
                          !.sliced_id = @ + 1]
        ELSE [flushed EXCEPT !.small = Append(@, m), !.small_bytes = @ + size]
  BY DEF PackUnreliableMessage
<1> HIDE DEF paid
<1>3. CASE IsSliced(m.len)
  <2> DEFINE slices == UnreliableSlices(paid, c, m)
             packets == paid.packets \o slices
             new == [paid EXCEPT !.packets = packets,
                                 !.sequence = @ + NumSlices(m.len),
                                 !.sliced_id = @ + 1]
  <2>1. /\ paid.sequence \in Nat /\ paid.sliced_id \in Nat /\ low <= paid.sliced_id
        /\ paid.packets \in Seq(UnreliablePackets(c, lens))
        /\ Numbered(paid.packets, first, paid.sequence)
        /\ OneMessagePerId(paid.packets, low, paid.sliced_id)
    BY <1>1 DEF PackingUnreliable
  <2>2. /\ slices \in Seq(UnreliablePackets(c, lens))
        /\ Numbered(slices, paid.sequence, paid.sequence + NumSlices(m.len))
        /\ \A i \in DOMAIN slices : slices[i].id = paid.sliced_id /\ slices[i].data = m.data
        /\ NumSlices(m.len) \in Nat
    BY <1>3, <2>1, UnreliableSlicesAreSlices
  <2> HIDE DEF slices
  <2>3. /\ packets \in Seq(UnreliablePackets(c, lens))
        /\ Numbered(packets, first, paid.sequence + NumSlices(m.len))
    BY <2>1, <2>2, ConcatNumbered
  <2>4. OneMessagePerId(packets, low, paid.sliced_id + 1)
    <3> DEFINE a == Len(paid.packets)
    <3>1. /\ a \in Nat /\ DOMAIN paid.packets = 1 .. a
          /\ DOMAIN slices = 1 .. Len(slices) /\ Len(slices) \in Nat
          /\ DOMAIN packets = 1 .. (a + Len(slices))
      BY <2>1, <2>2, <2>3, ConcatProperties, LenProperties
    <3>2. \A i \in DOMAIN packets : i <= a => i \in DOMAIN paid.packets /\ packets[i] = paid.packets[i]
      BY <2>1, <2>2, <3>1, ConcatProperties
    <3>3. \A i \in DOMAIN packets : i > a =>
              packets[i].id = paid.sliced_id /\ packets[i].data = m.data
      <4> SUFFICES ASSUME NEW i \in DOMAIN packets, i > a
                   PROVE  packets[i].id = paid.sliced_id /\ packets[i].data = m.data
        OBVIOUS
      <4>1. packets[i] = slices[i - a] /\ i - a \in DOMAIN slices
        BY <2>1, <2>2, <3>1, ConcatProperties
      <4> QED BY <2>2, <4>1
    <3> HIDE DEF packets
    <3> SUFFICES ASSUME NEW i \in DOMAIN packets, NEW j \in DOMAIN packets,
                        packets[i].type = "UnreliableSlice", packets[j].type = "UnreliableSlice"
                 PROVE  /\ packets[i].id \in low .. ((paid.sliced_id + 1) - 1)
                        /\ packets[i].id = packets[j].id => packets[i].data = packets[j].data
      BY DEF OneMessagePerId
    <3>4. \A k \in DOMAIN packets : packets[k].type = "UnreliableSlice" /\ k <= a =>
              packets[k].id \in low .. (paid.sliced_id - 1)
      BY <2>1, <3>2 DEF OneMessagePerId
    <3>5. packets[i].id \in low .. ((paid.sliced_id + 1) - 1)
      <4>1. CASE i <= a
        BY <2>1, <3>4, <4>1
      <4>2. CASE i > a
        BY <2>1, <3>3, <4>2
      <4> QED BY <3>1, <4>1, <4>2
    <3>6. ASSUME packets[i].id = packets[j].id PROVE packets[i].data = packets[j].data
      <4>1. CASE i <= a /\ j <= a
        BY <2>1, <3>2, <3>6, <4>1 DEF OneMessagePerId
      <4>2. CASE i > a /\ j > a
        BY <3>3, <4>2
      <4>3. CASE i <= a /\ j > a
        <5>1. packets[i].id \in low .. (paid.sliced_id - 1) /\ packets[j].id = paid.sliced_id
          BY <3>3, <3>4, <4>3
        <5> QED BY <2>1, <3>6, <5>1
      <4>4. CASE i > a /\ j <= a
        <5>1. packets[j].id \in low .. (paid.sliced_id - 1) /\ packets[i].id = paid.sliced_id
          BY <3>3, <3>4, <4>4
        <5> QED BY <2>1, <3>6, <5>1
      <4> QED BY <3>1, <4>1, <4>2, <4>3, <4>4
    <3> QED BY <3>5, <3>6
  <2> HIDE DEF packets
  <2>5. /\ DOMAIN new = DOMAIN paid /\ new.packets = packets
        /\ new.sequence = paid.sequence + NumSlices(m.len)
        /\ new.sliced_id = paid.sliced_id + 1
        /\ new.small = paid.small /\ new.small_bytes = paid.small_bytes
        /\ new.overflow = paid.overflow
    BY <1>1 DEF PackingUnreliable
  <2>6. /\ paid.sequence + NumSlices(m.len) \in Nat /\ paid.sliced_id + 1 \in Nat
        /\ low <= paid.sliced_id + 1
    BY <2>1, <2>2
  <2>7. PackingUnreliable(new, c, first, low, lens)
    <3> HIDE DEF new
    <3> QED BY <1>1, <2>3, <2>4, <2>5, <2>6 DEF PackingUnreliable
  <2> QED BY <1>2, <1>3, <2>7 DEF packets, slices
<1>4. CASE ~IsSliced(m.len)
  <2> DEFINE new == [flushed EXCEPT !.small = Append(@, m), !.small_bytes = @ + size]
  <2>1. PackingUnreliable(flushed, c, first, low, lens)
    BY <1>1, FlushUnreliableKeeps
  <2>6. flushed.small = << >> \/ ~(flushed.small_bytes + size > SliceSize)
    BY <1>1 DEF FlushUnreliable, PackingUnreliable
  <2> HIDE DEF flushed
  <2>7. /\ SmallFits(Append(flushed.small, m), 1)
        /\ flushed.small_bytes + size = MessagesSize(Append(flushed.small, m), 1)
    <3>1. /\ flushed.small \in Seq(SmallUnreliables(lens))
          /\ flushed.small_bytes = MessagesSize(flushed.small, 1)
      BY <2>1 DEF PackingUnreliable
    <3>2. \A k \in SmallUnreliables(lens) : k.len \in Nat /\ ~IsSliced(k.len)
      BY DEF SmallUnreliables, QueueMessages
    <3>3. size = m.len + 1 * VarintBytes /\ m \in SmallUnreliables(lens)
      BY <1>4, ReliableChannelAssumption DEF SmallUnreliables
    <3> HIDE DEF size
    <3> QED BY <2>6, <3>1, <3>2, <3>3, SizeFits
  <2>2. /\ DOMAIN new = DOMAIN flushed /\ new.packets = flushed.packets
        /\ new.sequence = flushed.sequence /\ new.sliced_id = flushed.sliced_id
        /\ new.small = Append(flushed.small, m)
        /\ new.small_bytes = flushed.small_bytes + size /\ new.overflow = flushed.overflow
    BY <2>1 DEF PackingUnreliable
  <2>3. m \in SmallUnreliables(lens)
    BY <1>4 DEF SmallUnreliables
  <2>4. Append(flushed.small, m) \in Seq(SmallUnreliables(lens))
    BY <2>1, <2>3, AppendProperties DEF PackingUnreliable
  <2>5. PackingUnreliable(new, c, first, low, lens)
    <3> HIDE DEF new
    <3> QED BY <2>1, <2>2, <2>4, <2>7 DEF PackingUnreliable
  <2> QED BY <1>2, <1>4, <2>5
<1> QED BY <1>3, <1>4

LEMMA PackOrOverflowKeeps ==
    ASSUME NEW st, NEW c, NEW first \in Nat, NEW low \in Nat, NEW lens \in LengthSeqs, NEW cfg,
           PackingUnreliable(st, c, first, low, lens), NEW m \in QueueMessages(lens)
    PROVE  PackingUnreliable(PackOrOverflow(st, c, m, cfg), c, first, low, lens)
<1> DEFINE new == [st EXCEPT !.overflow = Append(@, m)]
<1>1. PackingUnreliable(new, c, first, low, lens)
  <2>1. /\ DOMAIN new = DOMAIN st /\ new.packets = st.packets
        /\ new.sequence = st.sequence /\ new.sliced_id = st.sliced_id
        /\ new.small = st.small /\ new.small_bytes = st.small_bytes
        /\ new.overflow = Append(st.overflow, m)
    BY DEF PackingUnreliable
  <2>2. Append(st.overflow, m) \in Seq(QueueMessages(lens))
    BY AppendProperties DEF PackingUnreliable
  <2> HIDE DEF new
  <2> QED BY <2>1, <2>2 DEF PackingUnreliable
<1>2. PackingUnreliable(PackUnreliableMessage(st, c, m), c, first, low, lens)
  BY PackUnreliableMessageKeeps
<1> HIDE DEF new
<1> QED BY <1>1, <1>2 DEF PackOrOverflow, new

(* A message overflows as it is, or the overflow stays what it was. *)
LEMMA FlushOverflow ==
    ASSUME NEW st, NEW c, NEW first \in Nat, NEW low \in Nat, NEW lens,
           PackingUnreliable(st, c, first, low, lens)
    PROVE  FlushUnreliable(st, c).overflow = st.overflow
BY DEF PackingUnreliable, FlushUnreliable

LEMMA PackOverflow ==
    ASSUME NEW st, NEW c, NEW first \in Nat, NEW low \in Nat, NEW lens \in LengthSeqs, NEW cfg,
           PackingUnreliable(st, c, first, low, lens), NEW m
    PROVE  PackOrOverflow(st, c, m, cfg).overflow \in {st.overflow, Append(st.overflow, m)}
<1> DEFINE paid == [st EXCEPT !.bytes = @ - m.len]
           size == m.len + VarintBytes
           flushed == IF paid.small_bytes + size > SliceSize
                      THEN FlushUnreliable(paid, c) ELSE paid
           names == {"bytes", "sequence", "packets", "small", "small_bytes",
                     "sliced_id", "overflow"}
<1>1. DOMAIN st = names
  BY DEF PackingUnreliable
<1>2. DOMAIN paid = names /\ paid.overflow = st.overflow
  BY <1>1
<1>3. PackUnreliableMessage(st, c, m) =
        IF IsSliced(m.len)
        THEN [paid EXCEPT !.packets = @ \o UnreliableSlices(paid, c, m),
                          !.sequence = @ + NumSlices(m.len),
                          !.sliced_id = @ + 1]
        ELSE [flushed EXCEPT !.small = Append(@, m), !.small_bytes = @ + size]
  BY DEF PackUnreliableMessage
<1> HIDE DEF paid
<1>4. DOMAIN flushed = names /\ flushed.overflow = st.overflow
  BY <1>2 DEF FlushUnreliable
<1> HIDE DEF flushed
<1>5. PackUnreliableMessage(st, c, m).overflow = st.overflow
  BY <1>2, <1>3, <1>4
<1>6. [st EXCEPT !.overflow = Append(@, m)].overflow = Append(st.overflow, m)
  BY <1>1
<1> QED BY <1>5, <1>6 DEF PackOrOverflow

(* The data of a sequence of messages *)
LEMMA DataOfNone == DataWaiting(<< >>) = {} /\ Distinct(<< >>)
BY DEF DataWaiting, ToSet, Distinct

LEMMA DataIff ==
    ASSUME NEW s, NEW d
    PROVE  d \in DataWaiting(s) <=> \E i \in DOMAIN s : s[i].data = d
BY DEF DataWaiting, ToSet

LEMMA DataOfAppend ==
    ASSUME NEW M, NEW s \in Seq(M), NEW m \in M
    PROVE  /\ DataWaiting(Append(s, m)) = DataWaiting(s) \union {m.data}
           /\ Distinct(s) /\ m.data \notin DataWaiting(s) => Distinct(Append(s, m))
<1> DEFINE n == Len(s)
           new == Append(s, m)
<1>1. /\ n \in Nat /\ DOMAIN s = 1 .. n /\ DOMAIN new = 1 .. (n + 1)
      /\ \A i \in 1 .. n : new[i] = s[i]
      /\ new[n + 1] = m
  BY AppendProperties, LenProperties
<1> HIDE DEF new, n
<1>2. \A i \in 1 .. (n + 1) : i \in 1 .. n \/ i = n + 1
  BY <1>1
<1>3. n + 1 \in 1 .. (n + 1) /\ \A i \in 1 .. n : i \in 1 .. (n + 1)
  BY <1>1
<1>4. DataWaiting(new) = DataWaiting(s) \union {m.data}
  BY <1>1, <1>2, <1>3 DEF DataWaiting, ToSet
<1>5. ASSUME Distinct(s), m.data \notin DataWaiting(s) PROVE Distinct(new)
  <2>1. \A i \in 1 .. n : s[i].data # m.data
    BY <1>1, <1>5 DEF DataWaiting, ToSet
  <2> SUFFICES ASSUME NEW i \in 1 .. (n + 1), NEW j \in 1 .. (n + 1), new[i].data = new[j].data
               PROVE  i = j
    BY <1>1 DEF Distinct
  <2> QED BY <1>1, <1>2, <1>5, <2>1 DEF Distinct
<1> QED BY <1>4, <1>5 DEF new

LEMMA DataOfReverse ==
    ASSUME NEW M, NEW s \in Seq(M)
    PROVE  /\ DataWaiting(Reverse(s)) = DataWaiting(s)
           /\ Distinct(s) => Distinct(Reverse(s))
           /\ Len(Reverse(s)) = Len(s)
<1> DEFINE n == Len(s)
           new == Reverse(s)
<1>1. n \in Nat /\ DOMAIN s = 1 .. n
  BY LenProperties
<1>2. new = [i \in 1 .. n |-> s[(n - i) + 1]]
  BY DEF Reverse
<1> HIDE DEF n, new
<1>3. DOMAIN new = 1 .. n /\ \A i \in 1 .. n : new[i] = s[(n - i) + 1]
  BY <1>2
<1>4. \A i \in 1 .. n : (n - i) + 1 \in 1 .. n /\ (n - ((n - i) + 1)) + 1 = i
  BY <1>1
<1>5. DataWaiting(new) = DataWaiting(s)
  <2>1. \A i \in 1 .. n : \E j \in 1 .. n : new[i] = s[j]
    BY <1>3, <1>4
  <2>2. \A i \in 1 .. n : \E j \in 1 .. n : s[i] = new[j]
    <3> SUFFICES ASSUME NEW i \in 1 .. n PROVE \E j \in 1 .. n : s[i] = new[j]
      OBVIOUS
    <3> DEFINE j == (n - i) + 1
    <3>1. j \in 1 .. n /\ (n - j) + 1 = i
      BY <1>4
    <3> HIDE DEF j
    <3> QED BY <1>3, <3>1
  <2>3. ToSet(new) = ToSet(s)
    <3>1. \A i \in DOMAIN new : new[i] \in ToSet(s)
      BY <1>1, <1>3, <2>1 DEF ToSet
    <3>2. \A i \in DOMAIN s : s[i] \in ToSet(new)
      BY <1>1, <1>3, <2>2 DEF ToSet
    <3>3. ToSet(new) \subseteq ToSet(s)
      BY <3>1 DEF ToSet
    <3>4. ToSet(s) \subseteq ToSet(new)
      BY <3>2 DEF ToSet
    <3> QED BY <3>3, <3>4
  <2> QED BY <2>3 DEF DataWaiting
<1>6. ASSUME Distinct(s) PROVE Distinct(new)
  <2> SUFFICES ASSUME NEW i \in 1 .. n, NEW j \in 1 .. n, new[i].data = new[j].data
               PROVE  i = j
    BY <1>3 DEF Distinct
  <2>1. s[(n - i) + 1].data = s[(n - j) + 1].data
    BY <1>3
  <2>2. (n - i) + 1 = (n - j) + 1
    <3> DEFINE a == (n - i) + 1
               b == (n - j) + 1
    <3>1. a \in DOMAIN s /\ b \in DOMAIN s
      BY <1>1, <1>4
    <3> HIDE DEF a, b
    <3>2. s[a].data = s[b].data => a = b
      BY <1>6, <3>1 DEF Distinct
    <3> QED BY <2>1, <3>2 DEF a, b
  <2> QED BY <1>1, <2>2
<1>7. Len(new) = n
  BY <1>1, <1>2
<1> QED BY <1>5, <1>6, <1>7 DEF new, n

LEMMA DataOfTail ==
    ASSUME NEW M, NEW s \in Seq(M), s # << >>, Distinct(s)
    PROVE  /\ Distinct(Tail(s)) /\ DataWaiting(s) = DataWaiting(Tail(s)) \union {Head(s).data}
           /\ Head(s).data \notin DataWaiting(Tail(s))
<1> DEFINE n == Len(s)
           rest == Tail(s)
<1>1. /\ n \in Nat \ {0} /\ DOMAIN s = 1 .. n
      /\ DOMAIN rest = 1 .. (n - 1) /\ Head(s) = s[1]
      /\ \A i \in 1 .. (n - 1) : rest[i] = s[i + 1]
  <2>1. /\ Tail(s) \in Seq(M) /\ Len(Tail(s)) = Len(s) - 1
        /\ \A i \in 1 .. Len(Tail(s)) : Tail(s)[i] = s[i + 1]
    BY HeadTailProperties
  <2>2. Len(s) \in Nat /\ Len(s) # 0 /\ DOMAIN s = 1 .. Len(s)
    BY LenProperties, EmptySeq
  <2>3. DOMAIN Tail(s) = 1 .. Len(Tail(s)) /\ Head(s) = s[1]
    BY <2>1, LenProperties
  <2> QED BY <2>1, <2>2, <2>3
<1> HIDE DEF n, rest
<1>2. \A i \in 1 .. (n - 1) : i + 1 \in 1 .. n /\ i + 1 # 1
  BY <1>1
<1>3. 1 \in 1 .. n /\ \A i \in 1 .. n : i # 1 => i - 1 \in 1 .. (n - 1) /\ (i - 1) + 1 = i
  BY <1>1
<1>4. \A i \in 1 .. (n - 1) : rest[i].data = s[i + 1].data
  BY <1>1
<1>5. Distinct(rest)
  <2> SUFFICES ASSUME NEW i \in 1 .. (n - 1), NEW j \in 1 .. (n - 1), rest[i].data = rest[j].data
               PROVE  i = j
    BY <1>1 DEF Distinct
  <2>1. i + 1 = j + 1
    BY <1>1, <1>2, <1>4 DEF Distinct
  <2> QED BY <1>1, <2>1
<1>6. \A d : d \in DataWaiting(rest) <=> \E i \in 1 .. (n - 1) : s[i + 1].data = d
  <2> SUFFICES ASSUME NEW d
               PROVE  d \in DataWaiting(rest) <=> \E i \in 1 .. (n - 1) : s[i + 1].data = d
    OBVIOUS
  <2>1. d \in DataWaiting(rest) <=> \E i \in DOMAIN rest : rest[i].data = d
    BY DataIff
  <2>2. DOMAIN rest = 1 .. (n - 1)
    BY <1>1
  <2> QED BY <1>4, <2>1, <2>2
<1>7. \A d : d \in DataWaiting(s) <=> \E i \in 1 .. n : s[i].data = d
  BY <1>1, DataIff
<1>8. Head(s).data \notin DataWaiting(rest)
  <2>1. \A i \in 1 .. (n - 1) : s[i + 1].data # s[1].data
    BY <1>1, <1>2, <1>3 DEF Distinct
  <2> QED BY <1>1, <1>6, <2>1
<1>9. ASSUME NEW d PROVE d \in DataWaiting(s) <=> d \in DataWaiting(rest) \/ d = Head(s).data
  <2>1. ASSUME d \in DataWaiting(s) PROVE d \in DataWaiting(rest) \/ d = Head(s).data
    <3>1. PICK i \in 1 .. n : s[i].data = d
      BY <1>7, <2>1
    <3>2. CASE i = 1
      BY <1>1, <3>1, <3>2
    <3>3. CASE i # 1
      BY <1>3, <1>6, <3>1, <3>3
    <3> QED BY <3>2, <3>3
  <2>2. ASSUME d \in DataWaiting(rest) \/ d = Head(s).data PROVE d \in DataWaiting(s)
    BY <1>1, <1>2, <1>3, <1>6, <1>7, <2>2
  <2> QED BY <2>1, <2>2
<1> QED BY <1>5, <1>8, <1>9 DEF rest

LEMMA SetOfAppend ==
    ASSUME NEW M, NEW s \in Seq(M), NEW m \in M
    PROVE  ToSet(Append(s, m)) = ToSet(s) \union {m}
<1> DEFINE n == Len(s)
           new == Append(s, m)
<1>1. /\ n \in Nat /\ DOMAIN s = 1 .. n /\ DOMAIN new = 1 .. (n + 1)
      /\ \A i \in 1 .. n : new[i] = s[i]
      /\ new[n + 1] = m
  BY AppendProperties, LenProperties
<1> HIDE DEF new, n
<1>2. \A i \in 1 .. (n + 1) : i \in 1 .. n \/ i = n + 1
  BY <1>1
<1>3. n + 1 \in 1 .. (n + 1) /\ \A i \in 1 .. n : i \in 1 .. (n + 1)
  BY <1>1
<1>4. ToSet(new) = ToSet(s) \union {m}
  BY <1>1, <1>2, <1>3 DEF ToSet
<1> QED BY <1>4 DEF new

LEMMA SetOfConcat ==
    ASSUME NEW M, NEW s \in Seq(M), NEW t \in Seq(M)
    PROVE  ToSet(s \o t) = ToSet(s) \union ToSet(t)
<1> DEFINE a == Len(s)
           b == Len(t)
           new == s \o t
<1>1. /\ a \in Nat /\ DOMAIN s = 1 .. a /\ b \in Nat /\ DOMAIN t = 1 .. b
      /\ DOMAIN new = 1 .. (a + b)
      /\ \A i \in 1 .. (a + b) : new[i] = IF i <= a THEN s[i] ELSE t[i - a]
  BY ConcatProperties, LenProperties
<1> HIDE DEF new, a, b
<1>2. \A i \in 1 .. (a + b) : i \in 1 .. a \/ (~(i <= a) /\ i - a \in 1 .. b)
  BY <1>1
<1>3. ASSUME NEW i \in 1 .. (a + b) PROVE new[i] \in ToSet(s) \union ToSet(t)
  <2>1. CASE i \in 1 .. a
    <3>1. new[i] = s[i]
      BY <1>1, <2>1
    <3> QED BY <1>1, <2>1, <3>1 DEF ToSet
  <2>2. CASE ~(i <= a) /\ i - a \in 1 .. b
    <3>1. new[i] = t[i - a]
      BY <1>1, <2>2
    <3> QED BY <1>1, <2>2, <3>1 DEF ToSet
  <2> QED BY <1>2, <2>1, <2>2
<1>4. ASSUME NEW i \in 1 .. a PROVE s[i] \in ToSet(new)
  <2>1. i \in 1 .. (a + b) /\ new[i] = s[i]
    BY <1>1
  <2> QED BY <1>1, <2>1 DEF ToSet
<1>5. ASSUME NEW i \in 1 .. b PROVE t[i] \in ToSet(new)
  <2> DEFINE j == i + a
  <2>1. j \in 1 .. (a + b) /\ ~(j <= a) /\ j - a = i
    BY <1>1
  <2> HIDE DEF j
  <2>2. new[j] = t[i]
    BY <1>1, <2>1
  <2> QED BY <1>1, <2>1, <2>2 DEF ToSet
<1>6. ToSet(new) \subseteq ToSet(s) \union ToSet(t)
  <2>1. ToSet(new) = {new[i] : i \in 1 .. (a + b)}
    BY <1>1 DEF ToSet
  <2> QED BY <1>3, <2>1
<1>7. ToSet(s) \subseteq ToSet(new) /\ ToSet(t) \subseteq ToSet(new)
  <2>1. ToSet(s) = {s[i] : i \in 1 .. a} /\ ToSet(t) = {t[i] : i \in 1 .. b}
    BY <1>1 DEF ToSet
  <2> QED BY <1>4, <1>5, <2>1
<1>8. ToSet(new) = ToSet(s) \union ToSet(t)
  BY <1>6, <1>7
<1> QED BY <1>8 DEF new

LEMMA ApartBothWays ==
    ASSUME NEW k, NEW l, Apart(k, l)
    PROVE  Apart(l, k)
BY DEF Apart, SameMessage

LEMMA ScatteredBoth ==
    ASSUME NEW K, NEW L, NEW queue, Scattered(K, queue), Scattered(L, queue),
           \A k \in K, l \in L : Apart(k, l)
    PROVE  Scattered(K \union L, queue)
<1>1. \A k \in K, l \in L : Apart(k, l) /\ Apart(l, k)
  BY ApartBothWays
<1> QED BY <1>1 DEF Scattered

(* The small messages of the tick make a packet. *)
LEMMA FlushSpreads ==
    ASSUME NEW st, NEW c, NEW first \in Nat, NEW low \in Nat, NEW lens,
           PackingUnreliable(st, c, first, low, lens), NEW D, Spreading(st, D)
    PROVE  Spreading(FlushUnreliable(st, c), D)
<1> DEFINE k == [type |-> "SmallUnreliable", sequence |-> st.sequence, channel |-> c,
                 messages |-> st.small]
           new == FlushUnreliable(st, c)
           K == ToSet(st.packets)
           queue == st.overflow
<1>1. k \in UnreliablePackets(c, lens) /\ k.type = "SmallUnreliable" /\ k.messages = st.small
  BY DEF UnreliablePackets, PackingUnreliable
<1>2. /\ new.packets = Append(st.packets, k) /\ new.small = << >> /\ new.overflow = queue
  BY DEF PackingUnreliable, FlushUnreliable, k
<1> HIDE DEF k, new
<1>3. ToSet(new.packets) = K \union {k}
  BY <1>1, <1>2, SetOfAppend DEF PackingUnreliable
<1>4. DataOf(k) = DataWaiting(st.small)
  BY <1>1 DEF DataOf, DataWaiting
<1>5. /\ Scattered(K, queue) /\ Distinct(st.small)
      /\ DataWaiting(st.small) \intersect DataWaiting(queue) = {}
      /\ \A l \in K : DataOf(l) \intersect DataWaiting(st.small) = {}
      /\ \A d : d \in D <=> Carries(K, queue, d) \/ d \in DataWaiting(st.small)
  BY DEF Spreading
<1> HIDE DEF K, queue
<1>6. Scattered({k}, queue)
  BY <1>1, <1>4, <1>5 DEF Scattered
<1>7. \A l \in K, x \in {k} : Apart(l, x)
  BY <1>1, <1>4, <1>5 DEF Apart, SameMessage
<1>8. Scattered(K \union {k}, queue)
  BY <1>5, <1>6, <1>7, ScatteredBoth
<1>9. \A d : d \in D <=> Carries(K \union {k}, queue, d)
  BY <1>4, <1>5 DEF Carries
<1>10. DataWaiting(new.small) = {} /\ Distinct(new.small)
  BY <1>2, DataOfNone
<1>11. Spreading(new, D)
  BY <1>2, <1>3, <1>8, <1>9, <1>10 DEF Spreading
<1> QED BY <1>11 DEF new

(* A message that is in none of them yet goes to one of them. *)
LEMMA PackSpreads ==
    ASSUME NEW st, NEW c, NEW first \in Nat, NEW low \in Nat, NEW lens \in LengthSeqs,
           PackingUnreliable(st, c, first, low, lens), NEW D, Spreading(st, D),
           NEW m \in QueueMessages(lens), m.data \notin D
    PROVE  LET new == PackUnreliableMessage(st, c, m)
           IN  /\ Spreading(new, D \union {m.data})
               /\ new.overflow = st.overflow /\ new.sliced_id <= st.sliced_id + 1
<1> DEFINE paid == [st EXCEPT !.bytes = @ - m.len]
           size == m.len + VarintBytes
           flushed == IF paid.small_bytes + size > SliceSize
                      THEN FlushUnreliable(paid, c) ELSE paid
           queue == st.overflow
           more == D \union {m.data}
           result == PackUnreliableMessage(st, c, m)
<1>1. /\ DOMAIN paid = DOMAIN st
      /\ paid.sequence = st.sequence /\ paid.packets = st.packets /\ paid.small = st.small
      /\ paid.small_bytes = st.small_bytes
      /\ paid.sliced_id = st.sliced_id /\ paid.overflow = queue
  BY DEF PackingUnreliable
<1>2. result =
        IF IsSliced(m.len)
        THEN [paid EXCEPT !.packets = @ \o UnreliableSlices(paid, c, m),
                          !.sequence = @ + NumSlices(m.len),
                          !.sliced_id = @ + 1]
        ELSE [flushed EXCEPT !.small = Append(@, m), !.small_bytes = @ + size]
  BY DEF PackUnreliableMessage
<1> HIDE DEF paid, result
<1>3. PackingUnreliable(paid, c, first, low, lens) /\ Spreading(paid, D)
  BY <1>1 DEF PackingUnreliable, Spreading
<1>4. st.sliced_id \in Nat
  BY DEF PackingUnreliable
<1>5. CASE IsSliced(m.len)
  <2> DEFINE slices == UnreliableSlices(paid, c, m)
             sid == paid.sliced_id
             K == ToSet(paid.packets)
             L == ToSet(slices)
  <2>1. /\ paid.sequence \in Nat /\ sid \in Nat
        /\ paid.packets \in Seq(UnreliablePackets(c, lens))
        /\ OneMessagePerId(paid.packets, low, sid)
    BY <1>3 DEF PackingUnreliable
  <2>2. slices \in Seq(UnreliablePackets(c, lens))
    BY <1>5, <2>1, UnreliableSlicesAreSlices
  <2>3. \A i \in DOMAIN slices : /\ slices[i].type = "UnreliableSlice" /\ slices[i].id = sid
                                 /\ slices[i].data = m.data /\ slices[i].index = i - 1
    BY DEF UnreliableSlices
  <2>13. DOMAIN slices \subseteq Int /\ 1 \in DOMAIN slices
    <3>1. DOMAIN slices = 1 .. NumSlices(m.len)
      BY DEF UnreliableSlices
    <3>2. NumSlices(m.len) \in Nat /\ NumSlices(m.len) >= 2
      BY <1>5, SliceCount DEF QueueMessages
    <3> HIDE DEF slices
    <3> QED BY <3>1, <3>2
  <2> HIDE DEF slices
  <2>4. result.packets = paid.packets \o slices /\ result.small = paid.small
        /\ result.overflow = queue /\ result.sliced_id = st.sliced_id + 1
    BY <1>1, <1>2, <1>3, <1>5 DEF PackingUnreliable, slices
  <2>5. ToSet(result.packets) = K \union L
    BY <2>1, <2>2, <2>4, SetOfConcat
  <2>6. /\ Scattered(K, queue) /\ Distinct(paid.small)
        /\ DataWaiting(paid.small) \intersect DataWaiting(queue) = {}
        /\ \A l \in K : DataOf(l) \intersect DataWaiting(paid.small) = {}
        /\ \A d : d \in D <=> Carries(K, queue, d) \/ d \in DataWaiting(paid.small)
    BY <1>1, <1>3 DEF Spreading
  <2>7. \A k \in K : k.type = "UnreliableSlice" => k.id # sid
    <3>1. \A i \in DOMAIN paid.packets : paid.packets[i].type = "UnreliableSlice" =>
              paid.packets[i].id \in low .. (sid - 1)
      BY <2>1 DEF OneMessagePerId
    <3>2. \A x \in low .. (sid - 1) : x # sid
      BY <2>1
    <3> HIDE DEF sid
    <3> QED BY <3>1, <3>2 DEF ToSet
  <2>8. \A l \in L : l.type = "UnreliableSlice" /\ l.id = sid /\ l.data = m.data /\ DataOf(l) = {m.data}
    BY <2>3 DEF ToSet, DataOf
  <2>9. \A k, l \in L : k # l => k.index # l.index
    <3> SUFFICES ASSUME NEW i \in DOMAIN slices, NEW j \in DOMAIN slices, slices[i] # slices[j]
                 PROVE  slices[i].index # slices[j].index
      BY DEF ToSet
    <3>1. i \in Int /\ j \in Int /\ i # j
      BY <2>13
    <3>2. slices[i].index = i - 1 /\ slices[j].index = j - 1
      BY <2>3
    <3> QED BY <3>1, <3>2
  <2>14. \E l \in L : TRUE
    BY <2>13 DEF ToSet
  <2> HIDE DEF K, L, sid, queue
  <2>10. m.data \notin DataWaiting(queue) /\ m.data \notin DataWaiting(paid.small)
         /\ \A k \in K : m.data \notin DataOf(k)
    BY <2>6 DEF Carries
  <2>11. Scattered(K \union L, queue)
    <3>1. Scattered(L, queue)
      BY <2>6, <2>8, <2>9, <2>10 DEF Scattered, Apart, SameMessage
    <3>2. \A k \in K, l \in L : Apart(k, l)
      BY <2>7, <2>8, <2>10 DEF Apart, SameMessage
    <3> QED BY <2>6, <3>1, <3>2, ScatteredBoth
  <2>12. \A d : d \in more <=> Carries(K \union L, queue, d) \/ d \in DataWaiting(paid.small)
    BY <2>6, <2>8, <2>14 DEF Carries
  <2>15. \A k \in K \union L : DataOf(k) \intersect DataWaiting(paid.small) = {}
    BY <2>6, <2>8, <2>10
  <2>16. Spreading(result, more)
    BY <2>4, <2>5, <2>6, <2>11, <2>12, <2>15 DEF Spreading
  <2> QED BY <1>4, <2>4, <2>16 DEF result, queue
<1>6. CASE ~IsSliced(m.len)
  <2>1. PackingUnreliable(flushed, c, first, low, lens) /\ Spreading(flushed, D)
    BY <1>3, FlushUnreliableKeeps, FlushSpreads
  <2>2. flushed.overflow = queue /\ flushed.sliced_id = st.sliced_id
    BY <1>1, <1>3 DEF FlushUnreliable, PackingUnreliable
  <2> HIDE DEF flushed
  <2>3. /\ result.packets = flushed.packets /\ result.small = Append(flushed.small, m)
        /\ result.overflow = queue /\ result.sliced_id = st.sliced_id
    BY <1>2, <1>6, <2>1, <2>2 DEF PackingUnreliable
  <2> DEFINE K == ToSet(flushed.packets)
             small == flushed.small
  <2>4. /\ Scattered(K, queue) /\ Distinct(small)
        /\ DataWaiting(small) \intersect DataWaiting(queue) = {}
        /\ \A l \in K : DataOf(l) \intersect DataWaiting(small) = {}
        /\ \A d : d \in D <=> Carries(K, queue, d) \/ d \in DataWaiting(small)
    BY <2>1, <2>2 DEF Spreading
  <2>5. small \in Seq(SmallUnreliables(lens)) /\ m \in SmallUnreliables(lens)
    BY <1>6, <2>1 DEF PackingUnreliable, SmallUnreliables
  <2> HIDE DEF K, small, queue
  <2>6. m.data \notin DataWaiting(queue) /\ m.data \notin DataWaiting(small)
        /\ \A k \in K : m.data \notin DataOf(k)
    BY <2>4 DEF Carries
  <2>7. DataWaiting(Append(small, m)) = DataWaiting(small) \union {m.data} /\ Distinct(Append(small, m))
    BY <2>4, <2>5, <2>6, DataOfAppend
  <2>8. \A d : d \in more <=> Carries(K, queue, d) \/ d \in DataWaiting(Append(small, m))
    BY <2>4, <2>7
  <2>9. /\ DataWaiting(Append(small, m)) \intersect DataWaiting(queue) = {}
        /\ \A l \in K : DataOf(l) \intersect DataWaiting(Append(small, m)) = {}
    BY <2>4, <2>6, <2>7
  <2>10. ToSet(result.packets) = K /\ result.small = Append(small, m) /\ result.overflow = queue
    BY <2>3 DEF K, small
  <2>11. Spreading(result, more)
    BY <2>4, <2>7, <2>8, <2>9, <2>10 DEF Spreading
  <2> QED BY <1>4, <2>3, <2>11 DEF result, queue
<1> QED BY <1>5, <1>6

(* Every message that it takes from the queue goes to a packet or back.    *)
SpreadsOn(new, st, D) ==
    /\ Spreading(new, D)
    /\ new.sliced_id + Len(new.overflow) <= st.sliced_id + Len(st.overflow) + 1

LEMMA PackOrOverflowSpreads ==
    ASSUME NEW st, NEW c, NEW first \in Nat, NEW low \in Nat, NEW lens \in LengthSeqs,
           PackingUnreliable(st, c, first, low, lens), NEW D, Spreading(st, D),
           NEW m \in QueueMessages(lens), m.data \notin D, NEW cfg, cfg.substrate
    PROVE  SpreadsOn(PackOrOverflow(st, c, m, cfg), st, D \union {m.data})
<1> DEFINE queue == st.overflow
           new == [st EXCEPT !.overflow = Append(@, m)]
           packed == PackUnreliableMessage(st, c, m)
           more == D \union {m.data}
           K == ToSet(st.packets)
<1>1. st.sliced_id \in Nat /\ queue \in Seq(QueueMessages(lens)) /\ Len(queue) \in Nat
  BY LenProperties DEF PackingUnreliable
<1>2. SpreadsOn(packed, st, more)
  <2>1. /\ Spreading(packed, more)
        /\ packed.overflow = st.overflow /\ packed.sliced_id <= st.sliced_id + 1
    BY PackSpreads
  <2>2. packed.sliced_id \in Nat
    <3>1. PackingUnreliable(packed, c, first, low, lens)
      BY PackUnreliableMessageKeeps
    <3> HIDE DEF packed
    <3> QED BY <3>1 DEF PackingUnreliable
  <2> HIDE DEF packed, more
  <2> QED BY <1>1, <2>1, <2>2 DEF SpreadsOn
<1>3. SpreadsOn(new, st, more)
  <2>1. /\ new.packets = st.packets /\ new.small = st.small
        /\ new.overflow = Append(queue, m) /\ new.sliced_id = st.sliced_id
    BY DEF PackingUnreliable
  <2>2. /\ Scattered(K, queue) /\ Distinct(st.small)
        /\ DataWaiting(st.small) \intersect DataWaiting(queue) = {}
        /\ \A l \in K : DataOf(l) \intersect DataWaiting(st.small) = {}
        /\ \A d : d \in D <=> Carries(K, queue, d) \/ d \in DataWaiting(st.small)
    BY DEF Spreading
  <2> HIDE DEF new, K, queue
  <2>3. m.data \notin DataWaiting(queue) /\ m.data \notin DataWaiting(st.small)
         /\ \A k \in K : m.data \notin DataOf(k)
    BY <2>2 DEF Carries
  <2>4. /\ DataWaiting(Append(queue, m)) = DataWaiting(queue) \union {m.data}
        /\ Distinct(Append(queue, m)) /\ Len(Append(queue, m)) = Len(queue) + 1
    BY <1>1, <2>2, <2>3, DataOfAppend, AppendProperties DEF Scattered
  <2>5. Scattered(K, Append(queue, m))
    BY <2>2, <2>3, <2>4 DEF Scattered
  <2>6. \A d : d \in more <=> Carries(K, Append(queue, m), d) \/ d \in DataWaiting(st.small)
    BY <2>2, <2>4 DEF Carries
  <2>7. DataWaiting(st.small) \intersect DataWaiting(Append(queue, m)) = {}
    BY <2>2, <2>3, <2>4
  <2>8. Spreading(new, more)
    BY <2>1, <2>2, <2>5, <2>6, <2>7 DEF Spreading, K
  <2>9. new.sliced_id + Len(new.overflow) <= st.sliced_id + Len(st.overflow) + 1
    BY <1>1, <2>1, <2>4 DEF queue
  <2> QED BY <2>8, <2>9 DEF SpreadsOn
<1> HIDE DEF new, packed, more
<1> QED BY <1>2, <1>3 DEF PackOrOverflow, new, packed, more

(* What get_packets_to_send of an unreliable channel hands back. *)
UnreliablePacked(out, c, first, old, lens) ==
    /\ DOMAIN out = {"bytes", "sequence", "packets", "ch"}
    /\ out.sequence \in Nat
    /\ out.packets \in Seq(UnreliablePackets(c, lens))
    /\ Numbered(out.packets, first, out.sequence)
    /\ SendUnreliableOK(out.ch, lens)
    /\ old.sliced_id <= out.ch.sliced_id
    /\ OneMessagePerId(out.packets, old.sliced_id, out.ch.sliced_id)
    /\ KeepsQueue(out.ch, old)

(* The loop over the queue, the packet that is left and the new queue. *)
LEMMA PackUnreliableKeeps ==
    ASSUME NEW c, NEW first \in Nat, NEW old, NEW lens \in LengthSeqs, NEW bytes, NEW cfg,
           SendUnreliableOK(old, lens)
    PROVE  LET out == PackUnreliable(old, c, first, bytes, cfg)
           IN  /\ UnreliablePacked(out, c, first, old, lens)
               /\ cfg.substrate => QueueSpreads(ToSet(out.packets), out.ch, old)
<1> DEFINE queue == old.queue
           S == DOMAIN queue
           low == old.sliced_id
           start == [bytes |-> bytes, sequence |-> first, packets |-> << >>,
                     small |-> << >>, small_bytes |-> 0,
                     sliced_id |-> old.sliced_id, overflow |-> << >>]
           loop == [of |-> "unreliable", c |-> c, first |-> first, low |-> low, lens |-> lens,
                    queue |-> queue, cfg |-> cfg]
           pick == [t \in SUBSET S |-> Max(t)]
           Runs(f) == f = [t \in SUBSET S |-> IF t = {} THEN start
                             ELSE PackOrOverflow(f[t \ {Max(t)}], c, queue[Max(t)], cfg)]
           iter == CHOOSE f : Runs(f)
           w == Sizes(queue)
<1>1. /\ queue \in Seq(QueueMessages(lens)) /\ low \in Nat
      /\ S = 1 .. Len(queue) /\ Len(queue) \in Nat
      /\ \A i \in S : queue[i] \in QueueMessages(lens)
  BY ElementOfSeq, LenProperties DEF SendUnreliableOK
<1>18. \A m \in QueueMessages(lens) : m.len \in Nat
  BY DEF QueueMessages
<1>19. \A i \in S : w[i] = queue[i].len /\ w[i] \in Nat
  BY <1>1, <1>18 DEF Sizes
<1>20. start.overflow = << >>
  OBVIOUS
<1>2. PackingUnreliable(start, c, first, low, lens)
  <2>1. DOMAIN start = {"bytes", "sequence", "packets", "small", "small_bytes",
                        "sliced_id", "overflow"}
    OBVIOUS
  <2>2. /\ start.sequence = first /\ start.packets = << >> /\ start.small = << >>
        /\ start.small_bytes = 0 /\ start.sliced_id = low /\ start.overflow = << >>
    OBVIOUS
  <2>3. Numbered(<< >>, first, first) /\ OneMessagePerId(<< >>, low, low)
    BY DEF Numbered, OneMessagePerId
  <2>4. /\ << >> \in Seq(UnreliablePackets(c, lens)) /\ << >> \in Seq(SmallUnreliables(lens))
        /\ << >> \in Seq(QueueMessages(lens))
    OBVIOUS
  <2>5. MessagesSize(<< >>, 1) = 0 /\ SmallFits(<< >>, 1)
    BY SizeEmpty
  <2> HIDE DEF start, low
  <2> QED BY <1>1, <2>1, <2>2, <2>3, <2>4, <2>5 DEF PackingUnreliable
<1> HIDE DEF start
<1>3. IsFiniteSet(S) /\ Picks(pick, S)
  <2> HIDE DEF S, queue
  <2>1. S \in SUBSET (0 .. Len(queue))
    BY <1>1
  <2> QED BY <1>1, <2>1, MaxPicks
<1>4. \A s, e : Body(loop, s, e) = PackOrOverflow(s, c, queue[e], cfg)
  BY DEF Body
<1>5. \A done, s : Keeps(loop, done, s) <=>
          /\ PackingUnreliable(s, c, first, low, lens) /\ TotalLength(s.overflow) <= Bytes(w, done)
          /\ cfg.substrate /\ Distinct(queue) => SpreadSoFar(s, queue, low, done)
  BY DEF Keeps
<1>25. /\ start.packets = << >> /\ start.small = << >> /\ start.sliced_id = low
  BY DEF start
<1> HIDE DEF loop, S, w
<1>6. \A f : Computes(f, loop, start, S, pick) <=> Runs(f)
  <2> HIDE DEF queue
  <2> QED BY <1>4 DEF Computes
<1>7. Runs(iter)
  <2>1. \E f : Runs(f)
    BY <1>3, <1>6, LoopDefined
  <2> HIDE DEF Runs
  <2> QED BY <2>1
<1>8. PackUnreliable(old, c, first, bytes, cfg) = AfterPacking(old, FinishUnreliable(iter[S], c))
  BY DEF PackUnreliable, FoldLeft, MapThenFoldSet, S, start
<1> HIDE DEF iter
<1>9. Computes(iter, loop, start, S, pick)
  BY <1>6, <1>7
<1>10. ASSUME NEW t \in SUBSET S, t # {}, NEW s, Keeps(loop, t \ {pick[t]}, s)
       PROVE  Keeps(loop, t, Body(loop, s, pick[t]))
  <2>1. queue[pick[t]] \in QueueMessages(lens)
    BY <1>1, <1>3, <1>10 DEF Picks
  <2>2. PackingUnreliable(s, c, first, low, lens)
    BY <1>5, <1>10
  <2> DEFINE x == pick[t]
             m == queue[x]
             new == PackOrOverflow(s, c, m, cfg)
  <2>3. x \in t /\ t \subseteq S
    BY <1>3, <1>10 DEF Picks
  <2> HIDE DEF pick, queue, low
  <2>4. PackingUnreliable(new, c, first, low, lens)
    BY <1>1, <2>1, <2>2, PackOrOverflowKeeps
  <2>5. TotalLength(s.overflow) <= Bytes(w, t \ {x})
    BY <1>5, <1>10
  <2>6. new.overflow \in {s.overflow, Append(s.overflow, m)}
    BY <1>1, <2>2, PackOverflow
  <2>7. /\ TotalLength(Append(s.overflow, m)) = TotalLength(s.overflow) + m.len
        /\ TotalLength(s.overflow) \in Nat /\ m.len \in Nat
    BY <1>18, <2>1, <2>2, TotalAppend DEF PackingUnreliable
  <2>8. /\ Bytes(w, t) = Bytes(w, t \ {x}) + w[x]
        /\ Bytes(w, t \ {x}) \in Nat
    <3>1. IsFiniteSet(t) /\ \A y \in t : w[y] \in Nat
      BY <1>3, <1>19, <2>3, FS_Subset
    <3> HIDE DEF x
    <3> QED BY <2>3, <3>1, BytesWithout
  <2>9. w[x] = m.len
    BY <1>19, <2>3
  <2>10. TotalLength(new.overflow) <= Bytes(w, t)
    <3> DEFINE more == Append(s.overflow, m)
    <3>1. CASE new.overflow = s.overflow
      <4> HIDE DEF new, m, x
      <4> QED BY <2>5, <2>7, <2>8, <2>9, <3>1
    <3>2. CASE new.overflow = more
      <4>1. TotalLength(more) = TotalLength(s.overflow) + m.len
        BY <2>7
      <4>2. TotalLength(more) <= Bytes(w, t)
        <5> HIDE DEF new, m, x, more
        <5> QED BY <2>5, <2>7, <2>8, <2>9, <4>1
      <4> QED BY <3>2, <4>2
    <3> QED BY <2>6, <3>1, <3>2
  <2>12. ASSUME cfg.substrate, Distinct(queue) PROVE SpreadSoFar(new, queue, low, t)
    <3> DEFINE rest == t \ {x}
               D == {queue[y].data : y \in rest}
               all == {queue[y].data : y \in t}
    <3>1. Spreading(s, D) /\ s.sliced_id + Len(s.overflow) <= low + Cardinality(rest)
      BY <1>5, <1>10, <2>12 DEF SpreadSoFar
    <3>2. m.data \notin D
      BY <2>3, <2>12 DEF Distinct, S
    <3>3. all = D \union {m.data}
      BY <2>3
    <3>4. IsFiniteSet(t) /\ Cardinality(t) = Cardinality(rest) + 1 /\ Cardinality(rest) \in Nat
      <4>1. IsFiniteSet(t)
        BY <1>3, <2>3, FS_Subset
      <4> HIDE DEF x
      <4> QED BY <2>3, <4>1, SmallerWithout
    <3> HIDE DEF D, all, rest, m, x
    <3>5. SpreadsOn(new, s, D \union {m.data})
      BY <1>1, <2>1, <2>2, <2>12, <3>1, <3>2, PackOrOverflowSpreads DEF m, x
    <3>6. Spreading(new, all) /\ new.sliced_id + Len(new.overflow) <= s.sliced_id + Len(s.overflow) + 1
      BY <3>3, <3>5 DEF SpreadsOn
    <3>7. /\ s.sliced_id \in Nat /\ Len(s.overflow) \in Nat
          /\ new.sliced_id \in Nat /\ Len(new.overflow) \in Nat
      BY <2>2, <2>4, LenProperties DEF PackingUnreliable
    <3> HIDE DEF new
    <3>8. new.sliced_id + Len(new.overflow) <= low + Cardinality(t)
      BY <1>1, <3>1, <3>4, <3>6, <3>7
    <3> QED BY <3>6, <3>8 DEF SpreadSoFar, all
  <2> HIDE DEF new
  <2>11. Keeps(loop, t, new)
    BY <1>5, <2>4, <2>10, <2>12
  <2> QED BY <1>4, <2>11 DEF new
<1>11. Keeps(loop, {}, start)
  <2>1. Spreading(start, {})
    <3>1. ToSet(start.packets) = {} /\ start.small = << >> /\ start.overflow = << >>
      BY <1>20, <1>25 DEF ToSet
    <3> QED BY <3>1, DataOfNone DEF Spreading, Scattered, Carries
  <2>2. {queue[y].data : y \in {}} = {}
    OBVIOUS
  <2>3. Cardinality({}) = 0 /\ Len(<< >>) = 0
    BY FS_EmptySet
  <2>4. SpreadSoFar(start, queue, low, {})
    <3>1. start.sliced_id + Len(start.overflow) <= low + Cardinality({})
      <4> HIDE DEF low
      <4> QED BY <1>1, <1>20, <1>25, <2>3
    <3> QED BY <2>1, <2>2, <3>1 DEF SpreadSoFar
  <2> HIDE DEF low, queue
  <2> QED BY <1>2, <1>5, <1>20, <2>4, TotalEmpty, BytesEmpty
<1>12. Keeps(loop, S, iter[S])
  <2> HIDE DEF pick
  <2> QED BY <1>3, <1>9, <1>10, <1>11, LoopKeeps
<1>13. PackingUnreliable(iter[S], c, first, low, lens) /\ TotalLength(iter[S].overflow) <= Bytes(w, S)
  BY <1>5, <1>12
<1> DEFINE fin == FinishUnreliable(iter[S], c)
<1>14. PackingUnreliable(fin, c, first, low, lens)
  BY <1>1, <1>13, FlushUnreliableKeeps DEF FinishUnreliable
<1>21. fin.overflow = iter[S].overflow
  BY <1>1, <1>13, FlushOverflow DEF FinishUnreliable
<1> HIDE DEF fin
<1> DEFINE out == AfterPacking(old, fin)
<1>15. /\ DOMAIN out = {"bytes", "sequence", "packets", "ch"}
       /\ out.sequence = fin.sequence /\ out.packets = fin.packets
       /\ DOMAIN out.ch = {"queue", "sliced_id", "memory"}
       /\ out.ch.queue = Reverse(fin.overflow) /\ out.ch.sliced_id = fin.sliced_id
       /\ out.ch.memory = old.memory - TotalLength(old.queue) + TotalLength(fin.overflow)
  BY DEF AfterPacking, Requeue
<1>16. Reverse(fin.overflow) \in Seq(QueueMessages(lens))
  <2>1. fin.overflow \in Seq(QueueMessages(lens))
    BY <1>14 DEF PackingUnreliable
  <2>2. \A i \in 1 .. Len(fin.overflow) : fin.overflow[(Len(fin.overflow) - i) + 1] \in QueueMessages(lens)
    BY <2>1, ElementOfSeq, LenProperties
  <2> QED BY <2>1, <2>2, LenProperties DEF Reverse
<1> HIDE DEF out
<1>22. KeepsQueue(out.ch, old)
  <2>1. SUFFICES ASSUME NEW max \in Nat, QueueExact(old, max) PROVE QueueExact(out.ch, max)
    BY DEF KeepsQueue
  <2>2. fin.overflow \in Seq(QueueMessages(lens))
    BY <1>14 DEF PackingUnreliable
  <2>3. TotalLength(out.ch.queue) = TotalLength(fin.overflow)
    BY <1>15, <1>18, <2>2, TotalReverse
  <2>4. TotalLength(fin.overflow) \in Nat
    <3>1. \A i \in 1 .. Len(fin.overflow) : fin.overflow[i].len \in Nat
      BY <1>18, <2>2, ElementOfSeq
    <3> QED BY <2>2, <3>1, TotalIsBytes, LenProperties
  <2>5. TotalLength(queue) = Bytes(w, S) /\ TotalLength(queue) \in Nat
    <3>1. \A i \in 1 .. Len(queue) : queue[i].len \in Nat
      BY <1>1, <1>18
    <3>2. DOMAIN queue = 1 .. Len(queue)
      BY <1>1 DEF S
    <3> HIDE DEF queue
    <3> QED BY <1>1, <3>1, <3>2, TotalIsBytes DEF w, S
  <2>6. old.memory = TotalLength(old.queue) /\ old.memory <= max
    BY <2>1 DEF QueueExact
  <2>7. TotalLength(fin.overflow) <= TotalLength(old.queue)
    BY <1>13, <1>21, <2>5
  <2>8. out.ch.memory = TotalLength(out.ch.queue) /\ out.ch.memory <= max
    BY <1>15, <2>3, <2>4, <2>5, <2>6, <2>7
  <2> QED BY <2>8 DEF QueueExact
<1>17. UnreliablePacked(out, c, first, old, lens)
  BY <1>14, <1>15, <1>16, <1>22 DEF UnreliablePacked, PackingUnreliable, SendUnreliableOK
<1>26. ASSUME cfg.substrate, Distinct(queue)
       PROVE  /\ Spread(ToSet(out.packets), out.ch.queue, DataWaiting(queue))
              /\ out.ch.sliced_id + Len(out.ch.queue) <= low + Len(queue)
  <2> DEFINE last == iter[S]
             D == {queue[y].data : y \in S}
             K == ToSet(fin.packets)
  <2>1. Spreading(last, D) /\ last.sliced_id + Len(last.overflow) <= low + Cardinality(S)
    BY <1>5, <1>12, <1>26 DEF SpreadSoFar
  <2>2. D = DataWaiting(queue)
    BY DEF DataWaiting, ToSet, S
  <2>3. Cardinality(S) = Len(queue)
    <3> DEFINE n == Len(queue)
    <3>1. n \in Nat /\ S = 1 .. n
      BY <1>1
    <3> HIDE DEF S, queue, n
    <3>2. Cardinality(1 .. n) = IF 1 > n THEN 0 ELSE n - 1 + 1
      BY <3>1, FS_Interval
    <3> QED BY <3>1, <3>2 DEF n
  <2> HIDE DEF last, D, queue, low
  <2>4. Spreading(fin, D) /\ fin.small = << >> /\ fin.sliced_id = last.sliced_id
    <3>1. PackingUnreliable(last, c, first, low, lens)
      BY <1>13 DEF last
    <3>2. CASE last.small # << >>
      <4>1. fin = FlushUnreliable(last, c)
        BY <3>2 DEF fin, FinishUnreliable, last
      <4>2. Spreading(fin, D)
        BY <1>1, <2>1, <3>1, <4>1, FlushSpreads
      <4>3. fin.small = << >> /\ fin.sliced_id = last.sliced_id
        BY <3>1, <4>1 DEF FlushUnreliable, PackingUnreliable
      <4> QED BY <4>2, <4>3
    <3>3. CASE last.small = << >>
      BY <2>1, <3>3 DEF fin, FinishUnreliable, last
    <3> QED BY <3>2, <3>3
  <2>5. fin.overflow \in Seq(QueueMessages(lens))
    BY <1>14 DEF PackingUnreliable
  <2>6. /\ DataWaiting(out.ch.queue) = DataWaiting(fin.overflow)
        /\ Distinct(fin.overflow) => Distinct(out.ch.queue)
        /\ Len(out.ch.queue) = Len(fin.overflow)
    BY <1>15, <2>5, DataOfReverse
  <2>7. Scattered(K, fin.overflow) /\ \A d : d \in D <=> Carries(K, fin.overflow, d)
    BY <2>4, DataOfNone DEF Spreading
  <2>8. Scattered(K, out.ch.queue) /\ \A d : d \in D <=> Carries(K, out.ch.queue, d)
    BY <2>6, <2>7 DEF Scattered, Carries
  <2>9. out.ch.sliced_id + Len(out.ch.queue) <= low + Len(queue)
    BY <1>15, <1>21, <2>1, <2>3, <2>4, <2>6 DEF last
  <2> QED BY <1>15, <2>2, <2>8, <2>9 DEF Spread
<1>27. cfg.substrate => QueueSpreads(ToSet(out.packets), out.ch, old)
  BY <1>26 DEF QueueSpreads
<1> QED BY <1>8, <1>17, <1>27 DEF fin, out

-----------------------------------------------------------------------------
(* get_packets_to_send of the connection *)

LEMMA SameStaysOK ==
    ASSUME NEW ch, NEW old, NEW lens, SendReliableOK(old, lens), SameUnacked(ch, old)
    PROVE  SendReliableOK(ch, lens)
BY DEF SendReliableOK, SameUnacked

LEMMA SameTransitive ==
    ASSUME NEW ch, NEW middle, NEW old, SameUnacked(middle, old), SameUnacked(ch, middle)
    PROVE  SameUnacked(ch, old)
BY DEF SameUnacked

LEMMA ChannelFacts ==
    ASSUME NEW c \in ChannelIds
    PROVE  /\ Reliable(c) \in BOOLEAN /\ Channels[c].ordered \in BOOLEAN
           /\ Channels[c].max \in Nat
<1>1. Channels[c] \in ChannelConfig
  BY RemoteConnectionAssumption, ElementOfSeq, LenProperties DEF ChannelIds
<1> QED BY <1>1 DEF ChannelConfig, Reliable

(* What one channel adds to the tick. *)
Packed(out, c, first, old, lens) ==
    /\ out.sequence \in Nat
    /\ out.packets \in Seq(PacketsOf(c, lens))
    /\ Numbered(out.packets, first, out.sequence)
    /\ SendOK(c, out.ch, lens)
    /\ Advanced(c, out.ch, old)
    /\ OneMessagePerId(out.packets, old.sliced_id, out.ch.sliced_id)
    /\ Reliable(c) => \A i \in DOMAIN out.packets : OfUnacked(out.packets[i], old.unacked)
    /\ ~Reliable(c) /\ Channels[c].substrate => QueueSpreads(ToSet(out.packets), out.ch, old)

(* Packets of a channel carry its id; those of a reliable one are no UnreliableSlices. *)
LEMMA PacketOfChannel ==
    ASSUME NEW c, NEW lens, NEW k \in PacketsOf(c, lens)
    PROVE  k.channel = c /\ (Reliable(c) => k.type # "UnreliableSlice")
<1>1. ASSUME NEW x \in ReliablePackets(c, lens) PROVE x.channel = c /\ x.type # "UnreliableSlice"
  BY DEF ReliablePackets
<1>2. ASSUME NEW x \in UnreliablePackets(c, lens) PROVE x.channel = c
  BY DEF UnreliablePackets
<1> QED BY <1>1, <1>2 DEF PacketsOf

LEMMA PackChannelKeeps ==
    ASSUME NEW st, NEW c, st.sequence \in Nat, NEW lens \in LengthSeqs,
           SendOK(c, st.send[c], lens)
    PROVE  Packed(PackChannel(st, c), c, st.sequence, st.send[c], lens)
<1> DEFINE old == st.send[c]
           first == st.sequence
           out == PackChannel(st, c)
<1>1. CASE Reliable(c)
  <2>1. out = PackReliable(old, c, first, st.bytes)
    BY <1>1 DEF PackChannel
  <2>2. SendReliableOK(old, lens)
    BY <1>1 DEF SendOK
  <2> HIDE DEF old, first, out
  <2>3. first \in Nat
    BY DEF first
  <2>4. PackingReliable(out, c, first, old, lens)
    BY <2>1, <2>2, <2>3, PackReliableKeeps
  <2>5. SendReliableOK(out.ch, lens)
    BY <2>2, <2>4, SameStaysOK DEF PackingReliable
  <2>6. /\ out.packets \in Seq(PacketsOf(c, lens)) /\ out.sequence \in Nat
        /\ Numbered(out.packets, first, out.sequence) /\ SameUnacked(out.ch, old)
        /\ \A i \in DOMAIN out.packets : OfUnacked(out.packets[i], old.unacked)
    BY <1>1, <2>4 DEF PackingReliable, PacketsOf
  <2>7. \A i \in DOMAIN out.packets : out.packets[i].type # "UnreliableSlice"
    BY <1>1, <2>6, PacketOfChannel, ElementOfSeq, LenProperties
  <2>8. OneMessagePerId(out.packets, old.sliced_id, out.ch.sliced_id)
    BY <2>7 DEF OneMessagePerId
  <2>9. Packed(out, c, first, old, lens)
    BY <1>1, <2>5, <2>6, <2>8 DEF Packed, SendOK, Advanced
  <2> QED BY <2>9 DEF out, first, old
<1>2. CASE ~Reliable(c)
  <2>1. out = PackUnreliable(old, c, first, st.bytes, Channels[c])
    BY <1>2 DEF PackChannel
  <2>2. SendUnreliableOK(old, lens)
    BY <1>2 DEF SendOK
  <2> HIDE DEF old, first, out
  <2>3. first \in Nat
    BY DEF first
  <2>4. /\ UnreliablePacked(out, c, first, old, lens)
        /\ Channels[c].substrate => QueueSpreads(ToSet(out.packets), out.ch, old)
    BY <2>1, <2>2, <2>3, PackUnreliableKeeps
  <2>5. Packed(out, c, first, old, lens)
    BY <1>2, <2>4 DEF Packed, SendOK, Advanced, UnreliablePacked, PacketsOf
  <2> QED BY <2>5 DEF out, first, old
<1> QED BY <1>1, <1>2

LEMMA JoinPackedKeeps ==
    ASSUME NEW lens \in [ChannelIds -> LengthSeqs], NEW first \in Nat, NEW old, NEW st,
           PackingChannels(st, first, old, lens), NEW c \in ChannelIds, NEW out,
           Packed(out, c, st.sequence, st.send[c], lens[c]),
           \A d \in ChannelIds : ~Reliable(d) => old[d].sliced_id \in Nat
    PROVE  PackingChannels(JoinPacked(st, c, out), first, old, lens)
<1> DEFINE new == JoinPacked(st, c, out)
           packets == st.packets \o out.packets
           chans == [st.send EXCEPT ![c] = out.ch]
<1>1. /\ DOMAIN new = {"bytes", "sequence", "packets", "send"}
      /\ new.sequence = out.sequence /\ new.packets = packets /\ new.send = chans
  BY DEF JoinPacked
<1> HIDE DEF new
<1>2. /\ st.sequence \in Nat /\ st.packets \in Seq(DataPackets(lens))
      /\ Numbered(st.packets, first, st.sequence)
      /\ DOMAIN st.send = ChannelIds
      /\ \A d \in ChannelIds : SendOK(d, st.send[d], lens[d]) /\ Advanced(d, st.send[d], old[d])
      /\ FreshIds(st.packets, old, st.send)
  BY DEF PackingChannels
<1>3. /\ out.sequence \in Nat /\ out.packets \in Seq(PacketsOf(c, lens[c]))
      /\ Numbered(out.packets, st.sequence, out.sequence)
      /\ SendOK(c, out.ch, lens[c]) /\ Advanced(c, out.ch, st.send[c])
      /\ OneMessagePerId(out.packets, st.send[c].sliced_id, out.ch.sliced_id)
  BY DEF Packed
<1>4. out.packets \in Seq(DataPackets(lens))
  <2>1. PacketsOf(c, lens[c]) \subseteq DataPackets(lens)
    BY DEF DataPackets
  <2>2. \A i \in 1 .. Len(out.packets) : out.packets[i] \in DataPackets(lens)
    BY <1>3, <2>1, ElementOfSeq
  <2>3. Len(out.packets) \in Nat /\ out.packets = [i \in 1 .. Len(out.packets) |-> out.packets[i]]
    BY <1>3, LenProperties
  <2> QED BY <2>2, <2>3
<1>5. packets \in Seq(DataPackets(lens)) /\ Numbered(packets, first, out.sequence)
  BY <1>2, <1>3, <1>4, ConcatNumbered
<1>6. /\ DOMAIN chans = ChannelIds /\ chans[c] = out.ch
      /\ \A d \in ChannelIds : d # c => chans[d] = st.send[d]
  BY <1>2
<1>7. ASSUME NEW d \in ChannelIds
      PROVE  SendOK(d, chans[d], lens[d]) /\ Advanced(d, chans[d], old[d])
  <2>1. CASE d # c
    BY <1>2, <1>6, <2>1
  <2>2. CASE d = c
    <3>1. chans[d] = out.ch /\ SendOK(d, chans[d], lens[d])
      BY <1>3, <1>6, <2>2
    <3>2. Advanced(c, st.send[c], old[c]) /\ Advanced(c, out.ch, st.send[c])
      BY <1>2, <1>3
    <3>3. CASE Reliable(c)
      <4>1. SameUnacked(out.ch, old[c])
        BY <3>2, <3>3, SameTransitive DEF Advanced
      <4> QED BY <2>2, <3>1, <3>3, <4>1 DEF Advanced
    <3>4. CASE ~Reliable(c)
      <4>1. st.send[c].sliced_id \in Nat /\ out.ch.sliced_id \in Nat
        BY <1>2, <1>3, <3>4 DEF SendOK, SendUnreliableOK
      <4>2. old[c].sliced_id <= st.send[c].sliced_id /\ st.send[c].sliced_id <= out.ch.sliced_id
        BY <3>2, <3>4 DEF Advanced
      <4>3. old[c].sliced_id <= out.ch.sliced_id
        BY <3>4, <4>1, <4>2
      <4>4. KeepsQueue(out.ch, old[c])
        BY <3>2, <3>4 DEF Advanced, KeepsQueue
      <4> QED BY <2>2, <3>1, <3>4, <4>3, <4>4, <1>6 DEF Advanced
    <3> QED BY <3>3, <3>4
  <2> QED BY <2>1, <2>2
<1> DEFINE a == Len(st.packets)
<1>10. /\ a \in Nat /\ DOMAIN st.packets = 1 .. a
      /\ DOMAIN out.packets = 1 .. Len(out.packets) /\ Len(out.packets) \in Nat
      /\ DOMAIN packets = 1 .. (a + Len(out.packets))
  BY <1>2, <1>4, <1>5, ConcatProperties, LenProperties
<1>11. \A i \in DOMAIN packets : i <= a => i \in DOMAIN st.packets /\ packets[i] = st.packets[i]
  BY <1>2, <1>4, <1>10, ConcatProperties
<1>12. \A i \in DOMAIN packets : i > a =>
          /\ i - a \in DOMAIN out.packets /\ packets[i] = out.packets[i - a]
          /\ packets[i] \in PacketsOf(c, lens[c])
  <2> SUFFICES ASSUME NEW i \in DOMAIN packets, i > a
               PROVE  /\ i - a \in DOMAIN out.packets /\ packets[i] = out.packets[i - a]
                      /\ packets[i] \in PacketsOf(c, lens[c])
    OBVIOUS
  <2>1. packets[i] = out.packets[i - a]
    <3>1. i \in 1 .. (Len(st.packets) + Len(out.packets)) /\ ~(i <= Len(st.packets))
      <4> HIDE DEF packets, a
      <4>1. i \in 1 .. (a + Len(out.packets)) /\ i > a
        BY <1>10
      <4>2. ~(i <= a)
        BY <1>10, <4>1
      <4>3. a = Len(st.packets)
        BY DEF a
      <4> QED BY <4>1, <4>2, <4>3
    <3>2. st.packets \in Seq(DataPackets(lens)) /\ out.packets \in Seq(DataPackets(lens))
      BY <1>2, <1>4
    <3> QED BY <3>1, <3>2, ConcatProperties
  <2>2. i - a \in 1 .. Len(out.packets)
    <3> HIDE DEF a
    <3> QED BY <1>10
  <2> QED BY <1>3, <1>10, <2>1, <2>2, ElementOfSeq
<1>8. FreshIds(packets, old, chans)
  <2>4. \A i \in DOMAIN packets : i > a =>
            packets[i].channel = c /\ (Reliable(c) => packets[i].type # "UnreliableSlice")
    BY <1>12, PacketOfChannel
  <2>5. \A i \in DOMAIN packets : packets[i].channel \in ChannelIds
    <3>1. \A k \in DataPackets(lens) : k.channel \in ChannelIds
      BY PacketOfChannel DEF DataPackets
    <3> QED BY <1>5, <1>10, <3>1, ElementOfSeq, LenProperties
  <2> HIDE DEF packets, chans
  <2> SUFFICES ASSUME NEW i \in DOMAIN packets, NEW j \in DOMAIN packets,
                      packets[i].type = "UnreliableSlice", packets[j].type = "UnreliableSlice",
                      packets[i].channel = packets[j].channel
               PROVE  /\ packets[i].id \in old[packets[i].channel].sliced_id
                                           .. (chans[packets[i].channel].sliced_id - 1)
                      /\ packets[i].id = packets[j].id => packets[i].data = packets[j].data
    BY DEF FreshIds
  <2> DEFINE d == packets[i].channel
             lo == old[d].sliced_id
             mid == st.send[d].sliced_id
             hi == chans[d].sliced_id
  <2>6. d \in ChannelIds
    BY <2>5
  <2>7. \A k \in DOMAIN packets : packets[k].type = "UnreliableSlice" /\ packets[k].channel = d
            /\ k <= a => packets[k].id \in lo .. (mid - 1)
    BY <1>2, <1>11 DEF FreshIds
  <2>8. CASE i <= a /\ j <= a /\ d # c
    <3>1. packets[i].id \in lo .. (mid - 1)
      BY <2>7, <2>8
    <3>2. mid = hi
      BY <1>6, <2>6, <2>8
    <3>3. packets[i].id = packets[j].id => packets[i].data = packets[j].data
      BY <1>2, <1>11, <2>8 DEF FreshIds
    <3> HIDE DEF lo, mid, hi
    <3> QED BY <3>1, <3>2, <3>3 DEF lo, hi
  <2>9. CASE i > a \/ j > a \/ d = c
    <3>1. d = c
      BY <1>10, <2>4, <2>9
    <3>2. CASE Reliable(c)
      <4>1. i <= a /\ j <= a
        <5>1. ~(i > a) /\ ~(j > a)
          BY <2>4, <3>2
        <5>2. a \in Nat /\ i \in Nat /\ j \in Nat
          BY <1>10
        <5> HIDE DEF a
        <5> QED BY <5>1, <5>2
      <4>2. packets[i] = st.packets[i] /\ i \in DOMAIN st.packets /\ st.packets[i] \in DataPackets(lens)
        BY <1>2, <1>10, <1>11, <4>1, ElementOfSeq
      <4>3. PICK e \in ChannelIds : st.packets[i] \in PacketsOf(e, lens[e])
        BY <4>2 DEF DataPackets
      <4>4. e = c
        BY <3>1, <4>2, <4>3, PacketOfChannel
      <4> QED BY <3>2, <4>2, <4>3, <4>4, PacketOfChannel
    <3>3. CASE ~Reliable(c)
      <4>1. lo \in Nat /\ mid \in Nat /\ hi \in Nat /\ lo <= mid /\ mid <= hi
        <5>1. chans[c] = out.ch
          BY <1>6
        <5>2. mid = st.send[c].sliced_id /\ hi = out.ch.sliced_id /\ lo = old[c].sliced_id
          BY <3>1, <5>1
        <5>3. SendUnreliableOK(st.send[c], lens[c]) /\ SendUnreliableOK(out.ch, lens[c])
          BY <1>2, <1>3, <3>3 DEF SendOK
        <5>4. old[c].sliced_id <= st.send[c].sliced_id /\ st.send[c].sliced_id <= out.ch.sliced_id
          BY <1>2, <1>3, <3>3 DEF Advanced
        <5> HIDE DEF lo, mid, hi
        <5> QED BY <3>3, <5>2, <5>3, <5>4 DEF SendUnreliableOK
      <4>2. \A k \in DOMAIN packets : packets[k].type = "UnreliableSlice" /\ k > a
                => packets[k].id \in mid .. (hi - 1)
        BY <1>3, <1>6, <1>12, <3>1 DEF OneMessagePerId
      <4>3. i > a /\ j > a => (packets[i].id = packets[j].id => packets[i].data = packets[j].data)
        BY <1>3, <1>12 DEF OneMessagePerId
      <4>4. i <= a /\ j <= a => (packets[i].id = packets[j].id => packets[i].data = packets[j].data)
        BY <1>2, <1>11 DEF FreshIds
      <4>5. /\ i <= a => packets[i].id \in lo .. (mid - 1)
            /\ j <= a => packets[j].id \in lo .. (mid - 1)
            /\ i > a => packets[i].id \in mid .. (hi - 1)
            /\ j > a => packets[j].id \in mid .. (hi - 1)
        <5> HIDE DEF lo, mid, hi
        <5> QED BY <2>7, <4>2
      <4> HIDE DEF lo, mid, hi, d
      <4>6. packets[i].id \in lo .. (hi - 1)
        <5>1. CASE i <= a
          BY <4>1, <4>5, <5>1
        <5>2. CASE i > a
          BY <4>1, <4>5, <5>2
        <5> QED BY <1>10, <5>1, <5>2
      <4>7. packets[i].id = packets[j].id => (i <= a <=> j <= a)
        BY <1>10, <4>1, <4>5
      <4>8. packets[i].id = packets[j].id => packets[i].data = packets[j].data
        BY <1>10, <4>3, <4>4, <4>7
      <4> QED BY <4>6, <4>8 DEF lo, hi, d
    <3> QED BY <3>2, <3>3
  <2> QED BY <1>10, <2>8, <2>9
<1>13. OfUnackedHalves(packets, old)
  <2> SUFFICES ASSUME NEW i \in DOMAIN packets, Reliable(packets[i].channel)
               PROVE  OfUnacked(packets[i], old[packets[i].channel].unacked)
    BY DEF OfUnackedHalves
  <2>1. CASE i <= a
    BY <1>11, <2>1 DEF PackingChannels, OfUnackedHalves
  <2>2. CASE i > a
    <3>1. packets[i].channel = c /\ Reliable(c)
      <4>1. packets[i] \in PacketsOf(c, lens[c])
        BY <1>12, <2>2
      <4> HIDE DEF packets
      <4>2. packets[i].channel = c
        BY <4>1, PacketOfChannel
      <4> QED BY <4>2
    <3>2. OfUnacked(packets[i], st.send[c].unacked)
      BY <1>12, <2>2, <3>1 DEF Packed
    <3>3. SameUnacked(st.send[c], old[c])
      BY <1>2, <3>1 DEF Advanced
    <3> HIDE DEF packets
    <3> QED BY <3>1, <3>2, <3>3 DEF OfUnacked, SameUnacked
  <2> QED BY <1>10, <2>1, <2>2
<1> HIDE DEF packets, chans
<1>9. PackingChannels(new, first, old, lens)
  BY <1>1, <1>3, <1>5, <1>6, <1>7, <1>8, <1>13 DEF PackingChannels
<1> QED BY <1>9 DEF new

(* The packets of a channel that has had its turn are those it made. *)
LEMMA JoinPackedSpreads ==
    ASSUME NEW lens \in [ChannelIds -> LengthSeqs], NEW first \in Nat, NEW old, NEW st,
           PackingChannels(st, first, old, lens), NEW c \in ChannelIds, NEW out,
           Packed(out, c, st.sequence, st.send[c], lens[c]),
           NEW done, c \notin done, QueuesSpread(st, old, done)
    PROVE  QueuesSpread(JoinPacked(st, c, out), old, done \union {c})
<1> DEFINE new == JoinPacked(st, c, out)
           packets == st.packets \o out.packets
<1>1. new.packets = packets /\ new.send = [st.send EXCEPT ![c] = out.ch]
  BY DEF JoinPacked
<1>2. st.packets \in Seq(DataPackets(lens)) /\ DOMAIN st.send = ChannelIds
  BY DEF PackingChannels
<1>3. new.send[c] = out.ch /\ \A d \in ChannelIds : d # c => new.send[d] = st.send[d]
  BY <1>1, <1>2
<1>4. out.packets \in Seq(PacketsOf(c, lens[c]))
  BY DEF Packed
<1>5. \A k \in ToSet(out.packets) : k.channel = c
  BY <1>4, PacketOfChannel, ElementOfSeq, LenProperties DEF ToSet
<1>6. out.packets \in Seq(DataPackets(lens))
  <2>1. PacketsOf(c, lens[c]) \subseteq DataPackets(lens)
    BY DEF DataPackets
  <2>2. \A i \in 1 .. Len(out.packets) : out.packets[i] \in DataPackets(lens)
    BY <1>4, <2>1, ElementOfSeq
  <2>3. Len(out.packets) \in Nat /\ out.packets = [i \in 1 .. Len(out.packets) |-> out.packets[i]]
    BY <1>4, LenProperties
  <2> QED BY <2>2, <2>3
<1> HIDE DEF new
<1>7. ToSet(new.packets) = ToSet(st.packets) \union ToSet(out.packets)
  BY <1>1, <1>2, <1>6, SetOfConcat
<1>8. \A d \in ChannelIds : d # c => OfChannel(new.packets, d) = OfChannel(st.packets, d)
  BY <1>5, <1>7 DEF OfChannel
<1>9. OfChannel(st.packets, c) = {} /\ st.send[c] = old[c]
  BY DEF QueuesSpread
<1>10. OfChannel(new.packets, c) = ToSet(out.packets)
  BY <1>5, <1>7, <1>9 DEF OfChannel
<1>11. ASSUME NEW d \in SubstrateIds
       PROVE  QueueSpreads(OfChannel(new.packets, d), new.send[d], old[d])
  <2>1. d \in ChannelIds /\ ~Reliable(d) /\ Channels[d].substrate
    BY DEF SubstrateIds, UnreliableIds
  <2>2. CASE d # c
    <3>1. QueueSpreads(OfChannel(st.packets, d), st.send[d], old[d])
      BY DEF QueuesSpread
    <3> QED BY <1>3, <1>8, <2>1, <2>2, <3>1
  <2>3. CASE d = c
    <3>1. QueueSpreads(ToSet(out.packets), out.ch, st.send[c])
      BY <2>1, <2>3 DEF Packed
    <3> QED BY <1>3, <1>9, <1>10, <2>3, <3>1
  <2> QED BY <2>2, <2>3
<1>12. ASSUME NEW d \in ChannelIds \ (done \union {c})
       PROVE  new.send[d] = old[d] /\ OfChannel(new.packets, d) = {}
  <2>1. d \in ChannelIds \ done /\ d # c
    OBVIOUS
  <2> QED BY <1>3, <1>8, <2>1 DEF QueuesSpread
<1> QED BY <1>11, <1>12 DEF QueuesSpread, new

(* The loop over the channels. *)
LEMMA PackChannelsKeeps ==
    ASSUME NEW p \in Peers, packet_sequence[p] \in Nat,
           NEW lens \in [ChannelIds -> LengthSeqs],
           DOMAIN send[p] = ChannelIds,
           \A c \in ChannelIds : SendOK(c, send[p][c], lens[c])
    PROVE  /\ PackingChannels(PackChannels(p), packet_sequence[p], send[p], lens)
           /\ \A c \in SubstrateIds :
                QueueSpreads(OfChannel(PackChannels(p).packets, c), PackChannels(p).send[c], send[p][c])
<1> DEFINE order == [c \in ChannelIds |-> c]
           S == DOMAIN order
           first == packet_sequence[p]
           old == send[p]
           start == [bytes |-> BytesPerTick, sequence |-> first, packets |-> << >>, send |-> old]
           loop == [of |-> "channels", order |-> order, first |-> first, old |-> old, lens |-> lens]
           pick == [t \in SUBSET S |-> Max(t)]
           Runs(f) == f = [t \in SUBSET S |-> IF t = {} THEN start
                             ELSE JoinPacked(f[t \ {Max(t)}], order[Max(t)],
                                             PackChannel(f[t \ {Max(t)}], order[Max(t)]))]
           iter == CHOOSE f : Runs(f)
<1>1. S = ChannelIds /\ \A c \in ChannelIds : order[c] = c
  OBVIOUS
<1> HIDE DEF order
<1>2. Len(Channels) \in Nat /\ ChannelIds \in SUBSET (0 .. Len(Channels))
  BY RemoteConnectionAssumption, LenProperties DEF ChannelIds
<1>3. IsFiniteSet(S) /\ Picks(pick, S)
  <2> HIDE DEF S
  <2>1. S \in SUBSET (0 .. Len(Channels))
    BY <1>1, <1>2
  <2> QED BY <1>2, <2>1, MaxPicks
<1>4. \A c \in ChannelIds : ~Reliable(c) => old[c].sliced_id \in Nat
  BY DEF SendOK, SendUnreliableOK
<1>5. PackingChannels(start, first, old, lens)
  <2>1. /\ DOMAIN start = {"bytes", "sequence", "packets", "send"}
        /\ start.sequence = first /\ start.packets = << >> /\ start.send = old
    OBVIOUS
  <2>2. Numbered(<< >>, first, first) /\ FreshIds(<< >>, old, old) /\ OfUnackedHalves(<< >>, old)
    BY DEF Numbered, FreshIds, OfUnackedHalves
  <2>3. << >> \in Seq(DataPackets(lens))
    OBVIOUS
  <2>4. \A c \in ChannelIds : Advanced(c, old[c], old[c])
    <3> SUFFICES ASSUME NEW c \in ChannelIds PROVE Advanced(c, old[c], old[c])
      OBVIOUS
    <3>1. SendOK(c, old[c], lens[c])
      OBVIOUS
    <3>2. CASE Reliable(c)
      <4>1. SameUnacked(old[c], old[c])
        BY <3>1, <3>2 DEF SendOK, SendReliableOK, SameUnacked
      <4> QED BY <3>2, <4>1 DEF Advanced
    <3>3. CASE ~Reliable(c)
      BY <1>4, <3>3 DEF Advanced, KeepsQueue
    <3> QED BY <3>2, <3>3
  <2> HIDE DEF start, first
  <2>5. first \in Nat
    BY DEF first
  <2> QED BY <2>1, <2>2, <2>3, <2>4, <2>5 DEF PackingChannels
<1>15. QueuesSpread(start, old, {})
  <2>1. start.packets = << >> /\ start.send = old
    OBVIOUS
  <2>2. \A c : OfChannel(<< >>, c) = {}
    BY DEF OfChannel, ToSet
  <2>3. \A c \in SubstrateIds : QueueSpreads({}, old[c], old[c])
    <3> SUFFICES ASSUME NEW c \in SubstrateIds, Distinct(old[c].queue)
                 PROVE  /\ Spread({}, old[c].queue, DataWaiting(old[c].queue))
                        /\ old[c].sliced_id + Len(old[c].queue) <= old[c].sliced_id + Len(old[c].queue)
      BY DEF QueueSpreads
    <3>1. SendUnreliableOK(old[c], lens[c])
      BY DEF SubstrateIds, UnreliableIds, SendOK
    <3>2. old[c].sliced_id \in Nat /\ Len(old[c].queue) \in Nat
      BY <3>1, LenProperties DEF SendUnreliableOK
    <3> HIDE DEF old
    <3>3. Spread({}, old[c].queue, DataWaiting(old[c].queue))
      BY DEF Spread, Scattered, Carries
    <3> QED BY <3>2, <3>3
  <2> HIDE DEF start, old
  <2> QED BY <2>1, <2>2, <2>3 DEF QueuesSpread
<1> HIDE DEF start
<1>6. \A s, e : Body(loop, s, e) = JoinPacked(s, order[e], PackChannel(s, order[e]))
  BY DEF Body
<1>7. \A done, s : Keeps(loop, done, s) <=>
          PackingChannels(s, first, old, lens) /\ QueuesSpread(s, old, done)
  BY DEF Keeps
<1> HIDE DEF loop, S
<1>8. \A f : Computes(f, loop, start, S, pick) <=> Runs(f)
  BY <1>6 DEF Computes
<1>9. Runs(iter)
  <2>1. \E f : Runs(f)
    BY <1>3, <1>8, LoopDefined
  <2> HIDE DEF Runs
  <2> QED BY <2>1
<1>10. PackChannels(p) = iter[S]
  BY DEF PackChannels, FoldLeft, MapThenFoldSet, S, order, start
<1> HIDE DEF iter
<1>11. Computes(iter, loop, start, S, pick)
  BY <1>8, <1>9
<1>12. ASSUME NEW t \in SUBSET S, t # {}, NEW s, Keeps(loop, t \ {pick[t]}, s)
       PROVE  Keeps(loop, t, Body(loop, s, pick[t]))
  <2> DEFINE c == pick[t]
  <2>1. c \in ChannelIds /\ order[c] = c
    BY <1>1, <1>3, <1>12 DEF Picks
  <2>2. PackingChannels(s, first, old, lens)
    BY <1>7, <1>12
  <2>5. QueuesSpread(s, old, t \ {c}) /\ (t \ {c}) \union {c} = t
    BY <1>3, <1>7, <1>12 DEF Picks
  <2> HIDE DEF c, pick
  <2>3. Packed(PackChannel(s, c), c, s.sequence, s.send[c], lens[c])
    BY <2>1, <2>2, PackChannelKeeps DEF PackingChannels
  <2>4. PackingChannels(JoinPacked(s, c, PackChannel(s, c)), first, old, lens)
    <3> HIDE DEF old
    <3> QED BY <1>4, <2>1, <2>2, <2>3, JoinPackedKeeps
  <2>6. QueuesSpread(JoinPacked(s, c, PackChannel(s, c)), old, t)
    <3> DEFINE done == t \ {c}
    <3>1. c \notin done /\ done \union {c} = t /\ QueuesSpread(s, old, done)
      BY <2>5
    <3> HIDE DEF old, done
    <3>2. QueuesSpread(JoinPacked(s, c, PackChannel(s, c)), old, done \union {c})
      BY <2>1, <2>2, <2>3, <3>1, JoinPackedSpreads
    <3> QED BY <3>1, <3>2
  <2> QED BY <1>6, <1>7, <2>1, <2>4, <2>6 DEF c
<1>13. Keeps(loop, {}, start)
  BY <1>5, <1>7, <1>15
<1>14. Keeps(loop, S, iter[S])
  <2> HIDE DEF pick
  <2> QED BY <1>3, <1>11, <1>12, <1>13, LoopKeeps
<1>16. PackingChannels(iter[S], first, old, lens) /\ QueuesSpread(iter[S], old, S)
  BY <1>7, <1>14
<1> QED BY <1>10, <1>16 DEF QueuesSpread

-----------------------------------------------------------------------------
(* What an application has sent so far *)

(* What sent_packets may remember of a packet. *)
Infos(lens) ==
    {i \in [type : {"ReliableMessages"}, channel : ChannelIds, ids : SUBSET Nat] :
        /\ Reliable(i.channel)
        /\ \A id \in i.ids :
             id + 1 \in DOMAIN lens[i.channel] /\ ~IsSliced(lens[i.channel][id + 1])}
    \union
    {i \in [type : {"ReliableSliceMessage"}, channel : ChannelIds, id : Nat, index : Nat] :
        /\ Reliable(i.channel)
        /\ i.id + 1 \in DOMAIN lens[i.channel] /\ IsSliced(lens[i.channel][i.id + 1])
        /\ i.index < NumSlices(lens[i.channel][i.id + 1])}
    \union [type : {"Ack"}, largest : Nat]
    \union [type : {"None"}]

(* The application has sent more. *)
Grown(new, old) ==
    DOMAIN old \subseteq DOMAIN new /\ \A i \in DOMAIN old : new[i] = old[i]

LEMMA GrownPackets ==
    ASSUME NEW c, NEW old, NEW new, Grown(new, old)
    PROVE  /\ QueueMessages(old) \subseteq QueueMessages(new)
           /\ PacketsOf(c, old) \subseteq PacketsOf(c, new)
<1>1. /\ QueueMessages(old) \subseteq QueueMessages(new)
      /\ SmallMessages(old) \subseteq SmallMessages(new)
      /\ SmallUnreliables(old) \subseteq SmallUnreliables(new)
  BY DEF QueueMessages, SmallMessages, SmallUnreliables, Grown
<1>2. /\ Seq(SmallMessages(old)) \subseteq Seq(SmallMessages(new))
      /\ Seq(SmallUnreliables(old)) \subseteq Seq(SmallUnreliables(new))
  BY <1>1, SeqMonotonic
<1>3. ReliablePackets(c, old) \subseteq ReliablePackets(c, new)
  BY <1>2 DEF ReliablePackets, Grown
<1>4. UnreliablePackets(c, old) \subseteq UnreliablePackets(c, new)
  BY <1>2 DEF UnreliablePackets, Grown
<1> QED BY <1>1, <1>3, <1>4 DEF PacketsOf

LEMMA GrownInfos ==
    ASSUME NEW old, NEW new, \A c \in ChannelIds : Grown(new[c], old[c])
    PROVE  /\ DataPackets(old) \subseteq DataPackets(new)
           /\ Infos(old) \subseteq Infos(new)
<1>1. DataPackets(old) \subseteq DataPackets(new)
  <2> SUFFICES ASSUME NEW k \in DataPackets(old) PROVE k \in DataPackets(new)
    OBVIOUS
  <2>1. PICK c \in ChannelIds : k \in PacketsOf(c, old[c])
    BY DEF DataPackets
  <2>2. k \in PacketsOf(c, new[c])
    BY <2>1, GrownPackets
  <2> QED BY <2>2 DEF DataPackets
<1>2. Infos(old) \subseteq Infos(new)
  BY DEF Infos, Grown
<1> QED BY <1>1, <1>2

LEMMA AppendGrows ==
    ASSUME NEW lens \in LengthSeqs, NEW len \in Nat
    PROVE  /\ Append(lens, len) \in LengthSeqs
           /\ Grown(Append(lens, len), lens)
           /\ Len(lens) \in Nat /\ Len(Append(lens, len)) = Len(lens) + 1
           /\ DOMAIN lens = 1 .. Len(lens)
           /\ DOMAIN Append(lens, len) = 1 .. (Len(lens) + 1)
           /\ Append(lens, len)[Len(lens) + 1] = len
<1>1. /\ Append(lens, len) \in LengthSeqs /\ Len(lens) \in Nat
      /\ Len(Append(lens, len)) = Len(lens) + 1
      /\ \A i \in 1 .. Len(lens) : Append(lens, len)[i] = lens[i]
      /\ DOMAIN lens = 1 .. Len(lens) /\ Append(lens, len)[Len(lens) + 1] = len
  BY AppendProperties, LenProperties DEF LengthSeqs
<1>2. DOMAIN Append(lens, len) = 1 .. (Len(lens) + 1)
  BY <1>1, LenProperties DEF LengthSeqs
<1> QED BY <1>1, <1>2 DEF Grown

LEMMA GrownReflexive ==
    ASSUME NEW lens PROVE Grown(lens, lens)
BY DEF Grown

(* send_message *)
LEMMA SendReliableKeeps ==
    ASSUME NEW ch, NEW lens \in LengthSeqs, NEW len \in Nat, SendReliableOK(ch, lens)
    PROVE  SendReliableOK(SendReliable(ch, len), Append(lens, len))
<1> DEFINE new == SendReliable(ch, len)
           m == UnackedMessage(len)
           more == Append(lens, len)
<1>1. /\ Grown(more, lens) /\ Len(lens) \in Nat /\ Len(more) = Len(lens) + 1
      /\ DOMAIN lens = 1 .. Len(lens) /\ DOMAIN more = 1 .. (Len(lens) + 1)
      /\ more[Len(lens) + 1] = len
  BY AppendGrows
<1>2. DOMAIN m = {"len", "acked", "next_slice", "age"} /\ m.len = len /\ m.acked = {} /\ m.next_slice = 0
  BY DEF UnackedMessage
<1>3. /\ DOMAIN new = {"unacked", "next_id", "memory"}
      /\ new.next_id = ch.next_id + 1
      /\ new.unacked = With(ch.unacked, ch.next_id, m)
  BY DEF SendReliable
<1> HIDE DEF new, m, more
<1>4. ch.next_id = Len(lens)
  BY DEF SendReliableOK
<1>5. /\ DOMAIN new.unacked = DOMAIN ch.unacked \union {Len(lens)}
      /\ new.unacked[Len(lens)] = m
      /\ \A id \in DOMAIN ch.unacked : id # Len(lens) => new.unacked[id] = ch.unacked[id]
  BY <1>3, <1>4 DEF With
<1>6. \A id \in DOMAIN ch.unacked : id # Len(lens) /\ id + 1 \in DOMAIN lens
  BY <1>1 DEF SendReliableOK
<1>7. ASSUME NEW id \in DOMAIN new.unacked
      PROVE  /\ id \in Nat /\ id + 1 \in DOMAIN more
             /\ DOMAIN new.unacked[id] = {"len", "acked", "next_slice", "age"}
             /\ new.unacked[id].len = more[id + 1]
             /\ new.unacked[id].next_slice \in Nat
             /\ new.unacked[id].acked \subseteq 0 .. (NumSlices(more[id + 1]) - 1)
             /\ ~IsSliced(more[id + 1]) => new.unacked[id].acked = {}
  <2>1. CASE id = Len(lens)
    BY <1>1, <1>2, <1>5, <2>1
  <2>2. CASE id \in DOMAIN ch.unacked
    <3>1. /\ new.unacked[id] = ch.unacked[id] /\ id + 1 \in DOMAIN lens /\ id + 1 \in DOMAIN more
          /\ more[id + 1] = lens[id + 1]
      BY <1>1, <1>5, <1>6, <2>2 DEF Grown
    <3> QED BY <2>2, <3>1 DEF SendReliableOK
  <2> QED BY <1>5, <2>1, <2>2
<1>8. SendReliableOK(new, more)
  BY <1>1, <1>3, <1>4, <1>7 DEF SendReliableOK
<1> QED BY <1>8 DEF new, more

LEMMA SendUnreliableKeeps ==
    ASSUME NEW ch, NEW lens \in LengthSeqs, NEW len \in Nat, NEW max,
           SendUnreliableOK(ch, lens)
    PROVE  SendUnreliableOK(SendUnreliable(ch, Len(lens), len, max), Append(lens, len))
<1> DEFINE m == [data |-> Len(lens), len |-> len]
           more == Append(lens, len)
           new == [ch EXCEPT !.queue = Append(@, m), !.memory = @ + len]
<1>1. /\ Grown(more, lens) /\ Len(lens) \in Nat
      /\ DOMAIN more = 1 .. (Len(lens) + 1) /\ more[Len(lens) + 1] = len
  BY AppendGrows
<1> HIDE DEF more
<1>2. m \in QueueMessages(more)
  BY <1>1 DEF QueueMessages
<1> HIDE DEF m
<1>3. ch.queue \in Seq(QueueMessages(more))
  <2>1. QueueMessages(lens) \subseteq QueueMessages(more)
    BY <1>1, GrownPackets
  <2>2. ch.queue \in Seq(QueueMessages(lens))
    BY DEF SendUnreliableOK
  <2> QED BY <2>1, <2>2, SeqMonotonic
<1>4. Append(ch.queue, m) \in Seq(QueueMessages(more))
  BY <1>2, <1>3, AppendProperties
<1>5. SendUnreliableOK(ch, more)
  BY <1>3 DEF SendUnreliableOK
<1>6. SendUnreliableOK(new, more)
  BY <1>4 DEF SendUnreliableOK
<1>7. SendUnreliable(ch, Len(lens), len, max) = IF ch.memory + len > max THEN ch ELSE new
  BY DEF SendUnreliable, m
<1> HIDE DEF new
<1> QED BY <1>5, <1>6, <1>7 DEF more

-----------------------------------------------------------------------------
(* The acknowledgements that an Ack packet brings *)

LEMMA WithoutFacts ==
    ASSUME NEW f, NEW x
    PROVE  /\ DOMAIN Without(f, x) = DOMAIN f \ {x}
           /\ \A y \in DOMAIN f : y # x => Without(f, x)[y] = f[y]
BY DEF Without

LEMMA DropUnacked ==
    ASSUME NEW ch, NEW lens, NEW arrived, NEW stored, Ticked(ch, lens, arrived, stored),
           NEW id, id \in arrived, NEW memory
    PROVE  Ticked([ch EXCEPT !.unacked = Without(@, id), !.memory = memory], lens, arrived, stored)
<1> DEFINE new == [ch EXCEPT !.unacked = Without(@, id), !.memory = memory]
<1>1. /\ DOMAIN new = DOMAIN ch /\ new.next_id = ch.next_id
      /\ new.unacked = Without(ch.unacked, id)
  BY DEF Ticked, SendReliableOK
<1> HIDE DEF new
<1>2. /\ DOMAIN new.unacked = DOMAIN ch.unacked \ {id}
      /\ \A y \in DOMAIN new.unacked : new.unacked[y] = ch.unacked[y]
  <2> DEFINE u == ch.unacked
  <2> HIDE DEF u
  <2>1. /\ DOMAIN Without(u, id) = DOMAIN u \ {id}
        /\ \A y \in DOMAIN u : y # id => Without(u, id)[y] = u[y]
    BY WithoutFacts
  <2>2. new.unacked = Without(u, id)
    BY <1>1 DEF u
  <2> QED BY <2>1, <2>2 DEF u
<1>3. SendReliableOK(new, lens)
  BY <1>1, <1>2 DEF Ticked, SendReliableOK
<1>4. Ticked(new, lens, arrived, stored)
  BY <1>1, <1>2, <1>3 DEF Ticked
<1> QED BY <1>4 DEF new

(* The length of a dropped message leaves the counter with it. *)
LEMMA DropExact ==
    ASSUME NEW ch, DOMAIN ch = {"unacked", "next_id", "memory"}, NEW id \in DOMAIN ch.unacked,
           NEW memory, memory = ch.memory - ch.unacked[id].len
    PROVE  KeepsUnacked([ch EXCEPT !.unacked = Without(@, id), !.memory = memory], ch)
<1> DEFINE u == ch.unacked
           w == UnackedLens(u)
           new == [ch EXCEPT !.unacked = Without(@, id), !.memory = memory]
<1>1. new.unacked = Without(u, id) /\ new.memory = memory
  OBVIOUS
<1>2. UnackedLens(Without(u, id)) = Without(w, id) /\ id \in DOMAIN w /\ w[id] = u[id].len
  BY DEF UnackedLens, Without
<1> HIDE DEF new
<1>3. ASSUME NEW max \in Nat, UnackedExact(ch, max) PROVE UnackedExact(new, max)
  <2>1. Weighs(w) /\ ch.memory = SumFunction(w) /\ ch.memory <= max
    BY <1>3 DEF UnackedExact
  <2>2. memory = ch.memory - w[id]
    BY <1>2
  <2> HIDE DEF w
  <2>3. /\ Weighs(Without(w, id))
        /\ SumFunction(w) = SumFunction(Without(w, id)) + w[id]
        /\ {SumFunction(w), SumFunction(Without(w, id))} \subseteq Nat
    BY <1>2, <2>1, SumWithout
  <2>4. w[id] \in Nat
    BY <1>2, <2>1 DEF Weighs
  <2>5. memory = SumFunction(Without(w, id)) /\ memory <= max
    BY <2>1, <2>2, <2>3, <2>4
  <2> HIDE DEF u
  <2> QED BY <1>1, <1>2, <2>3, <2>5 DEF UnackedExact
<1> QED BY <1>3 DEF KeepsUnacked, new

LEMMA MessageAckKeeps ==
    ASSUME NEW ch, NEW lens, NEW arrived, NEW stored, Ticked(ch, lens, arrived, stored),
           NEW id, id \in arrived
    PROVE  /\ Ticked(ProcessMessageAck(ch, id), lens, arrived, stored)
           /\ KeepsUnacked(ProcessMessageAck(ch, id), ch)
<1> DEFINE memory == ch.memory - ch.unacked[id].len
<1>1. ProcessMessageAck(ch, id) =
        IF id \in DOMAIN ch.unacked
        THEN [ch EXCEPT !.unacked = Without(@, id), !.memory = memory] ELSE ch
  BY DEF ProcessMessageAck
<1>3. id \in DOMAIN ch.unacked =>
        KeepsUnacked([ch EXCEPT !.unacked = Without(@, id), !.memory = memory], ch)
  BY DropExact DEF Ticked, SendReliableOK
<1>4. KeepsUnacked(ch, ch)
  BY DEF KeepsUnacked
<1> HIDE DEF memory
<1>2. Ticked([ch EXCEPT !.unacked = Without(@, id), !.memory = memory], lens, arrived, stored)
  BY DropUnacked
<1> QED BY <1>1, <1>2, <1>3, <1>4

(* The last slice to be ticked off ends the message. *)
LEMMA SliceAckKeeps ==
    ASSUME NEW ch, NEW lens \in LengthSeqs, NEW arrived, NEW stored,
           Ticked(ch, lens, arrived, stored),
           NEW id \in Nat, id + 1 \in DOMAIN lens, IsSliced(lens[id + 1]),
           NEW i \in 0 .. (NumSlices(lens[id + 1]) - 1),
           id \in arrived \/ <<id, i>> \in stored,
           (\A j \in 0 .. (NumSlices(lens[id + 1]) - 1) : <<id, j>> \in stored) => id \in arrived
    PROVE  /\ Ticked(ProcessSliceMessageAck(ch, id, i), lens, arrived, stored)
           /\ KeepsUnacked(ProcessSliceMessageAck(ch, id, i), ch)
<1>1. CASE id \notin DOMAIN ch.unacked \/ i \in ch.unacked[id].acked
  BY <1>1 DEF ProcessSliceMessageAck, KeepsUnacked
<1>2. CASE id \in DOMAIN ch.unacked /\ i \notin ch.unacked[id].acked
  <2> DEFINE m == ch.unacked[id]
             acked == m.acked \union {i}
             n == NumSlices(lens[id + 1])
             memory == ch.memory - m.len
             dropped == [ch EXCEPT !.unacked = Without(@, id), !.memory = memory]
             ticked == [ch EXCEPT !.unacked[id].acked = acked]
  <2>1. m.len = lens[id + 1] /\ m.acked \subseteq 0 .. (n - 1)
    BY <1>2 DEF Ticked, SendReliableOK
  <2>2. lens[id + 1] \in Nat
    BY ElementOfSeq, LenProperties DEF LengthSeqs
  <2>3. n \in Nat /\ n >= 2
    BY <2>2, SliceCount
  <2>4. ProcessSliceMessageAck(ch, id, i) =
          IF Cardinality(acked) = n THEN dropped ELSE ticked
    BY <1>2, <2>1 DEF ProcessSliceMessageAck
  <2>5. acked \subseteq 0 .. (n - 1)
    BY <2>1
  <2>6. \A j \in acked : id \in arrived \/ <<id, j>> \in stored
    BY <1>2 DEF Ticked
  <2>9. KeepsUnacked(dropped, ch)
    <3>1. DOMAIN ch = {"unacked", "next_id", "memory"}
      BY DEF Ticked, SendReliableOK
    <3> QED BY <1>2, <3>1, DropExact
  <2>7. CASE Cardinality(acked) = n
    <3> HIDE DEF n, acked, memory
    <3>1. IsFiniteSet(0 .. (n - 1)) /\ Cardinality(0 .. (n - 1)) = n
      <4>1. 0 \in Int /\ n - 1 \in Int /\ ~(0 > n - 1) /\ (n - 1) - 0 + 1 = n
        BY <2>3
      <4>2. IsFiniteSet(0 .. (n - 1)) /\ Cardinality(0 .. (n - 1)) = (n - 1) - 0 + 1
        BY <4>1, FS_Interval
      <4> QED BY <4>1, <4>2
    <3>2. acked = 0 .. (n - 1)
      BY <2>5, <2>7, <3>1, FS_Subset
    <3>3. id \in arrived
      BY <2>6, <3>2 DEF n
    <3>4. Ticked(dropped, lens, arrived, stored)
      BY <3>3, DropUnacked
    <3> QED BY <2>4, <2>7, <2>9, <3>4
  <2>8. CASE Cardinality(acked) # n
    <3> DEFINE touched == [m EXCEPT !.acked = acked]
    <3>1. /\ DOMAIN touched = {"len", "acked", "next_slice", "age"}
          /\ touched.len = m.len /\ touched.next_slice = m.next_slice /\ touched.acked = acked
      BY <1>2 DEF Ticked, SendReliableOK
    <3>2. ticked = [ch EXCEPT !.unacked = [@ EXCEPT ![id] = touched]]
      OBVIOUS
    <3> HIDE DEF acked, touched, ticked, n
    <3>3. /\ DOMAIN ticked = DOMAIN ch /\ ticked.next_id = ch.next_id
          /\ ticked.memory = ch.memory
          /\ DOMAIN ticked.unacked = DOMAIN ch.unacked
          /\ ticked.unacked[id] = touched
          /\ \A y \in DOMAIN ch.unacked : y # id => ticked.unacked[y] = ch.unacked[y]
      BY <1>2, <3>2 DEF Ticked, SendReliableOK
    <3>4. SendReliableOK(ticked, lens)
      BY <1>2, <2>1, <2>5, <3>1, <3>3 DEF Ticked, SendReliableOK, n
    <3>5. Ticked(ticked, lens, arrived, stored)
      BY <2>6, <3>1, <3>3, <3>4 DEF Ticked
    <3>6. UnackedLens(ticked.unacked) = UnackedLens(ch.unacked)
      <4>1. \A y \in DOMAIN ch.unacked : ticked.unacked[y].len = ch.unacked[y].len
        BY <3>1, <3>3
      <4> QED BY <3>3, <4>1 DEF UnackedLens
    <3>7. KeepsUnacked(ticked, ch)
      BY <3>3, <3>6 DEF KeepsUnacked, UnackedExact
    <3> QED BY <2>4, <2>8, <3>5, <3>7
  <2> QED BY <2>7, <2>8
<1> QED BY <1>1, <1>2

LEMMA UnackedPart ==
    ASSUME NEW ch
    PROVE  /\ \A id, i : <<id, i>> \in UnackedParts(ch) <=>
                /\ id \in DOMAIN ch.unacked
                /\ i \in Parts(ch.unacked[id].len) /\ i \notin ch.unacked[id].acked
           /\ \A x \in UnackedParts(ch) : x = <<x[1], x[2]>>
<1>1. ASSUME NEW x \in UnackedParts(ch)
      PROVE  \E id \in DOMAIN ch.unacked :
               \E i \in Parts(ch.unacked[id].len) \ ch.unacked[id].acked : x = <<id, i>>
  BY DEF UnackedParts
<1>2. ASSUME NEW id \in DOMAIN ch.unacked, NEW i \in Parts(ch.unacked[id].len) \ ch.unacked[id].acked
      PROVE  <<id, i>> \in UnackedParts(ch)
  BY DEF UnackedParts
<1> QED BY <1>1, <1>2

(* The parts to deliver of two sending halves, compared part by part. *)
LEMMA UnackedWithout ==
    ASSUME NEW new, NEW ch, NEW gone,
           \A id, i : <<id, i>> \in UnackedParts(new) <=>
                        <<id, i>> \in UnackedParts(ch) /\ <<id, i>> \notin gone
    PROVE  UnackedParts(new) = UnackedParts(ch) \ gone
<1>1. ASSUME NEW x \in UnackedParts(new) PROVE x \in UnackedParts(ch) \ gone
  BY UnackedPart
<1>2. ASSUME NEW x \in UnackedParts(ch) \ gone PROVE x \in UnackedParts(new)
  BY UnackedPart
<1> QED BY <1>1, <1>2

LEMMA MessageAckLeaves ==
    ASSUME NEW ch, NEW lens, SendReliableOK(ch, lens), NEW id, ~IsSliced(lens[id + 1])
    PROVE  UnackedParts(ProcessMessageAck(ch, id)) = UnackedParts(ch) \ {<<id, 0>>}
<1> DEFINE memory == ch.memory - ch.unacked[id].len
           new == ProcessMessageAck(ch, id)
           u == ch.unacked
<1>1. CASE id \notin DOMAIN u
  <2>1. new = ch
    BY <1>1 DEF ProcessMessageAck
  <2>2. <<id, 0>> \notin UnackedParts(ch)
    BY <1>1, UnackedPart
  <2> QED BY <2>1, <2>2
<1>2. CASE id \in DOMAIN u
  <2>1. new = [ch EXCEPT !.unacked = Without(@, id), !.memory = memory]
    BY <1>2 DEF ProcessMessageAck
  <2> HIDE DEF memory
  <2>2. new.unacked = Without(u, id)
    BY <2>1 DEF SendReliableOK
  <2> HIDE DEF new, u
  <2>3. /\ DOMAIN new.unacked = DOMAIN u \ {id}
        /\ \A y \in DOMAIN u : y # id => new.unacked[y] = u[y]
    BY <2>2 DEF Without
  <2>4. u[id].len = lens[id + 1] /\ Parts(u[id].len) = {0}
    BY <1>2 DEF SendReliableOK, Parts, u
  <2>5. ASSUME NEW x, NEW i
        PROVE  <<x, i>> \in UnackedParts(new) <=>
                 <<x, i>> \in UnackedParts(ch) /\ <<x, i>> \notin {<<id, 0>>}
    <3>1. <<x, i>> \in UnackedParts(new) <=>
            x \in DOMAIN new.unacked /\ i \in Parts(new.unacked[x].len) /\ i \notin new.unacked[x].acked
      BY UnackedPart
    <3>2. <<x, i>> \in UnackedParts(ch) <=>
            x \in DOMAIN u /\ i \in Parts(u[x].len) /\ i \notin u[x].acked
      BY UnackedPart DEF u
    <3> QED BY <2>3, <2>4, <3>1, <3>2
  <2>6. UnackedParts(new) = UnackedParts(ch) \ {<<id, 0>>}
    BY <2>5, UnackedWithout
  <2> QED BY <2>6 DEF new
<1> QED BY <1>1, <1>2

LEMMA SliceAckLeaves ==
    ASSUME NEW ch, NEW lens \in LengthSeqs, SendReliableOK(ch, lens),
           NEW id \in Nat, id + 1 \in DOMAIN lens, IsSliced(lens[id + 1]),
           NEW i \in 0 .. (NumSlices(lens[id + 1]) - 1)
    PROVE  UnackedParts(ProcessSliceMessageAck(ch, id, i)) = UnackedParts(ch) \ {<<id, i>>}
<1> DEFINE new == ProcessSliceMessageAck(ch, id, i)
           u == ch.unacked
           m == u[id]
           acked == m.acked \union {i}
           n == NumSlices(lens[id + 1])
<1>1. CASE id \notin DOMAIN u \/ i \in u[id].acked
  <2>1. new = ch
    BY <1>1 DEF ProcessSliceMessageAck
  <2>2. <<id, i>> \notin UnackedParts(ch)
    BY <1>1, UnackedPart
  <2> QED BY <2>1, <2>2
<1>2. CASE id \in DOMAIN u /\ i \notin m.acked
  <2>1. m.len = lens[id + 1] /\ m.acked \subseteq 0 .. (n - 1) /\ DOMAIN ch = {"unacked", "next_id", "memory"}
        /\ DOMAIN m = {"len", "acked", "next_slice", "age"}
    BY <1>2 DEF SendReliableOK
  <2>2. Parts(m.len) = 0 .. (n - 1)
    BY <2>1 DEF Parts
  <2>3. lens[id + 1] \in Nat
    BY ElementOfSeq, LenProperties DEF LengthSeqs
  <2>4. n \in Nat /\ n >= 2
    BY <2>3, SliceCount
  <2>5. acked \subseteq 0 .. (n - 1)
    BY <2>1
  <2>6. CASE Cardinality(acked) = n
    <3> DEFINE memory == ch.memory - m.len
    <3>1. new = [ch EXCEPT !.unacked = Without(@, id), !.memory = memory]
      BY <1>2, <2>1, <2>6 DEF ProcessSliceMessageAck
    <3> HIDE DEF memory
    <3>2. new.unacked = Without(u, id)
      BY <2>1, <3>1
    <3>3. acked = 0 .. (n - 1)
      <4> HIDE DEF n, acked
      <4>1. 0 \in Int /\ n - 1 \in Int /\ ~(0 > n - 1) /\ (n - 1) - 0 + 1 = n
        BY <2>4
      <4>2. IsFiniteSet(0 .. (n - 1)) /\ Cardinality(0 .. (n - 1)) = (n - 1) - 0 + 1
        BY <4>1, FS_Interval
      <4> QED BY <2>5, <2>6, <4>1, <4>2, FS_Subset
    <3> HIDE DEF new, u
    <3>4. /\ DOMAIN new.unacked = DOMAIN u \ {id}
          /\ \A y \in DOMAIN u : y # id => new.unacked[y] = u[y]
      BY <3>2 DEF Without
    <3>5. ASSUME NEW x, NEW j
          PROVE  <<x, j>> \in UnackedParts(new) <=>
                   <<x, j>> \in UnackedParts(ch) /\ <<x, j>> \notin {<<id, i>>}
      <4>1. <<x, j>> \in UnackedParts(new) <=>
              x \in DOMAIN new.unacked /\ j \in Parts(new.unacked[x].len) /\ j \notin new.unacked[x].acked
        BY UnackedPart
      <4>2. <<x, j>> \in UnackedParts(ch) <=>
              x \in DOMAIN u /\ j \in Parts(u[x].len) /\ j \notin u[x].acked
        BY UnackedPart DEF u
      <4>3. \A k \in Parts(m.len) : k = i \/ k \in m.acked
        BY <2>2, <3>3
      <4> QED BY <1>2, <3>4, <4>1, <4>2, <4>3
    <3>6. UnackedParts(new) = UnackedParts(ch) \ {<<id, i>>}
      BY <3>5, UnackedWithout
    <3> QED BY <3>6 DEF new
  <2>7. CASE Cardinality(acked) # n
    <3> DEFINE touched == [m EXCEPT !.acked = acked]
    <3>1. new = [ch EXCEPT !.unacked = [@ EXCEPT ![id] = touched]]
      BY <1>2, <2>1, <2>7 DEF ProcessSliceMessageAck
    <3>2. touched.len = m.len /\ touched.acked = acked
      BY <2>1
    <3> HIDE DEF touched, acked
    <3>3. new.unacked = [u EXCEPT ![id] = touched]
      BY <2>1, <3>1
    <3> HIDE DEF new, u
    <3>4. /\ DOMAIN new.unacked = DOMAIN u /\ new.unacked[id] = touched
          /\ \A y \in DOMAIN u : y # id => new.unacked[y] = u[y]
      BY <1>2, <3>3
    <3>5. ASSUME NEW x, NEW j
          PROVE  <<x, j>> \in UnackedParts(new) <=>
                   <<x, j>> \in UnackedParts(ch) /\ <<x, j>> \notin {<<id, i>>}
      <4>1. <<x, j>> \in UnackedParts(new) <=>
              x \in DOMAIN new.unacked /\ j \in Parts(new.unacked[x].len) /\ j \notin new.unacked[x].acked
        BY UnackedPart
      <4>2. <<x, j>> \in UnackedParts(ch) <=>
              x \in DOMAIN u /\ j \in Parts(u[x].len) /\ j \notin u[x].acked
        BY UnackedPart DEF u
      <4>3. touched.len = m.len /\ \A k : k \in touched.acked <=> k \in m.acked \/ k = i
        BY <3>2 DEF acked
      <4> QED BY <1>2, <3>4, <4>1, <4>2, <4>3
    <3>6. UnackedParts(new) = UnackedParts(ch) \ {<<id, i>>}
      BY <3>5, UnackedWithout
    <3> QED BY <3>6 DEF new
  <2> QED BY <2>6, <2>7
<1> QED BY <1>1, <1>2

(* The loop over the messages of an acked packet. *)
LEMMA MessageAcksKeep ==
    ASSUME NEW ch, NEW lens, NEW arrived, NEW stored, Ticked(ch, lens, arrived, stored),
           NEW ids, IsFiniteSet(ids), ids \subseteq arrived,
           \A id \in ids : ~IsSliced(lens[id + 1])
    PROVE  LET new == FoldSet(LAMBDA id, st : ProcessMessageAck(st, id), ch, ids)
           IN  /\ Ticked(new, lens, arrived, stored) /\ KeepsUnacked(new, ch)
               /\ UnackedParts(new) = UnackedParts(ch) \ {<<id, 0>> : id \in ids}
<1> DEFINE loop == [of |-> "acked messages", lens |-> lens, arrived |-> arrived, stored |-> stored,
                    old |-> ch]
           Some(t) == CHOOSE x \in t : TRUE
           pick == [t \in SUBSET ids |-> Some(t)]
           Runs(f) == f = [t \in SUBSET ids |-> IF t = {} THEN ch
                             ELSE ProcessMessageAck(f[t \ {Some(t)}], Some(t))]
           iter == CHOOSE f : Runs(f)
<1>1. Picks(pick, ids)
  BY DEF Picks
<1> HIDE DEF Some
<1>2. \A s, e : Body(loop, s, e) = ProcessMessageAck(s, e)
  BY DEF Body
<1>3. \A done, s : Keeps(loop, done, s) <=>
          /\ Ticked(s, lens, arrived, stored) /\ KeepsUnacked(s, ch)
          /\ UnackedParts(s) = UnackedParts(ch) \ {<<id, 0>> : id \in done}
  BY DEF Keeps
<1> HIDE DEF loop
<1>4. \A f : Computes(f, loop, ch, ids, pick) <=> Runs(f)
  BY <1>2 DEF Computes
<1>5. Runs(iter)
  <2>1. \E f : Runs(f)
    BY <1>1, <1>4, LoopDefined
  <2> HIDE DEF Runs
  <2> QED BY <2>1
<1>6. FoldSet(LAMBDA id, st : ProcessMessageAck(st, id), ch, ids) = iter[ids]
  BY DEF FoldSet, MapThenFoldSet, Some
<1> HIDE DEF iter
<1>7. Computes(iter, loop, ch, ids, pick)
  BY <1>4, <1>5
<1>8. ASSUME NEW t \in SUBSET ids, t # {}, NEW s, Keeps(loop, t \ {pick[t]}, s)
      PROVE  Keeps(loop, t, Body(loop, s, pick[t]))
  <2>1. pick[t] \in arrived /\ pick[t] \in t /\ ~IsSliced(lens[pick[t] + 1])
    BY <1>1, <1>8 DEF Picks
  <2> HIDE DEF pick
  <2> DEFINE new == ProcessMessageAck(s, pick[t])
  <2>2. /\ Ticked(s, lens, arrived, stored) /\ KeepsUnacked(s, ch)
        /\ UnackedParts(s) = UnackedParts(ch) \ {<<id, 0>> : id \in t \ {pick[t]}}
    BY <1>3, <1>8
  <2>6. UnackedParts(new) = UnackedParts(ch) \ {<<id, 0>> : id \in t}
    <3>1. UnackedParts(new) = UnackedParts(s) \ {<<pick[t], 0>>}
      BY <2>1, <2>2, MessageAckLeaves DEF Ticked
    <3> QED BY <2>1, <2>2, <3>1
  <2>3. Ticked(new, lens, arrived, stored) /\ KeepsUnacked(new, s)
    BY <2>1, <2>2, MessageAckKeeps
  <2> HIDE DEF new
  <2>4. KeepsUnacked(new, ch)
    BY <2>2, <2>3 DEF KeepsUnacked
  <2>5. Keeps(loop, t, new)
    BY <1>3, <2>3, <2>4, <2>6
  <2> QED BY <1>2, <2>5 DEF new
<1>9. Keeps(loop, {}, ch)
  <2>1. UnackedParts(ch) = UnackedParts(ch) \ {<<id, 0>> : id \in {}}
    OBVIOUS
  <2> QED BY <1>3, <2>1 DEF KeepsUnacked
<1>10. Keeps(loop, ids, iter[ids])
  <2> HIDE DEF pick
  <2> QED BY <1>1, <1>7, <1>8, <1>9, LoopKeeps
<1>11. /\ Ticked(iter[ids], lens, arrived, stored) /\ KeepsUnacked(iter[ids], ch)
       /\ UnackedParts(iter[ids]) = UnackedParts(ch) \ {<<id, 0>> : id \in ids}
  BY <1>3, <1>10
<1> HIDE DEF Runs
<1> QED BY <1>6, <1>11

(* The parts that an info stands for are among arrived and stored. *)
InfoAmong(info, arrived, stored) ==
    /\ info.type = "ReliableMessages" => info.ids \subseteq arrived[info.channel]
    /\ info.type = "ReliableSliceMessage" =>
         info.id \in arrived[info.channel] \/ <<info.id, info.index>> \in stored[info.channel]

(* A message of which every slice is there has arrived. *)
WholeIsArrived(lens, arrived, stored) ==
    \A c \in ChannelIds, id \in Nat :
        /\ Reliable(c) /\ id + 1 \in DOMAIN lens[c] /\ IsSliced(lens[c][id + 1])
        /\ \A j \in 0 .. (NumSlices(lens[c][id + 1]) - 1) : <<id, j>> \in stored[c]
        => id \in arrived[c]

(* A channel of the sender has changed; the others and the ranges have not. *)
LEMMA AckingChannel ==
    ASSUME NEW st, NEW old, NEW lens, NEW arrived, NEW stored, NEW covered,
           Acking(st, old, lens, arrived, stored, covered),
           NEW c \in ChannelIds, Reliable(c), NEW ch, Ticked(ch, lens[c], arrived[c], stored[c]),
           KeepsUnacked(ch, st.send[c])
    PROVE  Acking([st EXCEPT !.send[c] = ch], old, lens, arrived, stored, covered)
<1> DEFINE chans == [st.send EXCEPT ![c] = ch]
           new == [st EXCEPT !.send = chans]
<1>1. DOMAIN new = DOMAIN st /\ new.send = chans /\ new.pending_acks = st.pending_acks
  BY DEF Acking
<1>2. /\ DOMAIN chans = ChannelIds /\ chans[c] = ch
      /\ \A d \in ChannelIds : d # c => chans[d] = st.send[d]
  BY DEF Acking
<1>3. new = [st EXCEPT !.send[c] = ch]
  OBVIOUS
<1> HIDE DEF new, chans
<1>5. KeepsUnacked(ch, old[c])
  <2>1. KeepsUnacked(st.send[c], old[c])
    BY DEF Acking
  <2> QED BY <2>1 DEF KeepsUnacked
<1>4. Acking(new, old, lens, arrived, stored, covered)
  BY <1>1, <1>2, <1>5 DEF Acking
<1> QED BY <1>3, <1>4

(* What one acked packet takes off the lists of the channels. *)
LeavesOne(new, st, info) ==
    \A c \in ChannelIds : Reliable(c) =>
        UnackedParts(new.send[c]) = UnackedParts(st.send[c]) \ PartsOfInfo(info, c)

LEMMA LeavesChannel ==
    ASSUME NEW st, DOMAIN st = {"send", "pending_acks"}, DOMAIN st.send = ChannelIds,
           NEW info, NEW c \in ChannelIds, NEW ch,
           UnackedParts(ch) = UnackedParts(st.send[c]) \ PartsOfInfo(info, c),
           \A d \in ChannelIds : d # c => PartsOfInfo(info, d) = {}
    PROVE  /\ LeavesOne([st EXCEPT !.send[c] = ch], st, info)
           /\ [st EXCEPT !.send[c] = ch].pending_acks = st.pending_acks
<1> DEFINE new == [st EXCEPT !.send[c] = ch]
<1>1. /\ new.send[c] = ch /\ new.pending_acks = st.pending_acks
      /\ \A d \in ChannelIds : d # c => new.send[d] = st.send[d]
  OBVIOUS
<1> HIDE DEF new
<1>2. LeavesOne(new, st, info)
  BY <1>1 DEF LeavesOne
<1> QED BY <1>1, <1>2 DEF new

LEMMA AckPacketKeeps ==
    ASSUME NEW lens \in [ChannelIds -> LengthSeqs],
           NEW st, NEW old, NEW arrived, NEW stored, NEW covered,
           Acking(st, old, lens, arrived, stored, covered),
           WholeIsArrived(lens, arrived, stored),
           NEW info \in Infos(lens), InfoAmong(info, arrived, stored)
    PROVE  /\ Acking(AckPacket(st, info), old, lens, arrived, stored, covered)
           /\ LeavesOne(AckPacket(st, info), st, info)
           /\ AckPacket(st, info).pending_acks =
                IF info.type = "Ack" THEN AckedLargest(st.pending_acks, info.largest)
                ELSE st.pending_acks
<1>6. DOMAIN st = {"send", "pending_acks"} /\ DOMAIN st.send = ChannelIds
  BY DEF Acking
<1>1. CASE info.type = "ReliableMessages"
  <2> DEFINE c == info.channel
             ids == info.ids
             ch == FoldSet(LAMBDA id, s : ProcessMessageAck(s, id), st.send[c], ids)
  <2>1. /\ c \in ChannelIds /\ Reliable(c) /\ ids \subseteq Nat
        /\ \A id \in ids : id + 1 \in DOMAIN lens[c] /\ ~IsSliced(lens[c][id + 1])
    BY <1>1 DEF Infos
  <2>2. AckPacket(st, info) = [st EXCEPT !.send[c] = ch]
    BY <1>1 DEF AckPacket
  <2>3. IsFiniteSet(ids)
    <3>1. Len(lens[c]) \in Nat /\ DOMAIN lens[c] = 1 .. Len(lens[c])
      BY <2>1, LenProperties DEF LengthSeqs
    <3>2. ids \in SUBSET (0 .. Len(lens[c]))
      BY <2>1, <3>1
    <3> HIDE DEF ids, c
    <3> QED BY <3>1, <3>2, MaxPicks
  <2>4. Ticked(st.send[c], lens[c], arrived[c], stored[c])
    BY <2>1 DEF Acking
  <2>5. ids \subseteq arrived[c]
    BY <1>1 DEF InfoAmong
  <2>6. /\ Ticked(ch, lens[c], arrived[c], stored[c]) /\ KeepsUnacked(ch, st.send[c])
        /\ UnackedParts(ch) = UnackedParts(st.send[c]) \ {<<id, 0>> : id \in ids}
    <3> HIDE DEF ids, c
    <3> QED BY <2>1, <2>3, <2>4, <2>5, MessageAcksKeep
  <2>7. /\ PartsOfInfo(info, c) = {<<id, 0>> : id \in ids}
        /\ \A d \in ChannelIds : d # c => PartsOfInfo(info, d) = {}
    BY <1>1 DEF PartsOfInfo
  <2> HIDE DEF ch, c, ids
  <2>8. LeavesOne([st EXCEPT !.send[c] = ch], st, info)
        /\ [st EXCEPT !.send[c] = ch].pending_acks = st.pending_acks
    BY <1>6, <2>1, <2>6, <2>7, LeavesChannel
  <2> QED BY <1>1, <2>1, <2>2, <2>6, <2>8, AckingChannel
<1>2. CASE info.type = "ReliableSliceMessage"
  <2> DEFINE c == info.channel
             id == info.id
             i == info.index
             ch == ProcessSliceMessageAck(st.send[c], id, i)
             n == NumSlices(lens[c][id + 1])
  <2>1. /\ c \in ChannelIds /\ Reliable(c) /\ id \in Nat /\ i \in Nat
        /\ id + 1 \in DOMAIN lens[c] /\ IsSliced(lens[c][id + 1]) /\ i < n
    BY <1>2 DEF Infos
  <2>2. AckPacket(st, info) = [st EXCEPT !.send[c] = ch]
    BY <1>2 DEF AckPacket
  <2>3. Ticked(st.send[c], lens[c], arrived[c], stored[c])
    BY <2>1 DEF Acking
  <2>4. id \in arrived[c] \/ <<id, i>> \in stored[c]
    BY <1>2 DEF InfoAmong
  <2> HIDE DEF c, id, i
  <2>5. lens[c] \in LengthSeqs /\ lens[c][id + 1] \in Nat
    BY <2>1, ElementOfSeq, LenProperties DEF LengthSeqs
  <2>6. i \in 0 .. (n - 1)
    <3>1. n \in Nat
      BY <2>1, <2>5, SliceCount
    <3> HIDE DEF n
    <3> QED BY <2>1, <3>1
  <2>7. (\A j \in 0 .. (n - 1) : <<id, j>> \in stored[c]) => id \in arrived[c]
    BY <2>1 DEF WholeIsArrived
  <2>8. Ticked(ch, lens[c], arrived[c], stored[c]) /\ KeepsUnacked(ch, st.send[c])
    BY <2>1, <2>3, <2>4, <2>5, <2>6, <2>7, SliceAckKeeps
  <2>9. UnackedParts(ch) = UnackedParts(st.send[c]) \ {<<id, i>>}
    BY <2>1, <2>3, <2>5, <2>6, SliceAckLeaves DEF Ticked
  <2>10. /\ PartsOfInfo(info, c) = {<<id, i>>}
         /\ \A d \in ChannelIds : d # c => PartsOfInfo(info, d) = {}
    BY <1>2 DEF PartsOfInfo, c, id, i
  <2> HIDE DEF ch
  <2>11. LeavesOne([st EXCEPT !.send[c] = ch], st, info)
         /\ [st EXCEPT !.send[c] = ch].pending_acks = st.pending_acks
    BY <1>6, <2>1, <2>9, <2>10, LeavesChannel
  <2> QED BY <1>2, <2>1, <2>2, <2>8, <2>11, AckingChannel
<1>3. CASE info.type = "Ack"
  <2> DEFINE l == info.largest
             acks == AckedLargest(st.pending_acks, l)
             new == [st EXCEPT !.pending_acks = acks]
  <2>1. l \in Nat
    BY <1>3 DEF Infos
  <2>2. AckPacket(st, info) = new
    BY <1>3 DEF AckPacket
  <2>3. st.pending_acks \in Seq(RangeRecord) /\ Separated(st.pending_acks)
    BY DEF Acking
  <2> HIDE DEF l
  <2>4. TrimsAcks(st.pending_acks, l, acks)
    BY <2>1, <2>3, AckedLargestTrims
  <2> HIDE DEF acks
  <2>5. acks \in Seq(RangeRecord) /\ Separated(acks) /\ Covered(acks) \subseteq Covered(st.pending_acks)
    BY <2>4, CoveredIff DEF TrimsAcks
  <2>6. DOMAIN new = DOMAIN st /\ new.send = st.send /\ new.pending_acks = acks
    BY DEF Acking
  <2> HIDE DEF new
  <2>7. Acking(new, old, lens, arrived, stored, covered)
    BY <2>5, <2>6 DEF Acking
  <2>8. LeavesOne(new, st, info)
    BY <1>3, <2>6 DEF LeavesOne, PartsOfInfo
  <2> QED BY <1>3, <2>2, <2>6, <2>7, <2>8 DEF acks, l
<1>4. CASE info.type = "None"
  BY <1>4 DEF AckPacket, LeavesOne, PartsOfInfo
<1>5. info.type \in {"ReliableMessages", "ReliableSliceMessage", "Ack", "None"}
  BY DEF Infos
<1> QED BY <1>1, <1>2, <1>3, <1>4, <1>5

(* The loop over the packets that an Ack packet acknowledges *)
AckLoop(p, wire, acks) ==
    MapThenFoldSet(LAMBDA s, st : AckPacket(st, sent_packets[p][s].info),
                   [send |-> send[p], pending_acks |-> acks],
                   LAMBDA s : s, Max, NewAcks(p, wire))

(* The largest sequences that acked Ack packets have acknowledged. *)
Largests(p, wire) ==
    {l \in Nat : \E s \in NewAcks(p, wire) :
        sent_packets[p][s].info.type = "Ack" /\ l = sent_packets[p][s].info.largest}

(* One more cut, at the larger of two sequences. *)
LEMMA CutAgain ==
    ASSUME NEW acks \in Seq(RangeRecord), Separated(acks), NEW cuts \in SUBSET Nat,
           NEW ranges, CutBy(ranges, acks, cuts), NEW l \in cuts
    PROVE  CutBy(AckedLargest(ranges, l), acks, cuts)
<1>1. CASE ranges = acks
  BY <1>1 DEF CutBy
<1>2. CASE ranges # acks
  <2>1. PICK a \in cuts : ranges = AckedLargest(acks, a)
    BY <1>2 DEF CutBy
  <2>2. AckedLargest(ranges, l) = AckedLargest(acks, IF a < l THEN l ELSE a)
    BY <2>1, AckedLargestTwice
  <2>3. (IF a < l THEN l ELSE a) \in cuts
    OBVIOUS
  <2> QED BY <2>2, <2>3 DEF CutBy
<1> QED BY <1>1, <1>2

(* What leaves with one more packet leaves with all of them. *)
LEMMA LeavesMore ==
    ASSUME NEW st, NEW new, NEW old, NEW packets, NEW done, NEW s,
           Leaves(st, old, packets, done \ {s}), s \in done, LeavesOne(new, st, packets[s].info)
    PROVE  Leaves(new, old, packets, done)
<1> SUFFICES ASSUME NEW c \in ChannelIds, Reliable(c)
             PROVE  UnackedParts(new.send[c]) = UnackedParts(old[c])
                        \ UNION {PartsOfInfo(packets[t].info, c) : t \in done}
  BY DEF Leaves
<1>1. UnackedParts(st.send[c]) =
        UnackedParts(old[c]) \ UNION {PartsOfInfo(packets[t].info, c) : t \in done \ {s}}
  BY DEF Leaves
<1>2. UnackedParts(new.send[c]) = UnackedParts(st.send[c]) \ PartsOfInfo(packets[s].info, c)
  BY DEF LeavesOne
<1> DEFINE parts(t) == PartsOfInfo(packets[t].info, c)
<1> HIDE DEF parts
<1>3. UNION {parts(t) : t \in done} = (UNION {parts(t) : t \in done \ {s}}) \union parts(s)
  OBVIOUS
<1>4. UnackedParts(st.send[c]) = UnackedParts(old[c]) \ UNION {parts(t) : t \in done \ {s}}
  BY <1>1 DEF parts
<1>5. UnackedParts(new.send[c]) = UnackedParts(st.send[c]) \ parts(s)
  BY <1>2 DEF parts
<1>6. UnackedParts(new.send[c]) = UnackedParts(old[c]) \ UNION {parts(t) : t \in done}
  BY <1>3, <1>4, <1>5
<1> QED BY <1>6 DEF parts

LEMMA AckLoopKeeps ==
    ASSUME NEW lens \in [ChannelIds -> LengthSeqs], NEW p, NEW wire,
           NEW acks \in Seq(RangeRecord), Separated(acks),
           NEW arrived, NEW stored, NEW covered,
           Acking([send |-> send[p], pending_acks |-> acks], send[p], lens, arrived, stored, covered),
           WholeIsArrived(lens, arrived, stored),
           NEW last \in Nat, \A s \in DOMAIN sent_packets[p] : s \in 0 .. last,
           \A s \in NewAcks(p, wire) : /\ sent_packets[p][s].info \in Infos(lens)
                                       /\ InfoAmong(sent_packets[p][s].info, arrived, stored)
    PROVE  /\ Acking(AckLoop(p, wire, acks), send[p], lens, arrived, stored, covered)
           /\ Leaves(AckLoop(p, wire, acks), send[p], sent_packets[p], NewAcks(p, wire))
           /\ CutBy(AckLoop(p, wire, acks).pending_acks, acks, Largests(p, wire))
<1> DEFINE S == NewAcks(p, wire)
           packets == sent_packets[p]
           old == send[p]
           cuts == Largests(p, wire)
           start == [send |-> old, pending_acks |-> acks]
           loop == [of |-> "acks", packets |-> packets, old |-> old, lens |-> lens,
                    arrived |-> arrived, stored |-> stored, covered |-> covered,
                    acks |-> acks, cuts |-> cuts]
           pick == [t \in SUBSET S |-> Max(t)]
           Runs(f) == f = [t \in SUBSET S |-> IF t = {} THEN start
                             ELSE AckPacket(f[t \ {Max(t)}], packets[Max(t)].info)]
           iter == CHOOSE f : Runs(f)
           Kept(done, s) == /\ Acking(s, old, lens, arrived, stored, covered)
                            /\ Leaves(s, old, packets, done)
                            /\ CutBy(s.pending_acks, acks, cuts)
<1>1. S \in SUBSET (0 .. last)
  BY DEF NewAcks
<1>2. \A s \in S : packets[s].info \in Infos(lens) /\ InfoAmong(packets[s].info, arrived, stored)
  OBVIOUS
<1>13. /\ cuts \in SUBSET Nat
       /\ \A s \in S : packets[s].info.type = "Ack" /\ packets[s].info.largest \in Nat
                         => packets[s].info.largest \in cuts
  BY DEF Largests
<1>14. Acking(start, old, lens, arrived, stored, covered)
  OBVIOUS
<1> HIDE DEF S, cuts, old
<1>3. IsFiniteSet(S) /\ Picks(pick, S)
  BY <1>1, MaxPicks
<1>4. \A s, e : Body(loop, s, e) = AckPacket(s, packets[e].info)
  BY DEF Body
<1>5. \A done, s : Keeps(loop, done, s) <=> Kept(done, s)
  BY DEF Keeps
<1> HIDE DEF loop
<1>6. \A f : Computes(f, loop, start, S, pick) <=> Runs(f)
  <2> HIDE DEF start, packets
  <2> QED BY <1>4 DEF Computes
<1>7. Runs(iter)
  <2>1. \E f : Runs(f)
    BY <1>3, <1>6, LoopDefined
  <2> HIDE DEF Runs
  <2> QED BY <2>1
<1>8. AckLoop(p, wire, acks) = iter[S]
  BY DEF AckLoop, MapThenFoldSet, S, old
<1> HIDE DEF iter
<1>9. Computes(iter, loop, start, S, pick)
  BY <1>6, <1>7
<1> HIDE DEF packets
<1>10. ASSUME NEW t \in SUBSET S, t # {}, NEW s, Keeps(loop, t \ {pick[t]}, s)
       PROVE  Keeps(loop, t, Body(loop, s, pick[t]))
  <2> DEFINE info == packets[pick[t]].info
             new == AckPacket(s, info)
  <2>1. pick[t] \in S /\ pick[t] \in t
    BY <1>3, <1>10 DEF Picks
  <2>2. info \in Infos(lens) /\ InfoAmong(info, arrived, stored)
    BY <1>2, <2>1
  <2>3. Kept(t \ {pick[t]}, s)
    BY <1>5, <1>10
  <2>4. Body(loop, s, pick[t]) = new
    BY <1>4
  <2>9. info.type = "Ack" /\ info.largest \in Nat => info.largest \in cuts
    BY <1>13, <2>1
  <2> HIDE DEF info
  <2>5. /\ Acking(new, old, lens, arrived, stored, covered) /\ LeavesOne(new, s, info)
        /\ new.pending_acks = IF info.type = "Ack" THEN AckedLargest(s.pending_acks, info.largest)
                              ELSE s.pending_acks
    BY <2>2, <2>3, AckPacketKeeps
  <2> HIDE DEF new
  <2>6. Leaves(new, old, packets, t)
    <3> HIDE DEF pick
    <3>1. Leaves(s, old, packets, t \ {pick[t]})
      BY <2>3
    <3> QED BY <2>1, <2>5, <3>1, LeavesMore DEF info
  <2>7. CutBy(new.pending_acks, acks, cuts)
    <3>1. CASE info.type = "Ack"
      <4>1. info.largest \in Nat
        BY <2>2, <3>1 DEF Infos
      <4> QED BY <1>13, <2>3, <2>5, <2>9, <3>1, <4>1, CutAgain
    <3>2. CASE info.type # "Ack"
      BY <2>3, <2>5, <3>2
    <3> QED BY <3>1, <3>2
  <2> HIDE DEF pick
  <2> QED BY <1>5, <2>4, <2>5, <2>6, <2>7
<1>11. Keeps(loop, {}, start)
  <2>1. start.send = old /\ start.pending_acks = acks
    OBVIOUS
  <2> HIDE DEF start
  <2>2. Leaves(start, old, packets, {})
    BY <2>1 DEF Leaves
  <2>3. CutBy(start.pending_acks, acks, cuts)
    BY <2>1 DEF CutBy
  <2> QED BY <1>5, <1>14, <2>2, <2>3
<1>12. Keeps(loop, S, iter[S])
  <2> HIDE DEF pick, start
  <2> QED BY <1>3, <1>9, <1>10, <1>11, LoopKeeps
<1>15. Kept(S, iter[S])
  BY <1>5, <1>12
<1> QED BY <1>8, <1>15 DEF S, old, packets, cuts

-----------------------------------------------------------------------------
(* The receiving half of a reliable channel *)

(* What a step of the receiving half may not lose. *)
NothingLost(new, r, out) ==
    /\ \A id \in Nat : Has(r, out, id) => Has(new, out, id)
    /\ \A id \in DOMAIN r.slices :
         \/ Has(new, out, id)
         \/ id \in DOMAIN new.slices /\ r.slices[id].got \subseteq new.slices[id].got

(* The test of process_message: the message was here before. *)
Known(r, id, cfg) ==
    id < r.oldest \/ (IF cfg.ordered THEN id \in DOMAIN r.messages ELSE id \in r.received)

LEMMA KnownIsHad ==
    ASSUME NEW r, NEW cfg, NEW lens, NEW out, ReceiveReliableOK(r, cfg, lens, out), NEW id \in Nat,
           Known(r, id, cfg)
    PROVE  Has(r, out, id)
<1>1. CASE cfg.ordered
  <2>1. OrderedOK(r, lens, out) /\ out \in Seq(Nat)
    BY <1>1 DEF ReceiveReliableOK
  <2>2. CASE id \in DOMAIN r.messages
    BY <2>2 DEF Has
  <2>3. CASE id < r.oldest
    <3>1. Len(out) \in Nat /\ DOMAIN out = 1 .. Len(out)
      BY <2>1, LenProperties
    <3>2. id + 1 \in DOMAIN out
      BY <2>1, <2>3, <3>1 DEF OrderedOK
    <3>3. out[id + 1] = id
      BY <2>1, <3>2 DEF OrderedOK
    <3> QED BY <3>2, <3>3 DEF Has, ToSet
  <2> QED BY <1>1, <2>2, <2>3 DEF Known
<1>2. CASE ~cfg.ordered
  BY <1>2 DEF ReceiveReliableOK, UnorderedOK, Known
<1> QED BY <1>1, <1>2

LEMMA HadIsKnown ==
    ASSUME NEW r, NEW cfg, NEW lens, NEW out, ReceiveReliableOK(r, cfg, lens, out), NEW id \in Nat,
           Has(r, out, id)
    PROVE  Known(r, id, cfg)
<1>1. CASE cfg.ordered
  <2>1. OrderedOK(r, lens, out) /\ out \in Seq(Nat)
    BY <1>1 DEF ReceiveReliableOK
  <2>2. CASE id \in DOMAIN r.messages
    BY <1>1, <2>2 DEF Known
  <2>3. CASE id \in ToSet(out)
    <3>1. PICK k \in DOMAIN out : out[k] = id
      BY <2>3 DEF ToSet
    <3>2. Len(out) \in Nat /\ DOMAIN out = 1 .. Len(out)
      BY <2>1, LenProperties
    <3>3. id = k - 1
      BY <2>1, <3>1 DEF OrderedOK
    <3>4. id < r.oldest
      BY <2>1, <3>2, <3>3 DEF OrderedOK
    <3> QED BY <3>4 DEF Known
  <2> QED BY <2>2, <2>3 DEF Has
<1>2. CASE ~cfg.ordered
  BY <1>2 DEF ReceiveReliableOK, UnorderedOK, Known
<1> QED BY <1>1, <1>2

(* A message is stored, or none. *)
Gains(new, r, id, len, cfg) ==
    \/ new.messages = r.messages /\ new.received = r.received
    \/ /\ ~Known(r, id, cfg)
       /\ new.messages = With(r.messages, id, len)
       /\ new.received = IF cfg.ordered THEN r.received ELSE r.received \union {id}

LEMMA WithFacts ==
    ASSUME NEW f, NEW x, NEW v
    PROVE  /\ DOMAIN With(f, x, v) = DOMAIN f \union {x}
           /\ With(f, x, v)[x] = v
           /\ \A y \in DOMAIN f : y # x => With(f, x, v)[y] = f[y]
BY DEF With

LEMMA GainKeeps ==
    ASSUME NEW r, NEW cfg, NEW lens, NEW out, ReceiveReliableOK(r, cfg, lens, out),
           NEW id \in Nat, id + 1 \in DOMAIN lens, id \notin DOMAIN r.slices,
           NEW new, DOMAIN new = {"slices", "messages", "oldest", "received", "memory", "err"},
           new.slices = r.slices, new.oldest = r.oldest, new.memory \in Int,
           Gains(new, r, id, lens[id + 1], cfg)
    PROVE  /\ ReceiveReliableOK(new, cfg, lens, out)
           /\ NothingLost(new, r, out)
<1>1. CASE new.messages = r.messages /\ new.received = r.received
  <2>1. \A x : Has(new, out, x) <=> Has(r, out, x)
    BY <1>1 DEF Has
  <2>2. OrderedOK(r, lens, out) => OrderedOK(new, lens, out)
    BY <1>1 DEF OrderedOK
  <2>3. UnorderedOK(r, lens, out) => UnorderedOK(new, lens, out)
    BY <1>1, <2>1 DEF UnorderedOK
  <2>4. ReceiveReliableOK(new, cfg, lens, out)
    BY <1>1, <2>2, <2>3 DEF ReceiveReliableOK
  <2> QED BY <2>1, <2>4 DEF NothingLost
<1>2. CASE /\ ~Known(r, id, cfg)
           /\ new.messages = With(r.messages, id, lens[id + 1])
           /\ new.received = IF cfg.ordered THEN r.received ELSE r.received \union {id}
  <2> DEFINE len == lens[id + 1]
             ms == r.messages
  <2>1. /\ DOMAIN With(ms, id, len) = DOMAIN ms \union {id} /\ With(ms, id, len)[id] = len
        /\ \A y \in DOMAIN ms : y # id => With(ms, id, len)[y] = ms[y]
    <3> HIDE DEF len, ms
    <3>1. DOMAIN With(ms, id, len) = DOMAIN ms \union {id}
      BY DEF With
    <3>2. With(ms, id, len)[id] = len
      BY DEF With
    <3>3. \A y \in DOMAIN ms : y # id => With(ms, id, len)[y] = ms[y]
      BY DEF With
    <3> QED BY <3>1, <3>2, <3>3
  <2>2. /\ DOMAIN new.messages = DOMAIN r.messages \union {id} /\ new.messages[id] = len
        /\ \A y \in DOMAIN r.messages : y # id => new.messages[y] = r.messages[y]
    BY <1>2, <2>1
  <2> HIDE DEF ms
  <2>3. \A x : Has(new, out, x) <=> Has(r, out, x) \/ x = id
    BY <2>2 DEF Has
  <2>4. ~Has(r, out, id)
    BY <1>2, HadIsKnown
  <2>5. \A x \in DOMAIN new.messages :
          x \in Nat /\ x + 1 \in DOMAIN lens /\ new.messages[x] = lens[x + 1]
    BY <2>2 DEF ReceiveReliableOK
  <2>6. CASE cfg.ordered
    <3>1. OrderedOK(r, lens, out) /\ r.oldest \in Nat
      BY <2>6 DEF ReceiveReliableOK
    <3>2. r.oldest <= id
      BY <1>2, <3>1 DEF Known
    <3>3. OrderedOK(new, lens, out)
      BY <2>2, <3>1, <3>2 DEF OrderedOK
    <3>4. ReceiveReliableOK(new, cfg, lens, out)
      BY <2>5, <2>6, <3>3 DEF ReceiveReliableOK
    <3> QED BY <2>3, <3>4 DEF NothingLost
  <2>7. CASE ~cfg.ordered
    <3>1. UnorderedOK(r, lens, out) /\ new.received = r.received \union {id}
      BY <1>2, <2>7 DEF ReceiveReliableOK
    <3>2. IsFiniteSet(new.received) /\ new.received \subseteq Nat
      BY <3>1, FS_AddElement DEF UnorderedOK
    <3>3. \A k \in DOMAIN out : out[k] # id
      BY <2>4 DEF Has, ToSet
    <3>4. UnorderedOK(new, lens, out)
      BY <2>2, <2>3, <3>1, <3>2, <3>3 DEF UnorderedOK
    <3>5. ReceiveReliableOK(new, cfg, lens, out)
      BY <2>5, <2>7, <3>4 DEF ReceiveReliableOK
    <3> QED BY <2>3, <3>5 DEF NothingLost
  <2> QED BY <2>6, <2>7
<1> QED BY <1>1, <1>2 DEF Gains

(* The memory of a message is taken when it is stored. *)
Accounts(new, r, id, len, cfg) ==
    \/ new.messages = r.messages /\ new.memory = r.memory
    \/ /\ ~Known(r, id, cfg) /\ ~(r.memory + len > cfg.max)
       /\ new.messages = With(r.messages, id, len)
       /\ new.memory = r.memory + len

(* process_message field by field *)
Stores(new, r, id, len, cfg) ==
    /\ DOMAIN new = {"slices", "messages", "oldest", "received", "memory", "err"}
    /\ new.slices = r.slices /\ new.oldest = r.oldest
    /\ Gains(new, r, id, len, cfg)
    /\ Accounts(new, r, id, len, cfg)
    /\ new.err = r.err => Known(r, id, cfg) \/ id \in DOMAIN new.messages
    /\ new.err # r.err =>
         new.err = "ReliableChannelMaxMemoryReached" /\ r.memory + len > cfg.max

LEMMA ProcessMessageStores ==
    ASSUME NEW r, NEW cfg, NEW id \in Nat, NEW len,
           DOMAIN r = {"slices", "messages", "oldest", "received", "memory", "err"},
           r.oldest \in Nat, r.err = "none"
    PROVE  Stores(ProcessMessage(r, id, len, cfg), r, id, len, cfg)
<1> DEFINE new == ProcessMessage(r, id, len, cfg)
           failed == [r EXCEPT !.err = "ReliableChannelMaxMemoryReached"]
           kept == [r EXCEPT !.memory = @ + len, !.messages = With(@, id, len)]
           noted == [kept EXCEPT !.received = @ \union {id}]
<1>1. /\ DOMAIN failed = DOMAIN r /\ failed.err = "ReliableChannelMaxMemoryReached"
      /\ failed.slices = r.slices /\ failed.oldest = r.oldest
      /\ failed.messages = r.messages /\ failed.received = r.received /\ failed.memory = r.memory
  OBVIOUS
<1>2. /\ DOMAIN kept = DOMAIN r /\ kept.err = r.err
      /\ kept.slices = r.slices /\ kept.oldest = r.oldest
      /\ kept.messages = With(r.messages, id, len) /\ kept.received = r.received
      /\ kept.memory = r.memory + len
  OBVIOUS
<1> HIDE DEF kept
<1>3. /\ DOMAIN noted = DOMAIN r /\ noted.err = r.err
      /\ noted.slices = r.slices /\ noted.oldest = r.oldest
      /\ noted.messages = With(r.messages, id, len) /\ noted.received = r.received \union {id}
      /\ noted.memory = r.memory + len
  BY <1>2
<1>4. new = IF Known(r, id, cfg) THEN r
            ELSE IF r.memory + len > cfg.max THEN failed
            ELSE IF cfg.ordered THEN kept ELSE noted
  <2>1. CASE id < r.oldest
    BY <2>1 DEF ProcessMessage, Known
  <2>2. CASE id >= r.oldest /\ ~(id < r.oldest) /\ cfg.ordered
    BY <2>2 DEF ProcessMessage, Known, StoreMessage, kept
  <2>3. CASE id >= r.oldest /\ ~(id < r.oldest) /\ ~cfg.ordered
    <3>1. StoreMessage(r, id, len, cfg.max) = IF r.memory + len > cfg.max THEN failed ELSE kept
      BY DEF StoreMessage, kept
    <3>2. new = IF id \in r.received THEN r
                ELSE LET s == StoreMessage(r, id, len, cfg.max)
                     IN  IF s.err # "none" THEN s ELSE [s EXCEPT !.received = @ \union {id}]
      BY <2>3 DEF ProcessMessage
    <3>3. Known(r, id, cfg) <=> id \in r.received
      BY <2>3 DEF Known
    <3> HIDE DEF new
    <3> QED BY <1>1, <1>2, <2>3, <3>1, <3>2, <3>3
  <2>4. id < r.oldest \/ (id >= r.oldest /\ ~(id < r.oldest))
    OBVIOUS
  <2> QED BY <2>1, <2>2, <2>3, <2>4
<1>5. id \in DOMAIN With(r.messages, id, len)
  BY DEF With
<1> HIDE DEF new, failed, noted
<1>6. CASE Known(r, id, cfg)
  BY <1>4, <1>6 DEF Stores, Gains, Accounts, new
<1>7. CASE ~Known(r, id, cfg) /\ r.memory + len > cfg.max
  BY <1>1, <1>4, <1>7 DEF Stores, Gains, Accounts, new
<1>8. CASE ~Known(r, id, cfg) /\ ~(r.memory + len > cfg.max) /\ cfg.ordered
  BY <1>2, <1>4, <1>5, <1>8 DEF Stores, Gains, Accounts, new
<1>9. CASE ~Known(r, id, cfg) /\ ~(r.memory + len > cfg.max) /\ ~cfg.ordered
  BY <1>3, <1>4, <1>5, <1>9 DEF Stores, Gains, Accounts, new
<1> QED BY <1>6, <1>7, <1>8, <1>9

(* What add_slice makes of a constructor. *)
SliceAdded(new, k, i, len) ==
    /\ DOMAIN new = {"n", "got", "len"}
    /\ new.n = NumSlices(len)
    /\ new.got = k.got \union {i}
    /\ \/ Cardinality(new.got) < new.n /\ ConstructorOK(new, len)
       \/ Cardinality(new.got) = new.n /\ new.len = len /\ new.got = 0 .. (new.n - 1)

LEMMA AddSliceKeeps ==
    ASSUME NEW len \in Nat, NEW k, ConstructorOK(k, len), NEW i \in 0 .. (NumSlices(len) - 1)
    PROVE  /\ ValidSlice(k, i, SliceLength(len, i))
           /\ SliceAdded(AddSlice(k, i, SliceLength(len, i)), k, i, len)
<1> DEFINE n == NumSlices(len)
           part == SliceLength(len, i)
           new == AddSlice(k, i, part)
<1>1. /\ n \in Nat /\ n >= 2 /\ k.n = n /\ k.got \subseteq 0 .. (n - 1) /\ IsSliced(len)
      /\ DOMAIN k = {"n", "got", "len"}
      /\ k.len = IF n - 1 \in k.got THEN len ELSE n * SliceSize
  BY SliceCount DEF ConstructorOK
<1>2. /\ part \in 1 .. SliceSize /\ (i # n - 1 => part = SliceSize)
      /\ (i = n - 1 => (n - 1) * SliceSize + part = len)
  BY <1>1, SliceBounds
<1> HIDE DEF part, n
<1>3. ValidSlice(k, i, part)
  BY <1>1, <1>2, ReliableChannelAssumption DEF ValidSlice
<1>4. /\ DOMAIN new = {"n", "got", "len"} /\ new.n = n /\ new.got = k.got \union {i}
      /\ new.len = IF n - 1 \in new.got THEN len ELSE n * SliceSize
  <2>1. CASE i \in k.got
    BY <1>1, <2>1 DEF AddSlice
  <2>2. CASE i \notin k.got
    <3> DEFINE last == (k.n - 1) * SliceSize + part
               grown == [k EXCEPT !.got = @ \union {i}, !.len = IF i = k.n - 1 THEN last ELSE @]
    <3>1. new = grown
      BY <2>2 DEF AddSlice
    <3>2. /\ DOMAIN grown = DOMAIN k /\ grown.n = k.n /\ grown.got = k.got \union {i}
          /\ grown.len = IF i = k.n - 1 THEN last ELSE k.len
      <4> HIDE DEF last
      <4> QED BY <1>1
    <3>3. i = n - 1 => last = len
      BY <1>1, <1>2
    <3> HIDE DEF grown, last, new
    <3> QED BY <1>1, <3>1, <3>2, <3>3
  <2> QED BY <2>1, <2>2
<1> HIDE DEF new
<1>5. i \in 0 .. (n - 1)
  BY DEF n
<1>6. new.got \subseteq 0 .. (n - 1)
  BY <1>1, <1>4, <1>5
<1>7. IsFiniteSet(0 .. (n - 1)) /\ Cardinality(0 .. (n - 1)) = n
  BY <1>1, FS_Interval
<1>8. /\ Cardinality(new.got) \in Nat /\ Cardinality(new.got) <= n
      /\ Cardinality(new.got) = n => new.got = 0 .. (n - 1)
  <2> DEFINE all == 0 .. (n - 1)
             got == new.got
  <2>1. IsFiniteSet(all) /\ Cardinality(all) = n /\ got \subseteq all
    BY <1>6, <1>7
  <2> HIDE DEF all, got
  <2>2. /\ IsFiniteSet(got) /\ Cardinality(got) <= Cardinality(all)
        /\ Cardinality(got) = Cardinality(all) => got = all
    BY <2>1, FS_Subset
  <2>3. Cardinality(got) \in Nat
    BY <2>2, FS_CardinalityType
  <2> QED BY <2>1, <2>2, <2>3 DEF all, got
<1>9. CASE Cardinality(new.got) < n
  <2>1. new.got # 0 .. (n - 1)
    BY <1>1, <1>7, <1>9
  <2>2. ConstructorOK(new, len)
    BY <1>1, <1>4, <1>6, <2>1 DEF ConstructorOK, n
  <2> QED BY <1>3, <1>4, <1>9, <2>2 DEF SliceAdded, new, part, n
<1>10. CASE Cardinality(new.got) = n
  <2>1. n - 1 \in new.got
    BY <1>1, <1>8, <1>10
  <2>2. new.len = len
    BY <1>4, <2>1
  <2> QED BY <1>3, <1>4, <1>8, <1>10, <2>2 DEF SliceAdded, new, part, n
<1> QED BY <1>1, <1>8, <1>9, <1>10

LEMMA NewConstructorOK ==
    ASSUME NEW len \in Nat, IsSliced(len)
    PROVE  ConstructorOK(NewConstructor(NumSlices(len)), len)
<1> DEFINE n == NumSlices(len)
<1>1. n \in Nat /\ n >= 2
  BY SliceCount
<1> HIDE DEF n
<1>2. 0 \in 0 .. (n - 1)
  BY <1>1
<1>3. ConstructorOK(NewConstructor(n), len) <=>
        /\ n = NumSlices(len) /\ {} # 0 .. (n - 1)
  BY DEF ConstructorOK, NewConstructor
<1> QED BY <1>2, <1>3 DEF n

(* Only the constructors and the memory of a receiving half change. *)
LEMMA SlicesKeep ==
    ASSUME NEW r, NEW cfg, NEW lens, NEW out, ReceiveReliableOK(r, cfg, lens, out),
           NEW new, DOMAIN new = {"slices", "messages", "oldest", "received", "memory", "err"},
           new.messages = r.messages, new.oldest = r.oldest, new.received = r.received,
           new.memory \in Int,
           \A id \in DOMAIN new.slices :
             /\ id \in Nat /\ id + 1 \in DOMAIN lens
             /\ ConstructorOK(new.slices[id], lens[id + 1])
             /\ cfg.ordered => r.oldest <= id /\ id \notin DOMAIN r.messages
    PROVE  /\ ReceiveReliableOK(new, cfg, lens, out)
           /\ \A id : Has(new, out, id) <=> Has(r, out, id)
<1>1. \A id : Has(new, out, id) <=> Has(r, out, id)
  BY DEF Has
<1>2. CASE cfg.ordered
  <2>1. OrderedOK(new, lens, out)
    BY <1>2 DEF ReceiveReliableOK, OrderedOK
  <2> QED BY <1>1, <1>2, <2>1 DEF ReceiveReliableOK
<1>3. CASE ~cfg.ordered
  <2>1. UnorderedOK(r, lens, out)
    BY <1>3 DEF ReceiveReliableOK
  <2>2. UnorderedOK(new, lens, out)
    BY <1>1, <2>1 DEF UnorderedOK
  <2> QED BY <1>1, <1>3, <2>2 DEF ReceiveReliableOK
<1> QED BY <1>2, <1>3

(* A constructor reserves memory from its first slice on. *)
LEMMA ReservesWith ==
    ASSUME NEW slices, Weighs(Reserves(slices)), NEW id, NEW k, NEW bytes \in Nat,
           k.n * SliceSize = bytes,
           id \in DOMAIN slices => slices[id].n * SliceSize = bytes
    PROVE  LET more == Reserves(With(slices, id, k))
               reserve == IF id \in DOMAIN slices THEN 0 ELSE bytes
           IN  /\ Weighs(more)
               /\ SumFunction(more) = SumFunction(Reserves(slices)) + reserve
               /\ SumFunction(Reserves(slices)) \in Nat
<1> DEFINE w == Reserves(slices)
           more == Reserves(With(slices, id, k))
<1>1. DOMAIN w = DOMAIN slices /\ \A x \in DOMAIN slices : w[x] = slices[x].n * SliceSize
  BY DEF Reserves
<1>2. SumFunction(w) \in Nat
  BY SumIsNat
<1>3. CASE id \in DOMAIN slices
  <2>1. more = w
    BY <1>1, <1>3 DEF Reserves, With
  <2> HIDE DEF w
  <2> QED BY <1>2, <1>3, <2>1 DEF w
<1>4. CASE id \notin DOMAIN slices
  <2>1. more = With(w, id, bytes)
    BY <1>1, <1>4 DEF Reserves, With
  <2> HIDE DEF w, more
  <2>2. /\ Weighs(With(w, id, bytes))
        /\ SumFunction(With(w, id, bytes)) = SumFunction(w) + bytes
    BY <1>1, <1>4, SumWith DEF w
  <2> QED BY <1>2, <1>4, <2>1, <2>2 DEF w, more
<1> QED BY <1>3, <1>4

LEMMA ReservesWithout ==
    ASSUME NEW slices, Weighs(Reserves(slices)), NEW id, NEW bytes \in Nat,
           id \in DOMAIN slices => slices[id].n * SliceSize = bytes,
           NEW rest, DOMAIN rest = DOMAIN slices \ {id},
           \A x \in DOMAIN slices : x # id => rest[x] = slices[x]
    PROVE  LET less == Reserves(rest)
               reserve == IF id \in DOMAIN slices THEN 0 ELSE bytes
           IN  /\ Weighs(less)
               /\ SumFunction(less) + bytes = SumFunction(Reserves(slices)) + reserve
               /\ SumFunction(less) \in Nat
<1> DEFINE w == Reserves(slices)
           less == Reserves(rest)
           T == {id} \intersect DOMAIN slices
<1>1. /\ DOMAIN w = DOMAIN slices /\ \A x \in DOMAIN slices : w[x] = slices[x].n * SliceSize
      /\ DOMAIN less = DOMAIN w \ T /\ \A x \in DOMAIN less : less[x] = w[x]
  BY DEF Reserves
<1> HIDE DEF w, less
<1>2. /\ Weighs(less) /\ SumFunction(w) = SumFunction(less) + Bytes(w, T)
      /\ {SumFunction(w), SumFunction(less), Bytes(w, T)} \subseteq Nat
  <2>1. Weighs(w)
    BY DEF w
  <2>2. T \in SUBSET DOMAIN w
    BY <1>1
  <2>3. DOMAIN less = DOMAIN w \ T
    BY <1>1
  <2>4. \A x \in DOMAIN less : less[x] = w[x]
    BY <1>1
  <2> HIDE DEF T
  <2> QED BY ONLY <2>1, <2>2, <2>3, <2>4, SumLess
<1>3. Bytes(w, T) = IF id \in DOMAIN slices THEN bytes ELSE 0
  <2>1. CASE id \in DOMAIN slices
    <3>1. T = {id} /\ w[id] = bytes
      BY <1>1, <2>1
    <3>2. Bytes(w, {id}) = w[id]
      BY <3>1, UnitsOfOne
    <3> QED BY <2>1, <3>1, <3>2
  <2>2. CASE id \notin DOMAIN slices
    <3>1. T = {}
      BY <2>2
    <3> QED BY <2>2, <3>1, BytesEmpty
  <2> QED BY <2>1, <2>2
<1> HIDE DEF T
<1> QED BY <1>2, <1>3 DEF w, less

(* A message is stored next to those that are there. *)
LEMMA StoreExact ==
    ASSUME NEW r, NEW new, NEW cfg, cfg.max \in Nat, NEW id, id \notin DOMAIN r.messages,
           NEW len \in Nat, Accounts(new, r, id, len, cfg),
           NEW held \in Nat, Weighs(r.messages), r.memory = SumFunction(r.messages) + held,
           r.memory <= cfg.max
    PROVE  /\ Weighs(new.messages)
           /\ new.memory = SumFunction(new.messages) + held
           /\ new.memory <= cfg.max
<1>1. CASE new.messages = r.messages /\ new.memory = r.memory
  BY <1>1
<1>2. CASE /\ ~(r.memory + len > cfg.max) /\ new.messages = With(r.messages, id, len)
           /\ new.memory = r.memory + len
  <2> DEFINE w == r.messages
             more == With(w, id, len)
  <2> HIDE DEF w
  <2>1. /\ Weighs(more) /\ SumFunction(more) = SumFunction(w) + len /\ SumFunction(w) \in Nat
    BY SumWith DEF w
  <2>2. new.messages = more
    BY <1>2 DEF w
  <2> HIDE DEF more
  <2>3. r.memory \in Nat /\ r.memory = SumFunction(w) + held
    BY <2>1 DEF w
  <2> QED BY <1>2, <2>1, <2>2, <2>3
<1> QED BY <1>1, <1>2 DEF Accounts

(* What a slice does to a receiving half. *)
SliceReceived(new, r, cfg, lens, out, id, i) ==
    /\ ReceiveReliableOK(new, cfg, lens, out)
    /\ NothingLost(new, r, out)
    /\ KeepsReceived(new, r, cfg)
    /\ new.err \in {"none", "ReliableChannelMaxMemoryReached"}
    /\ new.err = "none" =>
         \/ Has(new, out, id)
         \/ id \in DOMAIN new.slices /\ i \in new.slices[id].got
    /\ GainsOnly(new, r, out, lens, {<<id, i>>})

LEMMA CollectSliceKeeps ==
    ASSUME NEW r, NEW cfg, NEW lens \in LengthSeqs, NEW out,
           ReceiveReliableOK(r, cfg, lens, out), r.err = "none", cfg.max \in Nat,
           NEW p, p.id \in Nat, p.id + 1 \in DOMAIN lens, p.index \in Nat,
           IsSliceOf(p, lens[p.id + 1]),
           p.id \notin DOMAIN r.messages, ~(p.id < r.oldest)
    PROVE  SliceReceived(CollectSlice(r, p, cfg), r, cfg, lens, out, p.id, p.index)
<1> DEFINE id == p.id
           len == lens[id + 1]
           n == NumSlices(len)
           bytes == p.num_slices * SliceSize
           reserve == IF id \in DOMAIN r.slices THEN 0 ELSE p.num_slices * SliceSize
           old == IF id \in DOMAIN r.slices THEN r.slices[id] ELSE NewConstructor(p.num_slices)
           k == AddSlice(old, p.index, p.len)
           failed == [r EXCEPT !.err = "ReliableChannelMaxMemoryReached"]
           kept == [r EXCEPT !.memory = @ + reserve, !.slices = With(@, id, k)]
           freed == [kept EXCEPT !.memory = @ - bytes]
           done == ProcessMessage(freed, id, k.len, cfg)
           final == [done EXCEPT !.slices = Without(@, id)]
<1>1. /\ len \in Nat /\ IsSliced(len) /\ p.num_slices = n
      /\ p.index \in 0 .. (n - 1) /\ p.len = SliceLength(len, p.index) /\ SliceSize \in Nat
      /\ n \in Nat
  <2>1. len \in Nat
    BY ElementOfSeq, LenProperties DEF LengthSeqs
  <2>2. IsSliced(len) /\ p.num_slices = n /\ p.index < n /\ p.len = SliceLength(len, p.index)
    BY DEF IsSliceOf
  <2>3. n \in Nat
    BY <2>1, <2>2, SliceCount
  <2> QED BY <2>1, <2>2, <2>3, ReliableChannelAssumption
<1>2. bytes \in Nat /\ reserve \in Nat /\ reserve \in {0, bytes} /\ len <= bytes
  <2>1. len <= n * SliceSize
    BY <1>1, SliceCount
  <2> HIDE DEF n, len
  <2> QED BY <1>1, <2>1
<1>3. ConstructorOK(old, len)
  <2>1. CASE id \in DOMAIN r.slices
    BY <2>1 DEF ReceiveReliableOK
  <2>2. CASE id \notin DOMAIN r.slices
    BY <1>1, <2>2, NewConstructorOK
  <2> QED BY <2>1, <2>2
<1>4. ValidSlice(old, p.index, p.len) /\ SliceAdded(k, old, p.index, len)
  <2> HIDE DEF old, len
  <2> QED BY <1>1, <1>3, AddSliceKeeps DEF n
<1>5. /\ DOMAIN r = {"slices", "messages", "oldest", "received", "memory", "err"}
      /\ r.memory \in Int /\ r.oldest \in Nat /\ r.oldest <= id
  BY DEF ReceiveReliableOK
<1>6. /\ DOMAIN failed = DOMAIN r /\ failed.err = "ReliableChannelMaxMemoryReached"
      /\ failed.slices = r.slices /\ failed.messages = r.messages /\ failed.oldest = r.oldest
      /\ failed.received = r.received /\ failed.memory = r.memory
  BY <1>5
<1>17. /\ k.n * SliceSize = bytes
       /\ id \in DOMAIN r.slices => r.slices[id].n * SliceSize = bytes
       /\ reserve = IF id \in DOMAIN r.slices THEN 0 ELSE bytes
  BY <1>1, <1>3, <1>4 DEF SliceAdded, ConstructorOK
<1> HIDE DEF reserve, old, k, bytes
<1>7. /\ DOMAIN kept = DOMAIN r /\ kept.err = "none"
      /\ kept.slices = With(r.slices, id, k) /\ kept.messages = r.messages
      /\ kept.oldest = r.oldest /\ kept.received = r.received /\ kept.memory = r.memory + reserve
  BY <1>5
<1> HIDE DEF kept
<1>8. /\ DOMAIN freed = DOMAIN r /\ freed.err = "none"
      /\ freed.slices = With(r.slices, id, k) /\ freed.messages = r.messages
      /\ freed.oldest = r.oldest /\ freed.received = r.received
      /\ freed.memory = (r.memory + reserve) - bytes
  <2>1. freed.memory = kept.memory - bytes
    BY <1>5, <1>7
  <2>2. /\ DOMAIN freed = DOMAIN kept /\ freed.err = kept.err /\ freed.slices = kept.slices
        /\ freed.messages = kept.messages /\ freed.oldest = kept.oldest
        /\ freed.received = kept.received
    OBVIOUS
  <2> HIDE DEF freed
  <2> QED BY <1>7, <2>1, <2>2
<1>9. CollectSlice(r, p, cfg) = IF r.memory + reserve > cfg.max THEN failed
                                ELSE IF Cardinality(k.got) < k.n THEN kept
                                ELSE IF done.err # "none" THEN done ELSE final
  <2>1. CASE r.memory + reserve > cfg.max
    <3>1. ~(r.memory + reserve <= cfg.max)
      BY <1>2, <1>5, <2>1
    <3> QED BY <2>1, <3>1 DEF CollectSlice, reserve
  <2>2. CASE r.memory + reserve <= cfg.max /\ ~(r.memory + reserve > cfg.max)
    BY <1>4, <2>2 DEF CollectSlice, reserve, old, k, kept, bytes
  <2>3. r.memory + reserve > cfg.max \/ (r.memory + reserve <= cfg.max /\ ~(r.memory + reserve > cfg.max))
    BY <1>2, <1>5
  <2> QED BY <2>1, <2>2, <2>3
<1> HIDE DEF failed, freed
<1>10. /\ DOMAIN With(r.slices, id, k) = DOMAIN r.slices \union {id}
       /\ With(r.slices, id, k)[id] = k
       /\ \A x \in DOMAIN r.slices : x # id => With(r.slices, id, k)[x] = r.slices[x]
  BY DEF With
<1>11. id \in DOMAIN r.slices => r.slices[id].got \subseteq k.got
  BY <1>4 DEF SliceAdded, old
<1>12. p.index \in k.got
  BY <1>4 DEF SliceAdded
<1>18. \A i \in k.got : i = p.index \/ (id \in DOMAIN r.slices /\ i \in r.slices[id].got)
  BY <1>4 DEF SliceAdded, old, NewConstructor
<1>13. \A x \in DOMAIN r.slices : 
          /\ x \in Nat /\ x + 1 \in DOMAIN lens /\ ConstructorOK(r.slices[x], lens[x + 1])
          /\ cfg.ordered => r.oldest <= x /\ x \notin DOMAIN r.messages
  BY DEF ReceiveReliableOK, OrderedOK
<1>14. CASE r.memory + reserve > cfg.max
  <2>1. ReceiveReliableOK(failed, cfg, lens, out) /\ \A x : Has(failed, out, x) <=> Has(r, out, x)
    BY <1>5, <1>6, <1>13, SlicesKeep
  <2>2. KeepsReceived(failed, r, cfg)
    BY <1>6 DEF KeepsReceived, ReceivedExact
  <2>3. GainsOnly(failed, r, out, lens, {<<id, p.index>>})
    BY <1>6, <2>1 DEF GainsOnly, HasPart
  <2> QED BY <1>6, <1>9, <1>14, <2>1, <2>2, <2>3 DEF SliceReceived, NothingLost
<1>15. CASE ~(r.memory + reserve > cfg.max) /\ Cardinality(k.got) < k.n
  <2>1. ConstructorOK(k, lens[id + 1])
    BY <1>1, <1>4, <1>15 DEF SliceAdded
  <2>2. \A x \in DOMAIN kept.slices :
          /\ x \in Nat /\ x + 1 \in DOMAIN lens /\ ConstructorOK(kept.slices[x], lens[x + 1])
          /\ cfg.ordered => r.oldest <= x /\ x \notin DOMAIN r.messages
    <3> HIDE DEF id
    <3> SUFFICES ASSUME NEW x \in DOMAIN kept.slices
                 PROVE  /\ x \in Nat /\ x + 1 \in DOMAIN lens /\ ConstructorOK(kept.slices[x], lens[x + 1])
                        /\ cfg.ordered => r.oldest <= x /\ x \notin DOMAIN r.messages
      OBVIOUS
    <3>1. CASE x = id
      BY <1>5, <1>7, <1>10, <2>1, <3>1 DEF id
    <3>2. CASE x # id
      BY <1>7, <1>10, <1>13, <3>2
    <3> QED BY <3>1, <3>2
  <2>3. kept.memory \in Int
    BY <1>2, <1>5, <1>7
  <2>4. ReceiveReliableOK(kept, cfg, lens, out) /\ \A x : Has(kept, out, x) <=> Has(r, out, x)
    BY <1>5, <1>7, <2>2, <2>3, SlicesKeep
  <2>5. NothingLost(kept, r, out)
    BY <1>7, <1>10, <1>11, <2>4 DEF NothingLost
  <2>6. KeepsReceived(kept, r, cfg)
    <3>1. SUFFICES ASSUME ReceivedExact(r, cfg.max) PROVE ReceivedExact(kept, cfg.max)
      BY DEF KeepsReceived
    <3> DEFINE w == Reserves(r.slices)
               more == Reserves(With(r.slices, id, k))
    <3>2. /\ Weighs(r.messages) /\ Weighs(w) /\ r.memory = SumFunction(r.messages) + SumFunction(w)
      BY <3>1 DEF ReceivedExact
    <3>3. /\ Weighs(more) /\ SumFunction(more) = SumFunction(w) + reserve /\ SumFunction(w) \in Nat
      <4> DEFINE slices == r.slices
      <4>1. /\ Weighs(Reserves(slices)) /\ bytes \in Nat /\ k.n * SliceSize = bytes
            /\ id \in DOMAIN slices => slices[id].n * SliceSize = bytes
        BY <1>2, <1>17, <3>2
      <4> HIDE DEF id, slices
      <4>2. LET with == Reserves(With(slices, id, k))
            IN  /\ Weighs(with)
                /\ SumFunction(with) =
                     SumFunction(Reserves(slices)) + IF id \in DOMAIN slices THEN 0 ELSE bytes
                /\ SumFunction(Reserves(slices)) \in Nat
        BY ONLY <4>1, ReservesWith
      <4>3. reserve = IF id \in DOMAIN slices THEN 0 ELSE bytes
        BY <1>17 DEF slices
      <4> QED BY <4>2, <4>3 DEF slices
    <3>4. SumFunction(r.messages) \in Nat
      BY <3>2, SumIsNat
    <3>5. kept.messages = r.messages /\ Reserves(kept.slices) = more
      BY <1>7
    <3> HIDE DEF w, more
    <3>6. /\ kept.memory = SumFunction(r.messages) + SumFunction(more)
          /\ kept.memory <= cfg.max
      BY <1>2, <1>5, <1>7, <1>15, <3>2, <3>3, <3>4
    <3> QED BY <3>2, <3>3, <3>5, <3>6 DEF ReceivedExact
  <2>7. GainsOnly(kept, r, out, lens, {<<id, p.index>>})
    <3> SUFFICES ASSUME NEW x \in Nat, NEW i, HasPart(kept, out, x, i)
                 PROVE  HasPart(r, out, x, i) \/ <<x, i>> \in {<<id, p.index>>}
      BY DEF GainsOnly
    <3>1. CASE Has(kept, out, x)
      BY <2>4, <3>1 DEF HasPart
    <3>2. CASE x \in DOMAIN kept.slices /\ i \in kept.slices[x].got /\ x # id
      BY <1>7, <1>10, <3>2 DEF HasPart
    <3>3. CASE i \in kept.slices[id].got /\ x = id
      BY <1>7, <1>10, <1>18, <3>3 DEF HasPart
    <3> QED BY <3>1, <3>2, <3>3 DEF HasPart
  <2> QED BY <1>7, <1>9, <1>10, <1>12, <1>15, <2>4, <2>5, <2>6, <2>7 DEF SliceReceived
<1>16. CASE ~(r.memory + reserve > cfg.max) /\ ~(Cardinality(k.got) < k.n)
  <2>1. k.len = len
    <3>1. Cardinality(k.got) = k.n /\ k.len = len
      BY <1>4, <1>16 DEF SliceAdded
    <3> QED BY <3>1
  <2>2. Stores(done, freed, id, len, cfg)
    BY <1>5, <1>8, <2>1, ProcessMessageStores
  <2>3. freed.memory \in Int /\ freed.memory + len <= cfg.max
    <3> HIDE DEF len
    <3> QED BY <1>1, <1>2, <1>5, <1>8, <1>16
  <2>4. done.err = "none"
    <3>1. ~(freed.memory + len > cfg.max)
      <4> HIDE DEF len
      <4> QED BY <1>1, <2>3
    <3> QED BY <1>8, <2>2, <3>1 DEF Stores
  <2> HIDE DEF done
  <2>5. /\ DOMAIN final = DOMAIN r /\ final.err = "none"
        /\ final.messages = done.messages /\ final.oldest = r.oldest
        /\ final.received = done.received /\ final.memory = done.memory
        /\ final.slices = Without(done.slices, id)
    BY <1>5, <1>8, <2>2, <2>4 DEF Stores
  <2>6. /\ DOMAIN final.slices = DOMAIN r.slices \ {id}
        /\ \A x \in DOMAIN r.slices : x # id => final.slices[x] = r.slices[x]
    BY <1>8, <1>10, <2>2, <2>5 DEF Stores, Without
  <2>7. final.memory \in Int
    BY <1>1, <2>2, <2>3, <2>5 DEF Stores, Accounts
  <2> HIDE DEF final
  <2> DEFINE base == [r EXCEPT !.slices = final.slices]
  <2>8. /\ DOMAIN base = DOMAIN r /\ base.messages = r.messages /\ base.oldest = r.oldest
        /\ base.received = r.received /\ base.memory = r.memory /\ base.slices = final.slices
    BY <1>5
  <2> HIDE DEF base
  <2>9. ReceiveReliableOK(base, cfg, lens, out) /\ \A x : Has(base, out, x) <=> Has(r, out, x)
    BY <1>5, <1>13, <2>6, <2>8, SlicesKeep
  <2>10. \A x : Known(base, x, cfg) <=> Known(freed, x, cfg)
    BY <1>8, <2>8 DEF Known
  <2>11. Gains(final, base, id, len, cfg)
    BY <1>8, <2>2, <2>5, <2>8, <2>10 DEF Stores, Gains
  <2>12. ReceiveReliableOK(final, cfg, lens, out) /\ NothingLost(final, base, out)
    BY <1>5, <2>5, <2>6, <2>7, <2>8, <2>9, <2>11, GainKeeps
  <2>13. Has(final, out, id)
    <3>1. Known(freed, id, cfg) \/ id \in DOMAIN done.messages
      BY <1>8, <2>2, <2>4 DEF Stores
    <3>2. CASE Known(freed, id, cfg)
      <4>1. Has(base, out, id)
        BY <2>9, <2>10, <3>2, KnownIsHad
      <4> QED BY <2>12, <4>1 DEF NothingLost
    <3>3. CASE id \in DOMAIN done.messages
      BY <2>5, <3>3 DEF Has
    <3> QED BY <3>1, <3>2, <3>3
  <2>14. NothingLost(final, r, out)
    BY <2>6, <2>9, <2>12, <2>13 DEF NothingLost
  <2>15. KeepsReceived(final, r, cfg)
    <3>1. SUFFICES ASSUME ReceivedExact(r, cfg.max) PROVE ReceivedExact(final, cfg.max)
      BY DEF KeepsReceived
    <3> DEFINE w == Reserves(r.slices)
               less == Reserves(final.slices)
               held == SumFunction(less)
    <3>2. /\ Weighs(r.messages) /\ Weighs(w) /\ r.memory = SumFunction(r.messages) + SumFunction(w)
      BY <3>1 DEF ReceivedExact
    <3>3. Weighs(less) /\ held + bytes = SumFunction(w) + reserve /\ held \in Nat
      <4> DEFINE slices == r.slices
                 rest == final.slices
      <4>1. /\ Weighs(Reserves(slices)) /\ bytes \in Nat
            /\ id \in DOMAIN slices => slices[id].n * SliceSize = bytes
            /\ DOMAIN rest = DOMAIN slices \ {id}
            /\ \A x \in DOMAIN slices : x # id => rest[x] = slices[x]
        BY <1>2, <1>17, <2>6, <3>2
      <4> HIDE DEF id, slices, rest
      <4>2. LET without == Reserves(rest)
            IN  /\ Weighs(without)
                /\ SumFunction(without) + bytes =
                     SumFunction(Reserves(slices)) + IF id \in DOMAIN slices THEN 0 ELSE bytes
                /\ SumFunction(without) \in Nat
        BY ONLY <4>1, ReservesWithout
      <4>3. reserve = IF id \in DOMAIN slices THEN 0 ELSE bytes
        BY <1>17 DEF slices
      <4> QED BY <4>2, <4>3 DEF slices, rest
    <3>4. SumFunction(w) \in Nat /\ SumFunction(r.messages) \in Nat
      BY <3>2, SumIsNat
    <3> HIDE DEF w, less, held
    <3>5. /\ freed.messages = r.messages /\ freed.memory = SumFunction(freed.messages) + held
          /\ freed.memory <= cfg.max
      <4>1. freed.memory = SumFunction(r.messages) + held
        BY <1>2, <1>8, <3>2, <3>3, <3>4
      <4>2. freed.memory <= cfg.max
        <5> HIDE DEF len
        <5> QED BY <1>1, <2>3
      <4> QED BY <1>8, <4>1, <4>2
    <3>6. Accounts(final, freed, id, len, cfg)
      BY <2>2, <2>5 DEF Stores, Accounts
    <3>7. /\ Weighs(final.messages) /\ final.memory = SumFunction(final.messages) + held
          /\ final.memory <= cfg.max
      <4>1. id \notin DOMAIN freed.messages /\ Weighs(freed.messages)
        BY <3>2, <3>5
      <4> HIDE DEF id, len
      <4> QED BY <1>1, <3>3, <3>5, <3>6, <4>1, StoreExact
    <3> QED BY <3>3, <3>7 DEF ReceivedExact, less, held
  <2>16. GainsOnly(final, r, out, lens, {<<id, p.index>>})
    <3> SUFFICES ASSUME NEW x \in Nat, x + 1 \in DOMAIN lens, NEW i \in Parts(lens[x + 1]),
                        HasPart(final, out, x, i)
                 PROVE  HasPart(r, out, x, i) \/ <<x, i>> \in {<<id, p.index>>}
      BY DEF GainsOnly
    <3>1. CASE x # id
      <4>1. Has(final, out, x) => Has(r, out, x)
        BY <2>8, <2>11, <3>1 DEF Gains, Has, With
      <4> QED BY <2>6, <3>1, <4>1 DEF HasPart
    <3>2. CASE x = id
      <4>1. i \in 0 .. (n - 1)
        BY <1>1, <3>2 DEF Parts
      <4>2. k.got = 0 .. (n - 1)
        BY <1>4, <1>16 DEF SliceAdded
      <4> QED BY <1>18, <3>2, <4>1, <4>2 DEF HasPart
    <3> QED BY <3>1, <3>2
  <2> QED BY <1>9, <1>16, <2>4, <2>5, <2>12, <2>13, <2>14, <2>15, <2>16 DEF SliceReceived
<1> QED BY <1>14, <1>15, <1>16

LEMMA ProcessSliceKeeps ==
    ASSUME NEW r, NEW cfg, NEW lens \in LengthSeqs, NEW out,
           ReceiveReliableOK(r, cfg, lens, out), r.err = "none", cfg.max \in Nat,
           NEW p, p.id \in Nat, p.id + 1 \in DOMAIN lens, p.index \in Nat,
           IsSliceOf(p, lens[p.id + 1])
    PROVE  SliceReceived(ProcessSlice(r, p, cfg), r, cfg, lens, out, p.id, p.index)
<1>1. CASE p.id \in DOMAIN r.messages \/ p.id < r.oldest
  <2>1. ProcessSlice(r, p, cfg) = r
    BY <1>1 DEF ProcessSlice
  <2>2. Has(r, out, p.id)
    <3>1. CASE p.id \in DOMAIN r.messages
      BY <3>1 DEF Has
    <3>2. CASE p.id < r.oldest
      BY <3>2, KnownIsHad DEF Known
    <3> QED BY <1>1, <3>1, <3>2
  <2> QED BY <2>1, <2>2 DEF SliceReceived, NothingLost, KeepsReceived, GainsOnly
<1>2. CASE ~(p.id \in DOMAIN r.messages \/ p.id < r.oldest)
  <2>1. ProcessSlice(r, p, cfg) = CollectSlice(r, p, cfg)
    BY <1>2 DEF ProcessSlice
  <2> QED BY <1>2, <2>1, CollectSliceKeeps
<1> QED BY <1>1, <1>2

(* The loops of process_packet over the messages of a packet. *)
ReceiveMessages(r, messages, cfg) ==
    LET Process(s, m) == IF s.err # "none" THEN s ELSE ProcessMessage(s, m.id, m.len, cfg)
    IN  FoldLeft(Process, r, messages)

ReceiveUnreliableMessages(r, messages, cfg) ==
    LET Process(s, m) == ProcessUnreliableMessage(s, m, cfg)
    IN  FoldLeft(Process, r, messages)

(* One message of a packet. *)
LEMMA ProcessMessageKeeps ==
    ASSUME NEW r, NEW cfg, NEW lens, NEW out, ReceiveReliableOK(r, cfg, lens, out), r.err = "none",
           cfg.max \in Nat, NEW m \in SmallMessages(lens)
    PROVE  LET new == ProcessMessage(r, m.id, m.len, cfg)
           IN  /\ ReceiveReliableOK(new, cfg, lens, out)
               /\ NothingLost(new, r, out)
               /\ KeepsReceived(new, r, cfg)
               /\ new.slices = r.slices
               /\ new.err \in {"none", "ReliableChannelMaxMemoryReached"}
               /\ new.err = "none" => Has(new, out, m.id)
               /\ \A x \in Nat : Has(new, out, x) => Has(r, out, x) \/ x = m.id
<1> DEFINE id == m.id
           len == lens[id + 1]
           new == ProcessMessage(r, id, m.len, cfg)
<1>1. id \in Nat /\ id + 1 \in DOMAIN lens /\ m.len = len /\ ~IsSliced(len) /\ len \in Nat
  BY DEF SmallMessages
<1>2. /\ DOMAIN r = {"slices", "messages", "oldest", "received", "memory", "err"}
      /\ r.oldest \in Nat /\ r.memory \in Int
  BY DEF ReceiveReliableOK
<1>3. Stores(new, r, id, len, cfg)
  BY <1>1, <1>2, ProcessMessageStores
<1>4. id \notin DOMAIN r.slices
  BY <1>1 DEF ReceiveReliableOK, ConstructorOK
<1> HIDE DEF new
<1>5. new.memory \in Int
  BY <1>1, <1>2, <1>3 DEF Stores, Accounts
<1>6. ReceiveReliableOK(new, cfg, lens, out) /\ NothingLost(new, r, out)
  <2>1. /\ DOMAIN new = {"slices", "messages", "oldest", "received", "memory", "err"}
        /\ new.slices = r.slices /\ new.oldest = r.oldest /\ Gains(new, r, id, lens[id + 1], cfg)
    BY <1>3 DEF Stores
  <2> HIDE DEF id, len
  <2> QED BY <1>1, <1>4, <1>5, <2>1, GainKeeps
<1>7. new.err = "none" => Has(new, out, id)
  <2> SUFFICES ASSUME new.err = "none" PROVE Has(new, out, id)
    OBVIOUS
  <2>1. Known(r, id, cfg) \/ id \in DOMAIN new.messages
    BY <1>3 DEF Stores
  <2>2. CASE Known(r, id, cfg)
    <3>1. Has(r, out, id)
      BY <1>1, <2>2, KnownIsHad
    <3> QED BY <1>1, <1>6, <3>1 DEF NothingLost
  <2>3. CASE id \in DOMAIN new.messages
    BY <2>3 DEF Has
  <2> QED BY <2>1, <2>2, <2>3
<1>8. new.slices = r.slices /\ new.err \in {"none", "ReliableChannelMaxMemoryReached"}
  BY <1>3 DEF Stores
<1>9. KeepsReceived(new, r, cfg)
  <2>1. SUFFICES ASSUME ReceivedExact(r, cfg.max) PROVE ReceivedExact(new, cfg.max)
    BY DEF KeepsReceived
  <2> DEFINE held == SumFunction(Reserves(r.slices))
  <2>2. /\ Weighs(r.messages) /\ Weighs(Reserves(r.slices))
        /\ r.memory = SumFunction(r.messages) + held /\ r.memory <= cfg.max
    BY <2>1 DEF ReceivedExact
  <2>3. held \in Nat
    BY <2>2, SumIsNat
  <2>4. Accounts(new, r, id, len, cfg)
    BY <1>3 DEF Stores
  <2> HIDE DEF held, id, len
  <2>5. Weighs(new.messages) /\ new.memory = SumFunction(new.messages) + held /\ new.memory <= cfg.max
    <3>1. CASE id \notin DOMAIN r.messages
      BY <1>1, <2>2, <2>3, <2>4, <3>1, StoreExact
    <3>2. CASE id \in DOMAIN r.messages
      <4>1. Known(r, id, cfg)
        BY <1>1, <3>2, HadIsKnown DEF Has
      <4> QED BY <2>2, <2>4, <4>1 DEF Accounts
    <3> QED BY <3>1, <3>2
  <2> QED BY <1>8, <2>2, <2>5 DEF ReceivedExact, held
<1>10. \A x \in Nat : Has(new, out, x) => Has(r, out, x) \/ x = m.id
  BY <1>3 DEF Stores, Gains, Has, With
<1> QED BY <1>6, <1>7, <1>8, <1>9, <1>10 DEF new

LEMMA ReceiveMessagesKeeps ==
    ASSUME NEW r, NEW cfg, NEW lens, NEW out, ReceiveReliableOK(r, cfg, lens, out), r.err = "none",
           cfg.max \in Nat, NEW messages \in Seq(SmallMessages(lens))
    PROVE  LET new == ReceiveMessages(r, messages, cfg)
           IN  /\ ReceiveReliableOK(new, cfg, lens, out)
               /\ Received(new, r, out, {messages[e].id : e \in DOMAIN messages})
               /\ KeepsReceived(new, r, cfg)
<1> DEFINE loop == [of |-> "receive", messages |-> messages, cfg |-> cfg, lens |-> lens,
                    out |-> out, old |-> r]
           S == DOMAIN messages
           pick == [t \in SUBSET S |-> Max(t)]
           Step(s, e) == IF s.err # "none" THEN s
                         ELSE ProcessMessage(s, messages[e].id, messages[e].len, cfg)
           Runs(f) == f = [t \in SUBSET S |-> IF t = {} THEN r
                             ELSE Step(f[t \ {Max(t)}], Max(t))]
           iter == CHOOSE f : Runs(f)
           Ids(done) == {messages[e].id : e \in done}
<1>1. S = 1 .. Len(messages) /\ Len(messages) \in Nat
      /\ \A e \in S : messages[e] \in SmallMessages(lens)
  BY LenProperties, ElementOfSeq
<1>2. IsFiniteSet(S) /\ Picks(pick, S)
  <2> HIDE DEF S
  <2>1. S \in SUBSET (0 .. Len(messages))
    BY <1>1
  <2> QED BY <1>1, <2>1, MaxPicks
<1>3. \A s, e : Body(loop, s, e) = Step(s, e)
  BY DEF Body
<1>4. \A done, s : Keeps(loop, done, s) <=>
          /\ ReceiveReliableOK(s, cfg, lens, out) /\ Received(s, r, out, Ids(done))
          /\ KeepsReceived(s, r, cfg)
  BY DEF Keeps
<1> HIDE DEF loop, S
<1>5. \A f : Computes(f, loop, r, S, pick) <=> Runs(f)
  <2> HIDE DEF Step
  <2> QED BY <1>3 DEF Computes
<1>6. Runs(iter)
  <2>1. \E f : Runs(f)
    BY <1>2, <1>5, LoopDefined
  <2> HIDE DEF Runs
  <2> QED BY <2>1
<1>7. ReceiveMessages(r, messages, cfg) = iter[S]
  BY DEF ReceiveMessages, FoldLeft, MapThenFoldSet, S
<1> HIDE DEF iter
<1>8. Computes(iter, loop, r, S, pick)
  BY <1>5, <1>6
<1>9. ASSUME NEW t \in SUBSET S, t # {}, NEW s, Keeps(loop, t \ {pick[t]}, s)
      PROVE  Keeps(loop, t, Body(loop, s, pick[t]))
  <2> DEFINE e == pick[t]
             m == messages[e]
             new == ProcessMessage(s, m.id, m.len, cfg)
  <2>1. e \in t /\ e \in S /\ m \in SmallMessages(lens)
    BY <1>1, <1>2, <1>9 DEF Picks
  <2>2. /\ ReceiveReliableOK(s, cfg, lens, out) /\ Received(s, r, out, Ids(t \ {e}))
        /\ KeepsReceived(s, r, cfg)
    BY <1>4, <1>9
  <2> HIDE DEF pick, e
  <2>3. CASE s.err # "none"
    <3>1. Body(loop, s, e) = s
      BY <1>3, <2>3
    <3>2. Received(s, r, out, Ids(t))
      <4>1. \A id \in Ids(t \ {e}) : id \in Ids(t)
        OBVIOUS
      <4> HIDE DEF Ids
      <4> QED BY <2>2, <2>3, <4>1 DEF Received
    <3> QED BY <1>4, <2>2, <3>1, <3>2 DEF e
  <2>4. CASE s.err = "none"
    <3>1. Body(loop, s, e) = new
      BY <1>3, <2>4
    <3>2. /\ ReceiveReliableOK(new, cfg, lens, out)
          /\ NothingLost(new, s, out)
          /\ KeepsReceived(new, s, cfg)
          /\ new.slices = s.slices
          /\ new.err \in {"none", "ReliableChannelMaxMemoryReached"}
          /\ new.err = "none" => Has(new, out, m.id)
          /\ \A x \in Nat : Has(new, out, x) => Has(s, out, x) \/ x = m.id
      <4> HIDE DEF m
      <4> QED BY <2>1, <2>2, <2>4, ProcessMessageKeeps
    <3> HIDE DEF new
    <3>3. /\ \A id \in Ids(t) : id = m.id \/ id \in Ids(t \ {e})
          /\ m.id \in Ids(t) /\ \A id \in Ids(t \ {e}) : id \in Ids(t)
      BY <2>1
    <3>4. \A id \in Ids(t) : id \in Nat
      BY <1>1, <1>9 DEF SmallMessages
    <3> HIDE DEF Ids, m
    <3>5. Received(new, r, out, Ids(t))
      BY <2>2, <2>4, <3>2, <3>3, <3>4 DEF Received, NothingLost
    <3>6. KeepsReceived(new, r, cfg)
      BY <2>2, <3>2 DEF KeepsReceived
    <3> QED BY <1>4, <3>1, <3>2, <3>5, <3>6 DEF e
  <2> QED BY <2>3, <2>4
<1>10. Keeps(loop, {}, r)
  BY <1>4 DEF Received, KeepsReceived
<1>11. Keeps(loop, S, iter[S])
  <2> HIDE DEF pick
  <2> QED BY <1>2, <1>8, <1>9, <1>10, LoopKeeps
<1> QED BY <1>4, <1>7, <1>11 DEF S

LEMMA ReceiveUnreliableMessagesKeeps ==
    ASSUME NEW r, NEW cfg, NEW lens, ReceiveUnreliableOK(r, lens),
           cfg.max \in Nat, NEW messages \in Seq(SmallUnreliables(lens))
    PROVE  LET new == ReceiveUnreliableMessages(r, messages, cfg)
           IN  /\ ReceiveUnreliableOK(new, lens)
               /\ new.slices = r.slices /\ new.err = r.err
               /\ KeepsWaiting(new, r, cfg)
               /\ RoomFor(r, messages, lens, cfg.max) => Adds(new, r, DataWaiting(messages))
<1> DEFINE loop == [of |-> "receive unreliable", messages |-> messages, cfg |-> cfg,
                    lens |-> lens, old |-> r]
           S == DOMAIN messages
           pick == [t \in SUBSET S |-> Max(t)]
           Runs(f) == f = [t \in SUBSET S |-> IF t = {} THEN r
                             ELSE ProcessUnreliableMessage(f[t \ {Max(t)}], messages[Max(t)], cfg)]
           iter == CHOOSE f : Runs(f)
<1>1. S = 1 .. Len(messages) /\ Len(messages) \in Nat
      /\ \A e \in S : messages[e] \in SmallUnreliables(lens)
  BY LenProperties, ElementOfSeq
<1>2. IsFiniteSet(S) /\ Picks(pick, S)
  <2> HIDE DEF S
  <2>1. S \in SUBSET (0 .. Len(messages))
    BY <1>1
  <2> QED BY <1>1, <2>1, MaxPicks
<1>3. \A s, e : Body(loop, s, e) = ProcessUnreliableMessage(s, messages[e], cfg)
  BY DEF Body
<1>4. \A done, s : Keeps(loop, done, s) <=>
          /\ ReceiveUnreliableOK(s, lens) /\ s.slices = r.slices /\ s.err = r.err
          /\ KeepsWaiting(s, r, cfg)
          /\ RoomFor(r, messages, lens, cfg.max) => Adds(s, r, {messages[e].data : e \in done})
  BY DEF Keeps
<1> HIDE DEF loop, S
<1>5. \A f : Computes(f, loop, r, S, pick) <=> Runs(f)
  BY <1>3 DEF Computes
<1>6. Runs(iter)
  <2>1. \E f : Runs(f)
    BY <1>2, <1>5, LoopDefined
  <2> HIDE DEF Runs
  <2> QED BY <2>1
<1>7. ReceiveUnreliableMessages(r, messages, cfg) = iter[S]
  BY DEF ReceiveUnreliableMessages, FoldLeft, MapThenFoldSet, S
<1> HIDE DEF iter
<1>8. Computes(iter, loop, r, S, pick)
  BY <1>5, <1>6
<1>9. ASSUME NEW t \in SUBSET S, t # {}, NEW s, Keeps(loop, t \ {pick[t]}, s)
      PROVE  Keeps(loop, t, Body(loop, s, pick[t]))
  <2> DEFINE e == pick[t]
             m == messages[e]
             more == [s EXCEPT !.memory = @ + m.len, !.messages = Append(@, m)]
  <2>1. e \in t /\ m \in QueueMessages(lens)
    BY <1>1, <1>2, <1>9 DEF Picks, SmallUnreliables
  <2>2. /\ ReceiveUnreliableOK(s, lens) /\ s.slices = r.slices /\ s.err = r.err
        /\ KeepsWaiting(s, r, cfg)
    BY <1>4, <1>9
  <2> HIDE DEF pick, e, m
  <2>3. Body(loop, s, e) = IF s.memory + m.len > cfg.max THEN s ELSE more
    BY <1>3 DEF ProcessUnreliableMessage, m
  <2>4. /\ DOMAIN more = {"messages", "slices", "last_received", "memory", "err"}
        /\ more.messages = Append(s.messages, m) /\ more.slices = s.slices
        /\ more.last_received = s.last_received /\ more.err = s.err
        /\ more.memory = s.memory + m.len
    BY <2>2 DEF ReceiveUnreliableOK
  <2>5. Append(s.messages, m) \in Seq(QueueMessages(lens))
    BY <2>1, <2>2, AppendProperties DEF ReceiveUnreliableOK
  <2> HIDE DEF more
  <2>6. ReceiveUnreliableOK(more, lens)
    BY <2>2, <2>4, <2>5 DEF ReceiveUnreliableOK
  <2>7. ASSUME ~(s.memory + m.len > cfg.max) PROVE KeepsWaiting(more, r, cfg)
    <3>1. SUFFICES ASSUME WaitingExact(s, cfg.max) PROVE WaitingExact(more, cfg.max)
      BY <2>2 DEF KeepsWaiting
    <3> DEFINE queue == s.messages
               M == QueueMessages(lens)
               held == SumFunction(Reserves(s.slices))
    <3>2. (\A x \in M : x.len \in Nat) /\ queue \in Seq(M) /\ m \in M
      BY <2>1, <2>2 DEF QueueMessages, ReceiveUnreliableOK
    <3>3. /\ Weighs(Reserves(s.slices)) /\ held \in Nat
          /\ s.memory = TotalLength(queue) + held
      BY <3>1, SumIsNat DEF WaitingExact
    <3> HIDE DEF queue, M, held
    <3>4. /\ TotalLength(Append(queue, m)) = TotalLength(queue) + m.len
          /\ TotalLength(queue) \in Nat /\ m.len \in Nat
      BY <3>2, TotalAppend
    <3>5. more.memory = TotalLength(Append(queue, m)) + held /\ more.memory <= cfg.max
      BY <2>4, <2>7, <3>3, <3>4
    <3> QED BY <2>4, <3>3, <3>5 DEF WaitingExact, queue, held
  <2>8. ASSUME RoomFor(r, messages, lens, cfg.max)
        PROVE  /\ ~(s.memory + m.len > cfg.max)
               /\ Adds(more, r, {messages[x].data : x \in t})
    <3> DEFINE queue == s.messages
               M == QueueMessages(lens)
               held == SumFunction(Reserves(s.slices))
               before == {messages[x].data : x \in t \ {e}}
               after == {messages[x].data : x \in t}
    <3>1. /\ Distinct(queue) /\ DataWaiting(queue) = DataWaiting(r.messages) \union before
          /\ WaitingExact(s, cfg.max)
      BY <1>4, <1>9, <2>2, <2>8 DEF Adds, RoomFor, KeepsWaiting, e
    <3>2. after = before \union {m.data} /\ m.data \notin before
      BY <2>1, <2>8 DEF RoomFor, Distinct, S, m
    <3>3. m.data \in DataWaiting(messages)
      BY <2>1, DataIff DEF S, m
    <3>4. m.data \notin DataWaiting(queue)
      BY <2>8, <3>1, <3>2, <3>3 DEF RoomFor
    <3>5. (\A x \in M : x.len \in Nat) /\ queue \in Seq(M) /\ m \in M
      BY <2>1, <2>2 DEF QueueMessages, ReceiveUnreliableOK
    <3> HIDE DEF before, after, queue
    <3>6. /\ DataWaiting(Append(queue, m)) = DataWaiting(queue) \union {m.data}
          /\ Distinct(Append(queue, m)) /\ Append(queue, m) \in Seq(M)
      <4> HIDE DEF M
      <4> QED BY <3>1, <3>4, <3>5, DataOfAppend, AppendProperties
    <3>7. Adds(more, r, after)
      BY <2>4, <3>1, <3>2, <3>6 DEF Adds, queue
    <3>8. TotalLength(Append(queue, m)) + held <= cfg.max
      BY <2>2, <2>8, <3>6 DEF RoomFor, HasRoom
    <3>9. /\ TotalLength(Append(queue, m)) = TotalLength(queue) + m.len
          /\ TotalLength(queue) \in Nat /\ m.len \in Nat
      <4> HIDE DEF M
      <4> QED BY <3>5, TotalAppend
    <3>10. held \in Nat /\ s.memory = TotalLength(queue) + held
      BY <3>1, SumIsNat DEF WaitingExact, queue
    <3> HIDE DEF held
    <3>11. ~(s.memory + m.len > cfg.max)
      BY <3>8, <3>9, <3>10
    <3> QED BY <3>7, <3>11 DEF after
  <2> QED BY <1>4, <2>2, <2>3, <2>4, <2>6, <2>7, <2>8 DEF e
<1>10. Keeps(loop, {}, r)
  <2>1. RoomFor(r, messages, lens, cfg.max) => Adds(r, r, {messages[e].data : e \in {}})
    BY DEF RoomFor, Adds
  <2> QED BY <1>4, <2>1 DEF KeepsWaiting
<1>11. Keeps(loop, S, iter[S])
  <2> HIDE DEF pick
  <2> QED BY <1>2, <1>8, <1>9, <1>10, LoopKeeps
<1>12. {messages[e].data : e \in S} = DataWaiting(messages)
  BY DEF DataWaiting, ToSet, S
<1> QED BY <1>4, <1>7, <1>11, <1>12

(***************************************************************************)
(* The unordered channel finds the message to go on from: the received     *)
(* messages are fewer than the numbers that it looks at.                   *)
(***************************************************************************)
LEMMA AdvanceOldestFacts ==
    ASSUME NEW r, DOMAIN r = {"slices", "messages", "oldest", "received", "memory", "err"},
           r.oldest \in Nat, IsFiniteSet(r.received), r.received \subseteq Nat
    PROVE  LET new == AdvanceOldest(r)
           IN  /\ DOMAIN new = DOMAIN r
               /\ new.oldest \in Nat
               /\ new.received \subseteq r.received
               /\ \A x \in Nat : x < new.oldest \/ x \in new.received
                                   <=> x < r.oldest \/ x \in r.received
               /\ new.slices = r.slices /\ new.messages = r.messages
               /\ new.memory = r.memory /\ new.err = r.err
<1> DEFINE low == r.oldest
           C == Cardinality(r.received)
           Next0(n) == /\ n \notin r.received
                       /\ \A k \in low .. (n - 1) : k \in r.received
           oldest == CHOOSE n \in low .. (low + C) : Next0(n)
           new == AdvanceOldest(r)
<1>1. C \in Nat
  BY FS_CardinalityType
<1>2. \E n \in low .. (low + C) : n \notin r.received
  <2>1. SUFFICES ASSUME low .. (low + C) \subseteq r.received PROVE FALSE
    OBVIOUS
  <2>2. Cardinality(low .. (low + C)) <= C
    BY <2>1, FS_Subset
  <2>3. Cardinality(low .. (low + C)) = C + 1
    <3> HIDE DEF C
    <3>1. Cardinality(low .. (low + C)) = (low + C) - low + 1
      BY <1>1, FS_Interval
    <3> QED BY <1>1, <3>1
  <2> HIDE DEF C
  <2> QED BY <1>1, <2>2, <2>3
<1>3. \E n \in low .. (low + C) : Next0(n)
  <2> DEFINE free == {n \in low .. (low + C) : n \notin r.received}
  <2> HIDE DEF C
  <2>1. free \subseteq Nat /\ free # {}
    BY <1>1, <1>2
  <2>2. PICK n \in free : \A k \in free : n <= k
    <3> HIDE DEF free
    <3> QED BY <2>1, LeastNatural
  <2>3. n \in low .. (low + C) /\ n \in Nat /\ n \notin r.received
    BY <1>1
  <2>4. \A k \in low .. (n - 1) : k \in r.received
    BY <1>1, <2>2, <2>3
  <2> QED BY <2>3, <2>4
<1>4. oldest \in low .. (low + C) /\ Next0(oldest)
  <2> HIDE DEF Next0, C
  <2> QED BY <1>3
<1>5. oldest \in Nat /\ low <= oldest
  <2> HIDE DEF oldest, C
  <2> QED BY <1>1, <1>4
<1>6. new = [r EXCEPT !.oldest = oldest, !.received = @ \ (low .. (oldest - 1))]
  BY DEF AdvanceOldest
<1> HIDE DEF oldest
<1>7. /\ DOMAIN new = DOMAIN r /\ new.oldest = oldest
      /\ new.received = r.received \ (low .. (oldest - 1))
      /\ new.slices = r.slices /\ new.messages = r.messages
      /\ new.memory = r.memory /\ new.err = r.err
  <2> HIDE DEF new
  <2> QED BY <1>6
<1> HIDE DEF new
<1>8. ASSUME NEW x \in Nat
      PROVE  x < new.oldest \/ x \in new.received <=> x < r.oldest \/ x \in r.received
  <2>1. x \in low .. (oldest - 1) <=> low <= x /\ x < oldest
    BY <1>5
  <2>2. x \in low .. (oldest - 1) => x \in r.received
    BY <1>4
  <2> QED BY <1>5, <1>7, <2>1, <2>2
<1> QED BY <1>5, <1>7, <1>8 DEF new

LEMMA HandedOut ==
    ASSUME NEW out \in Seq(Nat), NEW id \in Nat
    PROVE  /\ Append(out, id) \in Seq(Nat)
           /\ Len(out) \in Nat /\ Len(Append(out, id)) = Len(out) + 1
           /\ DOMAIN out = 1 .. Len(out) /\ DOMAIN Append(out, id) = 1 .. (Len(out) + 1)
           /\ \A k \in 1 .. Len(out) : Append(out, id)[k] = out[k]
           /\ Append(out, id)[Len(out) + 1] = id
           /\ \A x : x \in ToSet(Append(out, id)) <=> x \in ToSet(out) \/ x = id
<1> DEFINE new == Append(out, id)
           n == Len(out)
<1>1. /\ new \in Seq(Nat) /\ n \in Nat /\ Len(new) = n + 1
      /\ DOMAIN out = 1 .. n /\ DOMAIN new = 1 .. (n + 1)
      /\ \A k \in 1 .. n : new[k] = out[k]
      /\ new[n + 1] = id
  BY AppendProperties, LenProperties
<1> HIDE DEF new, n
<1>2. \A k \in 1 .. (n + 1) : k \in 1 .. n \/ k = n + 1
  BY <1>1
<1>3. 1 .. n \subseteq 1 .. (n + 1) /\ n + 1 \in 1 .. (n + 1)
  BY <1>1
<1>4. ToSet(new) = ToSet(out) \union {id}
  BY <1>1, <1>2, <1>3 DEF ToSet
<1> QED BY <1>1, <1>4 DEF new, n

(* receive_message of a reliable channel *)
MessageTaken(new, r, cfg, lens, out, id) ==
    /\ ReceiveReliableOK(new, cfg, lens, Append(out, id))
    /\ \A x \in Nat : Has(new, Append(out, id), x) <=> Has(r, out, x)
    /\ new.slices = r.slices /\ new.err = r.err
    /\ KeepsReceived(new, r, cfg)

LEMMA TakeMessageKeeps ==
    ASSUME NEW r, NEW cfg, cfg.ordered \in BOOLEAN, cfg.max \in Nat, NEW lens \in LengthSeqs, NEW out,
           ReceiveReliableOK(r, cfg, lens, out), NEW id \in NextReceivable(r, cfg)
    PROVE  MessageTaken(TakeMessage(r, id, cfg), r, cfg, lens, out, id)
<1> DEFINE out2 == Append(out, id)
           popped == [r EXCEPT !.messages = Without(@, id), !.memory = @ - r.messages[id]]
           new == TakeMessage(r, id, cfg)
<1>1. /\ DOMAIN r = {"slices", "messages", "oldest", "received", "memory", "err"}
      /\ r.oldest \in Nat /\ r.memory \in Int /\ out \in Seq(Nat)
  BY DEF ReceiveReliableOK
<1>2. id \in DOMAIN r.messages
  BY DEF NextReceivable
<1>3. id \in Nat /\ id + 1 \in DOMAIN lens /\ r.messages[id] = lens[id + 1]
  BY <1>2 DEF ReceiveReliableOK
<1>4. r.messages[id] \in Nat
  BY <1>3, ElementOfSeq, LenProperties DEF LengthSeqs
<1>5. /\ DOMAIN popped = DOMAIN r /\ popped.slices = r.slices /\ popped.oldest = r.oldest
      /\ popped.messages = Without(r.messages, id) /\ popped.received = r.received
      /\ popped.memory = r.memory - r.messages[id] /\ popped.err = r.err
  BY <1>1
<1>6. /\ DOMAIN popped.messages = DOMAIN r.messages \ {id}
      /\ \A x \in DOMAIN popped.messages : popped.messages[x] = r.messages[x]
  BY <1>5 DEF Without
<1>7. popped.memory \in Int
  BY <1>1, <1>4, <1>5
<1> HIDE DEF popped
<1>8. /\ out2 \in Seq(Nat) /\ Len(out) \in Nat /\ Len(out2) = Len(out) + 1
      /\ DOMAIN out = 1 .. Len(out) /\ DOMAIN out2 = 1 .. (Len(out) + 1)
      /\ \A k \in 1 .. Len(out) : out2[k] = out[k]
      /\ out2[Len(out) + 1] = id
      /\ \A x : x \in ToSet(out2) <=> x \in ToSet(out) \/ x = id
  BY <1>1, <1>3, HandedOut
<1> HIDE DEF out2
<1>9. ASSUME NEW s, s.messages = popped.messages
      PROVE  \A x : Has(s, out2, x) <=> Has(r, out, x)
  BY <1>2, <1>6, <1>8, <1>9 DEF Has
<1>10. \A x \in DOMAIN popped.messages :
          x \in Nat /\ x + 1 \in DOMAIN lens /\ popped.messages[x] = lens[x + 1]
  BY <1>6 DEF ReceiveReliableOK
<1>13. ASSUME NEW s, s.messages = popped.messages, s.slices = r.slices, s.memory = popped.memory
       PROVE  KeepsReceived(s, r, cfg)
  <2>1. SUFFICES ASSUME ReceivedExact(r, cfg.max) PROVE ReceivedExact(s, cfg.max)
    BY DEF KeepsReceived
  <2> DEFINE w == r.messages
             held == SumFunction(Reserves(r.slices))
  <2>2. /\ Weighs(w) /\ Weighs(Reserves(r.slices)) /\ held \in Nat
        /\ r.memory = SumFunction(w) + held /\ r.memory <= cfg.max
    BY <2>1, SumIsNat DEF ReceivedExact
  <2>3. id \in DOMAIN w /\ popped.messages = Without(w, id) /\ popped.memory = r.memory - w[id]
        /\ w[id] \in Nat
    BY <1>2, <1>4, <1>5
  <2> HIDE DEF w, held
  <2>4. /\ Weighs(Without(w, id)) /\ SumFunction(w) = SumFunction(Without(w, id)) + w[id]
        /\ {SumFunction(w), SumFunction(Without(w, id))} \subseteq Nat
    BY <2>2, <2>3, SumWithout
  <2>5. s.memory = SumFunction(Without(w, id)) + held /\ s.memory <= cfg.max
    BY <1>13, <2>2, <2>3, <2>4
  <2> QED BY <1>13, <2>2, <2>3, <2>4, <2>5 DEF ReceivedExact, held
<1>11. CASE cfg.ordered
  <2>1. id = r.oldest
    BY <1>11 DEF NextReceivable
  <2>2. new = [popped EXCEPT !.oldest = @ + 1]
    BY <1>11 DEF TakeMessage, popped
  <2>3. /\ DOMAIN new = DOMAIN r /\ new.slices = r.slices /\ new.oldest = r.oldest + 1
        /\ new.messages = popped.messages /\ new.received = r.received
        /\ new.memory = popped.memory /\ new.err = r.err
    <3> HIDE DEF new
    <3> QED BY <1>1, <1>5, <2>2
  <2> HIDE DEF new
  <2>4. OrderedOK(r, lens, out)
    BY <1>11 DEF ReceiveReliableOK
  <2>5. new.oldest = Len(out2) /\ Len(out2) <= Len(lens)
    <3>1. Len(lens) \in Nat /\ DOMAIN lens = 1 .. Len(lens)
      BY LenProperties DEF LengthSeqs
    <3>2. r.oldest = Len(out)
      BY <2>4 DEF OrderedOK
    <3> QED BY <1>3, <1>8, <2>1, <2>3, <3>1, <3>2
  <2>6. ASSUME NEW k \in DOMAIN out2 PROVE out2[k] = k - 1
    <3>1. CASE k \in 1 .. Len(out)
      BY <1>8, <2>4, <3>1 DEF OrderedOK
    <3>2. CASE k = Len(out) + 1
      BY <1>8, <2>1, <2>4, <3>2 DEF OrderedOK
    <3>3. k \in 1 .. Len(out) \/ k = Len(out) + 1
      BY <1>8
    <3> QED BY <3>1, <3>2, <3>3
  <2>7. ASSUME NEW x \in DOMAIN new.messages PROVE new.oldest <= x
    <3>1. x \in DOMAIN r.messages /\ x # id /\ x \in Nat /\ r.oldest <= x
      BY <1>6, <1>10, <2>3, <2>4 DEF OrderedOK
    <3> QED BY <1>1, <2>1, <2>3, <3>1
  <2>8. ASSUME NEW x \in DOMAIN new.slices PROVE new.oldest <= x /\ x \notin DOMAIN new.messages
    <3>1. x \in Nat /\ r.oldest <= x /\ x \notin DOMAIN r.messages
      BY <2>3, <2>4 DEF OrderedOK, ReceiveReliableOK
    <3> QED BY <1>1, <1>2, <1>6, <2>1, <2>3, <3>1
  <2>9. OrderedOK(new, lens, out2)
    BY <2>5, <2>6, <2>7, <2>8 DEF OrderedOK
  <2>10. ReceiveReliableOK(new, cfg, lens, out2)
    BY <1>1, <1>7, <1>8, <1>10, <1>11, <2>3, <2>9 DEF ReceiveReliableOK
  <2> QED BY <1>9, <1>13, <2>3, <2>10 DEF MessageTaken, out2, new
<1>12. CASE ~cfg.ordered
  <2>1. UnorderedOK(r, lens, out)
    BY <1>12 DEF ReceiveReliableOK
  <2>2. \A k \in DOMAIN out : out[k] # id
    BY <1>2, <2>1 DEF UnorderedOK
  <2>3. IsInjective(out2)
    <3>1. ASSUME NEW i \in DOMAIN out2, NEW j \in DOMAIN out2, out2[i] = out2[j] PROVE i = j
      <4>1. \A k \in DOMAIN out2 : k \in 1 .. Len(out) \/ k = Len(out) + 1
        BY <1>8
      <4>2. \A a, b \in DOMAIN out : out[a] = out[b] => a = b
        BY <2>1 DEF UnorderedOK, IsInjective
      <4> QED BY <1>8, <2>2, <3>1, <4>1, <4>2
    <3> QED BY <3>1 DEF IsInjective
  <2>4. ASSUME NEW k \in DOMAIN out2
        PROVE  out2[k] + 1 \in DOMAIN lens /\ out2[k] \notin DOMAIN popped.messages
    <3>1. CASE k \in 1 .. Len(out)
      BY <1>6, <1>8, <2>1, <3>1 DEF UnorderedOK
    <3>2. CASE k = Len(out) + 1
      BY <1>3, <1>6, <1>8, <3>2
    <3>3. k \in 1 .. Len(out) \/ k = Len(out) + 1
      BY <1>8
    <3> QED BY <3>1, <3>2, <3>3
  <2>5. ASSUME NEW s, DOMAIN s = DOMAIN r, s.slices = r.slices, s.messages = popped.messages,
               s.oldest \in Nat, s.memory = popped.memory, s.err = r.err, s.received \subseteq r.received,
               \A x \in Nat : x < s.oldest \/ x \in s.received <=> x < r.oldest \/ x \in r.received
        PROVE  MessageTaken(s, r, cfg, lens, out, id)
    <3>1. \A x : Has(s, out2, x) <=> Has(r, out, x)
      BY <1>9, <2>5
    <3>2. IsFiniteSet(s.received) /\ s.received \subseteq Nat
      BY <2>1, <2>5, FS_Subset DEF UnorderedOK
    <3>3. UnorderedOK(s, lens, out2)
      BY <2>1, <2>3, <2>4, <2>5, <3>1, <3>2 DEF UnorderedOK
    <3>4. ReceiveReliableOK(s, cfg, lens, out2)
      BY <1>1, <1>7, <1>8, <1>10, <1>12, <2>5, <3>3 DEF ReceiveReliableOK
    <3> QED BY <1>13, <2>5, <3>1, <3>4 DEF MessageTaken, out2
  <2>6. CASE r.oldest = id
    <3>1. new = AdvanceOldest(popped)
      BY <1>12, <2>6 DEF TakeMessage, popped
    <3>2. IsFiniteSet(popped.received) /\ popped.received \subseteq Nat
      BY <1>5, <2>1 DEF UnorderedOK
    <3>3. /\ DOMAIN new = DOMAIN r /\ new.oldest \in Nat /\ new.received \subseteq r.received
          /\ \A x \in Nat : x < new.oldest \/ x \in new.received <=> x < r.oldest \/ x \in r.received
          /\ new.slices = r.slices /\ new.messages = popped.messages
          /\ new.memory = popped.memory /\ new.err = r.err
      <4> HIDE DEF new
      <4> QED BY <1>1, <1>5, <3>1, <3>2, AdvanceOldestFacts
    <3> HIDE DEF new
    <3> QED BY <1>7, <2>5, <3>3 DEF new
  <2>7. CASE r.oldest # id
    <3>1. new = popped
      BY <1>12, <2>7 DEF TakeMessage, popped
    <3>2. MessageTaken(popped, r, cfg, lens, out, id)
      BY <1>1, <1>5, <1>7, <2>5
    <3> QED BY <3>1, <3>2
  <2> QED BY <2>6, <2>7
<1> QED BY <1>11, <1>12

-----------------------------------------------------------------------------
(* The receiving half of an unreliable channel *)

(* What a slice does to it. *)
SliceJoins(new, r, p) ==
    IF p.id \in DOMAIN new.slices \/ new.messages = r.messages
    THEN /\ new.messages = r.messages
         /\ \A i : p.id \in DOMAIN new.slices /\ i \in new.slices[p.id].got =>
              i = p.index \/ (p.id \in DOMAIN r.slices /\ i \in r.slices[p.id].got)
    ELSE /\ \E len : new.messages = Append(r.messages, [data |-> p.data, len |-> len])
         /\ \A i \in 0 .. (p.num_slices - 1) :
              i = p.index \/ (p.id \in DOMAIN r.slices /\ i \in r.slices[p.id].got)

UnreliableReceived(new, r, cfg, lens, p) ==
    /\ ReceiveUnreliableOK(new, lens)
    /\ new.err = r.err
    /\ KeepsWaiting(new, r, cfg)
    /\ \A x \in DOMAIN new.slices :
         \/ x = p.id /\ ConstructorOK(new.slices[x], lens[p.data + 1])
         \/ x # p.id /\ x \in DOMAIN r.slices /\ new.slices[x] = r.slices[x]
    /\ SliceJoins(new, r, p)

LEMMA ProcessUnreliableSliceKeeps ==
    ASSUME NEW r, NEW cfg, NEW lens \in LengthSeqs, ReceiveUnreliableOK(r, lens), cfg.max \in Nat,
           NEW p, p.data \in Nat, p.data + 1 \in DOMAIN lens, p.index \in Nat,
           IsSliceOf(p, lens[p.data + 1]),
           p.id \in DOMAIN r.slices => ConstructorOK(r.slices[p.id], lens[p.data + 1])
    PROVE  UnreliableReceived(ProcessUnreliableSlice(r, p, cfg), r, cfg, lens, p)
<1> DEFINE id == p.id
           len == lens[p.data + 1]
           reserve == IF id \in DOMAIN r.slices THEN 0 ELSE p.num_slices * SliceSize
           old == IF id \in DOMAIN r.slices THEN r.slices[id] ELSE NewConstructor(p.num_slices)
           k == AddSlice(old, p.index, p.len)
           bytes == p.num_slices * SliceSize
           full == id \notin DOMAIN r.slices /\ r.memory + bytes > cfg.max
           m == [data |-> p.data, len |-> k.len]
           done == [r EXCEPT !.slices = Without(@, id), !.last_received = Without(@, id),
                             !.memory = @ + reserve - bytes + k.len,
                             !.messages = Append(@, m)]
           kept == [r EXCEPT !.slices = With(@, id, k), !.last_received = With(@, id, 0),
                             !.memory = @ + reserve]
           new == ProcessUnreliableSlice(r, p, cfg)
<1>1. /\ len \in Nat /\ IsSliced(len) /\ p.num_slices = NumSlices(len)
      /\ p.index \in 0 .. (NumSlices(len) - 1) /\ p.len = SliceLength(len, p.index)
  <2>1. len \in Nat
    BY ElementOfSeq, LenProperties DEF LengthSeqs
  <2>2. IsSliced(len) /\ p.num_slices = NumSlices(len) /\ p.index < NumSlices(len)
        /\ p.len = SliceLength(len, p.index)
    BY DEF IsSliceOf
  <2>3. NumSlices(len) \in Nat
    BY <2>1, <2>2, SliceCount
  <2> QED BY <2>1, <2>2, <2>3
<1>2. /\ DOMAIN r = {"messages", "slices", "last_received", "memory", "err"}
      /\ r.messages \in Seq(QueueMessages(lens)) /\ DOMAIN r.slices = DOMAIN r.last_received
  BY DEF ReceiveUnreliableOK
<1>3. ConstructorOK(old, len)
  <2>1. CASE id \in DOMAIN r.slices
    BY <2>1
  <2>2. CASE id \notin DOMAIN r.slices
    BY <1>1, <2>2, NewConstructorOK
  <2> QED BY <2>1, <2>2
<1>4. ValidSlice(old, p.index, p.len) /\ SliceAdded(k, old, p.index, len)
  <2> HIDE DEF old, len
  <2> QED BY <1>1, <1>3, AddSliceKeeps
<1>9. /\ bytes \in Nat /\ reserve = (IF id \in DOMAIN r.slices THEN 0 ELSE bytes)
      /\ len <= bytes /\ k.n * SliceSize = bytes
      /\ id \in DOMAIN r.slices => r.slices[id].n * SliceSize = bytes
  <2>1. k.n = NumSlices(len) /\ (id \in DOMAIN r.slices => r.slices[id].n = NumSlices(len))
    BY <1>4 DEF SliceAdded, ConstructorOK
  <2>2. NumSlices(len) * SliceSize \in Nat /\ len <= NumSlices(len) * SliceSize
    BY <1>1, SliceCount, ReliableChannelAssumption
  <2> HIDE DEF len, k
  <2> QED BY <1>1, <2>1, <2>2
<1>5. new = IF full THEN r
            ELSE IF Cardinality(k.got) = k.n THEN done ELSE kept
  <2> HIDE DEF done, kept
  <2>1. CASE full
    BY <2>1 DEF ProcessUnreliableSlice
  <2>2. CASE ~full
    <3>1. new = CollectUnreliableSlice(r, p)
      BY <2>2 DEF ProcessUnreliableSlice
    <3>2. CollectUnreliableSlice(r, p) = IF Cardinality(k.got) = k.n THEN done ELSE kept
      BY <1>4 DEF CollectUnreliableSlice, done, kept
    <3> QED BY <2>2, <3>1, <3>2
  <2> QED BY <2>1, <2>2
<1> HIDE DEF new, k, reserve, bytes
<1>10. ASSUME ~full, WaitingExact(r, cfg.max)
       PROVE  /\ Weighs(Reserves(r.slices)) /\ SumFunction(Reserves(r.slices)) \in Nat
              /\ TotalLength(r.messages) \in Nat
              /\ r.memory = TotalLength(r.messages) + SumFunction(Reserves(r.slices))
              /\ r.memory + reserve <= cfg.max
  <2>1. /\ Weighs(Reserves(r.slices)) /\ SumFunction(Reserves(r.slices)) \in Nat
        /\ r.memory = TotalLength(r.messages) + SumFunction(Reserves(r.slices))
        /\ r.memory <= cfg.max
    BY <1>10, SumIsNat DEF WaitingExact
  <2>2. TotalLength(r.messages) \in Nat
    <3>1. \A x \in QueueMessages(lens) : x.len \in Nat
      BY DEF QueueMessages
    <3> QED BY <1>2, <3>1, TotalIsNat
  <2>3. r.memory \in Nat
    BY <2>1, <2>2
  <2> QED BY <1>9, <1>10, <2>1, <2>2, <2>3
<1>6. CASE new = r /\ id \notin DOMAIN r.slices
  <2>1. UnreliableReceived(r, r, cfg, lens, p)
    BY <1>6 DEF UnreliableReceived, KeepsWaiting, SliceJoins
  <2> QED BY <1>6, <2>1 DEF new
<1>7. CASE ~full /\ new = done /\ Cardinality(k.got) = k.n
  <2>1. /\ DOMAIN done = DOMAIN r /\ done.slices = Without(r.slices, id)
        /\ done.last_received = Without(r.last_received, id)
        /\ done.messages = Append(r.messages, m) /\ done.err = r.err
        /\ done.memory = r.memory + (reserve - bytes) + k.len
    BY <1>2
  <2> HIDE DEF done
  <2>2. k.len = len
    <3>1. ~(Cardinality(k.got) < k.n)
      <4>1. k.n = NumSlices(len)
        BY <1>4 DEF SliceAdded
      <4>2. k.n \in Nat
        BY <1>1, <4>1, SliceCount
      <4> QED BY <1>7, <4>2
    <3> QED BY <1>4, <3>1 DEF SliceAdded
  <2>3. m \in QueueMessages(lens)
    BY <1>1, <2>2 DEF QueueMessages
  <2>4. Append(r.messages, m) \in Seq(QueueMessages(lens))
    <3> HIDE DEF m
    <3> QED BY <1>2, <2>3, AppendProperties
  <2>5. /\ DOMAIN done.slices = DOMAIN r.slices \ {id}
        /\ DOMAIN done.last_received = DOMAIN r.last_received \ {id}
        /\ \A x \in DOMAIN r.slices : x # id => done.slices[x] = r.slices[x]
    BY <2>1 DEF Without
  <2>6. ReceiveUnreliableOK(done, lens)
    BY <1>2, <2>1, <2>4, <2>5 DEF ReceiveUnreliableOK
  <2>8. KeepsWaiting(done, r, cfg)
    <3>1. SUFFICES ASSUME WaitingExact(r, cfg.max) PROVE WaitingExact(done, cfg.max)
      BY DEF KeepsWaiting
    <3> DEFINE slices == r.slices
               rest == done.slices
               queue == r.messages
               M == QueueMessages(lens)
    <3>2. /\ Weighs(Reserves(slices)) /\ SumFunction(Reserves(slices)) \in Nat
          /\ r.memory = TotalLength(queue) + SumFunction(Reserves(slices))
          /\ r.memory + reserve <= cfg.max
      BY <1>7, <1>10, <3>1
    <3>3. /\ id \in DOMAIN slices => slices[id].n * SliceSize = bytes
          /\ DOMAIN rest = DOMAIN slices \ {id}
          /\ \A x \in DOMAIN slices : x # id => rest[x] = slices[x]
          /\ bytes \in Nat /\ reserve = (IF id \in DOMAIN slices THEN 0 ELSE bytes)
      BY <1>9, <2>5
    <3>4. (\A x \in M : x.len \in Nat) /\ queue \in Seq(M) /\ m \in M /\ m.len = len
      BY <1>2, <2>2, <2>3 DEF QueueMessages
    <3> HIDE DEF id, slices, rest, queue, M, m
    <3>5. /\ Weighs(Reserves(rest)) /\ SumFunction(Reserves(rest)) \in Nat
          /\ SumFunction(Reserves(rest)) + bytes = SumFunction(Reserves(slices)) + reserve
      <4>1. Weighs(Reserves(slices)) /\ bytes \in Nat
        BY <3>2, <3>3
      <4>2. /\ id \in DOMAIN slices => slices[id].n * SliceSize = bytes
            /\ DOMAIN rest = DOMAIN slices \ {id}
            /\ \A x \in DOMAIN slices : x # id => rest[x] = slices[x]
        BY <3>3
      <4>3. LET without == Reserves(rest)
            IN  /\ Weighs(without)
                /\ SumFunction(without) + bytes =
                     SumFunction(Reserves(slices)) + IF id \in DOMAIN slices THEN 0 ELSE bytes
                /\ SumFunction(without) \in Nat
        BY ONLY <4>1, <4>2, ReservesWithout
      <4> QED BY <3>3, <4>3
    <3>6. TotalLength(Append(queue, m)) = TotalLength(queue) + len /\ TotalLength(queue) \in Nat
      BY <3>4, TotalAppend
    <3> HIDE DEF len
    <3>7. /\ done.memory = TotalLength(Append(queue, m)) + SumFunction(Reserves(rest))
          /\ done.memory <= cfg.max
      <4> DEFINE a == TotalLength(queue)
                 b == SumFunction(Reserves(slices))
                 d == SumFunction(Reserves(rest))
      <4>1. a \in Nat /\ b \in Nat /\ d \in Nat /\ bytes \in Nat /\ reserve \in Nat /\ len \in Nat
            /\ len <= bytes
        BY <1>1, <1>9, <3>2, <3>3, <3>5, <3>6
      <4>2. /\ r.memory = a + b /\ r.memory + reserve <= cfg.max /\ d + bytes = b + reserve
            /\ done.memory = r.memory + (reserve - bytes) + len
            /\ TotalLength(Append(queue, m)) = a + len
        BY <2>1, <2>2, <3>2, <3>5, <3>6
      <4> HIDE DEF a, b, d
      <4>3. done.memory = (a + len) + d /\ done.memory <= cfg.max
        BY <4>1, <4>2
      <4> QED BY <4>2, <4>3 DEF d
    <3> QED BY <2>1, <3>5, <3>7 DEF WaitingExact, rest, queue
  <2>9. SliceJoins(done, r, p)
    <3>1. k.got = 0 .. (k.n - 1) /\ k.got = old.got \union {p.index} /\ k.n = p.num_slices
      <4>1. k.n = NumSlices(len) /\ k.n \in Nat
        BY <1>1, <1>4, SliceCount DEF SliceAdded
      <4> QED BY <1>1, <1>4, <1>7, <4>1 DEF SliceAdded
    <3>2. old.got = IF id \in DOMAIN r.slices THEN r.slices[id].got ELSE {}
      BY DEF NewConstructor
    <3>3. Append(r.messages, m) # r.messages
      <4> HIDE DEF m
      <4>1. Len(Append(r.messages, m)) = Len(r.messages) + 1 /\ Len(r.messages) \in Nat
        BY <1>2, <2>3, AppendProperties, LenProperties
      <4> QED BY <4>1
    <3> QED BY <2>1, <2>5, <3>1, <3>2, <3>3 DEF SliceJoins
  <2>7. UnreliableReceived(done, r, cfg, lens, p)
    BY <2>1, <2>5, <2>6, <2>8, <2>9 DEF UnreliableReceived
  <2> QED BY <1>7, <2>7 DEF new
<1>8. CASE ~full /\ new = kept /\ Cardinality(k.got) # k.n
  <2>1. /\ DOMAIN kept = DOMAIN r /\ kept.slices = With(r.slices, id, k)
        /\ kept.last_received = With(r.last_received, id, 0)
        /\ kept.messages = r.messages /\ kept.err = r.err
        /\ kept.memory = r.memory + reserve
    BY <1>2
  <2> HIDE DEF kept
  <2>2. ConstructorOK(k, len)
    BY <1>4, <1>8 DEF SliceAdded
  <2>3. /\ DOMAIN kept.slices = DOMAIN r.slices \union {id}
        /\ DOMAIN kept.last_received = DOMAIN r.last_received \union {id}
        /\ kept.slices[id] = k
        /\ \A x \in DOMAIN r.slices : x # id => kept.slices[x] = r.slices[x]
    BY <2>1 DEF With
  <2>4. ReceiveUnreliableOK(kept, lens)
    BY <1>2, <2>1, <2>3 DEF ReceiveUnreliableOK
  <2>6. KeepsWaiting(kept, r, cfg)
    <3>1. SUFFICES ASSUME WaitingExact(r, cfg.max) PROVE WaitingExact(kept, cfg.max)
      BY DEF KeepsWaiting
    <3> DEFINE slices == r.slices
               queue == r.messages
    <3>2. /\ Weighs(Reserves(slices)) /\ SumFunction(Reserves(slices)) \in Nat
          /\ r.memory = TotalLength(queue) + SumFunction(Reserves(slices))
          /\ TotalLength(queue) \in Nat
          /\ r.memory + reserve <= cfg.max
      BY <1>8, <1>10, <3>1
    <3>3. /\ id \in DOMAIN slices => slices[id].n * SliceSize = bytes
          /\ k.n * SliceSize = bytes
          /\ bytes \in Nat /\ reserve = (IF id \in DOMAIN slices THEN 0 ELSE bytes)
      BY <1>9
    <3>4. kept.slices = With(slices, id, k)
      BY <2>1
    <3> HIDE DEF id, slices, queue
    <3>5. /\ Weighs(Reserves(With(slices, id, k)))
          /\ SumFunction(Reserves(With(slices, id, k))) =
               SumFunction(Reserves(slices)) + IF id \in DOMAIN slices THEN 0 ELSE bytes
      BY <3>2, <3>3, ReservesWith
    <3> DEFINE w == Reserves(With(slices, id, k))
    <3>6. Reserves(kept.slices) = w
      BY <3>4
    <3> HIDE DEF w
    <3>7. SumFunction(w) = SumFunction(Reserves(slices)) + reserve /\ Weighs(w)
      BY <3>3, <3>5 DEF w
    <3>8. kept.memory = TotalLength(queue) + SumFunction(w) /\ kept.memory <= cfg.max
      BY <2>1, <3>2, <3>3, <3>7
    <3> QED BY <2>1, <3>6, <3>7, <3>8 DEF WaitingExact, queue
  <2>7. SliceJoins(kept, r, p)
    <3>1. k.got = old.got \union {p.index}
      BY <1>4 DEF SliceAdded
    <3>2. old.got = IF id \in DOMAIN r.slices THEN r.slices[id].got ELSE {}
      BY DEF NewConstructor
    <3> QED BY <2>1, <2>3, <3>1, <3>2 DEF SliceJoins
  <2>5. UnreliableReceived(kept, r, cfg, lens, p)
    BY <2>1, <2>2, <2>3, <2>4, <2>6, <2>7 DEF UnreliableReceived
  <2> QED BY <1>8, <2>5 DEF new
<1> QED BY <1>5, <1>6, <1>7, <1>8

LEMMA DiscardKeeps ==
    ASSUME NEW r, NEW lens, ReceiveUnreliableOK(r, lens), NEW d
    PROVE  LET new == DiscardIncompleteOldSlices(r, d)
           IN  /\ ReceiveUnreliableOK(new, lens)
               /\ new.err = r.err /\ new.messages = r.messages
               /\ \A x \in DOMAIN new.slices : x \in DOMAIN r.slices /\ new.slices[x] = r.slices[x]
               /\ \A max \in Nat : WaitingExact(r, max) => WaitingExact(new, max)
<1> DEFINE aged == [id \in DOMAIN r.last_received |-> Older(r.last_received[id], d)]
           lost == LostSlices(aged)
           times == [id \in DOMAIN aged \ lost |-> aged[id]]
           slices == [id \in DOMAIN r.slices \ lost |-> r.slices[id]]
           new == DiscardIncompleteOldSlices(r, d)
<1>1. new = [r EXCEPT !.last_received = times, !.slices = slices,
                      !.memory = @ - ReservedBytes(r.slices, lost)]
  BY DEF DiscardIncompleteOldSlices
<1>2. DOMAIN r = {"messages", "slices", "last_received", "memory", "err"}
      /\ r.messages \in Seq(QueueMessages(lens)) /\ DOMAIN r.slices = DOMAIN r.last_received
  BY DEF ReceiveUnreliableOK
<1>3. DOMAIN aged = DOMAIN r.last_received /\ lost \subseteq DOMAIN r.slices
  BY <1>2 DEF LostSlices
<1> HIDE DEF lost, aged
<1>4. DOMAIN times = DOMAIN aged \ lost /\ DOMAIN slices = DOMAIN r.slices \ lost
      /\ \A x \in DOMAIN slices : slices[x] = r.slices[x]
  OBVIOUS
<1> HIDE DEF times, slices, new
<1>5. DOMAIN new = DOMAIN r /\ new.last_received = times /\ new.slices = slices
      /\ new.messages = r.messages /\ new.err = r.err
      /\ new.memory = r.memory - ReservedBytes(r.slices, lost)
  BY <1>1, <1>2
<1>6. ReceiveUnreliableOK(new, lens)
  BY <1>2, <1>3, <1>4, <1>5 DEF ReceiveUnreliableOK
<1>7. ASSUME NEW max \in Nat, WaitingExact(r, max) PROVE WaitingExact(new, max)
  <2> DEFINE old == r.slices
             w == Reserves(r.slices)
             u == Reserves(slices)
             gone == Bytes(w, lost)
             total == TotalLength(r.messages)
  <2>1. Weighs(w) /\ r.memory = total + SumFunction(w) /\ r.memory <= max
    BY <1>7 DEF WaitingExact
  <2>2. ReservedBytes(r.slices, lost) = gone
    <3>1. lost \in SUBSET DOMAIN old /\ Weighs(Reserves(old))
      BY <1>3, <2>1
    <3> HIDE DEF old
    <3>2. ReservedBytes(old, lost) = Bytes(Reserves(old), lost)
      BY <3>1, ReservedIsSum
    <3> QED BY <3>2 DEF old
  <2>3. /\ lost \in SUBSET DOMAIN w /\ DOMAIN u = DOMAIN w \ lost
        /\ \A x \in DOMAIN u : u[x] = w[x]
    BY <1>3, <1>4 DEF Reserves
  <2> HIDE DEF w, u
  <2>4. /\ Weighs(u) /\ SumFunction(w) = SumFunction(u) + gone
        /\ {SumFunction(w), SumFunction(u), gone} \subseteq Nat
    BY ONLY <2>1, <2>3, SumLess
  <2>5. total \in Nat
    <3>1. \A x \in QueueMessages(lens) : x.len \in Nat
      BY DEF QueueMessages
    <3> QED BY <1>2, <3>1, TotalIsNat
  <2>6. new.memory = r.memory - gone
    BY <1>5, <2>2
  <2> HIDE DEF gone, total
  <2>7. new.memory = total + SumFunction(u) /\ new.memory <= max
    BY <2>1, <2>4, <2>5, <2>6
  <2> QED BY <1>5, <2>4, <2>7 DEF WaitingExact, u, total
<1> QED BY <1>4, <1>5, <1>6, <1>7 DEF new

LEMMA TakeUnreliableKeeps ==
    ASSUME NEW r, NEW lens, ReceiveUnreliableOK(r, lens), r.messages # << >>
    PROVE  LET new == TakeUnreliableMessage(r)
           IN  /\ ReceiveUnreliableOK(new, lens) /\ new.err = r.err /\ new.slices = r.slices
               /\ new.messages = Tail(r.messages)
               /\ \A max \in Nat : WaitingExact(r, max) => WaitingExact(new, max)
<1> DEFINE new == TakeUnreliableMessage(r)
<1>1. DOMAIN r = {"messages", "slices", "last_received", "memory", "err"}
      /\ r.messages \in Seq(QueueMessages(lens)) /\ DOMAIN r.slices = DOMAIN r.last_received
  BY DEF ReceiveUnreliableOK
<1>2. DOMAIN new = DOMAIN r /\ new.last_received = r.last_received /\ new.slices = r.slices
      /\ new.messages = Tail(r.messages) /\ new.err = r.err
      /\ new.memory = r.memory - Head(r.messages).len
  BY <1>1 DEF TakeUnreliableMessage
<1>3. Tail(r.messages) \in Seq(QueueMessages(lens))
  BY <1>1, HeadTailProperties
<1> HIDE DEF new
<1>4. ASSUME NEW max \in Nat, WaitingExact(r, max) PROVE WaitingExact(new, max)
  <2> DEFINE queue == r.messages
             M == QueueMessages(lens)
             held == SumFunction(Reserves(r.slices))
  <2>1. /\ Weighs(Reserves(r.slices)) /\ held \in Nat
        /\ r.memory = TotalLength(queue) + held /\ r.memory <= max
    BY <1>4, SumIsNat DEF WaitingExact
  <2>2. (\A x \in M : x.len \in Nat) /\ queue \in Seq(M) /\ queue # << >>
    BY <1>1 DEF QueueMessages
  <2> HIDE DEF queue, M, held
  <2>3. /\ TotalLength(queue) = TotalLength(Tail(queue)) + Head(queue).len
        /\ {TotalLength(queue), TotalLength(Tail(queue)), Head(queue).len} \subseteq Nat
    BY <2>2, TotalTail
  <2>4. new.memory = r.memory - Head(queue).len /\ new.messages = Tail(queue)
    BY <1>2 DEF queue
  <2>5. new.memory = TotalLength(Tail(queue)) + held /\ new.memory <= max
    BY <2>1, <2>3, <2>4
  <2> QED BY <1>2, <2>1, <2>4, <2>5 DEF WaitingExact, held
<1> QED BY <1>1, <1>2, <1>3, <1>4 DEF ReceiveUnreliableOK, new

-----------------------------------------------------------------------------
(***************************************************************************)
(* Room for all messages of a channel.                                     *)
(***************************************************************************)
LEMMA TimesGrows ==
    ASSUME NEW a \in Nat, NEW b \in Nat, NEW room \in Nat, a <= b
    PROVE  a * room <= b * room /\ a * room \in Nat /\ b * room \in Nat
<1> DEFINE d == b - a
<1>1. d \in Nat /\ b = a + d
  OBVIOUS
<1> HIDE DEF d
<1>2. b * room = a * room + d * room
  BY <1>1
<1>3. a * room \in Nat /\ d * room \in Nat
  BY <1>1
<1> QED BY <1>2, <1>3

LEMMA NumbersBelow ==
    ASSUME NEW n \in Nat
    PROVE  IsFiniteSet(0 .. (n - 1)) /\ Cardinality(0 .. (n - 1)) = n
<1>1. 0 \in Int /\ n - 1 \in Int
  OBVIOUS
<1> QED BY <1>1, FS_Interval

LEMMA BytesWithin ==
    ASSUME NEW w, NEW S, IsFiniteSet(S), NEW room \in Nat,
           \A x \in S : w[x] \in Nat /\ w[x] <= room,
           NEW n \in Nat, Cardinality(S) <= n
    PROVE  Bytes(w, S) <= n * room /\ n * room \in Nat
<1> DEFINE T == 0 .. (room - 1)
           box == S \X T
<1>1. IsFiniteSet(T) /\ Cardinality(T) = room
  BY NumbersBelow
<1>2. Units(w, S) \subseteq box
  BY DEF Units
<1> HIDE DEF T
<1>3. IsFiniteSet(box) /\ Cardinality(box) = Cardinality(S) * room
  BY <1>1, FS_Product
<1> HIDE DEF box
<1>4. Bytes(w, S) <= Cardinality(S) * room
  BY <1>2, <1>3, FS_Subset DEF Bytes
<1>5. Cardinality(S) \in Nat /\ Bytes(w, S) \in Nat
  BY FS_CardinalityType, UnitsFinite
<1>6. Cardinality(S) * room <= n * room /\ Cardinality(S) * room \in Nat /\ n * room \in Nat
  BY <1>5, TimesGrows
<1> QED BY <1>4, <1>5, <1>6

(* Different messages are no more than there are. *)
LEMMA DistinctFewer ==
    ASSUME NEW lens \in LengthSeqs, NEW s \in Seq(QueueMessages(lens)), Distinct(s)
    PROVE  Len(s) <= Len(lens)
<1> DEFINE n == Len(s)
           k == Len(lens)
           f == [i \in 1 .. n |-> s[i].data + 1]
<1>1. n \in Nat /\ DOMAIN s = 1 .. n /\ k \in Nat /\ DOMAIN lens = 1 .. k
  BY LenProperties DEF LengthSeqs
<1>2. \A i \in 1 .. n : s[i] \in QueueMessages(lens)
  BY <1>1, ElementOfSeq
<1>3. \A i \in 1 .. n : s[i].data \in Nat /\ s[i].data + 1 \in 1 .. k
  BY <1>1, <1>2 DEF QueueMessages
<1> HIDE DEF n, k
<1>4. f \in [1 .. n -> 1 .. k]
  BY <1>3
<1>5. \A i, j \in 1 .. n : f[i] = f[j] => i = j
  <2> SUFFICES ASSUME NEW i \in 1 .. n, NEW j \in 1 .. n, f[i] = f[j] PROVE i = j
    OBVIOUS
  <2>1. s[i].data + 1 = s[j].data + 1 /\ s[i].data \in Nat /\ s[j].data \in Nat
    BY <1>3
  <2>2. s[i].data = s[j].data
    BY <2>1
  <2> QED BY <1>1, <2>2 DEF Distinct
<1> HIDE DEF f
<1>6. f \in Injection(1 .. n, 1 .. k)
  BY <1>4, <1>5 DEF Injection, IsInjective
<1>7. /\ IsFiniteSet(1 .. k) /\ Cardinality(1 .. k) = k
      /\ Cardinality(1 .. n) = n
  BY <1>1, FS_Interval
<1>8. Cardinality(1 .. n) <= Cardinality(1 .. k)
  BY <1>6, <1>7, FS_Injection
<1> QED BY <1>7, <1>8 DEF n, k

(* A message, or the slices of one, take no more than room. *)
Within(lens, room) ==
    \A j \in DOMAIN lens :
        lens[j] <= room /\ (IsSliced(lens[j]) => NumSlices(lens[j]) * SliceSize <= room)

LEMMA TotalWithin ==
    ASSUME NEW lens \in LengthSeqs, NEW n \in Nat, Len(lens) <= n, NEW room \in Nat,
           Within(lens, room), NEW s \in Seq(QueueMessages(lens)), Distinct(s)
    PROVE  TotalLength(s) <= n * room /\ TotalLength(s) \in Nat
<1> DEFINE k == Len(s)
           S == 1 .. k
           w == Sizes(s)
<1>1. k \in Nat /\ DOMAIN s = S /\ k <= n
  <2>1. k \in Nat /\ DOMAIN s = 1 .. k /\ k <= Len(lens) /\ Len(lens) \in Nat
    BY DistinctFewer, LenProperties DEF LengthSeqs
  <2> QED BY <2>1
<1>2. \A i \in S : s[i] \in QueueMessages(lens)
  BY <1>1, ElementOfSeq
<1>3. \A m \in QueueMessages(lens) : m.len \in Nat /\ m.len <= room
  BY DEF QueueMessages, Within
<1>4. \A i \in S : s[i].len \in Nat /\ s[i].len <= room
  BY <1>2, <1>3
<1>5. \A i \in S : w[i] \in Nat /\ w[i] <= room
  BY <1>1, <1>4 DEF Sizes
<1> HIDE DEF k
<1>6. TotalLength(s) = Bytes(w, S) /\ TotalLength(s) \in Nat
  BY <1>1, <1>4, TotalIsBytes
<1>7. IsFiniteSet(S) /\ Cardinality(S) = k
  BY <1>1, FS_Interval
<1> HIDE DEF S, w
<1>8. Bytes(w, S) <= n * room
  BY <1>1, <1>5, <1>7, BytesWithin
<1> QED BY <1>6, <1>8

(* A constructor reserves what the slices of some message take. *)
OfMessages(slices, lens) ==
    \A x \in DOMAIN slices :
        \E j \in DOMAIN lens : IsSliced(lens[j]) /\ slices[x].n = NumSlices(lens[j])

LEMMA ReservedWithin ==
    ASSUME NEW lens \in LengthSeqs, NEW n \in Nat, Len(lens) <= n, NEW room \in Nat,
           Within(lens, room), NEW slices, Weighs(Reserves(slices)), OfMessages(slices, lens),
           NEW next \in Nat, next <= Len(lens), \A x \in DOMAIN slices : x \in Nat /\ x < next
    PROVE  SumFunction(Reserves(slices)) <= n * room
<1> DEFINE w == Reserves(slices)
           S == DOMAIN slices
<1>1. DOMAIN w = S /\ IsFiniteSet(S) /\ \A x \in S : w[x] \in Nat /\ w[x] = slices[x].n * SliceSize
  BY DEF Weighs, Reserves
<1>2. \A x \in S : w[x] <= room
  BY <1>1 DEF OfMessages, Within
<1>3. Cardinality(S) <= n
  <2> DEFINE T == 0 .. (next - 1)
  <2>1. IsFiniteSet(T) /\ Cardinality(T) = next
    BY NumbersBelow
  <2>2. S \subseteq T
    OBVIOUS
  <2> HIDE DEF S, T
  <2>3. Cardinality(S) <= next /\ Cardinality(S) \in Nat
    BY <1>1, <2>1, <2>2, FS_Subset, FS_CardinalityType
  <2>4. Len(lens) \in Nat
    BY LenProperties DEF LengthSeqs
  <2> QED BY <2>3, <2>4
<1> HIDE DEF w, S
<1>4. SumFunction(w) = Bytes(w, S)
  BY <1>1, SumFunctionIsBytes
<1>5. Bytes(w, S) <= n * room
  BY <1>1, <1>2, <1>3, BytesWithin
<1> QED BY <1>4, <1>5 DEF w

LEMMA RoomEnough ==
    ASSUME NEW lens \in LengthSeqs, NEW n \in Nat, Len(lens) <= n, NEW room \in Nat,
           Within(lens, room), NEW slices, Weighs(Reserves(slices)), OfMessages(slices, lens),
           NEW next \in Nat, next <= Len(lens), \A x \in DOMAIN slices : x \in Nat /\ x < next,
           NEW max \in Nat, 2 * (n * room) <= max
    PROVE  HasRoom(slices, lens, max)
<1> SUFFICES ASSUME NEW s \in Seq(QueueMessages(lens)), Distinct(s)
             PROVE  TotalLength(s) + SumFunction(Reserves(slices)) <= max
  BY DEF HasRoom
<1> DEFINE a == TotalLength(s)
           b == SumFunction(Reserves(slices))
           c == n * room
<1>1. a \in Nat /\ a <= c
  BY TotalWithin
<1>2. b \in Nat /\ b <= c
  BY ReservedWithin, SumIsNat
<1>3. c \in Nat /\ 2 * c <= max
  BY TimesGrows
<1> HIDE DEF a, b, c
<1>4. a + b <= max
  BY <1>1, <1>2, <1>3
<1> QED BY <1>4 DEF a, b

-----------------------------------------------------------------------------
(***************************************************************************)
(* Where the messages of a channel over an ordered reliable substrate are: *)
(* K are the packets on the way from the sending half ch to the receiving  *)
(* half r, which has handed out out, of messages of lengths lens.          *)
(***************************************************************************)
At(r, out, d) == d \in DataWaiting(r.messages) \/ d \in ToSet(out)

HandedOnce(r, out) ==
    /\ Distinct(r.messages) /\ out \in Seq(Nat) /\ IsInjective(out)
    /\ DataWaiting(r.messages) \intersect ToSet(out) = {}

(* A slice on the way has not been here before. *)
SlicesAreNew(K, slices) ==
    \A k \in K : k.type = "UnreliableSlice" /\ k.id \in DOMAIN slices => k.index \notin slices[k.id].got

Placed(K, ch, r, out, lens) ==
    /\ Scattered(K, ch.queue)
    /\ HandedOnce(r, out)
    /\ \A d : ~(Carries(K, ch.queue, d) /\ At(r, out, d))
    /\ \A j \in DOMAIN lens : ~IsSliced(lens[j]) => Carries(K, ch.queue, j - 1) \/ At(r, out, j - 1)
    /\ SlicesAreNew(K, r.slices)
    /\ \A i \in DOMAIN out : out[i] + 1 \in DOMAIN lens
    /\ ch.sliced_id + Len(ch.queue) <= Len(lens)
    /\ OfMessages(r.slices, lens)

LEMMA DataOfPacket ==
    ASSUME NEW c, NEW lens, NEW k \in UnreliablePackets(c, lens)
    PROVE  /\ k.type \in {"SmallUnreliable", "UnreliableSlice"}
           /\ k.type = "SmallUnreliable" =>
                k.messages \in Seq(SmallUnreliables(lens)) /\ DataOf(k) = DataWaiting(k.messages)
           /\ k.type = "UnreliableSlice" =>
                /\ k.id \in Nat /\ k.data \in Nat /\ k.index \in Nat /\ k.num_slices \in Nat
                /\ k.data + 1 \in DOMAIN lens /\ IsSliceOf(k, lens[k.data + 1])
                /\ DataOf(k) = {k.data}
BY DEF UnreliablePackets, DataOf, DataWaiting

LEMMA DataIsKnown ==
    ASSUME NEW M, NEW lens, M \subseteq QueueMessages(lens), NEW s \in Seq(M), NEW d \in DataWaiting(s)
    PROVE  d \in Nat /\ d + 1 \in DOMAIN lens
<1>1. PICK i \in DOMAIN s : s[i].data = d
  BY DataIff
<1>2. s[i] \in QueueMessages(lens)
  BY <1>1, ElementOfSeq, LenProperties
<1> QED BY <1>1, <1>2 DEF QueueMessages

LEMMA CarriedIsKnown ==
    ASSUME NEW c, NEW lens, NEW K \in SUBSET UnreliablePackets(c, lens),
           NEW queue \in Seq(QueueMessages(lens)), NEW d, Carries(K, queue, d)
    PROVE  d \in Nat /\ d + 1 \in DOMAIN lens
<1>1. CASE d \in DataWaiting(queue)
  BY <1>1, DataIsKnown
<1>2. ASSUME NEW k \in K, d \in DataOf(k) PROVE d \in Nat /\ d + 1 \in DOMAIN lens
  <2>1. k \in UnreliablePackets(c, lens)
    OBVIOUS
  <2>2. CASE k.type = "SmallUnreliable"
    <3>1. SmallUnreliables(lens) \subseteq QueueMessages(lens)
      BY DEF SmallUnreliables
    <3>2. k.messages \in Seq(SmallUnreliables(lens)) /\ d \in DataWaiting(k.messages)
      BY <1>2, <2>1, <2>2, DataOfPacket
    <3> QED BY <3>1, <3>2, DataIsKnown
  <2>3. CASE k.type = "UnreliableSlice"
    <3>1. k.data \in Nat /\ k.data + 1 \in DOMAIN lens /\ DataOf(k) = {k.data}
      BY <2>1, <2>3, DataOfPacket
    <3> QED BY <1>2, <3>1
  <2> QED BY <2>1, <2>2, <2>3, DataOfPacket
<1> QED BY <1>1, <1>2 DEF Carries

LEMMA AtIsKnown ==
    ASSUME NEW lens, NEW r, ReceiveUnreliableOK(r, lens), NEW out, NEW d, At(r, out, d),
           HandedOnce(r, out), \A i \in DOMAIN out : out[i] + 1 \in DOMAIN lens
    PROVE  d \in Nat /\ d + 1 \in DOMAIN lens
<1>1. CASE d \in DataWaiting(r.messages)
  <2>1. r.messages \in Seq(QueueMessages(lens))
    BY DEF ReceiveUnreliableOK
  <2> QED BY <1>1, <2>1, DataIsKnown
<1>2. CASE d \in ToSet(out)
  <2>1. PICK i \in DOMAIN out : out[i] = d
    BY <1>2 DEF ToSet
  <2>2. out[i] \in Nat
    BY <2>1, ElementOfSeq, LenProperties DEF HandedOnce
  <2> QED BY <2>1, <2>2
<1> QED BY <1>1, <1>2 DEF At

(* send_message *)
LEMMA SendUnreliablePlaces ==
    ASSUME NEW c, NEW lens \in LengthSeqs, NEW len \in Nat, NEW K \in SUBSET UnreliablePackets(c, lens),
           NEW ch, SendUnreliableOK(ch, lens), NEW r, ReceiveUnreliableOK(r, lens), NEW out,
           Placed(K, ch, r, out, lens), NEW max, ~(ch.memory + len > max)
    PROVE  Placed(K, SendUnreliable(ch, Len(lens), len, max), r, out, Append(lens, len))
<1> DEFINE n == Len(lens)
           m == [data |-> n, len |-> len]
           queue == ch.queue
           new == SendUnreliable(ch, n, len, max)
           more == Append(lens, len)
           M == QueueMessages(lens) \union {m}
<1>1. /\ n \in Nat /\ DOMAIN lens = 1 .. n /\ DOMAIN more = 1 .. (n + 1) /\ Len(more) = n + 1
      /\ more[n + 1] = len /\ \A j \in 1 .. n : more[j] = lens[j]
  BY AppendProperties, LenProperties DEF LengthSeqs
<1>2. new.queue = Append(queue, m) /\ new.sliced_id = ch.sliced_id
  BY DEF SendUnreliable, SendUnreliableOK
<1>3. queue \in Seq(QueueMessages(lens)) /\ ch.sliced_id \in Nat /\ Len(queue) \in Nat
  BY LenProperties DEF SendUnreliableOK
<1>4. queue \in Seq(M) /\ m \in M /\ m.data = n
  <2>1. QueueMessages(lens) \subseteq M
    OBVIOUS
  <2> QED BY <1>3, <2>1, SeqMonotonic
<1>5. /\ Scattered(K, queue) /\ HandedOnce(r, out)
      /\ \A d : ~(Carries(K, queue, d) /\ At(r, out, d))
      /\ \A j \in DOMAIN lens : ~IsSliced(lens[j]) => Carries(K, queue, j - 1) \/ At(r, out, j - 1)
      /\ SlicesAreNew(K, r.slices) /\ \A i \in DOMAIN out : out[i] + 1 \in DOMAIN lens
      /\ ch.sliced_id + Len(queue) <= n /\ OfMessages(r.slices, lens)
  BY DEF Placed
<1> HIDE DEF new, queue, m, M, more, n
<1>6. ~Carries(K, queue, n) /\ ~At(r, out, n)
  <2>1. ~(n + 1 \in DOMAIN lens)
    BY <1>1
  <2> QED BY <1>3, <1>5, <2>1, CarriedIsKnown, AtIsKnown
<1>7. /\ DataWaiting(Append(queue, m)) = DataWaiting(queue) \union {n}
      /\ Distinct(Append(queue, m)) /\ Len(Append(queue, m)) = Len(queue) + 1
  BY <1>4, <1>5, <1>6, DataOfAppend, AppendProperties DEF Scattered, Carries
<1>8. \A d : Carries(K, new.queue, d) <=> Carries(K, queue, d) \/ d = n
  BY <1>2, <1>7 DEF Carries
<1>9. Scattered(K, new.queue)
  BY <1>2, <1>5, <1>6, <1>7 DEF Scattered, Carries
<1>10. \A d : ~(Carries(K, new.queue, d) /\ At(r, out, d))
  BY <1>5, <1>6, <1>8
<1>11. ASSUME NEW j \in DOMAIN more, ~IsSliced(more[j])
       PROVE  Carries(K, new.queue, j - 1) \/ At(r, out, j - 1)
  <2>1. CASE j \in 1 .. n
    BY <1>1, <1>5, <1>8, <1>11, <2>1
  <2>2. CASE j = n + 1
    <3>1. j - 1 = n
      BY <1>1, <2>2
    <3> QED BY <1>8, <3>1
  <2> QED BY <1>1, <2>1, <2>2
<1>12. \A j \in DOMAIN lens : j \in DOMAIN more /\ more[j] = lens[j]
  BY <1>1
<1>13. OfMessages(r.slices, more)
  BY <1>5, <1>12 DEF OfMessages
<1>14. new.sliced_id + Len(new.queue) <= Len(more)
  BY <1>1, <1>2, <1>3, <1>5, <1>7
<1>15. \A i \in DOMAIN out : out[i] + 1 \in DOMAIN more
  BY <1>5, <1>12
<1>16. Placed(K, new, r, out, more)
  BY <1>5, <1>9, <1>10, <1>11, <1>13, <1>14, <1>15 DEF Placed
<1> QED BY <1>16 DEF new, more, n

(* receive_message *)
LEMMA TakeUnreliablePlaces ==
    ASSUME NEW K, NEW ch, NEW lens, NEW r, ReceiveUnreliableOK(r, lens), NEW out,
           Placed(K, ch, r, out, lens), r.messages # << >>,
           NEW new, new.messages = Tail(r.messages), new.slices = r.slices
    PROVE  Placed(K, ch, new, Append(out, Head(r.messages).data), lens)
<1> DEFINE d0 == Head(r.messages).data
           more == Append(out, d0)
           n == Len(out)
           M == QueueMessages(lens)
           s == r.messages
<1>1. /\ Distinct(s) /\ out \in Seq(Nat) /\ IsInjective(out)
      /\ DataWaiting(s) \intersect ToSet(out) = {} /\ \A i \in DOMAIN out : out[i] + 1 \in DOMAIN lens
  BY DEF Placed, HandedOnce
<1>2. s \in Seq(M) /\ s # << >>
  BY DEF ReceiveUnreliableOK
<1>3. /\ Distinct(Tail(s)) /\ DataWaiting(s) = DataWaiting(Tail(s)) \union {d0}
      /\ d0 \notin DataWaiting(Tail(s))
  <2> HIDE DEF s, M
  <2> QED BY <1>1, <1>2, DataOfTail DEF s
<1>4. d0 \in Nat /\ d0 + 1 \in DOMAIN lens
  <2>1. d0 \in DataWaiting(s)
    BY <1>3
  <2> HIDE DEF s, d0
  <2> QED BY <1>2, <2>1, DataIsKnown
<1> HIDE DEF d0
<1>5. /\ more \in Seq(Nat) /\ ToSet(more) = ToSet(out) \union {d0}
      /\ n \in Nat /\ DOMAIN out = 1 .. n /\ DOMAIN more = 1 .. (n + 1)
      /\ more[n + 1] = d0 /\ \A i \in 1 .. n : more[i] = out[i]
  BY <1>1, <1>4, SetOfAppend, AppendProperties, LenProperties
<1> HIDE DEF more, n
<1>6. \A i \in DOMAIN more : i \in DOMAIN out \/ i = n + 1
  BY <1>5
<1>7. d0 \notin ToSet(out)
  BY <1>1, <1>3
<1>8. IsInjective(more)
  <2> SUFFICES ASSUME NEW i \in DOMAIN more, NEW j \in DOMAIN more, more[i] = more[j] PROVE i = j
    BY DEF IsInjective
  <2>1. \A x \in DOMAIN out : out[x] # d0
    BY <1>7 DEF ToSet
  <2> QED BY <1>1, <1>5, <1>6, <2>1 DEF IsInjective
<1>9. \A i \in DOMAIN more : more[i] + 1 \in DOMAIN lens
  BY <1>1, <1>4, <1>5, <1>6
<1>10. \A d : At(new, more, d) <=> At(r, out, d)
  BY <1>3, <1>5 DEF At, s
<1>11. HandedOnce(new, more)
  BY <1>1, <1>3, <1>5, <1>8 DEF HandedOnce, s
<1>12. Placed(K, ch, new, more, lens)
  BY <1>9, <1>10, <1>11 DEF Placed
<1> QED BY <1>12 DEF more, d0

(* update *)
LEMMA DiscardPlaces ==
    ASSUME NEW K, NEW ch, NEW lens, NEW r, NEW out, Placed(K, ch, r, out, lens),
           NEW new, new.messages = r.messages,
           \A x \in DOMAIN new.slices : x \in DOMAIN r.slices /\ new.slices[x] = r.slices[x]
    PROVE  Placed(K, ch, new, out, lens)
<1>1. \A d : At(new, out, d) <=> At(r, out, d)
  BY DEF At
<1>2. HandedOnce(new, out) <=> HandedOnce(r, out)
  BY DEF HandedOnce
<1>3. SlicesAreNew(K, r.slices) => SlicesAreNew(K, new.slices)
  BY DEF SlicesAreNew
<1>4. OfMessages(r.slices, lens) => OfMessages(new.slices, lens)
  BY DEF OfMessages
<1> QED BY <1>1, <1>2, <1>3, <1>4 DEF Placed

(* get_packets_to_send *)
LEMMA TickPlaces ==
    ASSUME NEW K, NEW ch, NEW lens, NEW r, NEW out, Placed(K, ch, r, out, lens),
           ch.sliced_id \in Nat, Len(ch.queue) \in Nat, Len(lens) \in Nat,
           NEW New, NEW new, QueueSpreads(New, new, ch),
           new.sliced_id \in Nat, Len(new.queue) \in Nat,
           \A x \in DOMAIN r.slices : x \in Nat /\ x < ch.sliced_id,
           \A k \in K : k.type = "UnreliableSlice" => k.id \in Nat /\ k.id < ch.sliced_id,
           \A k \in New : k.type = "UnreliableSlice" => k.id \in Nat /\ ch.sliced_id <= k.id
    PROVE  Placed(K \union New, new, r, out, lens)
<1> DEFINE D == DataWaiting(ch.queue)
           all == K \union New
<1>1. /\ Scattered(K, ch.queue) /\ HandedOnce(r, out)
      /\ \A d : ~(Carries(K, ch.queue, d) /\ At(r, out, d))
      /\ \A j \in DOMAIN lens : ~IsSliced(lens[j]) => Carries(K, ch.queue, j - 1) \/ At(r, out, j - 1)
      /\ SlicesAreNew(K, r.slices) /\ \A i \in DOMAIN out : out[i] + 1 \in DOMAIN lens
      /\ ch.sliced_id + Len(ch.queue) <= Len(lens) /\ OfMessages(r.slices, lens)
  BY DEF Placed
<1>2. /\ Scattered(New, new.queue) /\ \A d : d \in D <=> Carries(New, new.queue, d)
      /\ new.sliced_id + Len(new.queue) <= ch.sliced_id + Len(ch.queue)
  BY <1>1 DEF QueueSpreads, Spread, Scattered
<1> HIDE DEF D
<1>3. \A d : Carries(all, new.queue, d) <=> Carries(K, ch.queue, d)
  BY <1>2 DEF Carries, D
<1>4. Scattered(K, new.queue)
  <2>1. \A k \in K : DataOf(k) \intersect DataWaiting(new.queue) = {}
    BY <1>1, <1>2 DEF Scattered, Carries, D
  <2> QED BY <1>1, <1>2, <2>1 DEF Scattered
<1>5. ASSUME NEW k \in K, NEW l \in New PROVE Apart(k, l)
  <2>1. ~SameMessage(k, l)
    BY DEF SameMessage
  <2>2. DataOf(l) \subseteq D
    BY <1>2 DEF Carries
  <2>3. DataOf(k) \intersect D = {}
    BY <1>1 DEF Scattered, D
  <2> QED BY <2>1, <2>2, <2>3 DEF Apart
<1>6. Scattered(all, new.queue)
  BY <1>2, <1>4, <1>5, ScatteredBoth
<1>7. SlicesAreNew(all, r.slices)
  BY <1>1 DEF SlicesAreNew
<1>8. new.sliced_id + Len(new.queue) <= Len(lens)
  BY <1>1, <1>2
<1> HIDE DEF all
<1>9. Placed(all, new, r, out, lens)
  BY <1>1, <1>3, <1>6, <1>7, <1>8 DEF Placed
<1> QED BY <1>9 DEF all

(* A packet is on the way no more. *)
LEMMA CarriesWithout ==
    ASSUME NEW K, NEW queue, NEW k \in K, Scattered(K, queue)
    PROVE  /\ Scattered(K \ {k}, queue)
           /\ \A d : Carries(K, queue, d) <=> Carries(K \ {k}, queue, d) \/ d \in DataOf(k)
           /\ (\A l \in K : l # k => ~SameMessage(k, l)) =>
                \A d : d \in DataOf(k) => ~Carries(K \ {k}, queue, d)
<1>1. Scattered(K \ {k}, queue)
  BY DEF Scattered
<1>2. \A d : Carries(K, queue, d) <=> Carries(K \ {k}, queue, d) \/ d \in DataOf(k)
  BY DEF Carries
<1>3. ASSUME \A l \in K : l # k => ~SameMessage(k, l), NEW d \in DataOf(k)
      PROVE  ~Carries(K \ {k}, queue, d)
  <2>1. d \notin DataWaiting(queue)
    BY DEF Scattered
  <2>2. \A l \in K \ {k} : d \notin DataOf(l)
    BY <1>3 DEF Scattered, Apart
  <2> QED BY <2>1, <2>2 DEF Carries
<1> QED BY <1>1, <1>2, <1>3

(* process_packet of small messages *)
LEMMA SmallPlaces ==
    ASSUME NEW c, NEW lens, NEW K \in SUBSET UnreliablePackets(c, lens), NEW ch, NEW r, NEW out,
           Placed(K, ch, r, out, lens), NEW k \in K, k.type = "SmallUnreliable",
           NEW new, new.slices = r.slices, Adds(new, r, DataWaiting(k.messages))
    PROVE  Placed(K \ {k}, ch, new, out, lens)
<1> DEFINE rest == K \ {k}
           D == DataOf(k)
<1>1. /\ Scattered(K, ch.queue) /\ HandedOnce(r, out)
      /\ \A d : ~(Carries(K, ch.queue, d) /\ At(r, out, d))
      /\ \A j \in DOMAIN lens : ~IsSliced(lens[j]) => Carries(K, ch.queue, j - 1) \/ At(r, out, j - 1)
      /\ SlicesAreNew(K, r.slices) /\ \A i \in DOMAIN out : out[i] + 1 \in DOMAIN lens
      /\ ch.sliced_id + Len(ch.queue) <= Len(lens) /\ OfMessages(r.slices, lens)
  BY DEF Placed
<1>2. D = DataWaiting(k.messages)
  BY DataOfPacket
<1>3. \A l \in K : ~SameMessage(k, l)
  BY DEF SameMessage
<1>4. /\ Scattered(rest, ch.queue)
      /\ \A d : Carries(K, ch.queue, d) <=> Carries(rest, ch.queue, d) \/ d \in D
      /\ \A d : d \in D => ~Carries(rest, ch.queue, d)
  BY <1>1, <1>3, CarriesWithout
<1>5. SlicesAreNew(rest, new.slices)
  BY <1>1 DEF SlicesAreNew
<1> HIDE DEF rest, D
<1>6. Distinct(new.messages) /\ DataWaiting(new.messages) = DataWaiting(r.messages) \union D
  BY <1>2 DEF Adds
<1>7. \A d : At(new, out, d) <=> At(r, out, d) \/ d \in D
  BY <1>6 DEF At
<1>8. HandedOnce(new, out)
  <2>1. D \intersect ToSet(out) = {}
    BY <1>1, <1>4 DEF At
  <2> QED BY <1>1, <1>6, <2>1 DEF HandedOnce
<1>9. \A d : ~(Carries(rest, ch.queue, d) /\ At(new, out, d))
  BY <1>1, <1>4, <1>7
<1>10. \A j \in DOMAIN lens : ~IsSliced(lens[j]) => Carries(rest, ch.queue, j - 1) \/ At(new, out, j - 1)
  BY <1>1, <1>4, <1>7
<1>11. Placed(rest, ch, new, out, lens)
  BY <1>1, <1>4, <1>5, <1>8, <1>9, <1>10 DEF Placed
<1> QED BY <1>11 DEF rest

(* process_packet of a slice *)
LEMMA SlicePlaces ==
    ASSUME NEW c, NEW lens \in LengthSeqs, NEW K \in SUBSET UnreliablePackets(c, lens), NEW ch, NEW r, NEW out,
           ReceiveUnreliableOK(r, lens),
           Placed(K, ch, r, out, lens), NEW k \in K, k.type = "UnreliableSlice",
           NEW new, NEW cfg, UnreliableReceived(new, r, cfg, lens, k)
    PROVE  Placed(K \ {k}, ch, new, out, lens)
<1> DEFINE rest == K \ {k}
           queue == ch.queue
<1>1. /\ Scattered(K, queue) /\ HandedOnce(r, out)
      /\ \A d : ~(Carries(K, queue, d) /\ At(r, out, d))
      /\ \A j \in DOMAIN lens : ~IsSliced(lens[j]) => Carries(K, queue, j - 1) \/ At(r, out, j - 1)
      /\ SlicesAreNew(K, r.slices) /\ \A i \in DOMAIN out : out[i] + 1 \in DOMAIN lens
      /\ ch.sliced_id + Len(queue) <= Len(lens) /\ OfMessages(r.slices, lens)
  BY DEF Placed
<1>2. /\ k.data \in Nat /\ k.data + 1 \in DOMAIN lens /\ IsSliced(lens[k.data + 1])
      /\ DataOf(k) = {k.data}
  BY DataOfPacket DEF IsSliceOf
<1>3. /\ Scattered(rest, queue)
      /\ \A d : Carries(K, queue, d) <=> Carries(rest, queue, d) \/ d = k.data
      /\ (\A l \in K : l # k => ~SameMessage(k, l)) => ~Carries(rest, queue, k.data)
  <2> HIDE DEF queue
  <2> QED BY <1>1, <1>2, CarriesWithout
<1>4. \A x \in DOMAIN new.slices :
         \/ x = k.id /\ ConstructorOK(new.slices[x], lens[k.data + 1])
         \/ x # k.id /\ x \in DOMAIN r.slices /\ new.slices[x] = r.slices[x]
  BY DEF UnreliableReceived
<1>5. OfMessages(new.slices, lens)
  BY <1>1, <1>2, <1>4 DEF OfMessages, ConstructorOK
<1>6. SliceJoins(new, r, k)
  BY DEF UnreliableReceived
<1>7. \A l \in K : SameMessage(k, l) /\ l # k =>
         /\ l.id = k.id /\ l.index # k.index /\ l.index \in 0 .. (k.num_slices - 1)
  <2> SUFFICES ASSUME NEW l \in K, SameMessage(k, l), l # k
               PROVE  l.id = k.id /\ l.index # k.index /\ l.index \in 0 .. (k.num_slices - 1)
    OBVIOUS
  <2>1. l.type = "UnreliableSlice" /\ l.id = k.id /\ k.data = l.data /\ k.index # l.index
    BY <1>1 DEF Scattered, Apart, SameMessage
  <2>2. /\ l.num_slices = NumSlices(lens[l.data + 1]) /\ l.index < l.num_slices
        /\ l.index \in Nat /\ l.num_slices \in Nat
    BY <2>1, DataOfPacket DEF IsSliceOf
  <2>3. k.num_slices = NumSlices(lens[k.data + 1])
    BY DataOfPacket DEF IsSliceOf
  <2> QED BY <2>1, <2>2, <2>3
<1>8. SlicesAreNew(rest, new.slices)
  <2> SUFFICES ASSUME NEW l \in rest, l.type = "UnreliableSlice", l.id \in DOMAIN new.slices
               PROVE  l.index \notin new.slices[l.id].got
    BY DEF SlicesAreNew
  <2>1. CASE l.id = k.id
    <3>1. l.index # k.index
      BY <1>7, <2>1 DEF SameMessage
    <3>2. k.id \in DOMAIN r.slices => l.index \notin r.slices[k.id].got
      BY <1>1, <2>1 DEF SlicesAreNew
    <3> QED BY <1>6, <2>1, <3>1, <3>2 DEF SliceJoins
  <2>2. CASE l.id # k.id
    BY <1>1, <1>4, <2>2 DEF SlicesAreNew
  <2> QED BY <2>1, <2>2
<1> HIDE DEF rest, queue
<1>9. CASE new.messages = r.messages
  <2>1. \A d : At(new, out, d) <=> At(r, out, d)
    BY <1>9 DEF At
  <2>2. HandedOnce(new, out)
    BY <1>1, <1>9 DEF HandedOnce
  <2>3. \A d : ~(Carries(rest, queue, d) /\ At(new, out, d))
    BY <1>1, <1>3, <2>1
  <2>4. ASSUME NEW j \in DOMAIN lens, ~IsSliced(lens[j])
        PROVE  Carries(rest, queue, j - 1) \/ At(new, out, j - 1)
    <3>1. j - 1 # k.data
      <4>1. j # k.data + 1
        BY <1>2, <2>4
      <4>2. j \in Nat
        BY LenProperties DEF LengthSeqs
      <4> QED BY <1>2, <4>1, <4>2
    <3> QED BY <1>1, <1>3, <2>1, <2>4, <3>1
  <2>5. Placed(rest, ch, new, out, lens)
    BY <1>1, <1>3, <1>5, <1>8, <2>2, <2>3, <2>4 DEF Placed, queue
  <2> QED BY <2>5 DEF rest
<1>10. CASE new.messages # r.messages
  <2>1. PICK len : new.messages = Append(r.messages, [data |-> k.data, len |-> len])
    BY <1>6, <1>10 DEF SliceJoins
  <2>2. \A i \in 0 .. (k.num_slices - 1) :
           i = k.index \/ (k.id \in DOMAIN r.slices /\ i \in r.slices[k.id].got)
    BY <1>6, <1>10 DEF SliceJoins
  <2>3. ASSUME NEW l \in K, l # k PROVE ~SameMessage(k, l)
    <3>1. SUFFICES ASSUME SameMessage(k, l) PROVE FALSE
      OBVIOUS
    <3>2. k.id \in DOMAIN r.slices /\ l.index \in r.slices[k.id].got /\ l.id = k.id
      BY <1>7, <2>2, <2>3, <3>1
    <3> QED BY <1>1, <3>1, <3>2 DEF SlicesAreNew, SameMessage
  <2>4. ~Carries(rest, queue, k.data)
    BY <1>3, <2>3
  <2> DEFINE m == [data |-> k.data, len |-> len]
             M == QueueMessages(lens) \union {m}
  <2>5. ~At(r, out, k.data)
    BY <1>1, <1>3
  <2>6. r.messages \in Seq(M) /\ m \in M /\ m.data = k.data
    <3>1. r.messages \in Seq(QueueMessages(lens)) /\ QueueMessages(lens) \subseteq M
      BY DEF ReceiveUnreliableOK
    <3> QED BY <3>1, SeqMonotonic
  <2>7. new.messages = Append(r.messages, m)
    BY <2>1
  <2> HIDE DEF m, M
  <2>8. /\ DataWaiting(new.messages) = DataWaiting(r.messages) \union {k.data}
        /\ Distinct(new.messages)
    BY <1>1, <2>5, <2>6, <2>7, DataOfAppend DEF At, HandedOnce
  <2>9. \A d : At(new, out, d) <=> At(r, out, d) \/ d = k.data
    BY <2>8 DEF At
  <2>10. HandedOnce(new, out)
    BY <1>1, <2>5, <2>8 DEF HandedOnce, At
  <2>11. \A d : ~(Carries(rest, queue, d) /\ At(new, out, d))
    BY <1>1, <1>3, <2>4, <2>9
  <2>12. \A j \in DOMAIN lens : ~IsSliced(lens[j]) => Carries(rest, queue, j - 1) \/ At(new, out, j - 1)
    BY <1>1, <1>3, <2>9
  <2>13. Placed(rest, ch, new, out, lens)
    BY <1>1, <1>3, <1>5, <1>8, <2>10, <2>11, <2>12 DEF Placed, queue
  <2> QED BY <2>13 DEF rest
<1> QED BY <1>9, <1>10
=============================================================================
