----------------------------- MODULE AckRanges -----------------------------
(***************************************************************************)
(* The acknowledgement ranges of RenetClient (renet2/src/remote_connection *)
(* .rs): the vector pending_acks, the two operations on it, and the form   *)
(* it takes on the wire in a Packet::Ack (renet2/src/packet.rs).           *)
(*                                                                         *)
(* A Rust Range<u64> start..end is the record [start, end], end excluded.  *)
(***************************************************************************)
EXTENDS Integers, Sequences, SequencesExt

CONSTANT MaxRanges      \* the limit in add_pending_ack: 64 in the code

ASSUME MaxRangesAssumption == MaxRanges \in Nat \ {0}

AckRange(a, b) == [start |-> a, end |-> b]

InRange(r, s) == r.start <= s /\ s < r.end

(* The sequences a vector of ranges stands for. *)
Covered(ranges) ==
    UNION {ranges[i].start .. (ranges[i].end - 1) : i \in DOMAIN ranges}

(* Non-empty, ascending, and at least one missing sequence apart. *)
Separated(ranges) ==
    /\ \A i \in DOMAIN ranges : ranges[i].start < ranges[i].end
    /\ \A i, j \in DOMAIN ranges : i < j => ranges[i].end < ranges[j].start

(***************************************************************************)
(* The loop of add_pending_ack looks at the ranges from the left and stops *)
(* at the first one that holds the sequence, touches it, or lies beyond it.*)
(***************************************************************************)
Stops(r, s) ==
    \/ InRange(r, s)
    \/ r.start = s + 1
    \/ r.end = s
    \/ r.start > s + 1

FirstStop(ranges, s) ==
    CHOOSE i \in DOMAIN ranges :
        /\ Stops(ranges[i], s)
        /\ \A j \in 1 .. (i - 1) : ~Stops(ranges[j], s)

(* Faults of the loop, to show that the properties notice them. *)
FitAtNoMerge(ranges, i, s) ==
    IF InRange(ranges[i], s) THEN ranges
    ELSE IF ranges[i].start = s + 1 THEN [ranges EXCEPT ![i].start = s]
    ELSE IF ranges[i].end # s THEN InsertAt(ranges, i, AckRange(s, s + 1))
    ELSE [ranges EXCEPT ![i].end = s + 1]

FitAtMergesAcrossGap(ranges, i, s) ==
    IF i < Len(ranges) /\ ranges[i].end = s /\ ranges[i + 1].start <= s + 2
    THEN RemoveAt([ranges EXCEPT ![i].end = ranges[i + 1].end], i + 1)
    ELSE FitAtNoMerge(ranges, i, s)

(* What the loop does at the index where it stops. *)
FitAt(ranges, i, s) ==
    IF InRange(ranges[i], s) THEN ranges
    ELSE IF ranges[i].start = s + 1 THEN [ranges EXCEPT ![i].start = s]
    ELSE IF ranges[i].end # s THEN InsertAt(ranges, i, AckRange(s, s + 1))
    ELSE IF i < Len(ranges) /\ ranges[i + 1].start = s + 1
         THEN RemoveAt([ranges EXCEPT ![i].end = ranges[i + 1].end], i + 1)
         ELSE [ranges EXCEPT ![i].end = s + 1]

(* Fault: the limit cuts off the newest range. *)
PushRangeDropsNewest(ranges, s) ==
    IF Len(ranges) >= MaxRanges THEN ranges ELSE Append(ranges, AckRange(s, s + 1))

(* The sequence lies beyond every range: push, then apply the limit. *)
PushRange(ranges, s) ==
    LET pushed == Append(ranges, AckRange(s, s + 1))
    IN  IF Len(pushed) > MaxRanges THEN Tail(pushed) ELSE pushed

AddPendingAck(ranges, s) ==
    IF \E i \in DOMAIN ranges : Stops(ranges[i], s)
    THEN FitAt(ranges, FirstStop(ranges, s), s)
    ELSE PushRange(ranges, s)

(***************************************************************************)
(* acked_largest removes ranges from the left while they end at or below   *)
(* the largest acked sequence, and trims the range that contains it.       *)
(***************************************************************************)
DropBelow(ranges, largest) ==
    IF \A i \in DOMAIN ranges : ranges[i].end <= largest
    THEN << >>
    ELSE LET k == CHOOSE i \in DOMAIN ranges :
                    /\ ranges[i].end > largest
                    /\ \A j \in 1 .. (i - 1) : ranges[j].end <= largest
         IN  SubSeq(ranges, k, Len(ranges))

AckedLargest(ranges, largest) ==
    LET rest == DropBelow(ranges, largest)
    IN  IF rest = << >> \/ largest < rest[1].start THEN rest
        ELSE IF largest + 1 = rest[1].end THEN Tail(rest)
        ELSE [rest EXCEPT ![1].start = largest + 1]

(***************************************************************************)
(* Packet::Ack on the wire: the ranges in reverse order, the last one by   *)
(* its end and size, every other by its distance to the one after it.  A   *)
(* subtraction of u64 that would go below zero aborts the build with       *)
(* overflow checks and wraps without; Representable says it does not occur.*)
(***************************************************************************)
(* Fault: the gap is written without the sequence that every gap has. *)
EncodeAckWideGap(ranges) ==
    LET n == Len(ranges)
    IN  [first_end  |-> ranges[n].end - 1,
         first_size |-> (ranges[n].end - 1) - ranges[n].start,
         rest |-> [k \in 1 .. (n - 1) |->
                     [gap  |-> ranges[n - k + 1].start - ranges[n - k].end,
                      size |-> (ranges[n - k].end - 1) - ranges[n - k].start]]]

EncodeAck(ranges) ==
    LET n == Len(ranges)
        Size(i) == (ranges[i].end - 1) - ranges[i].start
    IN  [first_end  |-> ranges[n].end - 1,
         first_size |-> Size(n),
         rest |-> [k \in 1 .. (n - 1) |->
                     [gap  |-> ranges[n - k + 1].start - ranges[n - k].end - 1,
                      size |-> Size(n - k)]]]

Representable(wire) ==
    /\ wire.first_end >= 0 /\ wire.first_size >= 0
    /\ \A k \in DOMAIN wire.rest : wire.rest[k].gap >= 0 /\ wire.rest[k].size >= 0

(* Decoding; InvalidAckRange is the empty vector, which no Ack carries. *)
DecodeAck(wire) ==
    LET n == Len(wire.rest)
        first == AckRange(wire.first_end - wire.first_size, wire.first_end + 1)
        Previous(range, w) ==
            LET range_end == (range.start - w.gap) - 2
            IN  AckRange(range_end - w.size, range_end + 1)
        decoded[k \in 0 .. n] ==
            IF k = 0 THEN first ELSE Previous(decoded[k - 1], wire.rest[k])
        invalid ==
            \/ wire.first_end < wire.first_size
            \/ \E k \in 1 .. n :
                 \/ decoded[k - 1].start < 2 + wire.rest[k].gap
                 \/ (decoded[k - 1].start - wire.rest[k].gap) - 2 < wire.rest[k].size
    IN  IF invalid THEN << >> ELSE [k \in 1 .. (n + 1) |-> decoded[n + 1 - k]]
=============================================================================
