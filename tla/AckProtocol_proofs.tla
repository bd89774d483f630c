------------------------- MODULE AckProtocol_proofs -------------------------
(***************************************************************************)
(* No part is taken off the sender's list that the receiver does not have: *)
(* for every set of parts, every limit on the ranges, and every behaviour  *)
(* of the network.  Then the vector of ranges by itself, as PendingAcks    *)
(* describes it.                                                           *)
(***************************************************************************)
EXTENDS AckProtocol, AckVector, AckRanges_proofs

IndInv == TypeOK /\ AckedAreStored /\ AcksAreSound

LEMMA RecordsAgree == RangeRecords = RangeRecord
BY DEF RangeRecords, RangeRecord

LEMMA InitIndInv == Init => IndInv
<1> SUFFICES ASSUME Init PROVE IndInv
  OBVIOUS
<1> USE DEF Init
<1>1. << >> \in Seq(RangeRecords) /\ DOMAIN << >> = {}
  OBVIOUS
<1>2. Separated(<< >>) /\ Covered(<< >>) = {}
  BY <1>1 DEF Separated, Covered
<1>3. TypeOK
  <2>1. << >> \in [{} -> SUBSET offered]
    BY <1>1
  <2>2. DOMAIN remembered = {} /\ remembered \in [DOMAIN remembered -> SUBSET offered]
    BY <1>1, <2>1
  <2>3. next_seq \in 0 .. MaxSequence
    BY AckProtocolAssumption
  <2> QED BY <1>1, <2>2, <2>3 DEF TypeOK
<1> QED BY <1>1, <1>2, <1>3 DEF IndInv, AckedAreStored, AcksAreSound, Sound

(* Recording a sequence, and cutting the ranges after it. *)
LEMMA RecordedRanges ==
    ASSUME NEW r \in Seq(RangeRecords), Separated(r), NEW s \in Nat, NEW new,
           new \in {AddPendingAck(r, s)}
                     \union {AckedLargest(AddPendingAck(r, s), l) : l \in 0 .. MaxSequence}
    PROVE  /\ new \in Seq(RangeRecords)
           /\ Separated(new)
           /\ Covered(new) \subseteq Covered(r) \union {s}
<1> DEFINE mid == AddPendingAck(r, s)
<1>1. AddsAck(r, s, mid)
  BY RecordsAgree, AddPendingAckAdds
<1> HIDE DEF mid
<1>2. /\ mid \in Seq(RangeRecord) /\ Separated(mid)
      /\ Covered(mid) \subseteq Covered(r) \union {s}
  <2>1. mid \in Seq(RangeRecord)
    BY <1>1 DEF AddsAck
  <2>2. Covered(mid) \subseteq Nat
    BY <2>1, CoveredIff
  <2> QED BY <1>1, <2>1, <2>2 DEF AddsAck
<1>3. CASE new = mid
  BY <1>2, <1>3, RecordsAgree
<1>4. ASSUME NEW l \in 0 .. MaxSequence, new = AckedLargest(mid, l)
      PROVE  /\ new \in Seq(RangeRecords) /\ Separated(new)
             /\ Covered(new) \subseteq Covered(mid)
  <2>1. l \in Nat
    BY AckProtocolAssumption
  <2>2. TrimsAcks(mid, l, new)
    BY <1>2, <1>4, <2>1, AckedLargestTrims
  <2>3. new \in Seq(RangeRecord)
    BY <2>2 DEF TrimsAcks
  <2>4. Covered(new) \subseteq Nat
    BY <2>3, CoveredIff
  <2> QED BY <2>2, <2>3, <2>4, RecordsAgree DEF TrimsAcks
<1>5. new = mid \/ \E l \in 0 .. MaxSequence : new = AckedLargest(mid, l)
  BY DEF mid
<1> QED BY <1>2, <1>3, <1>4, <1>5

(* More sequences have been used. *)
LEMMA MoreSequences ==
    ASSUME NEW a \in Nat, NEW b \in Nat, a <= b
    PROVE  0 .. (a - 1) \subseteq 0 .. (b - 1)
OBVIOUS

LEMMA OfferStep == IndInv /\ Offer => IndInv'
<1> SUFFICES ASSUME IndInv, Offer PROVE IndInv'
  OBVIOUS
<1> USE DEF IndInv, Offer, receiver
<1>1. TypeOK'
  <2>1. remembered \in [DOMAIN remembered -> SUBSET offered']
    BY DEF TypeOK
  <2> QED BY <2>1 DEF TypeOK
<1>2. AckedAreStored'
  BY DEF AckedAreStored
<1>3. AcksAreSound'
  BY DEF AcksAreSound, Sound
<1> QED BY <1>1, <1>2, <1>3

LEMMA TransmitStep == IndInv /\ Transmit => IndInv'
<1> SUFFICES ASSUME IndInv, Transmit PROVE IndInv'
  OBVIOUS
<1> DEFINE new == next_seq .. (next_seq' - 1)
<1>1. /\ next_seq' \in next_seq .. MaxSequence
      /\ remembered' \in [DOMAIN remembered \union new -> SUBSET offered]
      /\ \A s \in DOMAIN remembered : remembered'[s] = remembered[s]
      /\ \A s \in new : remembered'[s] \subseteq unacked
      /\ flying' = flying \union {[seq |-> s, parts |-> remembered'[s]] : s \in new}
      /\ UNCHANGED <<offered, unacked, pending, stored, failed, acks>>
  BY DEF Transmit, receiver
<1>2. next_seq \in Nat /\ next_seq' \in Nat /\ next_seq <= next_seq'
  BY <1>1, AckProtocolAssumption DEF IndInv, TypeOK
<1>3. DOMAIN remembered' = DOMAIN remembered \union new
  BY <1>1
<1>4. DOMAIN remembered \subseteq 0 .. (next_seq - 1) /\ new \subseteq 0 .. (next_seq' - 1)
  BY <1>2 DEF IndInv, TypeOK
<1>5. ASSUME NEW s \in new PROVE s \notin 0 .. (next_seq - 1)
  <2>1. s \in Int /\ next_seq <= s
    BY <1>2
  <2> QED BY <1>2, <2>1
<1>6. 0 .. (next_seq - 1) \subseteq 0 .. (next_seq' - 1)
  BY <1>2, MoreSequences
<1> HIDE DEF new
<1>7. TypeOK'
  <2>1. DOMAIN remembered' \subseteq 0 .. (next_seq' - 1)
    BY <1>3, <1>4, <1>6
  <2>2. \A s \in new : remembered'[s] \subseteq Part
    BY <1>1 DEF IndInv, TypeOK
  <2>3. flying' \subseteq [seq : 0 .. (next_seq' - 1), parts : SUBSET Part]
    <3>1. flying \subseteq [seq : 0 .. (next_seq' - 1), parts : SUBSET Part]
      BY <1>6 DEF IndInv, TypeOK
    <3>2. \A s \in new : [seq |-> s, parts |-> remembered'[s]]
                            \in [seq : 0 .. (next_seq' - 1), parts : SUBSET Part]
      BY <1>4, <2>2
    <3> QED BY <1>1, <3>1, <3>2
  <2>4. remembered' \in [DOMAIN remembered' -> SUBSET offered']
    BY <1>1, <1>3
  <2>5. next_seq' \in 0 .. MaxSequence
    BY <1>1, <1>2, AckProtocolAssumption
  <2> QED BY <1>1, <2>1, <2>3, <2>4, <2>5 DEF IndInv, TypeOK
<1>8. AckedAreStored'
  BY <1>1 DEF IndInv, AckedAreStored
<1>9. ASSUME NEW r, Covered(r) \subseteq 0 .. (next_seq - 1), Sound(r)
      PROVE  (\A s \in Covered(r) \intersect DOMAIN remembered' : remembered'[s] \subseteq stored')
  <2> TAKE s \in Covered(r) \intersect DOMAIN remembered'
  <2>1. s \in DOMAIN remembered
    BY <1>3, <1>5, <1>9
  <2> QED BY <1>1, <1>9, <2>1 DEF Sound
<1>10. AcksAreSound'
  <2>1. ASSUME NEW m \in flying', m.seq \in DOMAIN remembered'
        PROVE  remembered'[m.seq] \subseteq m.parts
    <3>1. CASE m \in flying
      <4>1. m.seq \in 0 .. (next_seq - 1)
        BY <3>1 DEF IndInv, TypeOK
      <4>2. m.seq \in DOMAIN remembered
        BY <1>3, <1>5, <2>1, <4>1
      <4> QED BY <1>1, <3>1, <4>2 DEF IndInv, AcksAreSound
    <3>2. CASE m \notin flying
      BY <1>1, <3>2
    <3> QED BY <3>1, <3>2
  <2>2. Separated(pending') /\ Covered(pending') \subseteq 0 .. (next_seq' - 1)
    BY <1>1, <1>6 DEF IndInv, AcksAreSound
  <2>3. ~failed' => Sound(pending)'
    BY <1>1, <1>9 DEF IndInv, AcksAreSound, Sound
  <2>4. ASSUME NEW a \in acks'
        PROVE  Covered(a) \subseteq 0 .. (next_seq' - 1)
                 /\ (\A s \in Covered(a) \intersect DOMAIN remembered' : remembered'[s] \subseteq stored')
    <3>1. a \in acks
      BY <1>1
    <3>2. Covered(a) \subseteq 0 .. (next_seq - 1) /\ Sound(a)
      BY <3>1 DEF IndInv, AcksAreSound
    <3> QED BY <1>6, <1>9, <3>2
  <2> QED BY <2>1, <2>2, <2>3, <2>4 DEF AcksAreSound, Sound
<1> QED BY <1>7, <1>8, <1>10 DEF IndInv

(* Remembering less keeps every ack sound. *)
LEMMA ForgetStep == IndInv /\ Forget => IndInv'
<1> SUFFICES ASSUME IndInv, Forget PROVE IndInv'
  OBVIOUS
<1>1. PICK lost \in SUBSET DOMAIN remembered :
        remembered' = [s \in DOMAIN remembered \ lost |-> remembered[s]]
  BY DEF Forget
<1>2. /\ DOMAIN remembered' \subseteq DOMAIN remembered
      /\ \A s \in DOMAIN remembered' : remembered'[s] = remembered[s]
  BY <1>1
<1>3. UNCHANGED <<next_seq, offered, unacked, pending, stored, failed, flying, acks>>
  BY DEF Forget, receiver
<1>4. TypeOK'
  <2>1. remembered' \in [DOMAIN remembered' -> SUBSET offered]
    BY <1>1 DEF IndInv, TypeOK
  <2> QED BY <1>2, <1>3, <2>1 DEF IndInv, TypeOK
<1>5. AckedAreStored'
  BY <1>3 DEF IndInv, AckedAreStored
<1>6. AcksAreSound'
  BY <1>2, <1>3 DEF IndInv, AcksAreSound, Sound
<1> QED BY <1>4, <1>5, <1>6 DEF IndInv

LEMMA ReceiveStep == IndInv /\ (\E m \in flying : Receive(m)) => IndInv'
<1> SUFFICES ASSUME IndInv, NEW m \in flying, Receive(m) PROVE IndInv'
  OBVIOUS
<1>1. /\ ~failed
      /\ pending' \in {AddPendingAck(pending, m.seq)}
            \union {AckedLargest(AddPendingAck(pending, m.seq), l) : l \in 0 .. MaxSequence}
      /\ UNCHANGED <<next_seq, offered, unacked, remembered, acks>>
      /\ flying' \subseteq flying
      /\ stored \subseteq stored'
      /\ failed' \in BOOLEAN
      /\ ~failed' => stored' = stored \union m.parts
  BY DEF Receive, sender, IndInv, TypeOK
<1>2. m.seq \in 0 .. (next_seq - 1) /\ m.seq \in Nat
  BY DEF IndInv, TypeOK
<1>3. pending \in Seq(RangeRecords) /\ Separated(pending)
        /\ Covered(pending) \subseteq 0 .. (next_seq - 1)
  BY DEF IndInv, TypeOK, AcksAreSound
<1>4. /\ pending' \in Seq(RangeRecords) /\ Separated(pending')
      /\ Covered(pending') \subseteq Covered(pending) \union {m.seq}
  BY <1>1, <1>2, <1>3, RecordedRanges
<1>5. TypeOK'
  BY <1>1, <1>4 DEF IndInv, TypeOK
<1>6. AckedAreStored'
  BY <1>1 DEF IndInv, AckedAreStored
<1>7. AcksAreSound'
  <2>1. \A n \in flying' : n.seq \in DOMAIN remembered' => remembered'[n.seq] \subseteq n.parts
    BY <1>1 DEF IndInv, AcksAreSound
  <2>2. Covered(pending') \subseteq 0 .. (next_seq' - 1)
    BY <1>1, <1>2, <1>3, <1>4
  <2>3. ASSUME ~failed', NEW s \in Covered(pending') \intersect DOMAIN remembered'
        PROVE  remembered'[s] \subseteq stored'
    <3>1. CASE s = m.seq
      BY <1>1, <2>3, <3>1 DEF IndInv, AcksAreSound
    <3>2. CASE s # m.seq
      BY <1>1, <1>4, <2>3, <3>2 DEF IndInv, AcksAreSound, Sound
    <3> QED BY <3>1, <3>2
  <2>4. \A a \in acks' : Covered(a) \subseteq 0 .. (next_seq' - 1)
           /\ \A s \in Covered(a) \intersect DOMAIN remembered' : remembered'[s] \subseteq stored'
    BY <1>1 DEF IndInv, AcksAreSound, Sound
  <2> QED BY <1>4, <2>1, <2>2, <2>3, <2>4 DEF AcksAreSound, Sound
<1> QED BY <1>5, <1>6, <1>7 DEF IndInv

LEMMA SendAckStep == IndInv /\ SendAck => IndInv'
<1> SUFFICES ASSUME IndInv, SendAck PROVE IndInv'
  OBVIOUS
<1> USE DEF IndInv, SendAck, sender, receiver
<1>1. TypeOK'
  BY DEF TypeOK
<1>2. AckedAreStored'
  BY DEF AckedAreStored
<1>3. AcksAreSound'
  BY DEF AcksAreSound, Sound
<1> QED BY <1>1, <1>2, <1>3

LEMMA ProcessAckStep == IndInv /\ (\E a \in acks : ProcessAck(a)) => IndInv'
<1> SUFFICES ASSUME IndInv, NEW a \in acks, ProcessAck(a) PROVE IndInv'
  OBVIOUS
<1> DEFINE new_acks == Covered(a) \intersect DOMAIN remembered
<1>1. /\ unacked' = unacked \ UNION {remembered[s] : s \in new_acks}
      /\ remembered' = [s \in DOMAIN remembered \ new_acks |-> remembered[s]]
      /\ acks' \subseteq acks
      /\ UNCHANGED <<next_seq, offered, pending, stored, failed, flying>>
  BY DEF ProcessAck, receiver
<1>2. \A s \in new_acks : remembered[s] \subseteq stored
  BY DEF IndInv, AcksAreSound, Sound
<1> HIDE DEF new_acks
<1>3. /\ DOMAIN remembered' \subseteq DOMAIN remembered
      /\ \A s \in DOMAIN remembered' : remembered'[s] = remembered[s]
  BY <1>1
<1>4. TypeOK'
  <2>1. remembered' \in [DOMAIN remembered' -> SUBSET offered]
    BY <1>1 DEF IndInv, TypeOK
  <2>2. unacked' \subseteq offered
    BY <1>1 DEF IndInv, TypeOK
  <2> QED BY <1>1, <1>3, <2>1, <2>2 DEF IndInv, TypeOK
<1>5. AckedAreStored'
  <2> SUFFICES ASSUME NEW x \in offered, x \notin unacked' PROVE x \in stored
    BY <1>1 DEF AckedAreStored
  <2>1. CASE x \notin unacked
    BY <2>1 DEF IndInv, AckedAreStored
  <2>2. CASE x \in unacked
    BY <1>1, <1>2, <2>2
  <2> QED BY <2>1, <2>2
<1>6. AcksAreSound'
  BY <1>1, <1>3 DEF IndInv, AcksAreSound, Sound
<1> QED BY <1>4, <1>5, <1>6 DEF IndInv

LEMMA StepIndInv == IndInv /\ [Next]_vars => IndInv'
<1> SUFFICES ASSUME IndInv, [Next]_vars PROVE IndInv'
  OBVIOUS
<1>1. CASE Fail
  BY <1>1 DEF Fail, sender, IndInv, TypeOK, AckedAreStored, AcksAreSound, Sound
<1>2. CASE UNCHANGED vars
  BY <1>2 DEF vars, sender, receiver, IndInv, TypeOK, AckedAreStored, AcksAreSound, Sound
<1> QED BY <1>1, <1>2, OfferStep, TransmitStep, ForgetStep, ReceiveStep, SendAckStep,
           ProcessAckStep DEF Next

(* The sender uses every sequence once, and remembers only what it offered. *)
THEOREM TypeCorrect == Spec => []TypeOK
BY InitIndInv, StepIndInv, PTL DEF Spec, IndInv

(***************************************************************************)
(* The guarantee of a reliable channel that cannot be tested: whatever the *)
(* network does, a message the sender forgets is one the receiver has.     *)
(***************************************************************************)
THEOREM AckedAlwaysStored == Spec => []AckedAreStored
BY InitIndInv, StepIndInv, PTL DEF Spec, IndInv

(* Every ack on the way, and every range still to be sent, is justified. *)
THEOREM AcksAlwaysSound == Spec => []AcksAreSound
BY InitIndInv, StepIndInv, PTL DEF Spec, IndInv

-----------------------------------------------------------------------------
(***************************************************************************)
(* The safety of pending_acks for every number of packets, every limit and *)
(* every order of arrivals, losses and repetitions.                        *)
(***************************************************************************)
Pending == INSTANCE PendingAcks

(* Its operators on ranges are those of the lemmas. *)
LEMMA SameOperators ==
    ASSUME NEW ranges, NEW s
    PROVE  /\ Pending!AddPendingAck(ranges, s) = AddPendingAck(ranges, s)
           /\ Pending!AckedLargest(ranges, s) = AckedLargest(ranges, s)
<1>1. Pending!AddPendingAck(ranges, s) = AddPendingAck(ranges, s)
  BY DEF Pending!AddPendingAck, AddPendingAck, Pending!FitAt, FitAt, Pending!Stops, Stops,
         Pending!FirstStop, FirstStop, Pending!PushRange, PushRange, Pending!InRange, InRange,
         Pending!AckRange, AckRange, Pending!InsertAt, InsertAt, Pending!RemoveAt, RemoveAt
<1>2. Pending!AckedLargest(ranges, s) = AckedLargest(ranges, s)
  BY DEF Pending!AckedLargest, AckedLargest, Pending!DropBelow, DropBelow
<1> QED BY <1>1, <1>2

(***************************************************************************)
(* The inductive invariant.  The last bound of a range is the sequence of  *)
(* a packet plus one, and what is remembered of an Ack packet is the last  *)
(* sequence of a range, so both are natural numbers; separation is needed  *)
(* for every operation to do what its lemma says.                          *)
(***************************************************************************)
VectorInv == Pending!TypeOK /\ RangesSeparated /\ OnlyReceivedCovered

LEMMA VectorInit == Pending!Init => VectorInv
<1> SUFFICES ASSUME Pending!Init PROVE VectorInv
  OBVIOUS
<1>1. << >> \in Seq(RangeRecord) /\ DOMAIN << >> = {}
  OBVIOUS
<1>2. Separated(<< >>) /\ Covered(<< >>) = {}
  BY <1>1 DEF Separated, Covered
<1> QED BY <1>1, <1>2
        DEF Pending!Init, VectorInv, Pending!TypeOK, RangesSeparated, OnlyReceivedCovered, RangeRecord

LEMMA VectorStep == VectorInv /\ [Pending!Next]_(Pending!vector) => VectorInv'
<1> SUFFICES ASSUME VectorInv, [Pending!Next]_(Pending!vector) PROVE VectorInv'
  OBVIOUS
<1> USE DEF VectorInv, Pending!TypeOK, RangesSeparated, OnlyReceivedCovered
<1>1. pending_acks \in Seq(RangeRecord) /\ Separated(pending_acks)
  BY DEF RangeRecord
<1>2. Covered(pending_acks) \subseteq Nat
  BY <1>1, CoveredIff
<1>3. ASSUME NEW s \in Pending!PeerSequences, Pending!ReceivePacket(s) PROVE VectorInv'
  <2>1. s \in Nat
    BY AckProtocolAssumption DEF Pending!PeerSequences
  <2>2. AddsAck(pending_acks, s, pending_acks')
    BY <1>1, <1>3, <2>1, AddPendingAckAdds, SameOperators DEF Pending!ReceivePacket
  <2>3. Covered(pending_acks') \subseteq Nat
    BY <2>2, CoveredIff DEF AddsAck
  <2>4. Pending!TypeOK'
    BY <1>3, <2>1, <2>2 DEF Pending!ReceivePacket, AddsAck, RangeRecord
  <2>5. Separated(pending_acks')
    BY <2>2 DEF AddsAck
  <2>6. Covered(pending_acks') \subseteq received'
    BY <1>3, <2>2, <2>3 DEF Pending!ReceivePacket, AddsAck
  <2> QED BY <2>4, <2>5, <2>6
<1>4. CASE Pending!SendAck
  <2>1. Len(pending_acks) \in DOMAIN pending_acks
    BY <1>1, <1>4, LenProperties DEF Pending!SendAck
  <2>2. pending_acks[Len(pending_acks)].end - 1 \in Nat
    BY <1>1, <2>1, RecordsInVector DEF Separated
  <2> QED BY <1>4, <2>2 DEF Pending!SendAck
<1>5. ASSUME NEW l \in largest_acked, Pending!AckIsAcked(l) PROVE VectorInv'
  <2>1. l \in Nat
    OBVIOUS
  <2>2. TrimsAcks(pending_acks, l, pending_acks')
    BY <1>1, <1>5, <2>1, AckedLargestTrims, SameOperators DEF Pending!AckIsAcked
  <2>3. Covered(pending_acks') \subseteq Nat
    BY <2>2, CoveredIff DEF TrimsAcks
  <2>4. Pending!TypeOK'
    BY <1>5, <2>1, <2>2 DEF Pending!AckIsAcked, TrimsAcks, RangeRecord
  <2>5. Separated(pending_acks')
    BY <2>2 DEF TrimsAcks
  <2>6. Covered(pending_acks') \subseteq received'
    BY <1>5, <2>2, <2>3 DEF Pending!AckIsAcked, TrimsAcks
  <2> QED BY <2>4, <2>5, <2>6
<1>6. CASE UNCHANGED Pending!vector
  BY <1>6 DEF Pending!vector
<1> QED BY <1>3, <1>4, <1>5, <1>6 DEF Pending!Next

(* The bounds of every range are natural numbers: no operation underflows. *)
THEOREM VectorTypeCorrect == Pending!Spec => []Pending!TypeOK
BY VectorInit, VectorStep, PTL DEF Pending!Spec, VectorInv

(* Every vector of ranges the code can reach is ascending with gaps. *)
THEOREM AlwaysSeparated == Pending!Spec => []RangesSeparated
BY VectorInit, VectorStep, PTL DEF Pending!Spec, VectorInv

(* No missing packet is ever acknowledged. *)
THEOREM NeverAcksMissing == Pending!Spec => []OnlyReceivedCovered
BY VectorInit, VectorStep, PTL DEF Pending!Spec, VectorInv

(* Separated ranges are encoded without going below zero. *)
LEMMA SeparatedEncodes ==
    ASSUME NEW r \in Seq(RangeRecord), Separated(r), r # << >>
    PROVE  Representable(EncodeAck(r))
<1> DEFINE n == Len(r)
           wire == EncodeAck(r)
<1>1. DOMAIN r = 1 .. n /\ n \in Nat /\ n >= 1
  BY LenProperties, EmptySeq
<1>2. \A i \in 1 .. n : r[i].start \in Nat /\ r[i].end \in Nat /\ r[i].start < r[i].end
  BY <1>1, RecordsInVector DEF Separated
<1>3. \A i, j \in 1 .. n : i < j => r[i].end < r[j].start
  BY <1>1 DEF Separated
<1>4. /\ wire.first_end = r[n].end - 1
      /\ wire.first_size = (r[n].end - 1) - r[n].start
      /\ wire.rest = [k \in 1 .. (n - 1) |->
            [gap  |-> r[n - k + 1].start - r[n - k].end - 1,
             size |-> (r[n - k].end - 1) - r[n - k].start]]
  BY DEF EncodeAck
<1>5. wire.first_end >= 0 /\ wire.first_size >= 0
  BY <1>1, <1>2, <1>4
<1>6. ASSUME NEW k \in DOMAIN wire.rest
      PROVE  wire.rest[k].gap >= 0 /\ wire.rest[k].size >= 0
  <2>1. k \in 1 .. (n - 1)
    BY <1>4
  <2>2. /\ wire.rest[k].gap = r[n - k + 1].start - r[n - k].end - 1
        /\ wire.rest[k].size = (r[n - k].end - 1) - r[n - k].start
    BY <1>4, <2>1
  <2> HIDE DEF n, wire
  <2>3. n - k \in 1 .. n /\ n - k + 1 \in 1 .. n /\ n - k < n - k + 1
    BY <1>1, <2>1
  <2> DEFINE i == n - k
             j == n - k + 1
  <2>4. i \in 1 .. n /\ j \in 1 .. n /\ i < j
    BY <2>3
  <2>5. wire.rest[k].gap = r[j].start - r[i].end - 1 /\ wire.rest[k].size = (r[i].end - 1) - r[i].start
    BY <2>2
  <2> HIDE DEF i, j
  <2> QED BY <1>2, <1>3, <2>4, <2>5
<1> QED BY <1>5, <1>6 DEF Representable

(* Writing an Ack packet never underflows, whatever was received. *)
THEOREM AcksAlwaysEncode == Pending!Spec => []AckEncodes
<1>1. VectorInv => AckEncodes
  BY SeparatedEncodes DEF VectorInv, Pending!TypeOK, RangesSeparated, AckEncodes, RangeRecord
<1> QED BY <1>1, VectorInit, VectorStep, PTL DEF Pending!Spec

(***************************************************************************)
(* What the peer decodes from an Ack packet is pending_acks itself, range  *)
(* by range, however many there are.                                       *)
(***************************************************************************)
THEOREM AcksAlwaysRoundTrip == Pending!Spec => []AckRoundTrip
<1>1. VectorInv => AckRoundTrip
  BY DecodeEncodes DEF VectorInv, Pending!TypeOK, RangesSeparated, AckRoundTrip, RangeRecord
<1> QED BY <1>1, VectorInit, VectorStep, PTL DEF Pending!Spec

(***************************************************************************)
(* A received packet stays covered until its range is the oldest at the    *)
(* limit, or an Ack that reached at least as far is acked.                 *)
(***************************************************************************)
THEOREM AcksAreKept == Pending!Spec => AcksKept
<1>1. VectorInv /\ [Pending!Next]_(Pending!vector) => [AcksKeptStep]_vector
  <2> SUFFICES ASSUME VectorInv, Pending!Next PROVE AcksKeptStep
    BY DEF vector, Pending!vector
  <2>1. pending_acks \in Seq(RangeRecord) /\ Separated(pending_acks)
    BY DEF VectorInv, Pending!TypeOK, RangesSeparated, RangeRecord
  <2>2. Covered(pending_acks) \subseteq Nat
    BY <2>1, CoveredIff
  <2>3. ASSUME NEW s \in Pending!PeerSequences, Pending!ReceivePacket(s) PROVE AcksKeptStep
    <3>1. s \in Nat
      BY AckProtocolAssumption DEF Pending!PeerSequences
    <3>2. AddsAck(pending_acks, s, pending_acks')
      BY <2>1, <2>3, <3>1, AddPendingAckAdds, SameOperators DEF Pending!ReceivePacket
    <3> QED BY <2>3, <3>2 DEF AcksKeptStep, AddsAck, Pending!ReceivePacket
  <2>4. CASE Pending!SendAck
    BY <2>4 DEF Pending!SendAck, AcksKeptStep
  <2>5. ASSUME NEW l \in largest_acked, Pending!AckIsAcked(l) PROVE AcksKeptStep
    <3>1. l \in Nat /\ acked_upto \in Int
      BY DEF VectorInv, Pending!TypeOK
    <3>2. TrimsAcks(pending_acks, l, pending_acks')
      BY <2>1, <2>5, <3>1, AckedLargestTrims, SameOperators DEF Pending!AckIsAcked
    <3>3. l <= acked_upto'
      BY <2>5, <3>1 DEF Pending!AckIsAcked
    <3>4. acked_upto' \in Int
      BY <2>5, <3>1 DEF Pending!AckIsAcked
    <3>5. ASSUME NEW x \in Covered(pending_acks)
          PROVE  x \in Covered(pending_acks') \/ x <= acked_upto'
      BY <2>2, <3>1, <3>2, <3>3, <3>4 DEF TrimsAcks
    <3> QED BY <2>5, <3>5 DEF Pending!AckIsAcked, AcksKeptStep
  <2> QED BY <2>3, <2>4, <2>5 DEF Pending!Next
<1> QED BY <1>1, VectorInit, VectorStep, PTL DEF Pending!Spec, AcksKept
=============================================================================
