-------------------------- MODULE AckRanges_proofs --------------------------
(***************************************************************************)
(* What the operations on pending_acks preserve and what they return, for  *)
(* every vector of ranges.                                                 *)
(***************************************************************************)
EXTENDS AckRanges, SequenceTheorems, WellFoundedInduction, TLAPS

RangeRecord == [start : Nat, end : Nat]

(* InsertAt puts one element at a position and shifts the later ones right. *)
LEMMA InsertAtShape ==
    ASSUME NEW S, NEW s \in Seq(S), NEW i \in 1 .. Len(s) + 1, NEW e \in S
    PROVE  /\ InsertAt(s, i, e) \in Seq(S)
           /\ Len(InsertAt(s, i, e)) = Len(s) + 1
           /\ \A j \in 1 .. (i - 1) : InsertAt(s, i, e)[j] = s[j]
           /\ InsertAt(s, i, e)[i] = e
           /\ \A k \in i .. Len(s) : InsertAt(s, i, e)[k + 1] = s[k]
<1> DEFINE left == SubSeq(s, 1, i - 1)
           right == SubSeq(s, i, Len(s))
<1>1. \A k \in 1 .. Len(s) : s[k] \in S
  BY ElementOfSeq
<1>2. Len(s) \in Nat
  BY LenProperties
<1>3. /\ left \in Seq(S) /\ Len(left) = i - 1
      /\ \A k \in 1 .. i - 1 : left[k] = s[k]
  <2>1. \A k \in 1 .. i - 1 : s[k] \in S
    BY <1>1, <1>2
  <2> HIDE DEF left
  <2> QED BY <1>2, <2>1, SubSeqProperties DEF left
<1>4. /\ right \in Seq(S) /\ Len(right) = Len(s) - i + 1
      /\ \A k \in 1 .. Len(s) - i + 1 : right[k] = s[i + k - 1]
  <2>1. \A k \in i .. Len(s) : s[k] \in S
    BY <1>1, <1>2
  <2> HIDE DEF right
  <2> QED BY <1>2, <2>1, SubSeqProperties DEF right
<1> HIDE DEF left, right
<1> DEFINE front == left \o <<e>>
<1> HIDE DEF front
<1>5. /\ front \in Seq(S) /\ Len(front) = i
      /\ \A k \in 1 .. (i - 1) : front[k] = s[k]
      /\ front[i] = e
  <2>1. <<e>> \in Seq(S) /\ Len(<<e>>) = 1 /\ <<e>>[1] = e
    OBVIOUS
  <2>2. /\ front \in Seq(S) /\ Len(front) = Len(left) + 1
        /\ \A k \in 1 .. Len(left) + 1 : front[k] =
              IF k <= Len(left) THEN left[k] ELSE <<e>>[k - Len(left)]
    BY <1>3, <2>1, ConcatProperties DEF front
  <2>3. front[i] = <<e>>[i - Len(left)] /\ i - Len(left) = 1
    BY <1>2, <1>3, <2>2
  <2>4. \A k \in 1 .. (i - 1) : front[k] = left[k]
    BY <1>2, <1>3, <2>2
  <2>5. <<e>>[i - Len(left)] = e
    BY <2>1, <2>3
  <2>6. \A k \in 1 .. (i - 1) : front[k] = s[k]
    BY <1>3, <2>4
  <2>7. Len(front) = i
    BY <1>2, <1>3, <2>2
  <2>8. front[i] = e
    BY <2>3, <2>5
  <2> QED BY <2>2, <2>6, <2>7, <2>8
<1>6. InsertAt(s, i, e) = front \o right
  BY DEF InsertAt, left, right, front
<1>7. /\ front \o right \in Seq(S)
      /\ Len(front \o right) = Len(front) + Len(right)
      /\ \A j \in 1 .. Len(front) + Len(right) : (front \o right)[j] =
            IF j <= Len(front) THEN front[j] ELSE right[j - Len(front)]
  BY <1>4, <1>5, ConcatProperties
<1>8. Len(front \o right) = Len(s) + 1
  BY <1>2, <1>4, <1>5, <1>7
<1>9. \A j \in 1 .. i : (front \o right)[j] = front[j]
  BY <1>2, <1>4, <1>5, <1>7
<1>10. \A k \in i .. Len(s) : (front \o right)[k + 1] = s[k]
  <2> TAKE k \in i .. Len(s)
  <2>1. k + 1 \in 1 .. Len(front) + Len(right) /\ ~(k + 1 <= Len(front))
    BY <1>2, <1>4, <1>5
  <2>2. (front \o right)[k + 1] = right[k + 1 - i]
    BY <1>5, <1>7, <2>1
  <2>3. k + 1 - i \in 1 .. Len(s) - i + 1 /\ i + (k + 1 - i) - 1 = k
    BY <1>2
  <2> QED BY <1>4, <2>2, <2>3
<1> QED BY <1>2, <1>5, <1>6, <1>7, <1>8, <1>9, <1>10

(* RemoveAt takes one element out and shifts the later ones left. *)
LEMMA RemoveAtShape ==
    ASSUME NEW S, NEW s \in Seq(S), NEW i \in 1 .. Len(s)
    PROVE  /\ RemoveAt(s, i) \in Seq(S)
           /\ Len(RemoveAt(s, i)) = Len(s) - 1
           /\ \A j \in 1 .. Len(s) - 1 : RemoveAt(s, i)[j] =
                 IF j < i THEN s[j] ELSE s[j + 1]
<1> DEFINE left == SubSeq(s, 1, i - 1)
           right == SubSeq(s, i + 1, Len(s))
<1>1. \A k \in 1 .. Len(s) : s[k] \in S
  BY ElementOfSeq
<1>2. Len(s) \in Nat
  BY LenProperties
<1>3. /\ left \in Seq(S) /\ Len(left) = i - 1
      /\ \A k \in 1 .. i - 1 : left[k] = s[k]
  <2>1. \A k \in 1 .. i - 1 : s[k] \in S
    BY <1>1, <1>2
  <2> HIDE DEF left
  <2> QED BY <1>2, <2>1, SubSeqProperties DEF left
<1>4. /\ right \in Seq(S) /\ Len(right) = Len(s) - i
      /\ \A k \in 1 .. Len(s) - i : right[k] = s[i + k]
  <2>1. \A k \in i + 1 .. Len(s) : s[k] \in S
    BY <1>1, <1>2
  <2> HIDE DEF right
  <2> QED BY <1>2, <2>1, SubSeqProperties DEF right
<1> HIDE DEF left, right
<1>5. RemoveAt(s, i) = left \o right
  BY DEF RemoveAt, left, right
<1>6. /\ left \o right \in Seq(S)
      /\ Len(left \o right) = Len(left) + Len(right)
      /\ \A j \in 1 .. Len(left) + Len(right) : (left \o right)[j] =
            IF j <= Len(left) THEN left[j] ELSE right[j - Len(left)]
  BY <1>3, <1>4, ConcatProperties
<1>7. Len(left) + Len(right) = Len(s) - 1
  BY <1>2, <1>3, <1>4
<1>8. ASSUME NEW j \in 1 .. Len(s) - 1, j < i
      PROVE  (left \o right)[j] = s[j]
  <2>1. j \in 1 .. i - 1 /\ j <= Len(left)
    BY <1>2, <1>3, <1>8
  <2>2. (left \o right)[j] = left[j]
    BY <1>6, <1>7, <2>1
  <2>3. QED
    BY <1>3, <2>1, <2>2
<1>9. ASSUME NEW j \in 1 .. Len(s) - 1, ~(j < i)
      PROVE  (left \o right)[j] = s[j + 1]
  <2>1. ~(j <= Len(left)) /\ j - Len(left) = j - i + 1
    BY <1>2, <1>3, <1>9
  <2>2. (left \o right)[j] = right[j - i + 1]
    BY <1>6, <1>7, <2>1
  <2>3. j - i + 1 \in 1 .. Len(s) - i /\ i + (j - i + 1) = j + 1
    BY <1>2, <1>9
  <2>4. QED
    BY <1>4, <2>2, <2>3
<1>10. QED
  BY <1>5, <1>6, <1>7, <1>8, <1>9

(* A non-empty set of naturals has a least element. *)
LEMMA LeastNatural ==
    ASSUME NEW T, T \subseteq Nat, T # {}
    PROVE  \E n \in T : \A m \in T : n <= m
<1>1. PICK n \in T : \A m \in T : ~(<<m, n>> \in OpToRel(<, Nat))
  BY NatLessThanWellFounded, WFMin
<1>2. \A m \in T : ~(m < n)
  BY <1>1 DEF OpToRel
<1> QED BY <1>2

(***************************************************************************)
(* The loop of add_pending_ack stops at a first index whenever it stops.   *)
(***************************************************************************)
LEMMA FirstStopIsFirst ==
    ASSUME NEW r \in Seq(RangeRecord), NEW s \in Nat,
           \E i \in DOMAIN r : Stops(r[i], s)
    PROVE  /\ FirstStop(r, s) \in DOMAIN r
           /\ Stops(r[FirstStop(r, s)], s)
           /\ \A j \in 1 .. (FirstStop(r, s) - 1) : ~Stops(r[j], s)
<1> DEFINE T == {i \in DOMAIN r : Stops(r[i], s)}
<1>1. DOMAIN r = 1 .. Len(r) /\ Len(r) \in Nat
  BY LenProperties
<1>2. PICK n \in T : \A m \in T : n <= m
  <2>1. T \subseteq Nat /\ T # {}
    BY <1>1
  <2> HIDE DEF T
  <2> QED BY <2>1, LeastNatural
<1>3. /\ n \in DOMAIN r /\ Stops(r[n], s)
      /\ \A j \in 1 .. (n - 1) : ~Stops(r[j], s)
  <2>1. ASSUME NEW j \in 1 .. (n - 1), Stops(r[j], s) PROVE FALSE
    <3>1. j \in T /\ j < n
      BY <1>1, <1>2, <2>1
    <3> QED BY <1>1, <1>2, <3>1
  <2> QED BY <1>2, <2>1
<1> QED BY <1>3 DEF FirstStop

(* The elements of a vector of ranges are ranges. *)
LEMMA RecordsInVector ==
    ASSUME NEW r \in Seq(RangeRecord)
    PROVE  \A i \in DOMAIN r : r[i] \in RangeRecord /\ r[i].start \in Nat /\ r[i].end \in Nat
<1>1. \A i \in DOMAIN r : r[i] \in RangeRecord
  BY ElementOfSeq, LenProperties
<1>2. \A e \in RangeRecord : e.start \in Nat /\ e.end \in Nat
  BY DEF RangeRecord
<1> QED BY <1>1, <1>2

(* Moving one bound of one range changes nothing else. *)
LEMMA MoveStart ==
    ASSUME NEW r \in Seq(RangeRecord), NEW i \in DOMAIN r, NEW v \in Nat
    PROVE  /\ [r EXCEPT ![i].start = v] \in Seq(RangeRecord)
           /\ Len([r EXCEPT ![i].start = v]) = Len(r)
           /\ DOMAIN [r EXCEPT ![i].start = v] = DOMAIN r
           /\ \A j \in DOMAIN r :
                 /\ [r EXCEPT ![i].start = v][j].start = (IF j = i THEN v ELSE r[j].start)
                 /\ [r EXCEPT ![i].start = v][j].end = r[j].end
<1>1. r[i] \in RangeRecord
  BY RecordsInVector
<1> DEFINE e == [r[i] EXCEPT !.start = v]
<1>2. e \in RangeRecord /\ e.start = v /\ e.end = r[i].end
  BY <1>1 DEF RangeRecord
<1>3. [r EXCEPT ![i].start = v] = [r EXCEPT ![i] = e]
  OBVIOUS
<1> HIDE DEF e
<1>4. i \in 1 .. Len(r)
  BY LenProperties
<1>5. [r EXCEPT ![i] = e] \in Seq(RangeRecord) /\ Len([r EXCEPT ![i] = e]) = Len(r)
  BY <1>2, <1>4, ExceptSeq
<1>6. \A j \in DOMAIN r : [r EXCEPT ![i] = e][j] = IF j = i THEN e ELSE r[j]
  OBVIOUS
<1> QED BY <1>2, <1>3, <1>5, <1>6

LEMMA MoveEnd ==
    ASSUME NEW r \in Seq(RangeRecord), NEW i \in DOMAIN r, NEW v \in Nat
    PROVE  /\ [r EXCEPT ![i].end = v] \in Seq(RangeRecord)
           /\ Len([r EXCEPT ![i].end = v]) = Len(r)
           /\ DOMAIN [r EXCEPT ![i].end = v] = DOMAIN r
           /\ \A j \in DOMAIN r :
                 /\ [r EXCEPT ![i].end = v][j].start = r[j].start
                 /\ [r EXCEPT ![i].end = v][j].end = (IF j = i THEN v ELSE r[j].end)
<1>1. r[i] \in RangeRecord
  BY RecordsInVector
<1> DEFINE e == [r[i] EXCEPT !.end = v]
<1>2. e \in RangeRecord /\ e.start = r[i].start /\ e.end = v
  BY <1>1 DEF RangeRecord
<1>3. [r EXCEPT ![i].end = v] = [r EXCEPT ![i] = e]
  OBVIOUS
<1> HIDE DEF e
<1>4. i \in 1 .. Len(r)
  BY LenProperties
<1>5. [r EXCEPT ![i] = e] \in Seq(RangeRecord) /\ Len([r EXCEPT ![i] = e]) = Len(r)
  BY <1>2, <1>4, ExceptSeq
<1>6. \A j \in DOMAIN r : [r EXCEPT ![i] = e][j] = IF j = i THEN e ELSE r[j]
  OBVIOUS
<1> QED BY <1>2, <1>3, <1>5, <1>6

(* Membership in the sequences that a vector covers. *)
LEMMA CoveredIff ==
    ASSUME NEW r \in Seq(RangeRecord)
    PROVE  /\ Covered(r) \subseteq Nat
           /\ \A x \in Nat : x \in Covered(r) <=>
                 \E i \in DOMAIN r : r[i].start <= x /\ x < r[i].end
<1>1. \A i \in DOMAIN r : r[i].start \in Nat /\ r[i].end \in Nat
  BY RecordsInVector
<1> QED BY <1>1 DEF Covered

(* A range the loop passes by lies below the sequence, and not next to it. *)
LEMMA NotStopsBelow ==
    ASSUME NEW e \in RangeRecord, NEW s \in Nat, e.start < e.end, ~Stops(e, s)
    PROVE  e.end < s
BY DEF Stops, InRange, RangeRecord

(* What both branches of add_pending_ack achieve when the limit is not hit. *)
Absorbs(r, s, new) ==
    /\ new \in Seq(RangeRecord)
    /\ Separated(new)
    /\ \A x \in Nat : x \in Covered(new) <=> x \in Covered(r) \/ x = s

LEMMA FitAbsorbs ==
    ASSUME NEW r \in Seq(RangeRecord), Separated(r), NEW s \in Nat, NEW i \in DOMAIN r,
           Stops(r[i], s), \A j \in 1 .. (i - 1) : ~Stops(r[j], s)
    PROVE  Absorbs(r, s, FitAt(r, i, s))
<1> DEFINE new == FitAt(r, i, s)
<1>1. DOMAIN r = 1 .. Len(r) /\ Len(r) \in Nat
  BY LenProperties
<1>2. \A j \in DOMAIN r : r[j] \in RangeRecord /\ r[j].start \in Nat /\ r[j].end \in Nat
  BY RecordsInVector
<1>3. \A j \in DOMAIN r : r[j].start < r[j].end
  BY DEF Separated
<1>4. \A j, k \in DOMAIN r : j < k => r[j].end < r[k].start
  BY DEF Separated
<1>5. ASSUME NEW j \in 1 .. (i - 1) PROVE r[j].end < s
  <2>1. j \in DOMAIN r
    BY <1>1
  <2>2. r[j] \in RangeRecord /\ r[j].start < r[j].end
    BY <1>2, <1>3, <2>1
  <2>3. ~Stops(r[j], s)
    OBVIOUS
  <2> QED BY <2>2, <2>3, NotStopsBelow
<1>6. \A x \in Nat : x \in Covered(r) <=> \E j \in DOMAIN r : r[j].start <= x /\ x < r[j].end
  BY CoveredIff
<1>7. CASE InRange(r[i], s)
  <2>1. new = r
    BY <1>7 DEF FitAt
  <2> QED BY <1>1, <1>2, <1>6, <1>7, <2>1 DEF Absorbs, InRange
<1>8. CASE ~InRange(r[i], s) /\ r[i].start = s + 1
  <2>1. new = [r EXCEPT ![i].start = s]
    BY <1>8 DEF FitAt
  <2>2. new \in Seq(RangeRecord) /\ Len(new) = Len(r) /\ DOMAIN new = DOMAIN r
    BY <2>1, MoveStart
  <2>4. \A j \in DOMAIN r : new[j].start = (IF j = i THEN s ELSE r[j].start)
                              /\ new[j].end = r[j].end
    BY <2>1, MoveStart
  <2> HIDE DEF new
  <2>5. Separated(new)
    <3>1. \A j \in DOMAIN r : new[j].start < new[j].end
      BY <1>2, <1>3, <1>8, <2>4
    <3>2. ASSUME NEW j \in DOMAIN r, NEW k \in DOMAIN r, j < k
          PROVE  new[j].end < new[k].start
      <4>1. CASE k = i
        BY <1>1, <1>5, <2>4, <3>2, <4>1
      <4>2. CASE k # i
        BY <1>4, <2>4, <3>2, <4>2
      <4> QED BY <4>1, <4>2
    <3> QED BY <2>2, <3>1, <3>2 DEF Separated
  <2>6. \A x \in Nat : x \in Covered(new) <=> x \in Covered(r) \/ x = s
    <3>1. \A x \in Nat : x \in Covered(new) <=> \E j \in DOMAIN r : new[j].start <= x /\ x < new[j].end
      BY <2>2, CoveredIff
    <3>2. ASSUME NEW x \in Nat, x \in Covered(new) PROVE x \in Covered(r) \/ x = s
      BY <1>2, <1>6, <1>8, <2>4, <3>1, <3>2
    <3>3. ASSUME NEW x \in Nat, x \in Covered(r) PROVE x \in Covered(new)
      BY <1>2, <1>6, <1>8, <2>4, <3>1, <3>3
    <3>4. s \in Covered(new)
      <4>1. new[i].start <= s /\ s < new[i].end
        BY <1>2, <1>3, <1>8, <2>4
      <4> QED BY <3>1, <4>1
    <3> QED BY <3>2, <3>3, <3>4
  <2> QED BY <2>2, <2>5, <2>6 DEF Absorbs, new
<1>9. CASE r[i].end = s
  <2>1. ~InRange(r[i], s) /\ r[i].start # s + 1
    BY <1>2, <1>3, <1>9 DEF InRange
  <2>2. CASE i < Len(r) /\ r[i + 1].start = s + 1
    <3> DEFINE mid == [r EXCEPT ![i].end = r[i + 1].end]
    <3>1. new = RemoveAt(mid, i + 1)
      BY <1>9, <2>1, <2>2 DEF FitAt
    <3>2. i + 1 \in DOMAIN r
      BY <1>1, <2>2
    <3>3. /\ mid \in Seq(RangeRecord) /\ Len(mid) = Len(r)
          /\ \A j \in DOMAIN r : mid[j].start = r[j].start
                              /\ mid[j].end = (IF j = i THEN r[i + 1].end ELSE r[j].end)
      BY <1>2, <3>2, MoveEnd
    <3> HIDE DEF mid
    <3>4. /\ new \in Seq(RangeRecord) /\ Len(new) = Len(r) - 1
          /\ \A j \in 1 .. Len(r) - 1 : new[j] = IF j < i + 1 THEN mid[j] ELSE mid[j + 1]
      <4>1. i + 1 \in 1 .. Len(mid)
        BY <1>1, <3>2, <3>3
      <4>2. /\ RemoveAt(mid, i + 1) \in Seq(RangeRecord)
            /\ Len(RemoveAt(mid, i + 1)) = Len(mid) - 1
            /\ \A j \in 1 .. Len(mid) - 1 : RemoveAt(mid, i + 1)[j] =
                  IF j < i + 1 THEN mid[j] ELSE mid[j + 1]
        BY <3>3, <4>1, RemoveAtShape
      <4> QED BY <3>1, <3>3, <4>2
    <3>5. DOMAIN new = 1 .. Len(r) - 1
      BY <3>4, LenProperties
    <3> HIDE DEF new
    <3>6. \A j \in 1 .. Len(r) - 1 :
             /\ new[j].start = (IF j <= i THEN r[j].start ELSE r[j + 1].start)
             /\ new[j].end = (IF j < i THEN r[j].end ELSE r[j + 1].end)
      <4> TAKE j \in 1 .. Len(r) - 1
      <4>1. j \in DOMAIN r /\ j + 1 \in DOMAIN r
        BY <1>1
      <4>2. new[j] = IF j < i + 1 THEN mid[j] ELSE mid[j + 1]
        BY <3>4
      <4>3. CASE j < i
        BY <1>1, <3>3, <4>1, <4>2, <4>3
      <4>4. CASE j = i
        BY <1>1, <3>3, <4>1, <4>2, <4>4
      <4>5. CASE j > i
        BY <1>1, <3>3, <4>1, <4>2, <4>5
      <4> QED BY <1>1, <4>3, <4>4, <4>5
    <3>7. Separated(new)
      <4>1. ASSUME NEW j \in 1 .. Len(r) - 1 PROVE new[j].start < new[j].end
        <5>1. j \in DOMAIN r /\ j + 1 \in DOMAIN r /\ j < j + 1
          BY <1>1
        <5>2. /\ r[j].start < r[j].end /\ r[j].end < r[j + 1].start
              /\ r[j + 1].start < r[j + 1].end
          BY <1>3, <1>4, <5>1
        <5>3. CASE j < i
          BY <1>1, <3>6, <5>2, <5>3
        <5>4. CASE j = i
          BY <1>1, <1>2, <3>6, <5>1, <5>2, <5>4
        <5>5. CASE j > i
          BY <1>1, <3>6, <5>2, <5>5
        <5> QED BY <1>1, <5>3, <5>4, <5>5
      <4>2. ASSUME NEW j \in 1 .. Len(r) - 1, NEW k \in 1 .. Len(r) - 1, j < k
            PROVE  new[j].end < new[k].start
        <5>1. /\ j \in DOMAIN r /\ j + 1 \in DOMAIN r /\ k \in DOMAIN r /\ k + 1 \in DOMAIN r
              /\ j + 1 < k + 1
          BY <1>1, <4>2
        <5>2. r[j].end < r[k].start /\ r[j + 1].end < r[k + 1].start
          BY <1>4, <4>2, <5>1
        <5>3. j < i => r[j].end < r[k + 1].start
          BY <1>1, <1>4, <4>2, <5>1
        <5>4. j >= i => k > i
          BY <1>1, <4>2
        <5> QED BY <1>1, <3>6, <4>2, <5>1, <5>2, <5>3, <5>4
      <4> QED BY <3>5, <4>1, <4>2 DEF Separated
    <3>8. \A x \in Nat : x \in Covered(new) <=> \E j \in 1 .. Len(r) - 1 : new[j].start <= x /\ x < new[j].end
      BY <3>4, <3>5, CoveredIff
    <3>9. ASSUME NEW x \in Nat, x \in Covered(new) PROVE x \in Covered(r) \/ x = s
      <4>1. PICK j \in 1 .. Len(r) - 1 : new[j].start <= x /\ x < new[j].end
        BY <3>8, <3>9
      <4>2. j \in DOMAIN r /\ j + 1 \in DOMAIN r
        BY <1>1
      <4>3. CASE j = i
        <5>1. r[j].start <= x /\ x < r[j + 1].end
          BY <1>1, <3>6, <4>1, <4>3
        <5>2. x < r[j].end \/ x = s \/ r[j + 1].start <= x
          BY <1>2, <1>9, <2>2, <4>2, <4>3
        <5> QED BY <1>6, <4>2, <5>1, <5>2
      <4>4. CASE j # i
        <5>1. CASE j < i
          <6>1. new[j].start = r[j].start /\ new[j].end = r[j].end
            BY <1>1, <3>6, <5>1
          <6> QED BY <1>6, <4>1, <4>2, <6>1
        <5>2. CASE j > i
          <6>1. new[j].start = r[j + 1].start /\ new[j].end = r[j + 1].end
            BY <1>1, <3>6, <5>2
          <6> QED BY <1>6, <4>1, <4>2, <6>1
        <5> QED BY <1>1, <4>4, <5>1, <5>2
      <4> QED BY <4>3, <4>4
    <3>10. ASSUME NEW x \in Nat, x \in Covered(r) \/ x = s PROVE x \in Covered(new)
      <4>1. i \in 1 .. Len(r) - 1
        BY <1>1, <2>2
      <4>2. CASE x = s
        <5>1. i + 1 \in DOMAIN r
          BY <1>1, <4>1
        <5>2. new[i].start = r[i].start /\ new[i].end = r[i + 1].end
          BY <1>1, <3>6, <4>1
        <5>3. new[i].start <= x /\ x < new[i].end
          BY <1>2, <1>3, <1>9, <2>2, <4>2, <5>1, <5>2
        <5> QED BY <3>8, <4>1, <5>3
      <4>3. CASE x \in Covered(r)
        <5>1. PICK j \in DOMAIN r : r[j].start <= x /\ x < r[j].end
          BY <1>6, <4>3
        <5>2. CASE j < i
          BY <1>1, <3>6, <3>8, <4>1, <5>1, <5>2
        <5>3. CASE j = i
          <6>1. i + 1 \in DOMAIN r
            BY <1>1, <4>1
          <6>2. x < r[i + 1].end
            BY <1>2, <1>3, <1>9, <2>2, <5>1, <5>3, <6>1
          <6> QED BY <1>1, <3>6, <3>8, <4>1, <5>1, <5>3, <6>2
        <5>4. CASE j = i + 1
          <6>1. r[i].start <= x
            BY <1>2, <1>3, <1>9, <2>2, <5>1, <5>4
          <6>2. new[i].start = r[i].start /\ new[i].end = r[i + 1].end
            BY <1>1, <3>6, <4>1
          <6> QED BY <3>8, <4>1, <5>1, <5>4, <6>1, <6>2
        <5>5. CASE j > i + 1
          <6>1. j - 1 \in 1 .. Len(r) - 1 /\ ~(j - 1 <= i) /\ j - 1 + 1 = j
            BY <1>1, <4>1, <5>5
          <6>2. new[j - 1].start = r[j].start /\ new[j - 1].end = r[j].end
            BY <1>1, <3>6, <6>1
          <6> QED BY <3>8, <5>1, <6>1, <6>2
        <5> QED BY <1>1, <5>2, <5>3, <5>4, <5>5
      <4> QED BY <3>10, <4>2, <4>3
    <3> QED BY <3>4, <3>7, <3>9, <3>10 DEF Absorbs, new
  <2>3. CASE ~(i < Len(r) /\ r[i + 1].start = s + 1)
    <3>0. s + 1 \in Nat
      OBVIOUS
    <3>1. new = [r EXCEPT ![i].end = s + 1]
      BY <1>9, <2>1, <2>3 DEF FitAt
    <3>2. new \in Seq(RangeRecord) /\ Len(new) = Len(r) /\ DOMAIN new = DOMAIN r
      BY <3>0, <3>1, MoveEnd
    <3>4. \A j \in DOMAIN r : new[j].start = r[j].start
                              /\ new[j].end = (IF j = i THEN s + 1 ELSE r[j].end)
      BY <3>0, <3>1, MoveEnd
    <3> HIDE DEF new
    <3>5. \A k \in DOMAIN r : i < k => s + 1 < r[k].start
      <4> TAKE k \in DOMAIN r
      <4> HAVE i < k
      <4>1. i + 1 \in DOMAIN r /\ r[i + 1].start > s + 1
        BY <1>1, <1>2, <1>4, <1>9, <2>3
      <4> QED BY <1>1, <1>2, <1>3, <1>4, <4>1
    <3>6. Separated(new)
      <4>1. \A j \in DOMAIN r : new[j].start < new[j].end
        BY <1>2, <1>3, <1>9, <3>4
      <4>2. ASSUME NEW j \in DOMAIN r, NEW k \in DOMAIN r, j < k
            PROVE  new[j].end < new[k].start
        BY <1>4, <3>4, <3>5, <4>2
      <4> QED BY <3>2, <4>1, <4>2 DEF Separated
    <3>7. \A x \in Nat : x \in Covered(new) <=> \E j \in DOMAIN r : new[j].start <= x /\ x < new[j].end
      BY <3>2, CoveredIff
    <3>8. \A x \in Nat : x \in Covered(new) <=> x \in Covered(r) \/ x = s
      <4>1. ASSUME NEW x \in Nat, x \in Covered(new) PROVE x \in Covered(r) \/ x = s
        BY <1>2, <1>6, <1>9, <3>4, <3>7, <4>1
      <4>2. ASSUME NEW x \in Nat, x \in Covered(r) PROVE x \in Covered(new)
        BY <1>2, <1>6, <1>9, <3>4, <3>7, <4>2
      <4>3. s \in Covered(new)
        <5>1. new[i].start <= s /\ s < new[i].end
          BY <1>2, <1>3, <1>9, <3>4
        <5> QED BY <3>7, <5>1
      <4> QED BY <4>1, <4>2, <4>3
    <3> QED BY <3>2, <3>6, <3>8 DEF Absorbs, new
  <2> QED BY <2>2, <2>3
<1>10. CASE ~InRange(r[i], s) /\ r[i].start # s + 1 /\ r[i].end # s
  <2>1. new = InsertAt(r, i, AckRange(s, s + 1))
    BY <1>10 DEF FitAt
  <2>2. r[i].start > s + 1
    BY <1>10 DEF Stops
  <2> DEFINE e == AckRange(s, s + 1)
  <2>3. e \in RangeRecord /\ e.start = s /\ e.end = s + 1
    BY DEF AckRange, RangeRecord
  <2> HIDE DEF e
  <2>4. /\ new \in Seq(RangeRecord) /\ Len(new) = Len(r) + 1
        /\ \A j \in 1 .. (i - 1) : new[j] = r[j]
        /\ new[i] = e
        /\ \A k \in i .. Len(r) : new[k + 1] = r[k]
    <3>1. i \in 1 .. Len(r) + 1 /\ e \in RangeRecord
      BY <1>1, <2>3
    <3>2. new = InsertAt(r, i, e)
      BY <2>1 DEF e
    <3> HIDE DEF new
    <3>3. InsertAt(r, i, e) \in Seq(RangeRecord) /\ Len(InsertAt(r, i, e)) = Len(r) + 1
      BY <3>1, InsertAtShape
    <3>4. \A j \in 1 .. (i - 1) : InsertAt(r, i, e)[j] = r[j]
      BY <3>1, InsertAtShape
    <3>5. InsertAt(r, i, e)[i] = e
      BY <3>1, InsertAtShape
    <3>6. \A k \in i .. Len(r) : InsertAt(r, i, e)[k + 1] = r[k]
      BY <3>1, InsertAtShape
    <3> QED BY <3>2, <3>3, <3>4, <3>5, <3>6
  <2>5. DOMAIN new = 1 .. Len(r) + 1
    BY <2>4, LenProperties
  <2> HIDE DEF new
  <2>6. \A j \in 1 .. Len(r) + 1 :
           /\ j < i => new[j].start = r[j].start /\ new[j].end = r[j].end
           /\ j = i => new[j].start = s /\ new[j].end = s + 1
           /\ j > i => new[j].start = r[j - 1].start /\ new[j].end = r[j - 1].end
    <3> TAKE j \in 1 .. Len(r) + 1
    <3>1. j > i => new[j] = r[j - 1]
      <4> HAVE j > i
      <4>1. j - 1 \in i .. Len(r) /\ j - 1 + 1 = j
        BY <1>1
      <4> QED BY <2>4, <4>1
    <3> QED BY <1>1, <2>3, <2>4, <3>1
  <2>7. \A k \in i .. Len(r) : s + 1 < r[k].start
    BY <1>1, <1>2, <1>3, <1>4, <2>2
  <2>8. Separated(new)
    <3>1. \A j \in 1 .. Len(r) + 1 : new[j].start < new[j].end
      BY <1>1, <1>3, <2>6
    <3>2. ASSUME NEW j \in 1 .. Len(r) + 1, NEW k \in 1 .. Len(r) + 1, j < k
          PROVE  new[j].end < new[k].start
      <4>1. CASE j < i /\ k < i
        BY <1>1, <1>4, <2>6, <3>2, <4>1
      <4>2. CASE j < i /\ k = i
        BY <1>1, <1>5, <2>6, <3>2, <4>2
      <4>3. CASE j < i /\ k > i
        <5>1. j \in DOMAIN r /\ k - 1 \in DOMAIN r /\ j < k - 1
          BY <1>1, <3>2, <4>3
        <5>2. new[j].end = r[j].end /\ new[k].start = r[k - 1].start
          BY <1>1, <2>6, <4>3
        <5> QED BY <1>4, <5>1, <5>2
      <4>4. CASE j = i
        BY <1>1, <2>6, <2>7, <3>2, <4>4
      <4>5. CASE j > i
        <5>1. j - 1 \in DOMAIN r /\ k - 1 \in DOMAIN r /\ j - 1 < k - 1
          BY <1>1, <3>2, <4>5
        <5>2. new[j].end = r[j - 1].end /\ new[k].start = r[k - 1].start
          BY <1>1, <2>6, <3>2, <4>5
        <5> QED BY <1>4, <5>1, <5>2
      <4> QED BY <1>1, <3>2, <4>1, <4>2, <4>3, <4>4, <4>5
    <3> QED BY <2>5, <3>1, <3>2 DEF Separated
  <2>9. \A x \in Nat : x \in Covered(new) <=> \E j \in 1 .. Len(r) + 1 : new[j].start <= x /\ x < new[j].end
    BY <2>4, <2>5, CoveredIff
  <2>10. ASSUME NEW x \in Nat, x \in Covered(new) PROVE x \in Covered(r) \/ x = s
    <3>1. PICK j \in 1 .. Len(r) + 1 : new[j].start <= x /\ x < new[j].end
      BY <2>9, <2>10
    <3>2. CASE j < i
      BY <1>1, <1>6, <2>6, <3>1, <3>2
    <3>3. CASE j = i
      BY <1>1, <2>6, <3>1, <3>3
    <3>4. CASE j > i
      <4>1. j - 1 \in DOMAIN r
        BY <1>1, <3>4
      <4>2. new[j].start = r[j - 1].start /\ new[j].end = r[j - 1].end
        BY <1>1, <2>6, <3>4
      <4> QED BY <1>6, <3>1, <4>1, <4>2
    <3> QED BY <1>1, <3>2, <3>3, <3>4
  <2>11. ASSUME NEW x \in Nat, x \in Covered(r) \/ x = s PROVE x \in Covered(new)
    <3>1. CASE x = s
      BY <1>1, <2>6, <2>9, <3>1
    <3>2. CASE x \in Covered(r)
      <4>1. PICK j \in DOMAIN r : r[j].start <= x /\ x < r[j].end
        BY <1>6, <3>2
      <4>2. CASE j < i
        BY <1>1, <2>6, <2>9, <4>1, <4>2
      <4>3. CASE j >= i
        <5>1. j + 1 \in 1 .. Len(r) + 1 /\ ~(j + 1 < i) /\ j + 1 # i /\ j + 1 - 1 = j
          BY <1>1, <4>3
        <5>2. new[j + 1].start = r[j].start /\ new[j + 1].end = r[j].end
          BY <2>6, <5>1
        <5> QED BY <2>9, <4>1, <5>1, <5>2
      <4> QED BY <1>1, <4>2, <4>3
    <3> QED BY <2>11, <3>1, <3>2
  <2> QED BY <2>4, <2>8, <2>10, <2>11 DEF Absorbs, new
<1> QED BY <1>7, <1>8, <1>9, <1>10

(* A sequence beyond every range, pushed behind them. *)
LEMMA PushAbsorbs ==
    ASSUME NEW r \in Seq(RangeRecord), Separated(r), NEW s \in Nat,
           \A j \in DOMAIN r : r[j].end < s
    PROVE  Absorbs(r, s, Append(r, AckRange(s, s + 1)))
<1> DEFINE e == AckRange(s, s + 1)
           new == Append(r, e)
<1>1. e \in RangeRecord /\ e.start = s /\ e.end = s + 1
  BY DEF AckRange, RangeRecord
<1>2. DOMAIN r = 1 .. Len(r) /\ Len(r) \in Nat
  BY LenProperties
<1> HIDE DEF e
<1>3. /\ new \in Seq(RangeRecord) /\ Len(new) = Len(r) + 1
      /\ \A j \in 1 .. Len(r) : new[j] = r[j]
      /\ new[Len(r) + 1] = e
  BY <1>1, AppendProperties
<1>4. DOMAIN new = 1 .. Len(r) + 1
  BY <1>3, LenProperties
<1> HIDE DEF new
<1>5. \A j \in DOMAIN r : r[j].start \in Nat /\ r[j].end \in Nat
  BY RecordsInVector
<1>6. Separated(new)
  <2>1. ASSUME NEW j \in 1 .. Len(r) + 1 PROVE new[j].start < new[j].end
    <3>1. CASE j = Len(r) + 1
      BY <1>1, <1>3, <3>1
    <3>2. CASE j # Len(r) + 1
      BY <1>2, <1>3, <3>2 DEF Separated
    <3> QED BY <3>1, <3>2
  <2>2. ASSUME NEW j \in 1 .. Len(r) + 1, NEW k \in 1 .. Len(r) + 1, j < k
        PROVE  new[j].end < new[k].start
    <3>1. j \in DOMAIN r /\ new[j] = r[j]
      BY <1>2, <1>3, <2>2
    <3>2. CASE k = Len(r) + 1
      BY <1>1, <1>3, <3>1, <3>2
    <3>3. CASE k # Len(r) + 1
      BY <1>2, <1>3, <2>2, <3>1, <3>3 DEF Separated
    <3> QED BY <3>2, <3>3
  <2> QED BY <1>4, <2>1, <2>2 DEF Separated
<1>7. \A x \in Nat : x \in Covered(new) <=> x \in Covered(r) \/ x = s
  <2>1. \A x \in Nat : x \in Covered(r) <=> \E j \in DOMAIN r : r[j].start <= x /\ x < r[j].end
    BY CoveredIff
  <2>2. \A x \in Nat : x \in Covered(new) <=> \E j \in 1 .. Len(r) + 1 : new[j].start <= x /\ x < new[j].end
    BY <1>3, <1>4, CoveredIff
  <2>3. Len(r) + 1 \in 1 .. Len(r) + 1
    BY <1>2
  <2>4. ASSUME NEW x \in Nat, x \in Covered(new) PROVE x \in Covered(r) \/ x = s
    <3>1. PICK j \in 1 .. Len(r) + 1 : new[j].start <= x /\ x < new[j].end
      BY <2>2, <2>4
    <3>2. CASE j = Len(r) + 1
      BY <1>1, <1>3, <3>1, <3>2
    <3>3. CASE j # Len(r) + 1
      BY <1>2, <1>3, <2>1, <3>1, <3>3
    <3> QED BY <3>2, <3>3
  <2>5. ASSUME NEW x \in Nat, x \in Covered(r) PROVE x \in Covered(new)
    BY <1>2, <1>3, <2>1, <2>2, <2>5
  <2>6. s \in Covered(new)
    BY <1>1, <1>3, <2>2, <2>3
  <2> QED BY <2>4, <2>5, <2>6
<1> QED BY <1>3, <1>6, <1>7 DEF Absorbs, new, e

(***************************************************************************)
(* Ranges dropped from the left: the rest is still separated, and what is  *)
(* no longer covered lies below the first range kept.                      *)
(***************************************************************************)
LEMMA SuffixKeeps ==
    ASSUME NEW r \in Seq(RangeRecord), Separated(r), NEW k \in DOMAIN r
    PROVE  LET rest == SubSeq(r, k, Len(r)) IN
           /\ rest \in Seq(RangeRecord)
           /\ Separated(rest)
           /\ Len(rest) = Len(r) - k + 1
           /\ rest # << >>
           /\ rest[1] = r[k]
           /\ \A x \in Nat : x \in Covered(rest) <=>
                 \E j \in DOMAIN r : j >= k /\ r[j].start <= x /\ x < r[j].end
<1> DEFINE rest == SubSeq(r, k, Len(r))
<1>1. DOMAIN r = 1 .. Len(r) /\ Len(r) \in Nat
  BY LenProperties
<1>2. \A j \in k .. Len(r) : r[j] \in RangeRecord
  BY <1>1, RecordsInVector
<1>3. /\ rest \in Seq(RangeRecord) /\ Len(rest) = Len(r) - k + 1
      /\ \A i \in 1 .. Len(r) - k + 1 : rest[i] = r[k + i - 1]
  <2> HIDE DEF rest
  <2> QED BY <1>1, <1>2, SubSeqProperties DEF rest
<1>4. DOMAIN rest = 1 .. Len(r) - k + 1
  BY <1>3, LenProperties
<1> HIDE DEF rest
<1>5. 1 \in DOMAIN rest /\ rest[1] = r[k] /\ rest # << >>
  BY <1>1, <1>3, <1>4
<1>6. \A i \in DOMAIN rest : k + i - 1 \in DOMAIN r /\ rest[i] = r[k + i - 1]
  BY <1>1, <1>3, <1>4
<1>7. Separated(rest)
  <2>1. \A i \in DOMAIN rest : rest[i].start < rest[i].end
    BY <1>6 DEF Separated
  <2>2. ASSUME NEW i \in DOMAIN rest, NEW j \in DOMAIN rest, i < j
        PROVE  rest[i].end < rest[j].start
    <3>1. k + i - 1 < k + j - 1
      BY <1>1, <1>4, <2>2
    <3> QED BY <1>6, <3>1 DEF Separated
  <2> QED BY <2>1, <2>2 DEF Separated
<1>8. \A x \in Nat : x \in Covered(rest) <=> \E i \in DOMAIN rest : rest[i].start <= x /\ x < rest[i].end
  BY <1>3, CoveredIff
<1>9. ASSUME NEW x \in Nat, x \in Covered(rest)
      PROVE  \E j \in DOMAIN r : j >= k /\ r[j].start <= x /\ x < r[j].end
  <2>1. PICK i \in DOMAIN rest : rest[i].start <= x /\ x < rest[i].end
    BY <1>8, <1>9
  <2>2. k + i - 1 \in DOMAIN r /\ k + i - 1 >= k
    BY <1>1, <1>4, <1>6
  <2> QED BY <1>6, <2>1, <2>2
<1>10. ASSUME NEW x \in Nat, NEW j \in DOMAIN r, j >= k, r[j].start <= x, x < r[j].end
       PROVE  x \in Covered(rest)
  <2>1. j - k + 1 \in DOMAIN rest /\ k + (j - k + 1) - 1 = j
    BY <1>1, <1>4, <1>10
  <2>2. rest[j - k + 1] = r[j]
    BY <1>6, <2>1
  <2> QED BY <1>8, <1>10, <2>1, <2>2
<1> QED BY <1>3, <1>5, <1>7, <1>9, <1>10 DEF rest

(***************************************************************************)
(* What add_pending_ack achieves on every vector it can meet: the ranges   *)
(* stay separated, the sequence is covered, nothing else is covered anew,  *)
(* and only at the limit is the first range given up.                      *)
(***************************************************************************)
AddsAck(r, s, new) ==
    /\ new \in Seq(RangeRecord)
    /\ Separated(new)
    /\ s \in Covered(new)
    /\ \A x \in Nat : x \in Covered(new) => x \in Covered(r) \/ x = s
    /\ \A x \in Covered(r) :
         x \in Covered(new) \/ (Len(r) >= MaxRanges /\ x < r[1].end)

LEMMA AddPendingAckAdds ==
    ASSUME NEW r \in Seq(RangeRecord), Separated(r), NEW s \in Nat
    PROVE  AddsAck(r, s, AddPendingAck(r, s))
<1>1. Covered(r) \subseteq Nat
  BY CoveredIff
<1>2. CASE \E i \in DOMAIN r : Stops(r[i], s)
  <2>1. AddPendingAck(r, s) = FitAt(r, FirstStop(r, s), s)
    BY <1>2 DEF AddPendingAck
  <2>2. Absorbs(r, s, FitAt(r, FirstStop(r, s), s))
    BY <1>2, FirstStopIsFirst, FitAbsorbs
  <2> QED BY <1>1, <2>1, <2>2 DEF Absorbs, AddsAck
<1>3. CASE \A i \in DOMAIN r : ~Stops(r[i], s)
  <2> DEFINE pushed == Append(r, AckRange(s, s + 1))
  <2>1. \A j \in DOMAIN r : r[j].end < s
    BY <1>3, RecordsInVector, NotStopsBelow DEF Separated
  <2>2. Absorbs(r, s, pushed)
    BY <2>1, PushAbsorbs
  <2>3. AddPendingAck(r, s) = IF Len(pushed) > MaxRanges THEN Tail(pushed) ELSE pushed
    BY <1>3 DEF AddPendingAck, PushRange
  <2>4. CASE ~(Len(pushed) > MaxRanges)
    BY <1>1, <2>2, <2>3, <2>4 DEF Absorbs, AddsAck
  <2>5. CASE Len(pushed) > MaxRanges
    <3> DEFINE e == AckRange(s, s + 1)
    <3>1. e \in RangeRecord /\ e.start = s /\ e.end = s + 1
      BY DEF AckRange, RangeRecord
    <3>2. Len(r) \in Nat /\ DOMAIN r = 1 .. Len(r) /\ MaxRanges \in Nat \ {0}
      BY LenProperties, MaxRangesAssumption
    <3>3. pushed = Append(r, e)
      OBVIOUS
    <3> HIDE DEF e, pushed
    <3>4. /\ pushed \in Seq(RangeRecord) /\ Len(pushed) = Len(r) + 1
          /\ \A j \in 1 .. Len(r) : pushed[j] = r[j]
          /\ pushed[Len(r) + 1] = e
      BY <3>1, <3>3, AppendProperties
    <3>5. Len(r) >= MaxRanges /\ Len(r) >= 1
      BY <2>5, <3>2, <3>4
    <3>6. DOMAIN pushed = 1 .. Len(r) + 1
      BY <3>4, LenProperties
    <3>7. 2 \in DOMAIN pushed /\ Len(r) + 1 \in DOMAIN pushed /\ Len(r) + 1 >= 2
      BY <3>2, <3>5, <3>6
    <3>8. Tail(pushed) = SubSeq(pushed, 2, Len(pushed))
      BY <3>4
    <3> DEFINE rest == SubSeq(pushed, 2, Len(pushed))
    <3>9. AddPendingAck(r, s) = rest
      BY <2>3, <2>5, <3>8
    <3>10. /\ rest \in Seq(RangeRecord) /\ Separated(rest)
           /\ \A x \in Nat : x \in Covered(rest) <=>
                 \E j \in DOMAIN pushed : j >= 2 /\ pushed[j].start <= x /\ x < pushed[j].end
      BY <2>2, <3>4, <3>7, SuffixKeeps DEF Absorbs
    <3>11. \A x \in Nat : x \in Covered(pushed) <=>
                 \E j \in DOMAIN pushed : pushed[j].start <= x /\ x < pushed[j].end
      BY <3>4, CoveredIff
    <3> HIDE DEF rest
    <3>12. s \in Covered(rest)
      BY <3>1, <3>4, <3>7, <3>10
    <3>13. \A x \in Nat : x \in Covered(rest) => x \in Covered(r) \/ x = s
      BY <2>2, <3>10, <3>11 DEF Absorbs
    <3>14. ASSUME NEW x \in Covered(r), x \notin Covered(rest) PROVE x < r[1].end
      <4>1. x \in Nat /\ x \in Covered(pushed)
        BY <1>1, <2>2 DEF Absorbs
      <4>2. PICK j \in DOMAIN pushed : pushed[j].start <= x /\ x < pushed[j].end
        BY <3>11, <4>1
      <4>3. j = 1
        BY <3>2, <3>6, <3>10, <3>14, <4>1, <4>2
      <4> QED BY <3>2, <3>4, <3>5, <4>2, <4>3
    <3> QED BY <3>5, <3>9, <3>10, <3>12, <3>13, <3>14 DEF AddsAck
  <2> QED BY <2>4, <2>5
<1> QED BY <1>2, <1>3

(***************************************************************************)
(* What acked_largest achieves: the ranges stay separated, nothing is      *)
(* covered anew, and exactly what lies above the largest stays covered.    *)
(***************************************************************************)
TrimsAcks(r, l, new) ==
    /\ new \in Seq(RangeRecord)
    /\ Separated(new)
    /\ \A x \in Nat : x \in Covered(new) <=> x \in Covered(r) /\ x > l

LEMMA DropBelowKeeps ==
    ASSUME NEW r \in Seq(RangeRecord), Separated(r), NEW l \in Nat,
           ~(\A i \in DOMAIN r : r[i].end <= l)
    PROVE  \E k \in DOMAIN r :
             /\ r[k].end > l
             /\ \A j \in 1 .. (k - 1) : r[j].end <= l
             /\ DropBelow(r, l) = SubSeq(r, k, Len(r))
<1> DEFINE T == {i \in DOMAIN r : r[i].end > l}
<1>1. DOMAIN r = 1 .. Len(r) /\ Len(r) \in Nat
  BY LenProperties
<1>2. \A i \in DOMAIN r : r[i].end \in Nat
  BY RecordsInVector
<1>3. PICK n \in T : \A m \in T : n <= m
  <2>1. T \subseteq Nat /\ T # {}
    BY <1>1, <1>2
  <2> HIDE DEF T
  <2> QED BY <2>1, LeastNatural
<1>4. /\ n \in DOMAIN r /\ r[n].end > l
      /\ \A j \in 1 .. (n - 1) : r[j].end <= l
  <2>1. ASSUME NEW j \in 1 .. (n - 1), ~(r[j].end <= l) PROVE FALSE
    <3>1. j \in T /\ j < n
      BY <1>1, <1>2, <1>3, <2>1
    <3> QED BY <1>1, <1>3, <3>1
  <2> QED BY <1>3, <2>1
<1> DEFINE k == CHOOSE i \in DOMAIN r :
                    /\ r[i].end > l
                    /\ \A j \in 1 .. (i - 1) : r[j].end <= l
<1>5. /\ k \in DOMAIN r /\ r[k].end > l
      /\ \A j \in 1 .. (k - 1) : r[j].end <= l
  BY <1>4
<1>6. DropBelow(r, l) = SubSeq(r, k, Len(r))
  BY DEF DropBelow
<1> HIDE DEF k
<1> QED BY <1>5, <1>6

LEMMA AckedLargestTrims ==
    ASSUME NEW r \in Seq(RangeRecord), Separated(r), NEW l \in Nat
    PROVE  TrimsAcks(r, l, AckedLargest(r, l))
<1>1. DOMAIN r = 1 .. Len(r) /\ Len(r) \in Nat
  BY LenProperties
<1>2. \A j \in DOMAIN r : r[j].start \in Nat /\ r[j].end \in Nat
  BY RecordsInVector
<1>3. \A j \in DOMAIN r : r[j].start < r[j].end
  BY DEF Separated
<1>4. \A j, k \in DOMAIN r : j < k => r[j].end < r[k].start
  BY DEF Separated
<1>5. \A x \in Nat : x \in Covered(r) <=> \E j \in DOMAIN r : r[j].start <= x /\ x < r[j].end
  BY CoveredIff
<1> DEFINE rest == DropBelow(r, l)
<1>6. AckedLargest(r, l) =
        IF rest = << >> \/ l < rest[1].start THEN rest
        ELSE IF l + 1 = rest[1].end THEN Tail(rest)
        ELSE [rest EXCEPT ![1].start = l + 1]
  BY DEF AckedLargest
<1>7. CASE \A i \in DOMAIN r : r[i].end <= l
  <2>1. rest = << >>
    BY <1>7 DEF DropBelow
  <2>2. AckedLargest(r, l) = << >>
    BY <1>6, <2>1
  <2>3. << >> \in Seq(RangeRecord) /\ DOMAIN << >> = {}
    OBVIOUS
  <2>4. Separated(<< >>) /\ Covered(<< >>) = {}
    BY <2>3 DEF Separated, Covered
  <2>5. \A x \in Nat : ~(x \in Covered(r) /\ x > l)
    BY <1>2, <1>5, <1>7
  <2> QED BY <2>2, <2>3, <2>4, <2>5 DEF TrimsAcks
<1>8. CASE ~(\A i \in DOMAIN r : r[i].end <= l)
  <2>1. PICK k \in DOMAIN r :
             /\ r[k].end > l
             /\ \A j \in 1 .. (k - 1) : r[j].end <= l
             /\ rest = SubSeq(r, k, Len(r))
    BY <1>8, DropBelowKeeps
  <2>2. /\ rest \in Seq(RangeRecord) /\ Separated(rest) /\ rest # << >>
        /\ Len(rest) = Len(r) - k + 1
        /\ rest[1] = r[k]
        /\ \A x \in Nat : x \in Covered(rest) <=>
              \E j \in DOMAIN r : j >= k /\ r[j].start <= x /\ x < r[j].end
    BY <2>1, SuffixKeeps
  <2> HIDE DEF rest
  <2>3. \A x \in Nat : x > l => (x \in Covered(rest) <=> x \in Covered(r))
    <3> SUFFICES ASSUME NEW x \in Nat, x > l, x \in Covered(r) PROVE x \in Covered(rest)
      BY <1>5, <2>2
    <3>1. PICK j \in DOMAIN r : r[j].start <= x /\ x < r[j].end
      BY <1>5
    <3>2. j >= k
      <4>1. ~(r[j].end <= l)
        BY <1>2, <3>1
      <4> QED BY <1>1, <2>1, <4>1
    <3> QED BY <2>2, <3>1, <3>2
  <2>4. DOMAIN rest = 1 .. Len(rest) /\ 1 \in DOMAIN rest /\ Len(rest) \in Nat
    BY <1>1, <2>2, LenProperties
  <2>5. \A j \in DOMAIN rest : rest[j].start \in Nat /\ rest[j].end \in Nat
    BY <2>2, RecordsInVector
  <2>6. \A x \in Nat : x \in Covered(rest) <=> \E j \in DOMAIN rest : rest[j].start <= x /\ x < rest[j].end
    BY <2>2, CoveredIff
  <2>7. /\ \A j \in DOMAIN rest : rest[j].start < rest[j].end
        /\ \A i, j \in DOMAIN rest : i < j => rest[i].end < rest[j].start
    BY <2>2 DEF Separated
  <2>8. \A j \in DOMAIN rest : j # 1 => rest[1].end < rest[j].start
    BY <2>4, <2>7
  <2>9. rest[1].end > l
    BY <2>1, <2>2
  <2>10. CASE l < rest[1].start
    <3>1. AckedLargest(r, l) = rest
      BY <1>6, <2>10
    <3>2. \A x \in Nat : x \in Covered(rest) => x > l
      <4> TAKE x \in Nat
      <4> HAVE x \in Covered(rest)
      <4>1. PICK j \in DOMAIN rest : rest[j].start <= x /\ x < rest[j].end
        BY <2>6
      <4>2. l < rest[j].start
        BY <2>4, <2>5, <2>8, <2>9, <2>10
      <4> QED BY <2>5, <4>1, <4>2
    <3> QED BY <2>2, <2>3, <3>1, <3>2 DEF TrimsAcks
  <2>11. CASE ~(l < rest[1].start) /\ l + 1 = rest[1].end
    <3>1. AckedLargest(r, l) = Tail(rest)
      BY <1>6, <2>2, <2>11
    <3>2. CASE Len(rest) = 1
      <4>1. Tail(rest) = << >>
        <5>1. Tail(rest) \in Seq(RangeRecord) /\ Len(Tail(rest)) = 0
          <6>1. Tail(rest) \in Seq(RangeRecord) /\ Len(Tail(rest)) = Len(rest) - 1
            BY <2>2, HeadTailProperties
          <6> QED BY <3>2, <6>1
        <5> QED BY <5>1, EmptySeq
      <4>2. << >> \in Seq(RangeRecord) /\ DOMAIN << >> = {}
        OBVIOUS
      <4>3. Separated(<< >>) /\ Covered(<< >>) = {}
        BY <4>2 DEF Separated, Covered
      <4>4. \A x \in Nat : ~(x \in Covered(r) /\ x > l)
        BY <2>3, <2>4, <2>5, <2>6, <2>11, <3>2
      <4> QED BY <3>1, <4>1, <4>2, <4>3, <4>4 DEF TrimsAcks
    <3>3. CASE Len(rest) # 1
      <4>1. 2 \in DOMAIN rest
        BY <2>4, <3>3
      <4>2. Tail(rest) = SubSeq(rest, 2, Len(rest))
        BY <2>2
      <4> DEFINE new == SubSeq(rest, 2, Len(rest))
      <4>3. /\ new \in Seq(RangeRecord) /\ Separated(new)
            /\ \A x \in Nat : x \in Covered(new) <=>
                  \E j \in DOMAIN rest : j >= 2 /\ rest[j].start <= x /\ x < rest[j].end
        BY <2>2, <4>1, SuffixKeeps
      <4> HIDE DEF new
      <4>4. ASSUME NEW x \in Nat, x \in Covered(new) PROVE x \in Covered(r) /\ x > l
        <5>1. PICK j \in DOMAIN rest : j >= 2 /\ rest[j].start <= x /\ x < rest[j].end
          BY <4>3, <4>4
        <5>2. x > l
          BY <2>4, <2>5, <2>8, <2>9, <5>1
        <5> QED BY <2>3, <2>6, <5>1, <5>2
      <4>5. ASSUME NEW x \in Nat, x \in Covered(r), x > l PROVE x \in Covered(new)
        <5>1. PICK j \in DOMAIN rest : rest[j].start <= x /\ x < rest[j].end
          BY <2>3, <2>6, <4>5
        <5>2. j # 1
          BY <2>4, <2>5, <2>11, <4>5, <5>1
        <5>3. j >= 2
          BY <2>4, <5>2
        <5> QED BY <4>3, <5>1, <5>3
      <4> QED BY <3>1, <4>2, <4>3, <4>4, <4>5 DEF TrimsAcks, new
    <3> QED BY <3>2, <3>3
  <2>12. CASE ~(l < rest[1].start) /\ l + 1 # rest[1].end
    <3> DEFINE new == [rest EXCEPT ![1].start = l + 1]
    <3>1. AckedLargest(r, l) = new
      BY <1>6, <2>2, <2>12
    <3>2. l + 1 \in Nat /\ l + 1 < rest[1].end
      BY <2>4, <2>5, <2>9, <2>12
    <3>3. /\ new \in Seq(RangeRecord) /\ DOMAIN new = DOMAIN rest
          /\ \A j \in DOMAIN rest :
               /\ new[j].start = (IF j = 1 THEN l + 1 ELSE rest[j].start)
               /\ new[j].end = rest[j].end
      BY <2>2, <2>4, <3>2, MoveStart
    <3> HIDE DEF new
    <3>4. Separated(new)
      <4>1. \A j \in DOMAIN rest : new[j].start < new[j].end
        BY <2>7, <3>2, <3>3
      <4>2. ASSUME NEW i \in DOMAIN rest, NEW j \in DOMAIN rest, i < j
            PROVE  new[i].end < new[j].start
        <5>1. j # 1
          BY <2>4, <4>2
        <5> QED BY <2>7, <3>3, <4>2, <5>1
      <4> QED BY <3>3, <4>1, <4>2 DEF Separated
    <3>5. \A x \in Nat : x \in Covered(new) <=> \E j \in DOMAIN rest : new[j].start <= x /\ x < new[j].end
      BY <3>3, CoveredIff
    <3>6. ASSUME NEW x \in Nat, x \in Covered(new) PROVE x \in Covered(r) /\ x > l
      <4>1. PICK j \in DOMAIN rest : new[j].start <= x /\ x < new[j].end
        BY <3>5, <3>6
      <4>2. CASE j = 1
        <5>1. x > l /\ rest[1].start <= x /\ x < rest[1].end
          BY <2>4, <2>5, <2>12, <3>3, <4>1, <4>2
        <5> QED BY <2>3, <2>4, <2>6, <5>1
      <4>3. CASE j # 1
        <5>1. rest[j].start <= x /\ x < rest[j].end
          BY <3>3, <4>1, <4>3
        <5>2. x > l
          BY <2>4, <2>5, <2>8, <2>9, <4>3, <5>1
        <5> QED BY <2>3, <2>6, <5>1, <5>2
      <4> QED BY <4>2, <4>3
    <3>7. ASSUME NEW x \in Nat, x \in Covered(r), x > l PROVE x \in Covered(new)
      <4>1. PICK j \in DOMAIN rest : rest[j].start <= x /\ x < rest[j].end
        BY <2>3, <2>6, <3>7
      <4>2. new[j].start <= x /\ x < new[j].end
        BY <2>5, <3>3, <3>7, <4>1
      <4> QED BY <3>5, <4>1, <4>2
    <3> QED BY <3>1, <3>3, <3>4, <3>6, <3>7 DEF TrimsAcks
  <2> QED BY <2>10, <2>11, <2>12
<1> QED BY <1>7, <1>8

(***************************************************************************)
(* The vector after acked_largest: the ranges that reach beyond the        *)
(* largest, each without what lies at or below it.                         *)
(***************************************************************************)
CutAt(r, l, k, new) ==
    /\ new \in Seq(RangeRecord)
    /\ \A j \in 1 .. (k - 1) : r[j].end <= l + 1
    /\ \A j \in k .. Len(r) : r[j].end > l + 1
    /\ Len(new) = Len(r) - k + 1
    /\ \A i \in 1 .. (Len(r) - k + 1) :
         /\ new[i].start = (IF r[k + i - 1].start <= l THEN l + 1 ELSE r[k + i - 1].start)
         /\ new[i].end = r[k + i - 1].end

LEMMA AckedLargestCuts ==
    ASSUME NEW r \in Seq(RangeRecord), Separated(r), NEW l \in Nat
    PROVE  \E k \in 1 .. Len(r) + 1 : CutAt(r, l, k, AckedLargest(r, l))
<1>1. DOMAIN r = 1 .. Len(r) /\ Len(r) \in Nat
  BY LenProperties
<1>2. \A j \in DOMAIN r : r[j].start \in Nat /\ r[j].end \in Nat
  BY RecordsInVector
<1>3. \A j \in DOMAIN r : r[j].start < r[j].end
  BY DEF Separated
<1>4. \A j, k \in DOMAIN r : j < k => r[j].end < r[k].start
  BY DEF Separated
<1> DEFINE rest == DropBelow(r, l)
<1>6. AckedLargest(r, l) =
        IF rest = << >> \/ l < rest[1].start THEN rest
        ELSE IF l + 1 = rest[1].end THEN Tail(rest)
        ELSE [rest EXCEPT ![1].start = l + 1]
  BY DEF AckedLargest
<1>7. CASE \A i \in DOMAIN r : r[i].end <= l
  <2>1. rest = << >>
    BY <1>7 DEF DropBelow
  <2>2. AckedLargest(r, l) = << >>
    BY <1>6, <2>1
  <2>3. << >> \in Seq(RangeRecord) /\ Len(<< >>) = 0
    OBVIOUS
  <2>4. CutAt(r, l, Len(r) + 1, << >>)
    BY <1>1, <1>2, <1>7, <2>3 DEF CutAt
  <2> QED BY <1>1, <2>2, <2>4
<1>8. CASE ~(\A i \in DOMAIN r : r[i].end <= l)
  <2>1. PICK k \in DOMAIN r :
             /\ r[k].end > l
             /\ \A j \in 1 .. (k - 1) : r[j].end <= l
             /\ rest = SubSeq(r, k, Len(r))
    BY <1>8, DropBelowKeeps
  <2>2. /\ rest \in Seq(RangeRecord) /\ rest # << >>
        /\ Len(rest) = Len(r) - k + 1
        /\ rest[1] = r[k]
    BY <2>1, SuffixKeeps
  <2>3. \A i \in 1 .. (Len(r) - k + 1) : rest[i] = r[k + i - 1]
    BY <1>1, <2>1
  <2> HIDE DEF rest
  <2>4. k \in 1 .. Len(r) /\ DOMAIN rest = 1 .. Len(rest) /\ 1 \in DOMAIN rest
    BY <1>1, <2>2, LenProperties
  <2>5. \A j \in (k + 1) .. Len(r) : r[k].end < r[j].start /\ r[j].start < r[j].end
    BY <1>1, <1>3, <1>4, <2>4
  <2>6. \A j \in 1 .. (k - 1) : r[j].end <= l + 1
    BY <1>1, <1>2, <2>1, <2>4
  <2>7. ASSUME NEW j \in (k + 1) .. Len(r) PROVE r[j].end > l + 1 /\ ~(r[j].start <= l)
    <3>1. j \in DOMAIN r
      BY <1>1, <2>4
    <3>2. r[j].start \in Nat /\ r[j].end \in Nat /\ r[k].end \in Nat
      BY <1>2, <3>1
    <3>3. r[k].end > l /\ r[k].end < r[j].start /\ r[j].start < r[j].end
      BY <2>1, <2>5
    <3> QED BY <3>2, <3>3
  <2>10. CASE l < rest[1].start
    <3>1. AckedLargest(r, l) = rest
      BY <1>6, <2>10
    <3>2. ASSUME NEW j \in k .. Len(r) PROVE r[j].end > l + 1 /\ ~(r[j].start <= l)
      <4>1. CASE j = k
        <5>1. r[k].start \in Nat /\ r[k].end \in Nat /\ r[k].start < r[k].end /\ l < r[k].start
          BY <1>2, <1>3, <2>1, <2>2, <2>10
        <5> QED BY <4>1, <5>1
      <4>2. CASE j # k
        <5>1. j \in (k + 1) .. Len(r)
          BY <1>1, <2>4, <4>2
        <5> QED BY <2>7, <5>1
      <4> QED BY <4>1, <4>2
    <3>3. \A i \in 1 .. (Len(r) - k + 1) : k + i - 1 \in k .. Len(r)
      BY <1>1, <2>4
    <3>4. CutAt(r, l, k, rest)
      BY <2>2, <2>3, <2>6, <3>2, <3>3 DEF CutAt
    <3> QED BY <1>1, <2>4, <3>1, <3>4
  <2>11. CASE ~(l < rest[1].start) /\ l + 1 = rest[1].end
    <3>1. AckedLargest(r, l) = Tail(rest)
      BY <1>6, <2>2, <2>11
    <3>2. /\ Tail(rest) \in Seq(RangeRecord) /\ Len(Tail(rest)) = Len(rest) - 1
          /\ \A i \in 1 .. (Len(rest) - 1) : Tail(rest)[i] = rest[i + 1]
      BY <2>2, HeadTailProperties
    <3>3. \A i \in 1 .. (Len(r) - (k + 1) + 1) :
            /\ Tail(rest)[i] = r[(k + 1) + i - 1]
            /\ (k + 1) + i - 1 \in (k + 1) .. Len(r)
      <4> TAKE i \in 1 .. (Len(r) - (k + 1) + 1)
      <4>1. i \in 1 .. (Len(rest) - 1) /\ i + 1 \in 1 .. (Len(r) - k + 1)
        BY <1>1, <2>2, <2>4
      <4>2. Tail(rest)[i] = r[k + (i + 1) - 1]
        BY <2>3, <3>2, <4>1
      <4>3. k + (i + 1) - 1 = (k + 1) + i - 1 /\ (k + 1) + i - 1 \in (k + 1) .. Len(r)
        BY <1>1, <2>4, <4>1
      <4> QED BY <4>2, <4>3
    <3>4. \A j \in 1 .. ((k + 1) - 1) : r[j].end <= l + 1
      BY <1>1, <1>2, <2>2, <2>4, <2>6, <2>11
    <3>5. Len(Tail(rest)) = Len(r) - (k + 1) + 1
      BY <1>1, <2>2, <2>4, <3>2
    <3> DEFINE new == Tail(rest)
    <3> HIDE DEF new
    <3>6. CutAt(r, l, k + 1, new)
      <4>1. \A i \in 1 .. (Len(r) - (k + 1) + 1) :
         /\ new[i].start = (IF r[(k + 1) + i - 1].start <= l THEN l + 1 ELSE r[(k + 1) + i - 1].start)
         /\ new[i].end = r[(k + 1) + i - 1].end
        BY <2>7, <3>3 DEF new
      <4> QED BY <2>7, <3>2, <3>4, <3>5, <4>1 DEF CutAt, new
    <3> QED BY <1>1, <2>4, <3>1, <3>6 DEF new
  <2>12. CASE ~(l < rest[1].start) /\ l + 1 # rest[1].end
    <3> DEFINE new == [rest EXCEPT ![1].start = l + 1]
    <3>1. AckedLargest(r, l) = new
      BY <1>6, <2>2, <2>12
    <3>2. l + 1 \in Nat
      OBVIOUS
    <3>3. /\ new \in Seq(RangeRecord) /\ DOMAIN new = DOMAIN rest
          /\ \A j \in DOMAIN rest :
               /\ new[j].start = (IF j = 1 THEN l + 1 ELSE rest[j].start)
               /\ new[j].end = rest[j].end
      BY <2>2, <2>4, <3>2, MoveStart
    <3> HIDE DEF new
    <3>4. Len(new) = Len(rest)
      BY <2>2, <2>4, <3>3, LenProperties
    <3>5. ASSUME NEW j \in k .. Len(r) PROVE r[j].end > l + 1
      <4>1. CASE j = k
        <5>1. r[k].end \in Nat /\ r[k].end > l /\ l + 1 # r[k].end
          BY <1>2, <2>1, <2>2, <2>12
        <5> QED BY <4>1, <5>1
      <4>2. CASE j # k
        <5>1. j \in (k + 1) .. Len(r)
          BY <1>1, <2>4, <4>2
        <5> QED BY <2>7, <5>1
      <4> QED BY <4>1, <4>2
    <3>6. r[k].start <= l
      BY <1>1, <1>2, <2>2, <2>4, <2>12
    <3>7. ASSUME NEW i \in 1 .. (Len(r) - k + 1)
          PROVE  /\ new[i].start = (IF r[k + i - 1].start <= l THEN l + 1 ELSE r[k + i - 1].start)
                 /\ new[i].end = r[k + i - 1].end
      <4>1. i \in DOMAIN rest /\ rest[i] = r[k + i - 1]
        BY <2>2, <2>3, <2>4
      <4>2. CASE i = 1
        <5>1. k + i - 1 = k
          BY <2>4, <4>2
        <5> QED BY <3>3, <3>6, <4>1, <4>2, <5>1
      <4>3. CASE i # 1
        <5>1. k + i - 1 \in (k + 1) .. Len(r)
          BY <1>1, <2>4, <4>3
        <5> QED BY <2>7, <3>3, <4>1, <4>3, <5>1
      <4> QED BY <4>2, <4>3
    <3>8. CutAt(r, l, k, new)
      BY <2>2, <2>6, <3>3, <3>4, <3>5, <3>7 DEF CutAt
    <3> QED BY <1>1, <2>4, <3>1, <3>8
  <2> QED BY <2>10, <2>11, <2>12
<1> QED BY <1>7, <1>8

(* A vector is cut in one way only. *)
LEMMA CutOnce ==
    ASSUME NEW r \in Seq(RangeRecord), NEW l \in Nat,
           NEW j \in 1 .. Len(r) + 1, NEW k \in 1 .. Len(r) + 1,
           NEW x, NEW y, CutAt(r, l, j, x), CutAt(r, l, k, y)
    PROVE  x = y
<1>1. DOMAIN r = 1 .. Len(r) /\ Len(r) \in Nat
  BY LenProperties
<1>2. \A i \in DOMAIN r : r[i].start \in Nat /\ r[i].end \in Nat
  BY RecordsInVector
<1>3. j = k
  <2>1. ASSUME j < k PROVE FALSE
    <3>1. j \in 1 .. (k - 1) /\ j \in j .. Len(r) /\ j \in DOMAIN r
      BY <1>1, <2>1
    <3>2. r[j].end <= l + 1 /\ r[j].end > l + 1
      BY <3>1 DEF CutAt
    <3> QED BY <1>2, <3>1, <3>2
  <2>2. ASSUME k < j PROVE FALSE
    <3>1. k \in 1 .. (j - 1) /\ k \in k .. Len(r) /\ k \in DOMAIN r
      BY <1>1, <2>2
    <3>2. r[k].end <= l + 1 /\ r[k].end > l + 1
      BY <3>1 DEF CutAt
    <3> QED BY <1>2, <3>1, <3>2
  <2> QED BY <1>1, <2>1, <2>2
<1>4. /\ x \in Seq(RangeRecord) /\ y \in Seq(RangeRecord) /\ Len(x) = Len(y)
      /\ Len(x) = Len(r) - k + 1
  BY <1>3 DEF CutAt
<1>5. \A i \in 1 .. Len(x) : x[i] = y[i]
  <2> TAKE i \in 1 .. Len(x)
  <2>1. x[i].start = y[i].start /\ x[i].end = y[i].end
    BY <1>3, <1>4 DEF CutAt
  <2>2. x[i] \in RangeRecord /\ y[i] \in RangeRecord
    BY <1>4, ElementOfSeq
  <2>3. \A e \in RangeRecord : e = [start |-> e.start, end |-> e.end]
    BY DEF RangeRecord
  <2> QED BY <2>1, <2>2, <2>3
<1> QED BY <1>4, <1>5, SeqEqual

(* To cut at two sequences is to cut at the larger one. *)
LEMMA AckedLargestTwice ==
    ASSUME NEW r \in Seq(RangeRecord), Separated(r), NEW a \in Nat, NEW b \in Nat
    PROVE  AckedLargest(AckedLargest(r, a), b) = AckedLargest(r, IF a < b THEN b ELSE a)
<1> DEFINE l == IF a < b THEN b ELSE a
           x == AckedLargest(r, a)
           y == AckedLargest(x, b)
<1>1. DOMAIN r = 1 .. Len(r) /\ Len(r) \in Nat
  BY LenProperties
<1>2. \A i \in DOMAIN r : r[i].start \in Nat /\ r[i].end \in Nat
  BY RecordsInVector
<1>3. x \in Seq(RangeRecord) /\ Separated(x)
  BY AckedLargestTrims DEF TrimsAcks
<1>4. PICK j \in 1 .. Len(r) + 1 : CutAt(r, a, j, x)
  BY AckedLargestCuts
<1> HIDE DEF x
<1>5. PICK k \in 1 .. Len(x) + 1 : CutAt(x, b, k, y)
  BY <1>3, AckedLargestCuts
<1>6. l \in Nat /\ a <= l /\ b <= l /\ (l = a \/ l = b)
  OBVIOUS
<1> HIDE DEF l, y
<1>7. Len(x) = Len(r) - j + 1 /\ Len(y) = Len(x) - k + 1 /\ y \in Seq(RangeRecord)
  BY <1>4, <1>5 DEF CutAt
<1> DEFINE n == j + k - 1
<1>8. n \in 1 .. Len(r) + 1 /\ Len(y) = Len(r) - n + 1
  BY <1>1, <1>7
<1>9. ASSUME NEW i \in j .. Len(r)
      PROVE  /\ i \in DOMAIN r /\ i - j + 1 \in 1 .. Len(x)
             /\ x[i - j + 1].start = (IF r[i].start <= a THEN a + 1 ELSE r[i].start)
             /\ x[i - j + 1].end = r[i].end
  <2>1. i - j + 1 \in 1 .. (Len(r) - j + 1) /\ j + (i - j + 1) - 1 = i /\ i \in DOMAIN r
    BY <1>1
  <2> QED BY <1>4, <1>7, <2>1 DEF CutAt
<1>10. ASSUME NEW i \in 1 .. (n - 1) PROVE r[i].end <= l + 1
  <2>1. i \in DOMAIN r
    BY <1>1, <1>8
  <2>2. CASE i < j
    <3>1. r[i].end <= a + 1
      BY <1>1, <1>4, <2>2 DEF CutAt
    <3> QED BY <1>2, <1>6, <2>1, <3>1
  <2>3. CASE ~(i < j)
    <3>1. i \in j .. Len(r) /\ i - j + 1 \in 1 .. (k - 1)
      BY <1>1, <1>8, <2>1, <2>3
    <3>2. r[i].end <= b + 1
      BY <1>5, <1>9, <3>1 DEF CutAt
    <3> QED BY <1>2, <1>6, <2>1, <3>2
  <2> QED BY <2>2, <2>3
<1>11. ASSUME NEW i \in n .. Len(r) PROVE r[i].end > l + 1
  <2>1. i \in DOMAIN r /\ i \in j .. Len(r) /\ i - j + 1 \in k .. Len(x)
    BY <1>1, <1>7, <1>8
  <2>2. r[i].end > a + 1
    BY <1>4, <2>1 DEF CutAt
  <2>3. r[i].end > b + 1
    BY <1>5, <1>9, <2>1 DEF CutAt
  <2> QED BY <1>6, <2>2, <2>3
<1>12. ASSUME NEW i \in 1 .. (Len(r) - n + 1)
       PROVE  /\ y[i].start = (IF r[n + i - 1].start <= l THEN l + 1 ELSE r[n + i - 1].start)
              /\ y[i].end = r[n + i - 1].end
  <2>1. PICK m : m = n + i - 1
    OBVIOUS
  <2>2. m \in j .. Len(r) /\ m - j + 1 = k + i - 1 /\ i \in 1 .. (Len(x) - k + 1)
    BY <1>1, <1>7, <1>8, <2>1
  <2>3. /\ y[i].start = (IF x[m - j + 1].start <= b THEN b + 1 ELSE x[m - j + 1].start)
        /\ y[i].end = x[m - j + 1].end
    BY <1>5, <2>2 DEF CutAt
  <2>4. /\ m \in DOMAIN r
        /\ x[m - j + 1].start = (IF r[m].start <= a THEN a + 1 ELSE r[m].start)
        /\ x[m - j + 1].end = r[m].end
    BY <1>9, <2>2
  <2>5. r[m].start \in Nat
    BY <1>2, <2>4
  <2>6. y[i].start = (IF r[m].start <= l THEN l + 1 ELSE r[m].start)
    BY <2>3, <2>4, <2>5 DEF l
  <2> HIDE DEF n
  <2> QED BY <2>1, <2>3, <2>4, <2>6
<1>13. CutAt(r, l, n, y)
  <2> HIDE DEF n
  <2> QED BY <1>7, <1>8, <1>10, <1>11, <1>12 DEF CutAt
<1>14. PICK k2 \in 1 .. Len(r) + 1 : CutAt(r, l, k2, AckedLargest(r, l))
  BY <1>6, AckedLargestCuts
<1>15. y = AckedLargest(r, l)
  <2> HIDE DEF n
  <2> QED BY <1>6, <1>8, <1>13, <1>14, CutOnce
<1> QED BY <1>15 DEF l, x, y

(* One range of an Ack packet read back: its distance to the range after it *)
(* and its size give its bounds.                                            *)
ReadBack(range, w) ==
    AckRange(((range.start - w.gap) - 2) - w.size, ((range.start - w.gap) - 2) + 1)

(***************************************************************************)
(* Decoding an encoded vector gives the vector back.  The recursion of the *)
(* decoder has a solution, which is the vector read from its end, and only *)
(* one, by induction on the number of ranges read.                         *)
(***************************************************************************)
LEMMA DecodeEncodes ==
    ASSUME NEW r \in Seq(RangeRecord), Separated(r), r # << >>
    PROVE  DecodeAck(EncodeAck(r)) = r
<1> DEFINE N == Len(r)
           wire == EncodeAck(r)
           rest == wire.rest
           W == [k \in 0 .. N - 1 |-> r[N - k]]
           first == AckRange(wire.first_end - wire.first_size, wire.first_end + 1)
           Solution(d) == d = [k \in 0 .. Len(wire.rest) |->
                   IF k = 0 THEN first ELSE ReadBack(d[k - 1], wire.rest[k])]
           D == CHOOSE d : Solution(d)
<1>1. N \in Nat \ {0} /\ DOMAIN r = 1 .. N
  BY LenProperties, EmptySeq
<1>2. \A j \in 1 .. N : /\ r[j] \in RangeRecord /\ r[j].start \in Nat /\ r[j].end \in Nat
                        /\ r[j].start < r[j].end
                        /\ r[j] = AckRange(r[j].start, r[j].end)
  <2>1. \A j \in 1 .. N : r[j] \in RangeRecord /\ r[j].start \in Nat /\ r[j].end \in Nat
    BY <1>1, RecordsInVector
  <2>2. \A j \in 1 .. N : r[j].start < r[j].end
    BY <1>1 DEF Separated
  <2>3. \A e \in RangeRecord : e = AckRange(e.start, e.end)
    BY DEF RangeRecord, AckRange
  <2> QED BY <2>1, <2>2, <2>3
<1>3. \A j \in 1 .. N - 1 : r[j].end < r[j + 1].start
  BY <1>1 DEF Separated
<1>4. /\ wire.first_end = r[N].end - 1
      /\ wire.first_size = (r[N].end - 1) - r[N].start
      /\ rest = [k \in 1 .. N - 1 |->
                   [gap |-> r[N - k + 1].start - r[N - k].end - 1,
                    size |-> (r[N - k].end - 1) - r[N - k].start]]
  BY DEF EncodeAck
<1>5. \A k \in 1 .. N - 1 : /\ rest[k].gap = r[N - k + 1].start - r[N - k].end - 1
                            /\ rest[k].size = (r[N - k].end - 1) - r[N - k].start
  BY <1>4
<1>6. Len(rest) = N - 1
  BY <1>1, <1>4
<1> HIDE DEF wire, rest
<1>7. first = r[N]
  BY <1>1, <1>2, <1>4 DEF AckRange
<1>8. ASSUME NEW k \in 1 .. N - 1
      PROVE  /\ N - k \in 1 .. N /\ N - k + 1 \in 1 .. N
             /\ r[N - k + 1].start - rest[k].gap = r[N - k].end + 1
             /\ ReadBack(r[N - k + 1], rest[k]) = r[N - k]
  <2>1. N - k \in 1 .. N /\ N - k + 1 \in 1 .. N
    BY <1>1
  <2>2. /\ r[N - k].start \in Nat /\ r[N - k].end \in Nat /\ r[N - k + 1].start \in Nat
        /\ r[N - k] = AckRange(r[N - k].start, r[N - k].end)
    BY <1>2, <2>1
  <2> DEFINE i == N - k
             j == N - k + 1
  <2>a. /\ rest[k].gap = r[j].start - r[i].end - 1 /\ rest[k].size = (r[i].end - 1) - r[i].start
        /\ r[i].start \in Nat /\ r[i].end \in Nat /\ r[j].start \in Nat
    BY <1>5, <2>2
  <2>3. /\ ((r[j].start - rest[k].gap) - 2) - rest[k].size = r[i].start
        /\ ((r[j].start - rest[k].gap) - 2) + 1 = r[i].end
        /\ r[j].start - rest[k].gap = r[i].end + 1
    <3> DEFINE a == r[i].start
               b == r[i].end
               c == r[j].start
               gap == rest[k].gap
               size == rest[k].size
    <3>1. a \in Nat /\ b \in Nat /\ c \in Nat /\ gap = c - b - 1 /\ size = (b - 1) - a
      BY <2>a
    <3> HIDE DEF i, j, a, b, c, gap, size
    <3>2. ((c - gap) - 2) - size = a /\ ((c - gap) - 2) + 1 = b /\ c - gap = b + 1
      BY <3>1
    <3> QED BY <3>2 DEF a, b, c, gap, size
  <2> QED BY <2>1, <2>2, <2>3 DEF ReadBack
<1>9. W = [k \in 0 .. N - 1 |-> IF k = 0 THEN first ELSE ReadBack(W[k - 1], rest[k])]
  <2>1. ASSUME NEW k \in 0 .. N - 1
        PROVE  r[N - k] = IF k = 0 THEN first ELSE ReadBack(W[k - 1], rest[k])
    <3>1. CASE k = 0
      BY <1>1, <1>7, <3>1
    <3>2. CASE k # 0
      <4>1. k \in 1 .. N - 1 /\ k - 1 \in 0 .. N - 1 /\ N - (k - 1) = N - k + 1
        BY <1>1, <3>2
      <4>2. W[k - 1] = r[N - k + 1]
        BY <4>1
      <4> QED BY <1>8, <3>2, <4>1, <4>2
    <3> QED BY <3>1, <3>2
  <2> QED BY <2>1
<1>10. D = [k \in 0 .. N - 1 |-> IF k = 0 THEN first ELSE ReadBack(D[k - 1], rest[k])]
  <2>1. Solution(W)
    <3> HIDE DEF W, first
    <3> QED BY <1>6, <1>9 DEF rest
  <2>2. Solution(D)
    <3> HIDE DEF Solution, W
    <3> QED BY <2>1
  <2> HIDE DEF D, first
  <2> QED BY <1>6, <2>2 DEF rest
<1> HIDE DEF D, first
<1>11. \A k \in 0 .. N - 1 : D[k] = W[k]
  <2> DEFINE T == {k \in 0 .. N - 1 : D[k] # W[k]}
  <2>1. SUFFICES ASSUME T # {} PROVE FALSE
    OBVIOUS
  <2>2. T \subseteq Nat
    BY <1>1
  <2>3. PICK k \in T : \A m \in T : k <= m
    <3> HIDE DEF T
    <3> QED BY <2>1, <2>2, LeastNatural
  <2>4. k # 0
    BY <1>1, <1>7, <1>10
  <2>5. k \in 1 .. N - 1 /\ k - 1 \in 0 .. N - 1 /\ k - 1 < k
    BY <1>1, <2>4
  <2>6. D[k - 1] = W[k - 1]
    BY <2>3, <2>5
  <2>7. D[k] = ReadBack(D[k - 1], rest[k])
    BY <1>10, <2>4, <2>5
  <2>8. W[k] = ReadBack(W[k - 1], rest[k])
    BY <1>9, <2>4, <2>5
  <2> QED BY <2>6, <2>7, <2>8
<1>12. \A k \in 1 .. N : N - k \in 0 .. N - 1 /\ D[N - k] = r[k]
  <2>1. \A k \in 1 .. N : N - k \in 0 .. N - 1 /\ N - (N - k) = k
    BY <1>1
  <2> QED BY <1>11, <2>1
<1>13. /\ ~(wire.first_end < wire.first_size)
       /\ \A k \in 1 .. N - 1 :
            /\ ~(D[k - 1].start < 2 + rest[k].gap)
            /\ ~((D[k - 1].start - rest[k].gap) - 2 < rest[k].size)
  <2>1. ~(wire.first_end < wire.first_size)
    BY <1>1, <1>2, <1>4
  <2>2. ASSUME NEW k \in 1 .. N - 1
        PROVE  /\ ~(D[k - 1].start < 2 + rest[k].gap)
               /\ ~((D[k - 1].start - rest[k].gap) - 2 < rest[k].size)
    <3>1. N - k \in 1 .. N /\ N - k + 1 \in 1 .. N /\ N - (N - k + 1) = k - 1
      BY <1>1
    <3>2. D[k - 1] = r[N - k + 1]
      BY <1>12, <3>1
    <3>3. /\ r[N - k].start \in Nat /\ r[N - k].end \in Nat /\ r[N - k + 1].start \in Nat
          /\ r[N - k].start < r[N - k].end
      BY <1>2, <3>1
    <3> DEFINE i == N - k
               j == N - k + 1
    <3>4. /\ rest[k].gap = r[j].start - r[i].end - 1 /\ rest[k].size = (r[i].end - 1) - r[i].start
          /\ r[i].start \in Nat /\ r[i].end \in Nat /\ r[j].start \in Nat
          /\ r[i].start < r[i].end /\ r[i].end >= 1 /\ D[k - 1] = r[j]
      BY <1>5, <3>2, <3>3
    <3> DEFINE a == r[i].start
               b == r[i].end
               c == r[j].start
               gap == rest[k].gap
               size == rest[k].size
    <3>5. /\ a \in Nat /\ b \in Nat /\ c \in Nat /\ b >= 1 /\ a < b
          /\ gap = c - b - 1 /\ size = (b - 1) - a /\ D[k - 1].start = c
      BY <3>4
    <3> HIDE DEF i, j, a, b, c, gap, size
    <3>6. ~(c < 2 + gap) /\ ~((c - gap) - 2 < size)
      BY <3>5
    <3> QED BY <3>5, <3>6 DEF gap, size
  <2> QED BY <2>1, <2>2
<1>14. DecodeAck(wire) = [k \in 1 .. (N - 1) + 1 |-> D[(N - 1) + 1 - k]]
  <2> DEFINE invalid ==
                \/ wire.first_end < wire.first_size
                \/ \E k \in 1 .. Len(wire.rest) :
                     \/ D[k - 1].start < 2 + wire.rest[k].gap
                     \/ (D[k - 1].start - wire.rest[k].gap) - 2 < wire.rest[k].size
  <2>1. DecodeAck(wire) = IF invalid THEN << >>
                          ELSE [k \in 1 .. (Len(wire.rest) + 1) |-> D[Len(wire.rest) + 1 - k]]
    BY DEF DecodeAck, D, first, ReadBack
  <2>2. ~invalid
    BY <1>6, <1>13 DEF rest
  <2> HIDE DEF invalid
  <2> QED BY <1>6, <2>1, <2>2 DEF rest
<1>15. [k \in 1 .. (N - 1) + 1 |-> D[(N - 1) + 1 - k]] = [k \in 1 .. N |-> r[k]]
  <2>1. (N - 1) + 1 = N
    BY <1>1
  <2> QED BY <1>12, <2>1
<1>16. [k \in 1 .. N |-> r[k]] = r
  BY <1>1
<1> QED BY <1>14, <1>15, <1>16 DEF wire
=============================================================================
