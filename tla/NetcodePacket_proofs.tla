------------------------ MODULE NetcodePacket_proofs ------------------------
(***************************************************************************)
(* Replay protection is exact for every size of its ring, and what is      *)
(* decoded from the wire is what was encoded, for every width of bytes and *)
(* words and every list of addresses.                                      *)
(***************************************************************************)
EXTENDS NetcodePacket, FiniteSetTheorems, NaturalsInduction, WellFoundedInduction, TLAPS

(* A residue is an index of the ring. *)
LEMMA ModProperties ==
    ASSUME NEW a \in Nat, NEW n \in Nat \ {0}
    PROVE  a % n \in 0 .. (n - 1)
OBVIOUS

(* A positive multiple of n is at least n. *)
LEMMA PositiveMultiple ==
    ASSUME NEW k \in Int, NEW n \in Nat \ {0}, 0 < n * k
    PROVE  n <= n * k
<1>1. k >= 1
  <2>1. SUFFICES ASSUME k <= 0 PROVE FALSE
    OBVIOUS
  <2>2. n * k <= 0
    BY <2>1, n \in Nat
  <2>3. n * k \in Int
    OBVIOUS
  <2>4. QED
    BY <2>2, <2>3
<1>2. PICK m \in Nat : k = m + 1
  BY <1>1
<1>3. n * k = n * m + n /\ n * m >= 0 /\ n * m \in Int
  BY <1>2
<1>4. QED
  BY <1>3

(* Two sequences that share a slot lie the size of the ring apart. *)
LEMMA SameResidue ==
    ASSUME NEW a \in Nat, NEW b \in Nat, NEW n \in Nat \ {0}, a < b, a % n = b % n
    PROVE  a + n <= b
<1>1. PICK q \in Int : a = (n * q) + (a % n)
  <2>1. a \div n \in Int /\ a = (n * (a \div n)) + (a % n)
    OBVIOUS
  <2>2. QED
    BY <2>1
<1>2. PICK p \in Int : b = (n * p) + (b % n)
  <2>1. b \div n \in Int /\ b = (n * (b \div n)) + (b % n)
    OBVIOUS
  <2>2. QED
    BY <2>1
<1>3. a % n \in Int /\ n * q \in Int /\ n * p \in Int
  BY ModProperties
<1>4. b - a = n * p - n * q
  BY <1>1, <1>2, <1>3
<1>5. n * p - n * q = n * (p - q) /\ p - q \in Int
  OBVIOUS
<1>6. 0 < n * (p - q)
  BY <1>4, <1>5
<1>7. n <= n * (p - q)
  BY <1>5, <1>6, PositiveMultiple
<1>8. QED
  BY <1>4, <1>5, <1>7
-----------------------------------------------------------------------------
(* Every sequence has a slot. *)
LEMMA SlotOf ==
    ASSUME NEW s \in Nat
    PROVE  s % BufferSize \in 0 .. (BufferSize - 1)
BY BufferSizeAssumption, ModProperties

Inv == TypeOK /\ SlotsHoldHighest

LEMMA InitInv == Init => Inv
BY BufferSizeAssumption
   DEF Init, Inv, TypeOK, SlotsHoldHighest, NewReplayProtection, Empty

(* Recording a sequence that was let through keeps both parts. *)
LEMMA AcceptKeepsInv ==
    ASSUME NEW s \in Nat, Inv, ~AlreadyReceived(window, s),
           window' = AdvanceSequence(window, s), accepted' = accepted \union {s}
    PROVE  Inv'
<1> DEFINE slot == s % BufferSize
<1>1. slot \in 0 .. (BufferSize - 1)
  BY SlotOf
<1>2. TypeOK
  BY DEF Inv
<1>3. window.most_recent \in Nat
        /\ window.received \in [0 .. (BufferSize - 1) -> Nat \union {Empty}]
  BY <1>2 DEF TypeOK
<1>4. /\ window'.most_recent = IF s > window.most_recent THEN s ELSE window.most_recent
      /\ window'.received = [window.received EXCEPT ![slot] = s]
  BY DEF AdvanceSequence
<1>5. window.received[slot] = Empty \/ window.received[slot] < s
  <2>1. window.received[slot] = Empty \/ ~(window.received[slot] >= s)
    BY DEF AlreadyReceived
  <2>2. window.received[slot] \in Nat \union {Empty}
    BY <1>1, <1>3
  <2>3. QED
    BY <2>1, <2>2
<1>6. TypeOK'
  BY <1>1, <1>2, <1>3 DEF TypeOK, AdvanceSequence
<1>7. \A i \in 0 .. (BufferSize - 1) :
        window'.received[i] = IF i = slot THEN s ELSE window.received[i]
  BY <1>1, <1>3, <1>4
<1>8. ASSUME NEW a \in accepted'
      PROVE  /\ a <= window'.most_recent
             /\ window'.received[a % BufferSize] # Empty
             /\ a <= window'.received[a % BufferSize]
  <2>1. CASE a = s
    <3>1. window'.received[slot] = s
      BY <1>1, <1>7
    <3>2. QED
      BY <2>1, <3>1, <1>3, <1>4 DEF Empty
  <2>2. CASE a # s
    <3>1. a \in accepted /\ a \in Nat
      BY <2>2, <1>2 DEF TypeOK
    <3>2. /\ a <= window.most_recent
          /\ window.received[a % BufferSize] # Empty
          /\ a <= window.received[a % BufferSize]
      BY <3>1 DEF Inv, SlotsHoldHighest
    <3>3. a % BufferSize \in 0 .. (BufferSize - 1)
      BY <3>1, SlotOf
    <3>4. a <= window'.most_recent
      BY <3>1, <3>2, <1>3, <1>4
    <3>5. CASE a % BufferSize = slot
      <4>1. window.received[slot] < s /\ window.received[slot] \in Nat
        BY <3>2, <3>5, <1>5, <1>3, <1>1
      <4>2. window'.received[a % BufferSize] = s
        BY <3>5, <1>1, <1>7
      <4>3. QED
        BY <4>1, <4>2, <3>1, <3>2, <3>4, <3>5 DEF Empty
    <3>6. CASE a % BufferSize # slot
      BY <3>2, <3>3, <3>4, <3>6, <1>7
    <3>7. QED
      BY <3>5, <3>6
  <2>3. QED
    BY <2>1, <2>2
<1>9. ASSUME NEW i \in 0 .. (BufferSize - 1), window'.received[i] # Empty
      PROVE  window'.received[i] \in accepted' /\ window'.received[i] % BufferSize = i
  <2>1. CASE i = slot
    BY <2>1, <1>7
  <2>2. CASE i # slot
    <3>1. window'.received[i] = window.received[i]
      BY <2>2, <1>7
    <3>2. QED
      BY <3>1, <1>9 DEF Inv, SlotsHoldHighest
  <2>3. QED
    BY <2>1, <2>2
<1>10. QED
  BY <1>6, <1>8, <1>9 DEF Inv, SlotsHoldHighest

LEMMA NextInv == Inv /\ [Next]_vars => Inv'
<1>1. SUFFICES ASSUME Inv, [Next]_vars PROVE Inv'
  OBVIOUS
<1>2. CASE UNCHANGED vars
  BY <1>1, <1>2 DEF vars, Inv, TypeOK, SlotsHoldHighest
<1>3. CASE Next
  <2>1. PICK s \in Sequences, authentic \in BOOLEAN : Decode(s, authentic)
    BY <1>3 DEF Next
  <2>2. s \in Nat
    BY MaxSequenceAssumption DEF Sequences
  <2>3. CASE authentic /\ ~AlreadyReceived(window, s)
    BY <2>1, <2>2, <2>3, <1>1, AcceptKeepsInv DEF Decode
  <2>4. CASE ~(authentic /\ ~AlreadyReceived(window, s))
    BY <2>1, <2>4, <1>1 DEF Decode, vars, Inv, TypeOK, SlotsHoldHighest
  <2>5. QED
    BY <2>3, <2>4
<1>4. QED
  BY <1>1, <1>2, <1>3

(* A slot that refuses a sequence holds that sequence or one a whole ring  *)
(* ahead of it, so the invariant implies that the answer is exact.         *)
LEMMA InvIsExact == Inv => ExactWindow
<1>1. SUFFICES ASSUME Inv, NEW s \in Nat
               PROVE  AlreadyReceived(window, s) <=>
                        s \in accepted \/ s + BufferSize <= window.most_recent
  BY MaxSequenceAssumption DEF ExactWindow, Sequences
<1> DEFINE slot == s % BufferSize
<1> DEFINE v == window.received[slot]
<1>2. slot \in 0 .. (BufferSize - 1)
  BY SlotOf
<1>3. window.most_recent \in Nat /\ v \in Nat \union {Empty}
  BY <1>1, <1>2 DEF Inv, TypeOK
<1>4. ASSUME s \in accepted PROVE v # Empty /\ v >= s
  <2>1. v # Empty /\ s <= v
    BY <1>1, <1>4 DEF Inv, SlotsHoldHighest
  <2>2. QED
    BY <2>1, <1>3
<1>5. ASSUME v # Empty, v >= s
      PROVE  s \in accepted \/ s + BufferSize <= window.most_recent
  <2>1. v \in accepted /\ v % BufferSize = slot
    BY <1>1, <1>2, <1>5 DEF Inv, SlotsHoldHighest
  <2>2. v <= window.most_recent /\ v \in Nat
    BY <1>1, <1>3, <1>5, <2>1 DEF Inv, SlotsHoldHighest
  <2>3. CASE v = s
    BY <2>1, <2>3
  <2>4. CASE v # s
    <3>1. s < v
      BY <2>2, <2>4, <1>5
    <3>2. s + BufferSize <= v
      BY <3>1, <2>1, <2>2, BufferSizeAssumption, SameResidue
    <3>3. QED
      BY <3>2, <2>2, <1>3, BufferSizeAssumption
  <2>5. QED
    BY <2>3, <2>4
<1>6. QED
  BY <1>4, <1>5 DEF AlreadyReceived

(* Type correctness of the replay protection. *)
THEOREM TypeCorrect == Spec => []TypeOK
<1>1. Inv => TypeOK
  BY DEF Inv
<1>2. QED
  BY InitInv, NextInv, <1>1, PTL DEF Spec

(***************************************************************************)
(* A slot of the ring holds the highest sequence accepted in its residue   *)
(* class, for every size of the ring.                                      *)
(***************************************************************************)
THEOREM SlotsAlwaysHighest == Spec => []SlotsHoldHighest
<1>1. Inv => SlotsHoldHighest
  BY DEF Inv
<1>2. QED
  BY InitInv, NextInv, <1>1, PTL DEF Spec

(***************************************************************************)
(* No packet passes the replay protection twice, and none inside the       *)
(* window is dropped unless it was accepted before, for every size of the  *)
(* ring: already_received answers exactly.                                 *)
(***************************************************************************)
THEOREM WindowAlwaysExact == Spec => []ExactWindow
BY InitInv, NextInv, InvIsExact, PTL DEF Spec
-----------------------------------------------------------------------------
(* A non-empty set of naturals has a least element. *)
LEMMA LeastNatural ==
    ASSUME NEW T, T \subseteq Nat, T # {}
    PROVE  \E n \in T : \A m \in T : n <= m
<1>1. PICK n \in T : \A m \in T : ~(<<m, n>> \in OpToRel(<, Nat))
  BY NatLessThanWellFounded, WFMin
<1>2. \A m \in T : ~(m < n)
  BY <1>1 DEF OpToRel
<1> QED BY <1>2

(* What holds of 0 and passes from a number to the next holds of all. *)
LEMMA SetInduction ==
    ASSUME NEW T, 0 \in T, \A n \in Nat : n \in T => n + 1 \in T
    PROVE  Nat \subseteq T
<1> DEFINE U == Nat \ T
<1>1. SUFFICES ASSUME U # {} PROVE FALSE
  OBVIOUS
<1>2. PICK n \in U : \A m \in U : n <= m
  <2>1. U \subseteq Nat
    OBVIOUS
  <2> HIDE DEF U
  <2> QED BY <1>1, <2>1, LeastNatural
<1>3. n # 0 /\ n \in Nat
  OBVIOUS
<1>4. n - 1 \in Nat /\ n - 1 < n
  BY <1>3
<1>5. n - 1 \in T
  BY <1>2, <1>4
<1>6. (n - 1) + 1 \in T
  BY <1>4, <1>5
<1> QED BY <1>3, <1>6

(* Division with remainder: quotient and remainder exist. *)
LEMMA Division ==
    ASSUME NEW s \in Nat, NEW m \in Nat \ {0}
    PROVE  /\ s \div m \in Nat /\ s % m \in 0 .. (m - 1)
           /\ s = (m * (s \div m)) + (s % m)
<1>1. s % m \in 0 .. (m - 1)
  OBVIOUS
<1>2. s \div m \in Int /\ s = (m * (s \div m)) + (s % m)
  OBVIOUS
<1>3. s \div m >= 0
  OBVIOUS
<1> QED BY <1>1, <1>2, <1>3

(* And they are the only ones. *)
LEMMA DivisionUnique ==
    ASSUME NEW s \in Nat, NEW m \in Nat \ {0}, NEW u \in Nat, NEW t \in 0 .. (m - 1),
           s = (m * u) + t
    PROVE  s % m = t
<1> DEFINE q == s \div m
           r == s % m
<1>1. q \in Nat /\ r \in 0 .. (m - 1) /\ s = (m * q) + r
  BY Division
<1> HIDE DEF q, r
<1>2. m * q \in Int /\ m * u \in Int /\ r \in Int /\ t \in Int /\ m \in Int
  BY <1>1
<1>3. r - t = m * u - m * q
  BY <1>1, <1>2
<1>4. m * u - m * q = m * (u - q) /\ u - q \in Int
  BY <1>1
<1>5. m * q - m * u = m * (q - u) /\ q - u \in Int
  BY <1>1
<1>6. ~(0 < m * (u - q))
  <2>1. SUFFICES ASSUME 0 < m * (u - q) PROVE FALSE
    OBVIOUS
  <2>2. m <= m * (u - q)
    BY <1>4, <2>1, PositiveMultiple
  <2>3. r - t < m /\ r - t = m * (u - q)
    BY <1>1, <1>2, <1>3, <1>4
  <2> HIDE DEF r
  <2> QED BY <2>2, <2>3, <1>2
<1>7. ~(0 < m * (q - u))
  <2>1. SUFFICES ASSUME 0 < m * (q - u) PROVE FALSE
    OBVIOUS
  <2>2. m <= m * (q - u)
    BY <1>5, <2>1, PositiveMultiple
  <2>3. t - r < m /\ t - r = m * (q - u)
    BY <1>1, <1>2, <1>3, <1>5
  <2> QED BY <2>2, <2>3, <1>2
<1>8. r = t
  BY <1>2, <1>3, <1>4, <1>5, <1>6, <1>7
<1> QED BY <1>8 DEF r

(***************************************************************************)
(* The next digit of a number: what a remainder gains when the modulus     *)
(* gets one byte wider.                                                    *)
(***************************************************************************)
LEMMA NextDigit ==
    ASSUME NEW s \in Nat, NEW p \in Nat \ {0}, NEW b \in Nat \ {0}
    PROVE  s % (b * p) = (s % p) + ((s \div p) % b) * p
<1> DEFINE q == s \div p
           r == s % p
           u == q \div b
           v == q % b
<1>1. q \in Nat /\ r \in 0 .. (p - 1) /\ s = (p * q) + r
  BY Division
<1> HIDE DEF q, r
<1>2. u \in Nat /\ v \in 0 .. (b - 1) /\ q = (b * u) + v
  BY <1>1, Division
<1> HIDE DEF u, v
<1>3. p * q = (b * p) * u + v * p
  <2>1. p * q = p * ((b * u) + v)
    BY <1>2
  <2>2. p * ((b * u) + v) = p * (b * u) + p * v
    BY <1>2
  <2>3. p * (b * u) = (b * p) * u /\ p * v = v * p
    BY <1>2
  <2> QED BY <2>1, <2>2, <2>3
<1>4. b * p \in Nat \ {0}
  OBVIOUS
<1>5. v * p \in Nat /\ v * p <= (b - 1) * p /\ (b - 1) * p = b * p - p
  BY <1>2
<1>6. r + v * p \in 0 .. (b * p - 1)
  BY <1>1, <1>4, <1>5
<1>7. s = ((b * p) * u) + (r + v * p)
  <2>1. (b * p) * u \in Nat
    BY <1>2, <1>4
  <2> DEFINE x == p * q
             y == (b * p) * u
             z == v * p
  <2>2. x = y + z /\ y \in Nat /\ z \in Nat /\ r \in Nat /\ s = x + r
    BY <1>1, <1>3, <1>5, <2>1
  <2> HIDE DEF x, y, z
  <2>3. s = y + (r + z)
    BY <2>2
  <2> QED BY <2>3 DEF y, z
<1>8. s % (b * p) = r + v * p
  BY <1>2, <1>4, <1>6, <1>7, DivisionUnique
<1> QED BY <1>8 DEF q, r, v
-----------------------------------------------------------------------------
(* The powers of a byte satisfy their recursion: a solution up to n gives  *)
(* one up to n + 1.                                                        *)
LEMMA PowerDefined ==
    Power = [n \in 0 .. WordBytes |-> IF n = 0 THEN 1 ELSE Byte * Power[n - 1]]
<1> DEFINE Solution(f, m) == f = [n \in 0 .. m |-> IF n = 0 THEN 1 ELSE Byte * f[n - 1]]
           T == {m \in Nat : \E f : Solution(f, m)}
<1>1. 0 \in T
  <2>1. Solution([n \in 0 .. 0 |-> 1], 0)
    OBVIOUS
  <2> QED BY <2>1
<1>2. ASSUME NEW m \in Nat, m \in T PROVE m + 1 \in T
  <2>1. PICK f : Solution(f, m)
    BY <1>2
  <2> DEFINE g == [n \in 0 .. (m + 1) |-> IF n = m + 1 THEN Byte * f[m] ELSE f[n]]
  <2>2. ASSUME NEW n \in 0 .. (m + 1)
        PROVE  g[n] = IF n = 0 THEN 1 ELSE Byte * g[n - 1]
    <3>1. CASE n = 0
      BY <2>1, <3>1
    <3>2. CASE n # 0
      <4>1. n - 1 \in 0 .. m /\ n - 1 # m + 1 /\ n - 1 \in 0 .. (m + 1)
        BY <3>2
      <4>2. g[n - 1] = f[n - 1]
        BY <4>1
      <4>3. CASE n = m + 1
        BY <3>2, <4>2, <4>3
      <4>4. CASE n # m + 1
        <5>1. n \in 0 .. m
          BY <4>4
        <5>2. f[n] = Byte * f[n - 1]
          BY <2>1, <3>2, <5>1
        <5> QED BY <3>2, <4>2, <4>4, <5>2
      <4> QED BY <4>3, <4>4
    <3> QED BY <3>1, <3>2
  <2>3. Solution(g, m + 1)
    <3> DEFINE h == [n \in 0 .. (m + 1) |-> IF n = 0 THEN 1 ELSE Byte * g[n - 1]]
    <3>1. \A n \in 0 .. (m + 1) : g[n] = h[n]
      <4> HIDE DEF g
      <4> QED BY <2>2
    <3>2. g = h
      BY <3>1
    <3> QED BY <3>2
  <2> HIDE DEF g
  <2>4. \E f1 : Solution(f1, m + 1)
    BY <2>3
  <2> QED BY <2>4
<1>3. WordBytes \in T
  <2>1. Nat \subseteq T
    <3> HIDE DEF T
    <3> QED BY <1>1, <1>2, SetInduction
  <2> HIDE DEF T
  <2> QED BY <2>1, WordAssumption
<1>4. \E f : Solution(f, WordBytes)
  BY <1>3
<1>5. Power = CHOOSE f : Solution(f, WordBytes)
  BY DEF Power
<1> DEFINE P == CHOOSE f : Solution(f, WordBytes)
<1>6. Solution(P, WordBytes)
  <2> HIDE DEF Solution
  <2> QED BY <1>4
<1> HIDE DEF P
<1>7. Power = P
  BY <1>5 DEF P
<1> QED BY <1>6, <1>7

LEMMA PowerOf ==
    /\ Power[0] = 1
    /\ \A n \in 0 .. WordBytes : Power[n] \in Nat \ {0}
    /\ \A n \in 1 .. WordBytes : Power[n] = Byte * Power[n - 1]
<1>1. Power[0] = 1
  BY PowerDefined, WordAssumption
<1>2. ASSUME NEW n \in 1 .. WordBytes PROVE Power[n] = Byte * Power[n - 1]
  BY PowerDefined, WordAssumption
<1> DEFINE T == {n \in Nat : n \in 0 .. WordBytes => Power[n] \in Nat \ {0}}
<1>3. 0 \in T
  BY <1>1
<1>4. ASSUME NEW n \in Nat, n \in T PROVE n + 1 \in T
  <2>1. SUFFICES ASSUME n + 1 \in 0 .. WordBytes PROVE Power[n + 1] \in Nat \ {0}
    OBVIOUS
  <2>2. n \in 0 .. WordBytes /\ n + 1 \in 1 .. WordBytes /\ (n + 1) - 1 = n
    BY <2>1, WordAssumption
  <2>3. Power[n] \in Nat \ {0}
    BY <1>4, <2>2
  <2>4. Power[n + 1] = Byte * Power[n]
    BY <1>2, <2>2
  <2> DEFINE x == Power[n]
  <2> HIDE DEF x
  <2>5. x \in Nat \ {0}
    BY <2>3 DEF x
  <2>6. Byte * x \in Nat \ {0}
    BY <2>5, WordAssumption
  <2> QED BY <2>4, <2>6 DEF x
<1>5. Nat \subseteq T
  <2> HIDE DEF T
  <2> QED BY <1>3, <1>4, SetInduction
<1> QED BY <1>1, <1>2, <1>5, WordAssumption

(* A sequence fits in the bytes that are written for it. *)
LEMMA BytesSuffice ==
    ASSUME NEW s \in Sequences
    PROVE  /\ SequenceBytesRequired(s) \in 0 .. WordBytes
           /\ s \in Nat /\ s < Power[SequenceBytesRequired(s)]
<1> DEFINE T == {n \in 0 .. WordBytes : s < Power[n]}
<1>1. s \in Nat /\ s <= MaxSequence
  BY MaxSequenceAssumption DEF Sequences
<1>2. WordBytes \in T
  <2>1. Power[WordBytes] \in Nat /\ WordBytes \in 0 .. WordBytes
    BY PowerOf, WordAssumption
  <2> QED BY <1>1, <2>1, SequencesFit, MaxSequenceAssumption
<1>3. PICK n \in T : \A m \in T : n <= m
  <2>1. T \subseteq Nat /\ T # {}
    BY <1>2, WordAssumption
  <2> HIDE DEF T
  <2> QED BY <2>1, LeastNatural
<1>4. /\ n \in 0 .. WordBytes /\ s < Power[n]
      /\ \A k \in 0 .. (n - 1) : s >= Power[k]
  <2>1. ASSUME NEW k \in 0 .. (n - 1) PROVE s >= Power[k]
    <3>1. k \in 0 .. WordBytes /\ ~(n <= k)
      BY <1>3, WordAssumption
    <3>2. ~(s < Power[k])
      BY <1>3, <3>1
    <3>3. Power[k] \in Nat
      BY <3>1, PowerOf
    <3> QED BY <1>1, <3>2, <3>3
  <2> QED BY <1>3, <2>1
<1> DEFINE Fits(i) == s < Power[i] /\ \A k \in 0 .. (i - 1) : s >= Power[k]
<1>5. SequenceBytesRequired(s) = CHOOSE i \in 0 .. WordBytes : Fits(i)
  BY DEF SequenceBytesRequired
<1>6. Fits(n)
  BY <1>4
<1>7. SequenceBytesRequired(s) \in 0 .. WordBytes /\ Fits(SequenceBytesRequired(s))
  <2> HIDE DEF Fits
  <2> QED BY <1>4, <1>5, <1>6
<1> QED BY <1>1, <1>7

(* The value of the first n of the bytes, for every n. *)
ValuesOf(bytes, v) ==
    v = [n \in 0 .. Len(bytes) |-> IF n = 0 THEN 0 ELSE v[n - 1] + bytes[n] * Power[n - 1]]

(***************************************************************************)
(* read_sequence gives back what write_sequence wrote, for every sequence  *)
(* of a word, although the zeros at its end are not written: the first n   *)
(* bytes have the value of the sequence modulo the n-th power of a byte.   *)
(***************************************************************************)
LEMMA SequenceReadsBack ==
    ASSUME NEW s \in Sequences
    PROVE  ReadSequence(WriteSequence(s)) = s
<1> DEFINE L == SequenceBytesRequired(s)
           bytes == WriteSequence(s)
           W == [n \in 0 .. L |-> s % Power[n]]
           V == CHOOSE v : ValuesOf(bytes, v)
<1>1. L \in 0 .. WordBytes /\ L \in Nat /\ s \in Nat /\ s < Power[L]
  BY BytesSuffice, WordAssumption
<1>2. bytes = [i \in 1 .. L |-> (s \div Power[i - 1]) % Byte]
  BY DEF WriteSequence
<1> HIDE DEF L
<1>3. Len(bytes) = L
  BY <1>1, <1>2
<1>4. \A i \in 1 .. L : bytes[i] = (s \div Power[i - 1]) % Byte
  BY <1>2
<1> HIDE DEF bytes
<1>5. ASSUME NEW n \in 0 .. L
      PROVE  s % Power[n] = IF n = 0 THEN 0 ELSE (s % Power[n - 1]) + bytes[n] * Power[n - 1]
  <2>1. CASE n = 0
    <3>1. s % 1 = 0
      BY <1>1
    <3> QED BY <2>1, <3>1, PowerOf
  <2>2. CASE n # 0
    <3>1. n \in 1 .. L /\ n \in 1 .. WordBytes /\ n - 1 \in 0 .. WordBytes
      BY <1>1, <2>2, WordAssumption
    <3>2. Power[n] = Byte * Power[n - 1] /\ Power[n - 1] \in Nat \ {0}
      BY <3>1, PowerOf
    <3>3. s % (Byte * Power[n - 1]) = (s % Power[n - 1]) + ((s \div Power[n - 1]) % Byte) * Power[n - 1]
      BY <1>1, <3>2, NextDigit, WordAssumption
    <3> QED BY <1>4, <2>2, <3>1, <3>2, <3>3
  <2> QED BY <2>1, <2>2
<1>6. ValuesOf(bytes, W)
  <2>1. ASSUME NEW n \in 0 .. L
        PROVE  W[n] = IF n = 0 THEN 0 ELSE W[n - 1] + bytes[n] * Power[n - 1]
    <3>1. n # 0 => n - 1 \in 0 .. L
      BY <1>1
    <3> QED BY <1>5, <3>1
  <2> DEFINE h == [n \in 0 .. L |-> IF n = 0 THEN 0 ELSE W[n - 1] + bytes[n] * Power[n - 1]]
  <2>2. \A n \in 0 .. L : W[n] = h[n]
    <3> HIDE DEF W
    <3> QED BY <2>1
  <2>3. W = h
    BY <2>2
  <2> QED BY <1>3, <2>3 DEF ValuesOf
<1>7. ValuesOf(bytes, V)
  BY <1>6
<1>8. ReadSequence(bytes) = V[L]
  BY <1>3 DEF ReadSequence, ValuesOf
<1> HIDE DEF V
<1>9. \A n \in 0 .. L : V[n] = s % Power[n]
  <2> DEFINE T == {n \in Nat : n \in 0 .. L => V[n] = s % Power[n]}
  <2>1. \A n \in 0 .. L : V[n] = IF n = 0 THEN 0 ELSE V[n - 1] + bytes[n] * Power[n - 1]
    BY <1>3, <1>7 DEF ValuesOf
  <2>2. 0 \in T
    BY <1>1, <1>5, <2>1
  <2>3. ASSUME NEW n \in Nat, n \in T PROVE n + 1 \in T
    <3>1. SUFFICES ASSUME n + 1 \in 0 .. L PROVE V[n + 1] = s % Power[n + 1]
      OBVIOUS
    <3>2. n \in 0 .. L /\ n + 1 # 0 /\ (n + 1) - 1 = n
      BY <1>1, <3>1
    <3>3. V[n] = s % Power[n]
      BY <2>3, <3>2
    <3>4. V[n + 1] = V[n] + bytes[n + 1] * Power[n]
      BY <2>1, <3>1, <3>2
    <3>5. s % Power[n + 1] = (s % Power[n]) + bytes[n + 1] * Power[n]
      BY <1>5, <3>1, <3>2
    <3> QED BY <3>3, <3>4, <3>5
  <2>4. Nat \subseteq T
    <3> HIDE DEF T
    <3> QED BY <2>2, <2>3, SetInduction
  <2> QED BY <1>1, <2>4
<1>10. s % Power[L] = s
  <2>1. Power[L] \in Nat \ {0}
    BY <1>1, PowerOf
  <2> DEFINE p == Power[L]
  <2>2. p \in Nat \ {0} /\ s \in 0 .. (p - 1) /\ s = (p * 0) + s
    BY <1>1, <2>1
  <2> HIDE DEF p
  <2>3. s % p = s
    BY <1>1, <2>2, DivisionUnique
  <2> QED BY <2>3 DEF p
<1> QED BY <1>1, <1>8, <1>9, <1>10 DEF bytes
-----------------------------------------------------------------------------
(* The fields after the first ones, and the first ones themselves. *)
LEMMA FieldsApart ==
    ASSUME NEW S, NEW a \in Seq(S), NEW b \in Seq(S)
    PROVE  /\ SubSeq(a \o b, Len(a) + 1, Len(a \o b)) = b
           /\ \A i \in 1 .. Len(a) : (a \o b)[i] = a[i]
<1>1. /\ a \o b \in Seq(S) /\ Len(a \o b) = Len(a) + Len(b)
      /\ Len(a) \in Nat /\ Len(b) \in Nat
  OBVIOUS
<1>2. \A i \in 1 .. Len(a) : (a \o b)[i] = a[i]
  OBVIOUS
<1> DEFINE c == SubSeq(a \o b, Len(a) + 1, Len(a \o b))
<1>3. c \in Seq(S) /\ Len(c) = Len(b)
  BY <1>1
<1>4. ASSUME NEW i \in 1 .. Len(b) PROVE c[i] = b[i]
  <2>1. c[i] = (a \o b)[Len(a) + i]
    BY <1>1
  <2>2. (a \o b)[Len(a) + i] = b[i]
    BY <1>1
  <2> QED BY <2>1, <2>2
<1>5. c = b
  <2> HIDE DEF c
  <2> QED BY <1>3, <1>4
<1> QED BY <1>2, <1>5

(* The places of a token: the addresses it was generated for, then none. *)
PlacesFor(addresses) ==
    [i \in 1 .. Slots |-> IF i <= Len(addresses) THEN addresses[i] ELSE NoAddress]

(* What is written of the places are the addresses. *)
LEMMA PresentAreAddresses ==
    ASSUME NEW addresses \in Addresses, Len(addresses) \in 1 .. Slots
    PROVE  /\ Present(PlacesFor(addresses)) = addresses
           /\ \E S : addresses \in Seq(S)
<1> DEFINE n == Len(addresses)
           S == {addresses[i] : i \in DOMAIN addresses} \ {NoAddress}
           sa == PlacesFor(addresses)
           places == {i \in DOMAIN sa : sa[i] # NoAddress}
<1>1. addresses \in Seq(S)
  BY AddressesAssumption
<1>2. n \in Nat /\ n <= Slots /\ DOMAIN addresses = 1 .. n
  BY <1>1, SlotsAssumption
<1>3. \A i \in 1 .. n : addresses[i] # NoAddress
  <2>1. \A i \in 1 .. n : addresses[i] \in S
    <3> HIDE DEF S
    <3> QED BY <1>1
  <2> QED BY <2>1
<1>4. DOMAIN sa = 1 .. Slots
      /\ \A i \in 1 .. Slots : sa[i] = IF i <= n THEN addresses[i] ELSE NoAddress
  BY DEF PlacesFor
<1> HIDE DEF sa, n
<1>5. places = 1 .. n
  BY <1>2, <1>3, <1>4, SlotsAssumption
<1>6. \A k \in 0 .. n : Cardinality(1 .. k) = k
  BY <1>2, FS_Interval
<1>7. \A i \in 1 .. n : {j \in places : j <= i} = 1 .. i
  BY <1>2, <1>5
<1> DEFINE At(k) == CHOOSE i \in places : Cardinality({j \in places : j <= i}) = k
<1>8. ASSUME NEW k \in 1 .. n PROVE At(k) = k
  <2> HIDE DEF places
  <2>1. ASSUME NEW i \in places PROVE Cardinality({j \in places : j <= i}) = i
    <3>1. i \in 1 .. n /\ i \in 0 .. n
      BY <1>2, <1>5
    <3>2. {j \in places : j <= i} = 1 .. i
      BY <1>7, <3>1
    <3> QED BY <1>6, <3>1, <3>2
  <2>2. k \in places
    BY <1>5
  <2> QED BY <2>1, <2>2
<1>9. Present(sa) = [k \in 1 .. Cardinality(places) |-> sa[At(k)]]
  BY DEF Present
<1>10. Cardinality(places) = n
  <2>1. n \in 0 .. n
    BY <1>2
  <2> HIDE DEF places
  <2> QED BY <1>5, <1>6, <2>1
<1> HIDE DEF places, At
<1>11. Present(sa) = [k \in 1 .. n |-> addresses[k]]
  BY <1>2, <1>4, <1>8, <1>9, <1>10, SlotsAssumption
<1>12. addresses = [k \in 1 .. n |-> addresses[k]]
  BY <1>1, <1>2
<1> QED BY <1>1, <1>11, <1>12 DEF sa

(* Addresses written after other fields read back as they were. *)
LEMMA AddressesReadBack ==
    ASSUME NEW addresses \in Addresses, Len(addresses) \in 1 .. Slots, NEW S, NEW a \in Seq(S)
    PROVE  LET f == a \o WriteServerAddresses(PlacesFor(addresses))
           IN  /\ ReadServerAddresses(SubSeq(f, Len(a) + 1, Len(f))) = PlacesFor(addresses)
               /\ \A i \in 1 .. Len(a) : f[i] = a[i]
<1> DEFINE n == Len(addresses)
           b == WriteServerAddresses(PlacesFor(addresses))
<1>1. PICK R : addresses \in Seq(R)
  BY PresentAreAddresses
<1>2. n \in Nat /\ DOMAIN addresses = 1 .. n /\ n <= Slots
  BY <1>1, SlotsAssumption
<1>3. b = <<n>> \o addresses
  BY PresentAreAddresses DEF WriteServerAddresses
<1> DEFINE U == (S \union R) \union {n}
<1>4. a \in Seq(U) /\ addresses \in Seq(U) /\ <<n>> \in Seq(U)
  BY <1>1
<1> HIDE DEF U
<1>5. b \in Seq(U)
  BY <1>3, <1>4
<1>6. b[1] = n /\ \A i \in 1 .. n : b[i + 1] = addresses[i]
  BY <1>1, <1>2, <1>3
<1> HIDE DEF b
<1>7. ReadServerAddresses(b) = PlacesFor(addresses)
  <2>1. ASSUME NEW i \in 1 .. Slots
        PROVE  (IF i <= b[1] THEN b[i + 1] ELSE NoAddress)
                 = IF i <= Len(addresses) THEN addresses[i] ELSE NoAddress
    BY <1>2, <1>6, SlotsAssumption
  <2> QED BY <2>1 DEF ReadServerAddresses, PlacesFor
<1>8. /\ SubSeq(a \o b, Len(a) + 1, Len(a \o b)) = b
      /\ \A i \in 1 .. Len(a) : (a \o b)[i] = a[i]
  BY <1>4, <1>5, FieldsApart
<1> QED BY <1>7, <1>8 DEF b

(* A record with an identity is not the error. *)
LEMMA PrivateIsNoError ==
    ASSUME NEW id, NEW timeout, NEW socket, NEW servers
    PROVE  [client_id |-> id, timeout_seconds |-> timeout, socket_id |-> socket,
            server_addresses |-> servers] # Error
<1> DEFINE r == [client_id |-> id, timeout_seconds |-> timeout, socket_id |-> socket,
                 server_addresses |-> servers]
<1>1. "client_id" \in DOMAIN r
  OBVIOUS
<1>2. "client_id" \notin DOMAIN Error
  BY DEF Error
<1> QED BY <1>1, <1>2

(* PrivateConnectToken::read gives back what write wrote. *)
LEMMA PrivateReadsBack ==
    ASSUME NEW addresses \in Addresses, Len(addresses) \in 1 .. Slots,
           NEW id, NEW timeout, NEW socket
    PROVE  LET t == GeneratePrivate(id, timeout, socket, addresses)
           IN  t # Error /\ ReadPrivate(WritePrivate(t)) = t
                 /\ t.server_addresses = PlacesFor(addresses)
<1> DEFINE t == GeneratePrivate(id, timeout, socket, addresses)
           a == <<id, timeout, socket>>
           f == a \o WriteServerAddresses(PlacesFor(addresses))
<1>1. t = [client_id |-> id, timeout_seconds |-> timeout, socket_id |-> socket,
           server_addresses |-> PlacesFor(addresses)]
  BY DEF GeneratePrivate, PlacesFor
<1>2. t # Error
  BY <1>1, PrivateIsNoError
<1>3. a \in Seq({id, timeout, socket}) /\ Len(a) = 3
      /\ a[1] = id /\ a[2] = timeout /\ a[3] = socket
  OBVIOUS
<1>4. WritePrivate(t) = f
  BY <1>1 DEF WritePrivate
<1> HIDE DEF a
<1>5. /\ ReadServerAddresses(SubSeq(f, Len(a) + 1, Len(f))) = PlacesFor(addresses)
      /\ \A i \in 1 .. Len(a) : f[i] = a[i]
  BY <1>3, AddressesReadBack
<1> HIDE DEF f, t
<1>6. /\ f[1] = id /\ f[2] = timeout /\ f[3] = socket
      /\ ReadServerAddresses(SubSeq(f, 4, Len(f))) = PlacesFor(addresses)
  BY <1>3, <1>5
<1>7. ReadPrivate(f) = t
  BY <1>1, <1>6 DEF ReadPrivate
<1> QED BY <1>1, <1>2, <1>4, <1>7 DEF t

(* ConnectToken::generate makes a token with the boxed private part.  *)
LEMMA TokenGenerated ==
    ASSUME NEW addresses \in Addresses,
           GenerateToken(1, 30, 7, 15, 0, addresses, 5) # Error
    PROVE  LET token == GenerateToken(1, 30, 7, 15, 0, addresses, 5)
               private == GeneratePrivate(7, 15, 0, addresses)
           IN  /\ Len(addresses) \in 1 .. Slots
               /\ token = [client_id |-> 7, protocol_id |-> Protocol, create_timestamp |-> 1,
                           expire_timestamp |-> 31, xnonce |-> 5, socket_id |-> 0,
                           server_addresses |-> PlacesFor(addresses), timeout_seconds |-> 15,
                           private_data |-> EncodePrivate(private, Protocol, 31, 5, ConnectKey)]
<1> DEFINE private == GeneratePrivate(7, 15, 0, addresses)
<1>1. private # Error
  BY DEF GenerateToken
<1>2. Len(addresses) \in 1 .. Slots
  BY <1>1 DEF GeneratePrivate
<1>3. private.server_addresses = PlacesFor(addresses)
  BY <1>2, PrivateReadsBack
<1>4. 1 + 30 = 31
  OBVIOUS
<1> QED BY <1>1, <1>2, <1>3, <1>4 DEF GenerateToken

(* A token gets to its client as it was generated. *)
LEMMA TokenReadsBack ==
    ASSUME NEW addresses \in Addresses,
           GenerateToken(1, 30, 7, 15, 0, addresses, 5) # Error
    PROVE  LET token == GenerateToken(1, 30, 7, 15, 0, addresses, 5)
           IN  ReadToken(WriteToken(token)) = token
<1> DEFINE t == GenerateToken(1, 30, 7, 15, 0, addresses, 5)
           box == t.private_data
           a == <<7, Protocol, 1, 31, 5, box, 15, 0>>
           f == a \o WriteServerAddresses(PlacesFor(addresses))
<1>1. /\ Len(addresses) \in 1 .. Slots
      /\ t = [client_id |-> 7, protocol_id |-> Protocol, create_timestamp |-> 1,
              expire_timestamp |-> 31, xnonce |-> 5, socket_id |-> 0,
              server_addresses |-> PlacesFor(addresses), timeout_seconds |-> 15,
              private_data |-> box]
  <2>1. /\ Len(addresses) \in 1 .. Slots
        /\ t = [client_id |-> 7, protocol_id |-> Protocol, create_timestamp |-> 1,
                expire_timestamp |-> 31, xnonce |-> 5, socket_id |-> 0,
                server_addresses |-> PlacesFor(addresses), timeout_seconds |-> 15,
                private_data |-> EncodePrivate(GeneratePrivate(7, 15, 0, addresses),
                                               Protocol, 31, 5, ConnectKey)]
    BY TokenGenerated
  <2> HIDE DEF t
  <2> QED BY <2>1
<1> HIDE DEF t, box
<1>3. a \in Seq({7, Protocol, 1, 31, 5, box, 15, 0}) /\ Len(a) = 8
      /\ a[1] = 7 /\ a[2] = Protocol /\ a[3] = 1 /\ a[4] = 31 /\ a[5] = 5
      /\ a[6] = box /\ a[7] = 15 /\ a[8] = 0
  OBVIOUS
<1>4. WriteToken(t) = f
  BY <1>1 DEF WriteToken
<1> HIDE DEF a
<1>5. /\ ReadServerAddresses(SubSeq(f, Len(a) + 1, Len(f))) = PlacesFor(addresses)
      /\ \A i \in 1 .. Len(a) : f[i] = a[i]
  BY <1>1, <1>3, AddressesReadBack
<1> HIDE DEF f
<1>6. /\ f[1] = 7 /\ f[2] = Protocol /\ f[3] = 1 /\ f[4] = 31 /\ f[5] = 5
      /\ f[6] = box /\ f[7] = 15 /\ f[8] = 0
      /\ ReadServerAddresses(SubSeq(f, 9, Len(f))) = PlacesFor(addresses)
  BY <1>3, <1>5
<1>7. ReadToken(f) = t
  BY <1>1, <1>6 DEF ReadToken
<1> QED BY <1>4, <1>7 DEF t
-----------------------------------------------------------------------------
(* The box of a packet that was encoded, whoever encoded it. *)
BoxOf(x) ==
    Seal(Write(x.packet), Key, x.seq, AdditionalData(EncodePrefix(x.packet.type, x.seq)))

(* Every packet was encoded with a sequence of the sender, the client has  *)
(* at most the tokens that were generated, and nothing was damaged where   *)
(* boxes are of clear text.                                                *)
SentOK == \A x \in sent : x = [seq |-> x.seq, packet |-> x.packet]
                            /\ x.seq \in Sequences /\ x.packet \in Packets

IssuedOK ==
    \A i \in issued : \E addresses \in Addresses :
        LET token == GenerateToken(1, 30, 7, 15, 0, addresses, 5)
        IN  token # Error
              /\ i = [token |-> token, private |-> GeneratePrivate(7, 15, 0, addresses)]

(* A request on the way: four fields, the last of which is the box of a    *)
(* token that was issued, or no box that the server can open.              *)
RequestOK(d) ==
    /\ d.prefix.type = Types.ConnectionRequest
    /\ d = [prefix |-> d.prefix, bytes |-> d.bytes, box |-> d.box]
    /\ d.box = <<d.box[1], d.box[2], d.box[3], d.box[4]>>
    /\ d.box[4] = Seal(d.box[4].fields, d.box[4].key, d.box[4].nonce, d.box[4].aad)
    /\ d.box[4].key = ConnectKey => \E i \in issued : d.box[4].fields = WritePrivate(i.private)

(* Any other datagram: the box is that of a packet that was sent, or none  *)
(* that opens; in clear text the whole datagram is as it was sent.         *)
PacketOK(d) ==
    /\ d.prefix.type # Types.ConnectionRequest
    /\ d = [prefix |-> d.prefix, bytes |-> d.bytes, box |-> d.box]
    /\ d.prefix = [type |-> d.prefix.type, len |-> d.prefix.len]
    /\ d.box = Seal(d.box.fields, d.box.key, d.box.nonce, d.box.aad)
    /\ encrypted /\ d.box.key = Key => \E x \in sent : d.box = BoxOf(x)
    /\ ~encrypted => \E x \in sent : d = Encode(x.packet, x.seq)

WireInv ==
    /\ encrypted \in BOOLEAN
    /\ SentOK
    /\ IssuedOK
    /\ \A d \in net : RequestOK(d) \/ PacketOK(d)
    /\ delivered \subseteq sent
    /\ opened \subseteq {i.private : i \in issued} \union {[client_id |-> 7]}

(* The fields of a packet read back with its type are the packet. *)
LEMMA PacketReadsBack ==
    ASSUME NEW p \in Packets
    PROVE  /\ Read(p.type, Write(p)) = p
           /\ p.type \in 1 .. 6
           /\ Write(p) \in Seq({Write(p)[i] : i \in DOMAIN Write(p)})
           /\ TokensOf(p) \subseteq {[client_id |-> 7]}
<1>1. \/ p = [type |-> 1] \/ p = [type |-> 6] \/ p = [type |-> 5, payload |-> 1]
      \/ p = [type |-> 4, client_index |-> 0, max_clients |-> 1]
      \/ p = GenerateChallenge(7, 3)
      \/ p = [GenerateChallenge(7, 3) EXCEPT !.type = 3]
  BY DEF Packets, Types
<1> DEFINE box == Seal(<<7>>, ChallengeKey, 3, <<>>)
<1>2. GenerateChallenge(7, 3) = [type |-> 2, token_sequence |-> 3, token_data |-> box]
  BY DEF GenerateChallenge, Types
<1>3. [GenerateChallenge(7, 3) EXCEPT !.type = 3]
        = [type |-> 3, token_sequence |-> 3, token_data |-> box]
  BY <1>2
<1>4. ChallengeDecode(box, 3) = [client_id |-> 7]
  BY DEF ChallengeDecode, Opens, Seal
<1> HIDE DEF box
<1>5. CASE p = [type |-> 1]
  BY <1>5 DEF Read, Write, TokensOf, Types
<1>6. CASE p = [type |-> 6]
  BY <1>6 DEF Read, Write, TokensOf, Types
<1>7. CASE p = [type |-> 5, payload |-> 1]
  BY <1>7 DEF Read, Write, TokensOf, Types
<1>8. CASE p = [type |-> 4, client_index |-> 0, max_clients |-> 1]
  BY <1>8 DEF Read, Write, TokensOf, Types
<1>9. CASE p = [type |-> 2, token_sequence |-> 3, token_data |-> box]
  BY <1>9 DEF Read, Write, TokensOf, Types
<1>10. CASE p = [type |-> 3, token_sequence |-> 3, token_data |-> box]
  BY <1>4, <1>10 DEF Read, Write, TokensOf, Types
<1> QED BY <1>1, <1>2, <1>3, <1>5, <1>6, <1>7, <1>8, <1>9, <1>10

(* What encode makes of a packet that is no request. *)
LEMMA EncodeMakes ==
    ASSUME NEW p \in Packets, NEW s
    PROVE  Encode(p, s) =
             [prefix |-> EncodePrefix(p.type, s), bytes |-> WriteSequence(s),
              box |-> IF encrypted
                      THEN Seal(Write(p), Key, s, AdditionalData(EncodePrefix(p.type, s)))
                      ELSE Tag(Write(p), Protocol)]
<1>1. p.type \in 1 .. 6
  BY PacketReadsBack
<1>2. p.type # Types.ConnectionRequest
  BY <1>1 DEF Types
<1> QED BY <1>2 DEF Encode

(* An encoded packet decodes to what it was. *)
LEMMA EncodedIsRead ==
    ASSUME NEW p \in Packets, NEW s \in Sequences, encrypted \in BOOLEAN
    PROVE  LET d == Encode(p, s)
           IN  /\ Authentic(d)
               /\ ReadSequence(d.bytes) = s
               /\ Read(d.prefix.type, d.box.fields) = p
<1> DEFINE d == Encode(p, s)
<1>1. /\ d.prefix = EncodePrefix(p.type, s) /\ d.bytes = WriteSequence(s)
      /\ d.box = IF encrypted
                 THEN Seal(Write(p), Key, s, AdditionalData(EncodePrefix(p.type, s)))
                 ELSE Tag(Write(p), Protocol)
  BY EncodeMakes
<1> HIDE DEF d
<1>2. ReadSequence(d.bytes) = s
  BY <1>1, SequenceReadsBack
<1>3. d.prefix.type = p.type
  BY <1>1 DEF EncodePrefix
<1>4. d.box.fields = Write(p)
  BY <1>1 DEF Seal, Tag
<1>5. Authentic(d)
  BY <1>1, <1>2 DEF Authentic, Opens, Seal, Tag, DecodeAndCheck
<1>6. Read(d.prefix.type, d.box.fields) = p
  BY <1>3, <1>4, PacketReadsBack
<1> QED BY <1>2, <1>5, <1>6 DEF d

(***************************************************************************)
(* Whatever happened to it on the way, a datagram that is authentic is     *)
(* read as a packet that was sent, with the sequence it was sent with.     *)
(***************************************************************************)
LEMMA AuthenticWasSent ==
    ASSUME encrypted \in BOOLEAN, SentOK, NEW d, PacketOK(d), Authentic(d)
    PROVE  \E x \in sent : /\ x = [seq |-> x.seq, packet |-> x.packet]
                           /\ x.seq \in Sequences /\ x.packet \in Packets
                           /\ ReadSequence(d.bytes) = x.seq
                           /\ Read(d.prefix.type, d.box.fields) = x.packet
<1>1. CASE encrypted
  <2>1. /\ d.box.key = Key /\ d.box.nonce = ReadSequence(d.bytes)
        /\ d.box.aad = AdditionalData(d.prefix)
    BY <1>1 DEF Authentic, Opens
  <2>2. PICK x \in sent : d.box = BoxOf(x)
    BY <1>1, <2>1 DEF PacketOK
  <2>3. /\ x = [seq |-> x.seq, packet |-> x.packet]
        /\ x.seq \in Sequences /\ x.packet \in Packets
    BY DEF SentOK
  <2>4. /\ d.box.fields = Write(x.packet) /\ d.box.nonce = x.seq
        /\ d.box.aad = AdditionalData(EncodePrefix(x.packet.type, x.seq))
    BY <2>2 DEF BoxOf, Seal
  <2>5. d.prefix = EncodePrefix(x.packet.type, x.seq)
    BY <2>1, <2>4 DEF AdditionalData
  <2>6. d.prefix.type = x.packet.type
    BY <2>5 DEF EncodePrefix
  <2>7. Read(d.prefix.type, d.box.fields) = x.packet
    BY <2>3, <2>4, <2>6, PacketReadsBack
  <2> QED BY <2>1, <2>3, <2>4, <2>7
<1>2. CASE ~encrypted
  <2>1. PICK x \in sent : d = Encode(x.packet, x.seq)
    BY <1>2 DEF PacketOK
  <2>2. /\ x = [seq |-> x.seq, packet |-> x.packet]
        /\ x.seq \in Sequences /\ x.packet \in Packets
    BY DEF SentOK
  <2> QED BY <2>1, <2>2, EncodedIsRead
<1> QED BY <1>1, <1>2

(* A private token opened from a request is one that was issued. *)
LEMMA OpenedWasIssued ==
    ASSUME IssuedOK, NEW d, RequestOK(d), NEW protocol, NEW expire, NEW xnonce,
           DecodePrivate(d.box[4], protocol, expire, xnonce, ConnectKey) # Error
    PROVE  DecodePrivate(d.box[4], protocol, expire, xnonce, ConnectKey)
             \in {i.private : i \in issued}
<1>1. /\ d.box[4].key = ConnectKey
      /\ DecodePrivate(d.box[4], protocol, expire, xnonce, ConnectKey)
           = ReadPrivate(d.box[4].fields)
  BY DEF DecodePrivate, Opens
<1>2. PICK i \in issued : d.box[4].fields = WritePrivate(i.private)
  BY <1>1 DEF RequestOK
<1>3. PICK addresses \in Addresses :
        /\ GenerateToken(1, 30, 7, 15, 0, addresses, 5) # Error
        /\ i.private = GeneratePrivate(7, 15, 0, addresses)
  BY DEF IssuedOK
<1>4. Len(addresses) \in 1 .. Slots
  BY <1>3, TokenGenerated
<1>5. ReadPrivate(WritePrivate(i.private)) = i.private
  BY <1>3, <1>4, PrivateReadsBack
<1> QED BY <1>1, <1>2, <1>5
-----------------------------------------------------------------------------
(* What was sent and issued stays so. *)
LEMMA DatagramStays ==
    ASSUME NEW d, RequestOK(d) \/ PacketOK(d),
           sent \subseteq sent', issued \subseteq issued', encrypted' = encrypted
    PROVE  (RequestOK(d) \/ PacketOK(d))'
<1>1. ASSUME RequestOK(d) PROVE RequestOK(d)'
  BY <1>1 DEF RequestOK
<1>2. ASSUME PacketOK(d) PROVE PacketOK(d)'
  BY <1>2 DEF PacketOK, Encode
<1> QED BY <1>1, <1>2

LEMMA WireInitInv == WireInit => WireInv
BY DEF WireInit, WireInv, SentOK, IssuedOK

LEMMA SendPacketInv ==
    ASSUME WireInv, NEW p \in Packets, NEW s \in Sequences, SendPacket(p, s)
    PROVE  WireInv'
<1> DEFINE x == [seq |-> s, packet |-> p]
<1>0. PICK d : d = Encode(p, s)
  OBVIOUS
<1>1. /\ sent' = sent \union {x} /\ net' = net \union {d}
      /\ UNCHANGED <<encrypted, issued, delivered, opened>>
  BY <1>0 DEF SendPacket
<1>2. SentOK'
  BY <1>1 DEF WireInv, SentOK
<1>3. IssuedOK'
  BY <1>1 DEF WireInv, IssuedOK
<1>4. PacketOK(d)'
  <2>1. d = [prefix |-> EncodePrefix(p.type, s), bytes |-> WriteSequence(s),
             box |-> IF encrypted THEN BoxOf(x) ELSE Tag(Write(p), Protocol)]
    BY <1>0, EncodeMakes DEF BoxOf
  <2>2. d = Encode(p, s)'
    BY <1>0, <1>1 DEF Encode
  <2>3. p.type # Types.ConnectionRequest
    <3>1. p.type \in 1 .. 6
      BY PacketReadsBack
    <3> QED BY <3>1 DEF Types
  <2>4. x \in sent' /\ x.packet = p /\ x.seq = s
    BY <1>1
  <2>5. d.prefix = [type |-> p.type, len |-> SequenceBytesRequired(s)]
    BY <2>1 DEF EncodePrefix
  <2>6. d.box = Seal(d.box.fields, d.box.key, d.box.nonce, d.box.aad)
    BY <2>1 DEF BoxOf, Seal, Tag
  <2>7. encrypted => d.box = BoxOf(x)
    BY <2>1
  <2>8. d = [prefix |-> d.prefix, bytes |-> d.bytes, box |-> d.box]
    BY <2>1
  <2> HIDE DEF x
  <2>9. d.prefix.type = p.type /\ d.prefix = [type |-> d.prefix.type, len |-> d.prefix.len]
    BY <2>5
  <2> QED BY <1>1, <2>2, <2>3, <2>4, <2>6, <2>7, <2>8, <2>9 DEF PacketOK
<1> HIDE DEF x
<1>5. \A e \in net' : (RequestOK(e) \/ PacketOK(e))'
  <2>1. ASSUME NEW e \in net PROVE (RequestOK(e) \/ PacketOK(e))'
    <3>1. sent \subseteq sent' /\ issued \subseteq issued' /\ encrypted' = encrypted
      BY <1>1
    <3>2. RequestOK(e) \/ PacketOK(e)
      BY DEF WireInv
    <3> QED BY <3>1, <3>2, DatagramStays
  <2> QED BY <1>1, <1>4, <2>1
<1> QED BY <1>1, <1>2, <1>3, <1>5 DEF WireInv

LEMMA SendRequestInv ==
    ASSUME WireInv, NEW addresses \in Addresses, SendRequest(addresses)
    PROVE  WireInv'
<1> DEFINE token == GenerateToken(1, 30, 7, 15, 0, addresses, 5)
           private == GeneratePrivate(7, 15, 0, addresses)
           i == [token |-> token, private |-> private]
<1>0. PICK d : d = Encode(RequestFromToken(ReadToken(WriteToken(token))), 0)
  OBVIOUS
<1>1. /\ issued = {} /\ token # Error
      /\ issued' = {i} /\ net' = net \union {d}
      /\ UNCHANGED <<encrypted, sent, delivered, opened>>
  BY <1>0 DEF SendRequest
<1>2. SentOK'
  BY <1>1 DEF WireInv, SentOK
<1>3. IssuedOK'
  BY <1>1 DEF WireInv, IssuedOK
<1>4. RequestOK(d)'
  <2>1. token = [client_id |-> 7, protocol_id |-> Protocol, create_timestamp |-> 1,
                 expire_timestamp |-> 31, xnonce |-> 5, socket_id |-> 0,
                 server_addresses |-> PlacesFor(addresses), timeout_seconds |-> 15,
                 private_data |-> EncodePrivate(private, Protocol, 31, 5, ConnectKey)]
    BY <1>1, TokenGenerated
  <2>2. ReadToken(WriteToken(token)) = token
    BY <1>1, TokenReadsBack
  <2> DEFINE box == EncodePrivate(private, Protocol, 31, 5, ConnectKey)
             r == RequestFromToken(token)
  <2>3. r = [type |-> 0, protocol_id |-> Protocol, expire_timestamp |-> 31, xnonce |-> 5,
             data |-> box]
    BY <2>1 DEF RequestFromToken, Types
  <2>4. Write(r) = <<Protocol, 31, 5, box>>
    BY <2>3 DEF Write, Types
  <2>5. d = [prefix |-> [type |-> 0, len |-> 0], bytes |-> <<>>, box |-> <<Protocol, 31, 5, box>>]
    BY <1>0, <2>2, <2>3, <2>4 DEF Encode, Types
  <2>6. box = Seal(WritePrivate(private), ConnectKey, 5, TokenData(Protocol, 31))
    BY DEF EncodePrivate
  <2>7. i \in issued' /\ i.private = private
    BY <1>1
  <2> HIDE DEF box, i
  <2>8. /\ d.prefix.type = Types.ConnectionRequest /\ d.box[4] = box
        /\ d = [prefix |-> d.prefix, bytes |-> d.bytes, box |-> d.box]
        /\ d.box = <<d.box[1], d.box[2], d.box[3], d.box[4]>>
    BY <2>5 DEF Types
  <2>9. box = Seal(box.fields, box.key, box.nonce, box.aad) /\ box.fields = WritePrivate(private)
    BY <2>6 DEF Seal
  <2> QED BY <2>7, <2>8, <2>9 DEF RequestOK
<1> HIDE DEF i
<1>5. \A e \in net' : (RequestOK(e) \/ PacketOK(e))'
  <2>1. ASSUME NEW e \in net PROVE (RequestOK(e) \/ PacketOK(e))'
    <3>1. sent \subseteq sent' /\ issued \subseteq issued' /\ encrypted' = encrypted
      BY <1>1
    <3>2. RequestOK(e) \/ PacketOK(e)
      BY DEF WireInv
    <3> QED BY <3>1, <3>2, DatagramStays
  <2> QED BY <1>1, <1>4, <2>1
<1> QED BY <1>1, <1>2, <1>3, <1>5 DEF WireInv

(* Damage to a packet leaves no box that opens but those that were sent. *)
LEMMA DamagedIsHarmless ==
    ASSUME NEW d, PacketOK(d), encrypted, NEW e \in Damaged(d)
    PROVE  PacketOK(e)
<1>1. /\ d.prefix.type # Types.ConnectionRequest
      /\ d = [prefix |-> d.prefix, bytes |-> d.bytes, box |-> d.box]
      /\ d.prefix = [type |-> d.prefix.type, len |-> d.prefix.len]
      /\ d.box = Seal(d.box.fields, d.box.key, d.box.nonce, d.box.aad)
      /\ d.box.key = Key => \E x \in sent : d.box = BoxOf(x)
  BY DEF PacketOK
<1>2. ASSUME NEW t \in 1 .. 7, e = [d EXCEPT !.prefix.type = t] PROVE PacketOK(e)
  <2>1. /\ e = [prefix |-> e.prefix, bytes |-> e.bytes, box |-> e.box]
        /\ e.prefix = [type |-> t, len |-> d.prefix.len] /\ e.box = d.box
    BY <1>1, <1>2
  <2>2. e.prefix = [type |-> e.prefix.type, len |-> e.prefix.len] /\ e.prefix.type = t
    BY <2>1
  <2>3. e.prefix.type # Types.ConnectionRequest
    BY <2>2 DEF Types
  <2> QED BY <1>1, <2>1, <2>2, <2>3 DEF PacketOK
<1>3. ASSUME NEW f, e = [d EXCEPT !.bytes = f] PROVE PacketOK(e)
  <2>1. /\ e = [prefix |-> e.prefix, bytes |-> e.bytes, box |-> e.box]
        /\ e.prefix = d.prefix /\ e.box = d.box
    BY <1>1, <1>3
  <2> QED BY <1>1, <2>1 DEF PacketOK
<1>4. ASSUME e = [d EXCEPT !.box.fields = << 0 >>, !.box.key = 0] PROVE PacketOK(e)
  <2>1. /\ e = [prefix |-> e.prefix, bytes |-> e.bytes, box |-> e.box]
        /\ e.prefix = d.prefix
        /\ e.box = [[d.box EXCEPT !.fields = << 0 >>] EXCEPT !.key = 0]
    BY <1>1, <1>4
  <2>2. e.box = Seal(<< 0 >>, 0, d.box.nonce, d.box.aad)
    BY <1>1, <2>1 DEF Seal
  <2>3. e.box = Seal(e.box.fields, e.box.key, e.box.nonce, e.box.aad) /\ e.box.key # Key
    BY <2>2, KeysAssumption DEF Seal
  <2> QED BY <1>1, <2>1, <2>3 DEF PacketOK
<1>5. \/ \E t \in 1 .. 7 : e = [d EXCEPT !.prefix.type = t]
      \/ \E f : e = [d EXCEPT !.bytes = f]
      \/ e = [d EXCEPT !.box.fields = << 0 >>, !.box.key = 0]
  BY DEF Damaged
<1> QED BY <1>2, <1>3, <1>4, <1>5

LEMMA DamagedRequestIsHarmless ==
    ASSUME NEW d, RequestOK(d), NEW e \in DamagedRequest(d)
    PROVE  RequestOK(e)
<1>1. /\ d.prefix.type = Types.ConnectionRequest
      /\ d = [prefix |-> d.prefix, bytes |-> d.bytes, box |-> d.box]
      /\ d.box = <<d.box[1], d.box[2], d.box[3], d.box[4]>>
      /\ d.box[4] = Seal(d.box[4].fields, d.box[4].key, d.box[4].nonce, d.box[4].aad)
      /\ d.box[4].key = ConnectKey => \E i \in issued : d.box[4].fields = WritePrivate(i.private)
  BY DEF RequestOK
<1>2. ASSUME NEW i \in 1 .. 3, e = [d EXCEPT !.box[i] = 0] PROVE RequestOK(e)
  <2>1. /\ e = [prefix |-> e.prefix, bytes |-> e.bytes, box |-> e.box]
        /\ e.prefix = d.prefix /\ e.box = [d.box EXCEPT ![i] = 0]
    BY <1>1, <1>2
  <2>2. e.box[4] = d.box[4] /\ e.box = <<e.box[1], e.box[2], e.box[3], e.box[4]>>
    BY <1>1, <2>1
  <2> QED BY <1>1, <2>1, <2>2 DEF RequestOK
<1>3. ASSUME e = [d EXCEPT !.box[4].key = 0] PROVE RequestOK(e)
  <2>1. /\ e = [prefix |-> e.prefix, bytes |-> e.bytes, box |-> e.box]
        /\ e.prefix = d.prefix /\ e.box = [d.box EXCEPT ![4] = [d.box[4] EXCEPT !.key = 0]]
    BY <1>1, <1>3
  <2>2. /\ e.box[4] = [d.box[4] EXCEPT !.key = 0]
        /\ e.box = <<e.box[1], e.box[2], e.box[3], e.box[4]>>
    BY <1>1, <2>1
  <2>3. e.box[4] = Seal(d.box[4].fields, 0, d.box[4].nonce, d.box[4].aad)
    BY <1>1, <2>2 DEF Seal
  <2>4. /\ e.box[4] = Seal(e.box[4].fields, e.box[4].key, e.box[4].nonce, e.box[4].aad)
        /\ e.box[4].key # ConnectKey
    BY <2>3, KeysAssumption DEF Seal
  <2> QED BY <1>1, <2>1, <2>2, <2>4 DEF RequestOK
<1> QED BY <1>2, <1>3 DEF DamagedRequest

LEMMA DamageInv ==
    ASSUME WireInv, NEW d \in net, Damage(d)
    PROVE  WireInv'
<1>1. PICK e \in IF d.prefix.type = Types.ConnectionRequest THEN DamagedRequest(d) ELSE Damaged(d) :
        net' = net \union {e}
  BY DEF Damage
<1>2. encrypted /\ UNCHANGED <<encrypted, sent, issued, delivered, opened>>
  BY DEF Damage
<1>3. RequestOK(e) \/ PacketOK(e)
  <2>1. CASE RequestOK(d)
    BY <1>1, <2>1, DamagedRequestIsHarmless DEF RequestOK
  <2>2. CASE PacketOK(d)
    BY <1>1, <1>2, <2>2, DamagedIsHarmless DEF PacketOK
  <2> QED BY <2>1, <2>2 DEF WireInv
<1>4. \A f \in net' : (RequestOK(f) \/ PacketOK(f))'
  <2>1. ASSUME NEW f \in net' PROVE (RequestOK(f) \/ PacketOK(f))'
    <3>1. sent \subseteq sent' /\ issued \subseteq issued' /\ encrypted' = encrypted
      BY <1>2
    <3>2. RequestOK(f) \/ PacketOK(f)
      BY <1>1, <1>3 DEF WireInv
    <3> QED BY <3>1, <3>2, DatagramStays
  <2> QED BY <2>1
<1> QED BY <1>2, <1>4 DEF WireInv, SentOK, IssuedOK

(* Decoding leaves the network alone. *)
LEMMA DecodeKeepsNet ==
    ASSUME WireInv, UNCHANGED <<encrypted, sent, issued, net>>
    PROVE  SentOK' /\ IssuedOK' /\ \A d \in net' : (RequestOK(d) \/ PacketOK(d))'
<1>1. ASSUME NEW d \in net' PROVE (RequestOK(d) \/ PacketOK(d))'
  <2>1. sent \subseteq sent' /\ issued \subseteq issued' /\ encrypted' = encrypted
    OBVIOUS
  <2>2. RequestOK(d) \/ PacketOK(d)
    BY DEF WireInv
  <2> QED BY <2>1, <2>2, DatagramStays
<1> QED BY <1>1 DEF WireInv, SentOK, IssuedOK

LEMMA DecodeRequestInv ==
    ASSUME WireInv, NEW d \in net, DecodeRequest(d)
    PROVE  WireInv'
<1> DEFINE p == Read(d.prefix.type, d.box)
           private == DecodePrivate(p.data, p.protocol_id, p.expire_timestamp, p.xnonce, ConnectKey)
<1>1. /\ d.prefix.type = Types.ConnectionRequest
      /\ opened' = IF private = Error THEN opened ELSE opened \union {private}
      /\ UNCHANGED <<encrypted, sent, issued, net, delivered>>
  BY DEF DecodeRequest
<1>2. RequestOK(d)
  BY <1>1 DEF WireInv, PacketOK
<1>3. p.data = d.box[4]
  <2>1. d.box = <<d.box[1], d.box[2], d.box[3], d.box[4]>>
    BY <1>2 DEF RequestOK
  <2>2. Len(d.box) = 4
    BY <2>1
  <2>3. p = [type |-> 0, protocol_id |-> d.box[1], expire_timestamp |-> d.box[2],
             xnonce |-> d.box[3], data |-> d.box[4]]
    BY <1>1, <2>2 DEF Read, Types
  <2> HIDE DEF p
  <2> QED BY <2>3
<1> HIDE DEF p
<1>4. private # Error => private \in {i.private : i \in issued}
  BY <1>2, <1>3, OpenedWasIssued DEF WireInv
<1> HIDE DEF private
<1>5. opened' \subseteq {i.private : i \in issued} \union {[client_id |-> 7]}
  BY <1>1, <1>4 DEF WireInv
<1>6. SentOK' /\ IssuedOK' /\ \A e \in net' : (RequestOK(e) \/ PacketOK(e))'
  BY <1>1, DecodeKeepsNet
<1> QED BY <1>1, <1>5, <1>6 DEF WireInv

LEMMA DecodePacketInv ==
    ASSUME WireInv, NEW d \in net, DecodePacket(d)
    PROVE  WireInv'
<1> DEFINE s == ReadSequence(d.bytes)
           p == Read(d.prefix.type, d.box.fields)
           protected == ApplyReplayProtection(d.prefix.type)
<1>1. /\ d.prefix.type # Types.ConnectionRequest
      /\ IF Authentic(d) /\ ~(protected /\ AlreadyReceived(window, s)) /\ p # Error
         THEN /\ delivered' = delivered \union {[seq |-> s, packet |-> p]}
              /\ opened' = opened \union TokensOf(p)
         ELSE UNCHANGED <<delivered, opened>>
      /\ UNCHANGED <<encrypted, sent, issued, net>>
  BY DEF DecodePacket
<1>2. PacketOK(d)
  BY <1>1 DEF WireInv, RequestOK
<1>3. ASSUME Authentic(d)
      PROVE  [seq |-> s, packet |-> p] \in sent /\ TokensOf(p) \subseteq {[client_id |-> 7]}
  <2>1. PICK x \in sent : /\ x = [seq |-> x.seq, packet |-> x.packet]
                          /\ x.packet \in Packets
                          /\ s = x.seq /\ p = x.packet
    BY <1>2, <1>3, AuthenticWasSent DEF WireInv
  <2>2. TokensOf(x.packet) \subseteq {[client_id |-> 7]}
    BY <2>1, PacketReadsBack
  <2> HIDE DEF s, p
  <2> QED BY <2>1, <2>2
<1> HIDE DEF s, p, protected
<1>4. /\ delivered' \subseteq sent
      /\ opened' \subseteq {i.private : i \in issued} \union {[client_id |-> 7]}
  BY <1>1, <1>3 DEF WireInv
<1>5. SentOK' /\ IssuedOK' /\ \A e \in net' : (RequestOK(e) \/ PacketOK(e))'
  BY <1>1, DecodeKeepsNet
<1> QED BY <1>1, <1>4, <1>5 DEF WireInv

LEMMA WireNextInv == WireInv /\ [WireNext]_wireVars => WireInv'
<1>1. SUFFICES ASSUME WireInv, [WireNext]_wireVars PROVE WireInv'
  OBVIOUS
<1>2. CASE UNCHANGED wireVars
  <2>1. UNCHANGED <<encrypted, sent, issued, net, delivered, opened>>
    BY <1>2 DEF wireVars
  <2>2. SentOK' /\ IssuedOK' /\ \A e \in net' : (RequestOK(e) \/ PacketOK(e))'
    BY <1>1, <2>1, DecodeKeepsNet
  <2> QED BY <1>1, <2>1, <2>2 DEF WireInv
<1>3. CASE \E p \in Packets, s \in Sequences : SendPacket(p, s)
  BY <1>1, <1>3, SendPacketInv
<1>4. CASE \E addresses \in Addresses : SendRequest(addresses)
  BY <1>1, <1>4, SendRequestInv
<1>5. CASE \E d \in net : Damage(d) \/ DecodeRequest(d) \/ DecodePacket(d)
  BY <1>1, <1>5, DamageInv, DecodeRequestInv, DecodePacketInv
<1> QED BY <1>1, <1>2, <1>3, <1>4, <1>5 DEF WireNext

LEMMA WireInvIsFaithful == WireInv => WireIsFaithful
<1>1. SUFFICES ASSUME WireInv PROVE WireIsFaithful
  OBVIOUS
<1>2. /\ delivered \subseteq sent
      /\ opened \subseteq {i.private : i \in issued} \union {[client_id |-> 7]}
  BY <1>1 DEF WireInv
<1>3. ASSUME NEW i \in issued PROVE ReadToken(WriteToken(i.token)) = i.token
  <2>1. PICK addresses \in Addresses :
          /\ GenerateToken(1, 30, 7, 15, 0, addresses, 5) # Error
          /\ i.token = GenerateToken(1, 30, 7, 15, 0, addresses, 5)
    BY <1>1 DEF WireInv, IssuedOK
  <2> QED BY <2>1, TokenReadsBack
<1>4. ASSUME NEW x \in sent
      PROVE  LET d == Encode(x.packet, x.seq)
             IN  /\ Authentic(d)
                 /\ ReadSequence(d.bytes) = x.seq
                 /\ Read(d.prefix.type, d.box.fields) = x.packet
  <2>1. x.seq \in Sequences /\ x.packet \in Packets /\ encrypted \in BOOLEAN
    BY <1>1 DEF WireInv, SentOK
  <2> QED BY <2>1, EncodedIsRead
<1> QED BY <1>2, <1>3, <1>4 DEF WireIsFaithful

(***************************************************************************)
(* The wire format is faithful for every width of a byte and a word, every *)
(* number of places for addresses and whatever is damaged on the way:      *)
(* decode returns only packets that were encoded, with their sequence;     *)
(* tokens that are opened were issued; tokens and packets read back as     *)
(* they were written.                                                      *)
(***************************************************************************)
THEOREM WireAlwaysFaithful == WireSpec => []WireIsFaithful
BY WireInitInv, WireNextInv, WireInvIsFaithful, PTL DEF WireSpec

(* A step of the wire is a step of the replay protection, or none.         *)
LEMMA WireStepsWindow == WireInv /\ Inv /\ [WireNext]_wireVars => Inv'
<1>1. SUFFICES ASSUME WireInv, Inv, [WireNext]_wireVars PROVE Inv'
  OBVIOUS
<1>2. ASSUME UNCHANGED <<window, accepted>> PROVE Inv'
  BY <1>1, <1>2 DEF Inv, TypeOK, SlotsHoldHighest
<1>3. CASE UNCHANGED wireVars
  BY <1>2, <1>3 DEF wireVars
<1>4. CASE \E p \in Packets, s \in Sequences : SendPacket(p, s)
  BY <1>2, <1>4 DEF SendPacket
<1>5. CASE \E addresses \in Addresses : SendRequest(addresses)
  BY <1>2, <1>5 DEF SendRequest
<1>6. CASE \E d \in net : Damage(d) \/ DecodeRequest(d)
  BY <1>2, <1>6 DEF Damage, DecodeRequest
<1>7. ASSUME NEW d \in net, DecodePacket(d) PROVE Inv'
  <2> DEFINE s == ReadSequence(d.bytes)
  <2>1. Decode(s, Authentic(d)) \/ UNCHANGED <<window, accepted>>
    BY <1>7 DEF DecodePacket
  <2>2. CASE Authentic(d) /\ ~AlreadyReceived(window, s) /\ Decode(s, Authentic(d))
    <3>1. PacketOK(d)
      BY <1>1, <1>7 DEF WireInv, RequestOK, DecodePacket
    <3>2. s \in Sequences
      BY <1>1, <2>2, <3>1, AuthenticWasSent DEF WireInv
    <3>3. s \in Nat
      BY <3>2, MaxSequenceAssumption DEF Sequences
    <3>4. window' = AdvanceSequence(window, s) /\ accepted' = accepted \union {s}
      BY <2>2 DEF Decode
    <3> HIDE DEF s
    <3> QED BY <1>1, <2>2, <3>3, <3>4, AcceptKeepsInv
  <2>3. CASE ~(Authentic(d) /\ ~AlreadyReceived(window, s)) /\ Decode(s, Authentic(d))
    BY <1>2, <2>3 DEF Decode, vars
  <2> QED BY <1>2, <2>1, <2>2, <2>3
<1> QED BY <1>1, <1>3, <1>4, <1>5, <1>6, <1>7 DEF WireNext

(***************************************************************************)
(* The replay protection stays exact behind the decoder: only an authentic *)
(* packet advances it, and the sequence of an authentic packet is one that *)
(* the peer used.                                                          *)
(***************************************************************************)
THEOREM WireWindowExact == WireSpec => []ExactWindow
<1>1. WireInit => WireInv /\ Inv
  BY WireInitInv, InitInv DEF WireInit
<1>2. (WireInv /\ Inv) /\ [WireNext]_wireVars => (WireInv /\ Inv)'
  BY WireNextInv, WireStepsWindow
<1> QED BY <1>1, <1>2, InvIsExact, PTL DEF WireSpec
=============================================================================
