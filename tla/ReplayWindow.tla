---------------------------- MODULE ReplayWindow ----------------------------
(***************************************************************************)
(* The replay protection of one direction of a netcode connection, used    *)
(* the way Packet::decode uses it (renetcode2/src/packet.rs): a packet is  *)
(* dropped if its sequence was already received, then authenticated, and   *)
(* only then recorded.  Packets of the sender arrive in any order, any     *)
(* number of times or never, and some do not authenticate.                 *)
(***************************************************************************)
EXTENDS ReplayProtection

CONSTANT MaxSequence    \* bound: sequences the sender uses

ASSUME MaxSequenceAssumption == MaxSequence \in Nat

VARIABLES
    window,         \* the ReplayProtection
    accepted        \* history: sequences of the packets let through

vars == <<window, accepted>>

Sequences == 0 .. MaxSequence

Init == window = NewReplayProtection /\ accepted = {}

(* Fault: the sequence is recorded before the packet is authenticated. *)
DecodeRecordsFirst(s, authentic) ==
    /\ ~AlreadyReceived(window, s)
    /\ window' = AdvanceSequence(window, s)
    /\ accepted' = IF authentic THEN accepted \union {s} ELSE accepted

(* decode, with the errors of a repetition and of decryption; neither      *)
(* changes the window                                                      *)
Decode(s, authentic) ==
    IF authentic /\ ~AlreadyReceived(window, s)
    THEN /\ window' = AdvanceSequence(window, s)
         /\ accepted' = accepted \union {s}
    ELSE UNCHANGED vars

Next == \E s \in Sequences, authentic \in BOOLEAN : Decode(s, authentic)

Spec == Init /\ [][Next]_vars
-----------------------------------------------------------------------------
TypeOK ==
    /\ window \in [most_recent : Nat,
                   received : [0 .. (BufferSize - 1) -> Nat \union {Empty}]]
    /\ accepted \subseteq Nat

(***************************************************************************)
(* already_received is exact inside the window, although the ring forgets  *)
(* a sequence when a later one takes its slot: no packet is let through    *)
(* twice, and a packet is dropped only if it was accepted before or lies   *)
(* BufferSize or more behind the most recent one.                          *)
(***************************************************************************)
ExactWindow ==
    \A s \in Sequences :
        AlreadyReceived(window, s) <=> s \in accepted \/ s + BufferSize <= window.most_recent

(***************************************************************************)
(* Why: a slot holds the highest accepted sequence of its residue class,   *)
(* and nothing accepted is ahead of most_recent.                           *)
(***************************************************************************)
SlotsHoldHighest ==
    /\ \A a \in accepted :
         /\ a <= window.most_recent
         /\ window.received[a % BufferSize] # Empty
         /\ a <= window.received[a % BufferSize]
    /\ \A i \in 0 .. (BufferSize - 1) : window.received[i] # Empty =>
         window.received[i] \in accepted /\ window.received[i] % BufferSize = i
=============================================================================
