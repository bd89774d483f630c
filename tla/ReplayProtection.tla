-------------------------- MODULE ReplayProtection --------------------------
(***************************************************************************)
(* ReplayProtection of renetcode2/src/replay_protection.rs: the window of  *)
(* packet sequences that a netcode connection has accepted, as operators   *)
(* on its value.  received is received_packet, a ring indexed by the       *)
(* sequence modulo its size; Empty stands for EMPTY, u64::MAX.  Sequences  *)
(* count the packets of a sender from 0 and stay far below 2^64.           *)
(***************************************************************************)
EXTENDS Integers

CONSTANT BufferSize     \* NETCODE_REPLAY_BUFFER_SIZE, 256 in the code

ASSUME BufferSizeAssumption == BufferSize \in Nat \ {0}

Empty == -1

NewReplayProtection ==
    [most_recent |-> 0, received |-> [i \in 0 .. (BufferSize - 1) |-> Empty]]

AlreadyReceived(r, s) ==
    \/ s + BufferSize <= r.most_recent
    \/ /\ r.received[s % BufferSize] # Empty
       /\ r.received[s % BufferSize] >= s

(* Fault: most_recent is not advanced. *)
AdvanceSequenceKeepsRecent(r, s) ==
    [r EXCEPT !.received[s % BufferSize] = s]

AdvanceSequence(r, s) ==
    [most_recent |-> IF s > r.most_recent THEN s ELSE r.most_recent,
     received    |-> [r.received EXCEPT ![s % BufferSize] = s]]
=============================================================================
