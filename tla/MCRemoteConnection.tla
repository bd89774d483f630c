------------------------- MODULE MCRemoteConnection -------------------------
(* Instances of RemoteConnection for TLC. *)
EXTENDS RemoteConnection

CONSTANTS client, server

Sequences41 == [p \in Peers |-> IF p = client THEN 4 ELSE 1]
Sequences31 == [p \in Peers |-> IF p = client THEN 3 ELSE 1]

Ordered(max)    == [reliable |-> TRUE, ordered |-> TRUE, substrate |-> FALSE, max |-> max]
Unordered(max)  == [reliable |-> TRUE, ordered |-> FALSE, substrate |-> FALSE, max |-> max]
Unreliable(max) == [reliable |-> FALSE, ordered |-> FALSE, substrate |-> FALSE, max |-> max]
Substrate(max)  == [reliable |-> FALSE, ordered |-> FALSE, substrate |-> TRUE, max |-> max]

OrderedOnly     == <<Ordered(20)>>
SubstrateOnly   == <<Substrate(72)>>
UnorderedFirst  == <<Unordered(10), Unreliable(19)>>

Two      == <<2>>
Three    == <<3>>
TwoAndOne == <<2, 1>>

ASSUME RoomForAll
=============================================================================
