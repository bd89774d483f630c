------------------------------ MODULE MCNetcode ------------------------------
(***************************************************************************)
(* Instances of Netcode: three tokens, the first two of one client.        *)
(***************************************************************************)
EXTENDS Netcode

CONSTANTS t1, t2, t3, a1, a2

Ids112 == [t \in Token |-> IF t = t3 THEN 2 ELSE 1]

Expire1 == [t \in Token |-> 1]
Expire3 == [t \in Token |-> 3]
Timeout1 == [t \in Token |-> 1]

OneHost == [t \in Token |-> <<TRUE>>]
TwoHosts == [t \in Token |-> <<TRUE, TRUE>>]

AllTokens == [a \in Addr |-> Token]
OneAtA2 == [a \in Addr |-> IF a = a2 THEN {t2} ELSE Token]
=============================================================================
