-------------------------- MODULE MCNetcodePacket --------------------------
(***************************************************************************)
(* NetcodePacket with bytes of two values, so that sequences of 0 to 3     *)
(* bytes are met, and tokens of none to too many addresses.                *)
(***************************************************************************)
EXTENDS NetcodePacket

V4 == [family |-> "v4", ip |-> 1, port |-> 80]
V6 == [family |-> "v6", ip |-> 2, port |-> 81]

MCAddresses == {<<>>, <<V6>>, <<V4, V6>>, <<V4, V6, V4>>}
=============================================================================
