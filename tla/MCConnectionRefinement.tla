----------------------- MODULE MCConnectionRefinement -----------------------
(* The client's messages over its first channel, for TLC. *)
EXTENDS MCRemoteConnection, ConnectionRefinement
=============================================================================
