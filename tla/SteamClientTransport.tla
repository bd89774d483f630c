------------------------ MODULE SteamClientTransport ------------------------
(***************************************************************************)
(* SteamClientTransport of renet2_steam/src/client.rs, between a Steam     *)
(* connection (external) and the application's RenetClient.                *)
(***************************************************************************)

VARIABLES
    renet,          \* status of the RenetClient
    state,          \* ConnectionState
    steam           \* Steam's state of the connection

vars == <<renet, state, steam>>

Init == renet = "connecting" /\ state = "Connected" /\ steam = "connecting"

(* connection_state *)
ConnectionState == IF state = "Connected" THEN steam ELSE "none"

IsDisconnected == ConnectionState \in {"closed", "none"}

(* Steam: the connection is established, or ends *)
SteamConnects == steam = "connecting" /\ steam' = "connected" /\ UNCHANGED <<renet, state>>
SteamCloses == steam # "closed" /\ steam' = "closed" /\ UNCHANGED <<renet, state>>

(* disconnect *)
Disconnect ==
    /\ state = "Connected"
    /\ state' = "Disconnected" /\ steam' = "closed"
    /\ UNCHANGED renet

UpdateDisconnected ==
    /\ IsDisconnected
    /\ renet' = "disconnected"
    /\ state' = "Disconnected"
    /\ UNCHANGED steam

(* the RenetClient follows Steam, and the messages may break it *)
UpdateReceives ==
    /\ ~IsDisconnected
    /\ \/ renet' = IF renet = "disconnected" THEN renet ELSE ConnectionState
       \/ ConnectionState = "connected" /\ renet' = "disconnected"
    /\ UNCHANGED <<state, steam>>

(* the application disconnects its RenetClient *)
RenetDisconnects ==
    /\ renet # "disconnected"
    /\ renet' = "disconnected"
    /\ UNCHANGED <<state, steam>>

Update == UpdateDisconnected \/ UpdateReceives

Next == SteamConnects \/ SteamCloses \/ Disconnect \/ Update \/ RenetDisconnects

Fairness == WF_vars(Update)

Spec == Init /\ [][Next]_vars /\ Fairness
-----------------------------------------------------------------------------
(***************************************************************************)
(* When Steam or the transport ends the connection, the RenetClient ends   *)
(* with it.  (Not the other way round: a RenetClient that disconnects      *)
(* leaves the Steam connection open.)                                      *)
(***************************************************************************)
RenetEnds == IsDisconnected ~> renet = "disconnected" /\ state = "Disconnected"
=============================================================================
