---------------------------- MODULE MCTransports ----------------------------
(***************************************************************************)
(* Instances of the four transports for TLC.  A behaviour is one of a      *)
(* server's transport, over netcode or over Steam, with the application    *)
(* and its RenetServer, or one of a client's, over netcode with each kind  *)
(* of socket or over Steam, with the application's RenetClient.            *)
(***************************************************************************)
EXTENDS RenetServer

CONSTANTS WebAddrs, BareAddrs, ReliableAddrs, Encrypted, Presents, NoId,
          SteamMaxClients, MaxConnections, MaxIncoming

ASSUME MCTransportsAssumption ==
    /\ MaxConnections \in Nat
    /\ {ReliableAddrs, Encrypted} \subseteq SUBSET (WebAddrs \union BareAddrs)
    /\ Presents \in [WebAddrs \union BareAddrs -> SUBSET RemoteIds]

(* any client id where netcode encrypts, one where the socket does *)
OneInClear == [a \in WebAddrs \union BareAddrs |-> IF a \in Encrypted THEN RemoteIds ELSE {1}]

VARIABLES driver,
          clients, pending, challenged, marked, gone, pc, todo, \* NetcodeTransport
          connections, steam, queue, updating,                  \* SteamTransport
          renet,                                                \* both of a client
          netcode, moved, socket,                               \* ClientTransport
          state, connection                                     \* SteamClientTransport

NetcodeServer == INSTANCE NetcodeTransport
SteamServer   == INSTANCE SteamTransport
NetcodeClient == INSTANCE ClientTransport
SteamClient   == INSTANCE SteamClientTransport WITH steam <- connection

netcodeServer == <<clients, pending, challenged, marked, gone, pc, todo>>
steamServer   == <<connections, steam, queue, updating>>
serverVars    == <<appVars, netcodeServer, steamServer>>
netcodeClient == <<netcode, moved, socket>>
steamClient   == <<state, connection>>
clientVars    == <<renet, netcodeClient, steamClient>>

MCInit ==
    /\ NetcodeServer!Init /\ SteamServer!Init
    /\ NetcodeClient!Init /\ SteamClient!Init
    /\ driver \in {"netcode server", "steam server", "netcode client", "steam client"}
    /\ driver = "netcode client" \/ socket = NetcodeClient!Datagram

OfNetcodeServer(A) == driver = "netcode server" /\ A /\ UNCHANGED <<driver, steamServer, clientVars>>
OfSteamServer(A)   == driver = "steam server" /\ A /\ UNCHANGED <<driver, netcodeServer, clientVars>>
OfNetcodeClient(A) == driver = "netcode client" /\ A /\ UNCHANGED <<driver, serverVars, steamClient>>
OfSteamClient(A)   == driver = "steam client" /\ A /\ UNCHANGED <<driver, serverVars, netcodeClient>>

MCNext ==
    \/ OfNetcodeServer(NetcodeServer!Next) \/ OfSteamServer(SteamServer!Next)
    \/ OfNetcodeClient(NetcodeClient!Next) \/ OfSteamClient(SteamClient!Next)

mcVars == <<driver, serverVars, clientVars>>

(* the fairness of each; driver is constant, so those of several may be    *)
(* stated together                                                         *)
MCFairness ==
    /\ WF_mcVars(\/ OfNetcodeServer(NetcodeServer!UpdateProceeds)
                 \/ OfNetcodeClient(NetcodeClient!Update)
                 \/ OfSteamClient(SteamClient!Update))
    /\ WF_mcVars(OfNetcodeClient(NetcodeClient!RunTask))
    /\ WF_mcVars(OfNetcodeClient(NetcodeClient!Open))
    /\ SF_mcVars(OfNetcodeServer(\E expired \in SUBSET NetcodeServer!Addrs :
                                     NetcodeServer!BeginUpdate(expired)))
    /\ \A i \in RemoteIds : SF_mcVars(OfNetcodeServer(NetcodeServer!LostTimesOut(i)))

MCSpec == MCInit /\ [][MCNext]_mcVars /\ MCFairness
-----------------------------------------------------------------------------
(* The properties of each transport, of the behaviours that are its own.   *)

(* In both tables of the netcode server transport are the same clients. *)
TablesAgree == driver = "netcode server" => NetcodeServer!TablesAgree

(* What is disconnected in the RenetServer is removed from netcode. *)
DisconnectionsEnd == driver = "netcode server" => NetcodeServer!DisconnectionsEnd

(* A session ends when its web socket's connection has ended. *)
LossesEnd == driver = "netcode server" => NetcodeServer!LossesEnd

(* In both tables of the Steam server transport are the same clients. *)
SteamTablesAgree == driver = "steam server" => SteamServer!SteamTablesAgree

(* A RenetClient ends with its transport, and over netcode all end together. *)
ClientEndsTogether ==
    /\ driver = "netcode client" => NetcodeClient!EndsTogether
    /\ driver = "steam client" => SteamClient!RenetEnds

(* The disconnect packet that a WebSocket client has taken is sent. *)
FarewellLeaves == driver = "netcode client" => NetcodeClient!FarewellLeaves

(* A WebTransport client that was closed has let go of its writer. *)
WriterLetGo == driver = "netcode client" => NetcodeClient!WriterLetGo
=============================================================================
