--------------------------- MODULE SteamTransport ---------------------------
(***************************************************************************)
(* SteamServerTransport of renet2_steam/src/server.rs, between Steam's     *)
(* listen socket and the RenetServer.  Steam is external: it queues an     *)
(* event when a connection is asked for, is established, or ends without   *)
(* the server's doing.  Connections are numbered; a client may ask for a   *)
(* new one before the server has heard of the end of the old.              *)
(***************************************************************************)
EXTENDS RenetServer

CONSTANTS
    SteamMaxClients,    \* max_clients
    MaxConnections      \* bound: connections that Steam numbers

Numbers == 1 .. MaxConnections

VARIABLES
    connections,    \* connections: the number of a client's, or 0
    steam,          \* Steam's own state of each number: [id, state]
    queue,          \* the events the listen socket has not yet delivered
    updating        \* update is in its loop of events

steamVars == <<connections, steam, queue, updating>>
vars == <<appVars, steamVars>>

Fresh == [id |-> 0, state |-> "none"]

Init ==
    /\ AppInit
    /\ connections = [i \in RemoteIds |-> 0]
    /\ steam = [n \in Numbers |-> Fresh]
    /\ queue = <<>> /\ updating = FALSE

(* Steam: a client asks for a connection *)
SteamConnecting(i) ==
    /\ \E n \in Numbers :
         /\ steam[n] = Fresh /\ \A m \in 1 .. (n - 1) : steam[m] # Fresh
         /\ steam' = [steam EXCEPT ![n] = [id |-> i, state |-> "connecting"]]
         /\ queue' = Append(queue, [type |-> "Connecting", id |-> i, number |-> n])
    /\ UNCHANGED <<appVars, connections, updating>>

(* Steam: one that was accepted is established *)
SteamConnected(n) ==
    /\ steam[n].state = "accepted"
    /\ steam' = [steam EXCEPT ![n].state = "connected"]
    /\ queue' = Append(queue, [type |-> "Connected", id |-> steam[n].id, number |-> n])
    /\ UNCHANGED <<appVars, connections, updating>>

(* Steam: the client or the network ends one *)
SteamDisconnected(n) ==
    /\ steam[n].state \in {"connecting", "accepted", "connected"}
    /\ steam' = [steam EXCEPT ![n].state = "closed"]
    /\ queue' = Append(queue, [type |-> "Disconnected", id |-> steam[n].id, number |-> n])
    /\ UNCHANGED <<appVars, connections, updating>>
-----------------------------------------------------------------------------
Close(N) == [n \in Numbers |-> IF n \in N THEN [steam[n] EXCEPT !.state = "closed"]
                               ELSE steam[n]]

(* update, for each type of event *)
HandleConnecting(e) ==
    \/ /\ Cardinality(ClientsId(server)) < SteamMaxClients
       /\ steam[e.number].state = "connecting"
       /\ steam' = [steam EXCEPT ![e.number].state = "accepted"]
       /\ UNCHANGED <<server, connections>>
    \/ /\ steam' = Close({e.number})
       /\ UNCHANGED <<server, connections>>

(* the connection that a newer one replaces is dropped, and closed *)
HandleConnected(e) ==
    /\ server' = AddConnection(server, e.id, FALSE, e.number)
    /\ connections' = [connections EXCEPT ![e.id] = e.number]
    /\ steam' = Close({connections[e.id]} \ {0})

(* Fault: the end of a connection is believed only of the one in use. *)
HandleDisconnectedOfCurrent(e) ==
    /\ server' = RemoveConnection(server, e.id)
    /\ connections' = [connections EXCEPT ![e.id] = IF @ = e.number THEN 0 ELSE @]
    /\ UNCHANGED steam

HandleDisconnected(e) ==
    /\ server' = RemoveConnection(server, e.id)
    /\ connections' = [connections EXCEPT ![e.id] = 0]
    /\ steam' = Close({connections[e.id]} \ {0})

BeginUpdate ==
    /\ ~updating /\ updating' = TRUE
    /\ UNCHANGED <<appVars, connections, steam, queue>>

HandleEvent ==
    /\ updating /\ queue # <<>>
    /\ queue' = Tail(queue)
    /\ LET e == Head(queue)
       IN  \/ e.type = "Connecting" /\ HandleConnecting(e)
           \/ e.type = "Connected" /\ HandleConnected(e)
           \/ e.type = "Disconnected" /\ HandleDisconnected(e)
    /\ UNCHANGED <<local, view, sessions, updating>>

(* the end of update: the messages of every connection, some of which      *)
(* break theirs                                                            *)
ReceiveMessages(broken) ==
    /\ updating /\ queue = <<>>
    /\ updating' = FALSE
    /\ \A i \in broken : connections[i] # 0
    /\ server' = Break(server, broken)
    /\ UNCHANGED <<local, view, sessions, connections, steam, queue>>

(* disconnect_client; disconnect_all is this for every connection *)
DisconnectClient(i) ==
    /\ ~updating
    /\ connections' = [connections EXCEPT ![i] = 0]
    /\ steam' = Close({connections[i]} \ {0})
    /\ server' = RemoveConnection(server, i)
    /\ UNCHANGED <<local, view, sessions, queue, updating>>

AppStep ==
    /\ ~updating /\ Application
    /\ UNCHANGED steamVars

Next ==
    \/ \E i \in RemoteIds : SteamConnecting(i) \/ DisconnectClient(i)
    \/ \E n \in Numbers : SteamConnected(n) \/ SteamDisconnected(n)
    \/ BeginUpdate \/ HandleEvent \/ AppStep
    \/ \E broken \in SUBSET RemoteIds : ReceiveMessages(broken)

Spec == Init /\ [][Next]_vars
-----------------------------------------------------------------------------
(***************************************************************************)
(* The transport has a connection exactly for the clients in the           *)
(* RenetServer, so no packet is processed for, or sent to, a client that   *)
(* the other side does not have, in whatever order Steam reports old and   *)
(* new connections of a client.                                            *)
(***************************************************************************)
SteamTablesAgree == {i \in RemoteIds : connections[i] # 0} = Present(server) \ LocalIds
=============================================================================
