---------------------------- MODULE RenetServer ----------------------------
(***************************************************************************)
(* RenetServer of renet2/src/server.rs: the table of connections that a    *)
(* transport fills and empties and that the application reads, writes and  *)
(* disconnects, and the queue of events that tells the application of it.  *)
(* What a connection does with its packets is RemoteConnection's; here a   *)
(* message or a packet may break it or not.                                *)
(***************************************************************************)
EXTENDS Integers, Sequences, FiniteSets

CONSTANTS
    RemoteIds,      \* clients that come through the transport
    LocalIds,       \* clients of new_local_client
    MaxSessions,    \* bound: sessions of all clients
    NoConnection

Ids == RemoteIds \union LocalIds

(* session is a history field: the transport's session it was made for *)
Connection == [status : {"connected", "disconnected"}, reliable : BOOLEAN,
               session : Nat]

ASSUME RenetServerAssumption ==
    /\ RemoteIds \intersect LocalIds = {}
    /\ MaxSessions \in Nat
    /\ NoConnection \notin Connection

VARIABLES
    server,         \* [connections, events]
    local,          \* the RenetClient of every local client
    view,           \* the clients that are connected by the events taken
    sessions        \* history: sessions opened by a transport or locally

appVars == <<server, local, view, sessions>>

Event == [type : {"connected", "disconnected"}, id : Ids]

Present(s) == {i \in Ids : s.connections[i] # NoConnection}

NewServer == [connections |-> [i \in Ids |-> NoConnection], events |-> <<>>]

AddConnection(s, i, reliable, session) ==
    IF i \in Present(s) /\ s.connections[i].reliable = reliable THEN s
    ELSE [s EXCEPT !.connections[i] = [status |-> "connected", reliable |-> reliable,
                                       session |-> session],
                   !.events = Append(@, [type |-> "connected", id |-> i])]

RemoveConnection(s, i) ==
    IF i \notin Present(s) THEN s
    ELSE [s EXCEPT !.connections[i] = NoConnection,
                   !.events = Append(@, [type |-> "disconnected", id |-> i])]

(* disconnect_with_reason, for every reason: what is disconnected stays so *)
Break(s, S) ==
    [s EXCEPT !.connections = [i \in Ids |->
        IF i \in S /\ @[i] # NoConnection THEN [@[i] EXCEPT !.status = "disconnected"]
        ELSE @[i]]]

(* clients_id and disconnections_id *)
ClientsId(s) == {i \in Present(s) : s.connections[i].status = "connected"}
DisconnectionsId(s) == {i \in Present(s) : s.connections[i].status = "disconnected"}

(* process_packet_from: a packet that is malformed, or that a channel has  *)
(* no memory for, breaks the connection                                    *)
ProcessPacketFrom(s, i, breaks) == IF breaks THEN Break(s, {i}) ELSE s
-----------------------------------------------------------------------------
(* get_event *)
GetEvent ==
    /\ server.events # <<>>
    /\ LET e == Head(server.events)
       IN  view' = IF e.type = "connected" THEN view \union {e.id} ELSE view \ {e.id}
    /\ server' = [server EXCEPT !.events = Tail(@)]
    /\ UNCHANGED <<local, sessions>>

(* disconnect *)
Disconnect(i) ==
    /\ i \in ClientsId(server)
    /\ server' = Break(server, {i})
    /\ UNCHANGED <<local, view, sessions>>

(* disconnect_all *)
DisconnectAll ==
    /\ server' = Break(server, Present(server))
    /\ UNCHANGED <<local, view, sessions>>

(* broadcast_message, broadcast_message_except and send_message: they      *)
(* break the connections in which a reliable channel has no memory for it  *)
Broadcast(S) ==
    /\ S # {} /\ S \subseteq ClientsId(server)
    /\ server' = Break(server, S)
    /\ UNCHANGED <<local, view, sessions>>

NewLocalClient(i) ==
    /\ local[i] # "connected" /\ sessions < MaxSessions
    /\ sessions' = sessions + 1
    /\ local' = [local EXCEPT ![i] = "connected"]
    /\ server' = AddConnection(server, i, FALSE, sessions + 1)
    /\ UNCHANGED view

DisconnectLocalClient(i) ==
    /\ local[i] = "connected"
    /\ local' = [local EXCEPT ![i] = "disconnected"]
    /\ server' = RemoveConnection(server, i)
    /\ UNCHANGED <<view, sessions>>

(* process_local_client: the packets of each side, which may break the     *)
(* other; a connection that is disconnected neither sends nor receives     *)
ProcessLocalClient(i, breaksClient, breaksServer) ==
    /\ local[i] = "connected" /\ i \in ClientsId(server)
    /\ local' = [local EXCEPT ![i] = IF breaksClient THEN "disconnected" ELSE @]
    /\ server' = ProcessPacketFrom(server, i, breaksServer /\ ~breaksClient)
    /\ UNCHANGED <<view, sessions>>

Application ==
    \/ GetEvent \/ DisconnectAll
    \/ \E i \in Ids : Disconnect(i)
    \/ \E S \in SUBSET Ids : Broadcast(S)
    \/ \E i \in LocalIds :
         \/ NewLocalClient(i) \/ DisconnectLocalClient(i)
         \/ \E c, s \in BOOLEAN : ProcessLocalClient(i, c, s)

AppInit ==
    /\ server = NewServer
    /\ local = [i \in LocalIds |-> "none"]
    /\ view = {}
    /\ sessions = 0

AppTypeOK ==
    /\ server.connections \in [Ids -> Connection \union {NoConnection}]
    /\ server.events \in Seq(Event)
    /\ local \in [LocalIds -> {"none", "connected", "disconnected"}]
    /\ view \subseteq Ids
    /\ sessions \in 0 .. MaxSessions
-----------------------------------------------------------------------------
(***************************************************************************)
(* The events tell the truth: those of a client are in turn a connection   *)
(* and a disconnection, and an application that takes them all knows       *)
(* exactly the clients that are in the server, whichever of the transport, *)
(* the network and the application itself ended a session.                 *)
(***************************************************************************)
EventsTellTruth ==
    \A i \in Ids :
        LET mine == {0} \union {k \in 1 .. Len(server.events) : server.events[k].id = i}
            says(k) == IF k = 0 THEN i \in view ELSE server.events[k].type = "connected"
        IN  /\ \A j, k \in mine :
                 j < k /\ (\A m \in mine : m <= j \/ k <= m) => says(j) # says(k)
            /\ \A k \in mine :
                 (\A m \in mine : m <= k) => (says(k) <=> i \in Present(server))
=============================================================================
