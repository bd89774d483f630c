-------------------------- MODULE NetcodeTransport --------------------------
(***************************************************************************)
(* NetcodeServerTransport of renet2_netcode/src/server.rs, between its     *)
(* sockets, the NetcodeServer and the application's RenetServer.  The two  *)
(* servers have a table of clients each; the transport carries what        *)
(* happens in one over to the other, and tells the socket of an address    *)
(* that it is finished with.                                               *)
(*                                                                         *)
(* update and send_packets hold all three of them, so the application acts *)
(* between them (pc = "idle"); within, the steps follow the code's loops.  *)
(* Of netcode only what the transport sees is here: the packets and their  *)
(* keys are those of Netcode, and so are the slots, which decide what a    *)
(* lookup by id finds if netcode has two clients of one id.                *)
(***************************************************************************)
EXTENDS RenetServer

CONSTANTS
    WebAddrs,       \* addresses of sockets with connections: WebSocket, WebTransport
    BareAddrs,      \* addresses of sockets without: UDP, memory
    ReliableAddrs,  \* addresses of sockets with is_reliable: WebSocket, and memory by default
    Encrypted,      \* addresses of sockets that leave encryption to netcode
    Presents,       \* the client ids of the tokens presented at an address
    NoId

Addrs == WebAddrs \union BareAddrs
Reliable(a) == a \in ReliableAddrs

VARIABLES
    clients,        \* netcode's clients: [id, addr, session]
    pending,        \* netcode's pending_clients: the id of an address
    challenged,     \* the ids of the challenges sent to an address, which never expire
    marked,         \* addresses the socket was told to disconnect
    gone,           \* addresses whose connection the socket has removed
    pc,             \* where update or send_packets is
    todo            \* visits its loop has still to make: <<id, session, or 0 if by id>>

netcode == <<clients, pending, challenged>>
sockets == <<marked, gone>>
vars == <<appVars, netcode, sockets, pc, todo>>

Init ==
    /\ AppInit
    /\ clients = {} /\ pending = [a \in Addrs |-> NoId]
    /\ challenged = [a \in Addrs |-> {}]
    /\ marked = {} /\ gone = {}
    /\ pc = "idle" /\ todo = {}

IdsOf(C) == {c.id : c \in C}
At(a) == {c \in clients : c.addr = a}
Of(i) == {c \in clients : c.id = i}

(* netcode's clients_id, which lists every slot; and ids to be visited once *)
EverySlot == {<<c.id, c.session>> : c \in clients}
Once(I) == {<<i, 0>> : i \in I}

Visit(i) == \E v \in todo : v[1] = i /\ todo' = todo \ {v}
-----------------------------------------------------------------------------
(* ServerSocket::disconnect and connection_denied, which only the web      *)
(* sockets implement                                                       *)
SocketDisconnect(a) == marked' = marked \union ({a} \intersect WebAddrs)

(* handle_server_result of ClientDisconnected: netcode has removed one of C *)
ClientDisconnected(C) ==
    \E c \in C :
        /\ clients' = clients \ {c}
        /\ server' = RemoveConnection(server, c.id)
        /\ SocketDisconnect(c.addr)

(* handle_server_result of ClientConnected *)
ClientConnected(i, a) ==
    /\ sessions < MaxSessions
    /\ sessions' = sessions + 1
    /\ clients' = clients \union {[id |-> i, addr |-> a, session |-> sessions + 1]}
    /\ server' = AddConnection(server, i, Reliable(a), sessions + 1)
    /\ UNCHANGED marked

(* Fault: the key of the answer is not checked. *)
HandleResponseAnyKey(a, i) ==
    /\ pending[a] # NoId /\ i \in challenged[a]
    /\ pending' = [pending EXCEPT ![a] = NoId]
    /\ UNCHANGED challenged
    /\ IF Of(i) # {}
       THEN UNCHANGED <<server, sessions, clients, marked>>
       ELSE \/ ClientConnected(pending[a], a)
            \/ SocketDisconnect(a) /\ UNCHANGED <<server, sessions, clients>>

(* process_packet of a pending client's answer to a challenge for i, which *)
(* decodes with the pending client's key only if it is of the same token;  *)
(* i must not be connected, but the pending id is what will be             *)
HandleResponse(a, i) ==
    /\ pending[a] # NoId /\ i \in challenged[a]
    /\ a \in Encrypted => i = pending[a]
    /\ pending' = [pending EXCEPT ![a] = NoId]
    /\ UNCHANGED challenged
    /\ IF Of(i) # {}
       THEN UNCHANGED <<server, sessions, clients, marked>>
       ELSE \/ ClientConnected(pending[a], a)
            \/ SocketDisconnect(a) /\ UNCHANGED <<server, sessions, clients>>

(* process_packet of a request: denied when the client is connected; else  *)
(* denied for its token or a limit, of which max_clients ends a pending    *)
(* client, or answered with a challenge                                    *)
HandleConnectionRequest(a, i) ==
    /\ UNCHANGED <<server, sessions, clients>>
    /\ \/ SocketDisconnect(a) /\ UNCHANGED <<pending, challenged>>
       \/ /\ Of(i) = {}
          /\ SocketDisconnect(a) /\ pending' = [pending EXCEPT ![a] = NoId]
          /\ UNCHANGED challenged
       \/ /\ Of(i) = {}
          /\ pending' = [pending EXCEPT ![a] = IF @ = NoId THEN i ELSE @]
          /\ challenged' = [challenged EXCEPT ![a] = @ \union {i}]
          /\ UNCHANGED marked
-----------------------------------------------------------------------------
(* the start of update: pending clients whose token expired are forgotten *)
BeginUpdate(expired) ==
    /\ pc = "idle" /\ pc' = "recv"
    /\ \A a \in expired : pending[a] # NoId
    /\ pending' = [a \in Addrs |-> IF a \in expired THEN NoId ELSE pending[a]]
    /\ UNCHANGED <<appVars, clients, challenged, sockets, todo>>

Recv(a) ==
    /\ pc = "recv" /\ a \notin gone
    /\ UNCHANGED <<local, view, gone, pc, todo>>

(* a packet of a connected client: its end, a payload, or one that fails *)
RecvFromClient(a) ==
    /\ Recv(a) /\ At(a) # {}
    /\ UNCHANGED <<pending, challenged, sessions>>
    /\ \/ ClientDisconnected(At(a))
       \/ /\ \E c \in At(a) : server' = ProcessPacketFrom(server, c.id, TRUE)
          /\ UNCHANGED <<clients, marked>>
       \/ SocketDisconnect(a) /\ UNCHANGED <<server, clients>>

(* a packet of an address that is not connected *)
RecvFromOther(a) ==
    /\ Recv(a) /\ At(a) = {}
    /\ \E i \in Presents[a] : HandleResponse(a, i) \/ HandleConnectionRequest(a, i)

(* try_recv: WouldBlock on the last socket; then the loop over clients_id *)
RecvEnds ==
    /\ pc = "recv" /\ pc' = "clients"
    /\ todo' = EverySlot
    /\ UNCHANGED <<appVars, netcode, sockets>>

(* Fault: a client that timed out is only sent its disconnection. *)
UpdateClientTellsOnly(i) ==
    /\ pc = "clients" /\ Visit(i)
    /\ UNCHANGED <<appVars, netcode, sockets, pc>>

(* update_client, of a client that timed out and of one that did not *)
UpdateClientTimesOut(i) ==
    /\ pc = "clients" /\ Visit(i)
    /\ ClientDisconnected(Of(i))
    /\ UNCHANGED <<local, view, sessions, pending, challenged, gone, pc>>

UpdateClient(i) ==
    /\ pc = "clients" /\ Visit(i)
    /\ UNCHANGED <<appVars, netcode, sockets, pc>>

(* Fault: the application's own disconnections are not carried over. *)
ClientsEndSkips ==
    /\ pc = "clients" /\ todo = {}
    /\ pc' = "disconnections"
    /\ UNCHANGED <<appVars, netcode, sockets, todo>>

ClientsEnd ==
    /\ pc = "clients" /\ todo = {}
    /\ pc' = "disconnections"
    /\ todo' = Once(DisconnectionsId(server))
    /\ UNCHANGED <<appVars, netcode, sockets>>

(* netcode's disconnect of one client; it has no local clients *)
DisconnectOne(i) ==
    /\ pc \in {"disconnections", "all"} /\ Visit(i)
    /\ IF Of(i) = {} THEN UNCHANGED <<server, clients, marked>>
                     ELSE ClientDisconnected(Of(i))
    /\ UNCHANGED <<local, view, sessions, pending, challenged, gone, pc>>

(* postupdate: a web socket removes what is marked, and what ended itself *)
Postupdate(ended) ==
    /\ pc = "disconnections" /\ todo = {}
    /\ pc' = "idle"
    /\ gone' = gone \union marked \union ended
    /\ marked' = {}
    /\ UNCHANGED <<appVars, netcode, todo>>
-----------------------------------------------------------------------------
BeginSend ==
    /\ pc = "idle" /\ ClientsId(server) # {}
    /\ pc' = "send" /\ todo' = Once(ClientsId(server))
    /\ UNCHANGED <<appVars, netcode, sockets>>

(* Fault: netcode keeps the client. *)
SendAbortedKeeps(i) ==
    /\ pc = "send" /\ Visit(i)
    /\ Of(i) # {}
    /\ server' = RemoveConnection(server, i)
    /\ UNCHANGED <<local, view, sessions, netcode, sockets, pc>>

(* send_packet_to_client, when the socket says ConnectionAborted; netcode  *)
(* has no local client                                                     *)
SendAborted(i) ==
    /\ pc = "send" /\ Visit(i)
    /\ \E c \in Of(i) : clients' = clients \ {c}
    /\ server' = RemoveConnection(server, i)
    /\ UNCHANGED <<local, view, sessions, pending, challenged, sockets, pc>>

(* all packets of a client are sent, or one fails, or there is none *)
SendPackets(i) ==
    /\ pc = "send" /\ Visit(i)
    /\ UNCHANGED <<appVars, netcode, sockets, pc>>

SendEnds ==
    /\ pc = "send" /\ todo = {}
    /\ pc' = "idle"
    /\ UNCHANGED <<appVars, netcode, sockets, todo>>

(* the transport's disconnect_all, with DisconnectOne *)
BeginDisconnectAll ==
    /\ pc = "idle" /\ clients # {}
    /\ pc' = "all" /\ todo' = EverySlot
    /\ UNCHANGED <<appVars, netcode, sockets>>

DisconnectAllEnds ==
    /\ pc = "all" /\ todo = {}
    /\ pc' = "idle"
    /\ UNCHANGED <<appVars, netcode, sockets, todo>>

AppStep ==
    /\ pc = "idle" /\ Application
    /\ UNCHANGED <<netcode, sockets, pc, todo>>
-----------------------------------------------------------------------------
UpdateProceeds ==
    \/ RecvEnds \/ ClientsEnd
    \/ \E i \in Ids : UpdateClient(i) \/ UpdateClientTimesOut(i) \/ DisconnectOne(i)
    \/ \E ended \in SUBSET (WebAddrs \ gone) : Postupdate(ended)
    \/ SendEnds \/ DisconnectAllEnds
    \/ \E i \in Ids : SendPackets(i) \/ SendAborted(i)

Next ==
    \/ AppStep \/ BeginSend \/ BeginDisconnectAll
    \/ \E expired \in SUBSET Addrs : BeginUpdate(expired)
    \/ \E a \in Addrs : RecvFromClient(a) \/ RecvFromOther(a)
    \/ UpdateProceeds

(* a client whose connection is gone sends no more, and netcode notices    *)
(* when its timeout_seconds have passed                                    *)
LostTimesOut(i) == (\E c \in Of(i) : c.addr \in gone) /\ UpdateClientTimesOut(i)

(* update and send_packets return, the application calls update again and  *)
(* again, and time passes.                                                 *)
Fairness ==
    /\ WF_vars(UpdateProceeds)
    /\ SF_vars(\E expired \in SUBSET Addrs : BeginUpdate(expired))
    /\ \A i \in RemoteIds : SF_vars(LostTimesOut(i))

Spec == Init /\ [][Next]_vars /\ Fairness
-----------------------------------------------------------------------------
TypeOK ==
    /\ AppTypeOK
    /\ clients \subseteq [id : RemoteIds, addr : Addrs, session : 1 .. MaxSessions]
    /\ pending \in [Addrs -> RemoteIds \union {NoId}]
    /\ challenged \in [Addrs -> SUBSET RemoteIds]
    /\ marked \subseteq WebAddrs /\ gone \subseteq WebAddrs
    /\ pc \in {"idle", "recv", "clients", "disconnections", "send", "all"}
    /\ todo \subseteq Ids \X (0 .. MaxSessions)

(***************************************************************************)
(* An answer is of the pending client's own token: netcode's key tells, or *)
(* where the socket encrypts and netcode checks no key, the address does,  *)
(* since it presents one client id only, as that of a web session does.    *)
(* Otherwise an answer for one id may admit a pending client of another    *)
(* that is already connected, and TablesAgree and EventsTellTruth are lost.*)
(***************************************************************************)
Attributable == \A a \in Addrs \ Encrypted : \A i, j \in Presents[a] : i = j

(***************************************************************************)
(* Where packets are attributable, the two tables agree, in every step of  *)
(* update and send_packets: an id has at most one netcode client, it has   *)
(* one exactly when it has a connection, and the connection was made for   *)
(* this very session, on a socket of this reliability.  So a returning     *)
(* client never meets the channels of the session before.                  *)
(***************************************************************************)
TablesAgree ==
    /\ \A c, d \in clients : c.id = d.id \/ c.addr = d.addr => c = d
    /\ IdsOf(clients) = Present(server) \ LocalIds
    /\ \A c \in clients : /\ server.connections[c.id].session = c.session
                          /\ server.connections[c.id].reliable = Reliable(c.addr)

(***************************************************************************)
(* A connection that is disconnected, by the application or by a bad       *)
(* packet, is removed by one of the next updates, which ends the client's  *)
(* session in netcode too.                                                 *)
(***************************************************************************)
DisconnectionsEnd ==
    \A i \in RemoteIds : i \in DisconnectionsId(server) ~> i \notin DisconnectionsId(server)

(***************************************************************************)
(* A session does not outlive the connection of its address: when a web    *)
(* socket has removed the address, the client is removed from both tables, *)
(* by a send that fails or by its time-out.                                *)
(***************************************************************************)
LossesEnd == \A a \in WebAddrs : a \in gone ~> At(a) = {}
=============================================================================
