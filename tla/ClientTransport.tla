--------------------------- MODULE ClientTransport ---------------------------
(***************************************************************************)
(* NetcodeClientTransport of renet2_netcode/src/client.rs, between the     *)
(* application's RenetClient, the NetcodeClient and a socket: a web socket *)
(* of the browser, or one of datagrams (UDP or in-memory channels), which  *)
(* has no end of its own.  Each of the three may end first.                *)
(*                                                                         *)
(* update is one step: nothing runs while it holds the three of them.      *)
(***************************************************************************)
EXTENDS Integers

CONSTANT MaxIncoming    \* bound: packets waiting in a socket

VARIABLES
    renet,          \* status of the RenetClient
    netcode,        \* state of the NetcodeClient
    moved,          \* the NetcodeClient has gone on to another server address
    socket

vars == <<renet, netcode, moved, socket>>

WS == INSTANCE WebSocketClient
WT == INSTANCE WebTransportClient

Datagram == [kind |-> "datagram", incoming |-> 0, dropped |-> FALSE]

Web(s) == s.kind # "datagram"

IsClosed(s) == Web(s) /\ (s.is_disconnected \/ s.closed)

Close(s) == CASE s.kind = "websocket"    -> WS!Disconnect(s)
              [] s.kind = "webtransport" -> WT!Disconnect(s)
              [] s.kind = "datagram"     -> s

Drop(s) == CASE s.kind = "websocket"    -> WS!Drop(s)
             [] s.kind = "webtransport" -> WT!Drop(s)
             [] s.kind = "datagram"     -> [s EXCEPT !.dropped = TRUE]

Preupdate(s) == CASE s.kind = "websocket"    -> WS!Preupdate(s)
                  [] s.kind = "webtransport" -> WT!Preupdate(s)
                  [] s.kind = "datagram"     -> s

(* the results that send may have; one of datagrams may always fail *)
Sends(s, packet) ==
    CASE s.kind = "websocket"    -> {WS!Send(s, packet, moved)}
      [] s.kind = "webtransport" -> {WT!Send(s, packet, moved)}
      [] s.kind = "datagram"     -> [socket : {s}, ok : BOOLEAN]

Init ==
    /\ renet = "connecting" /\ netcode = "connecting" /\ moved = FALSE
    /\ socket \in {WS!New, WT!New, Datagram}
-----------------------------------------------------------------------------
Updating == ~socket.dropped

(* update, when the NetcodeClient is disconnected *)
UpdateEnded ==
    /\ Updating /\ netcode = "disconnected"
    /\ renet' = "disconnected"
    /\ socket' = Close(socket)
    /\ UNCHANGED <<netcode, moved>>

(* Fault: a closed socket does not end the RenetClient. *)
UpdateDisconnectsAsked ==
    /\ Updating /\ netcode # "disconnected" /\ renet = "disconnected"
    /\ netcode' = "disconnected"
    /\ IF IsClosed(socket) THEN UNCHANGED socket
       ELSE \E r \in Sends(socket, "disconnect") :
              socket' = IF r.ok THEN Close(r.socket) ELSE r.socket
    /\ UNCHANGED <<renet, moved>>

(* update, when the socket is closed or the RenetClient disconnected: a    *)
(* send that fails leaves the socket to the next update                    *)
UpdateDisconnects ==
    /\ Updating /\ netcode # "disconnected"
    /\ IsClosed(socket) \/ renet = "disconnected"
    /\ renet' = "disconnected"
    /\ netcode' = "disconnected"
    /\ IF IsClosed(socket) THEN UNCHANGED socket
       ELSE \E r \in Sends(socket, "disconnect") :
              socket' = IF r.ok THEN Close(r.socket) ELSE r.socket
    /\ UNCHANGED moved

(* process_packet of the NetcodeClient, for the packets of one update *)
Processed(n) == CASE n = "connecting" -> {"connecting", "connected", "disconnected"}
                  [] n = "connected"  -> {"connected", "disconnected"}

(* its update: it may time out, or go on to the next address *)
Timed(n) == {[state |-> n, moved |-> moved], [state |-> "disconnected", moved |-> moved]}
            \union {[state |-> k, moved |-> TRUE] : k \in {n} \intersect {"connecting"}}

(* the packet it has to send then *)
Generated(n) == CASE n = "connecting"   -> {"none", "request", "response"}
                  [] n = "connected"    -> {"none", "keepalive"}
                  [] n = "disconnected" -> {"none"}

Follow(n) == IF n = "connected" THEN "connected" ELSE "connecting"

(* update, when all is well: the packets, one of which may be too long for *)
(* the buffer and end the update, then the NetcodeClient's update          *)
UpdateReceives ==
    /\ Updating /\ netcode # "disconnected" /\ renet # "disconnected" /\ ~IsClosed(socket)
    /\ LET s == [Preupdate(socket) EXCEPT !.incoming = 0]
           packets == socket.incoming > 0
       IN  \E n \in IF packets THEN Processed(netcode) ELSE {netcode}, breaks \in BOOLEAN :
             /\ breaks => packets /\ n # "connecting"
             /\ renet' = IF breaks THEN "disconnected" ELSE Follow(netcode)
             /\ \/ packets /\ netcode' = n /\ socket' = s /\ UNCHANGED moved
                \/ \E t \in IF n = "disconnected" THEN {[state |-> n, moved |-> moved]}
                            ELSE Timed(n) :
                     /\ netcode' = t.state /\ moved' = t.moved
                     /\ \E packet \in Generated(t.state) :
                          IF packet = "none" THEN socket' = s
                          ELSE \E r \in Sends(s, packet) : socket' = r.socket

(* send_packets: an error of the socket is returned *)
SendPackets ==
    /\ Updating /\ netcode = "connected" /\ renet # "disconnected"
    /\ \E r \in Sends(socket, "payload") : socket' = r.socket
    /\ UNCHANGED <<renet, netcode, moved>>

(* disconnect of the transport *)
Disconnect ==
    /\ Updating /\ netcode # "disconnected"
    /\ netcode' = "disconnected"
    /\ \E r \in Sends(socket, "disconnect") : socket' = r.socket
    /\ UNCHANGED <<renet, moved>>

(* the RenetClient is disconnected by the application or by a message that *)
(* a channel has no memory for                                             *)
RenetDisconnects ==
    /\ renet # "disconnected"
    /\ renet' = "disconnected"
    /\ UNCHANGED <<netcode, moved, socket>>

DropTransport ==
    /\ Updating
    /\ socket' = Drop(socket)
    /\ UNCHANGED <<renet, netcode, moved>>

Tasks(s) == CASE s.kind = "websocket"    -> WS!TaskSteps(s)
              [] s.kind = "webtransport" -> WT!TaskSteps(s)
              [] s.kind = "datagram"     -> {}

Opened(s) == CASE s.kind = "websocket"    -> WS!Opens(s)
               [] s.kind = "webtransport" -> WT!Opens(s)
               [] s.kind = "datagram"     -> {}

Events(s) == CASE s.kind = "websocket"    -> WS!BrowserSteps(s)
               [] s.kind = "webtransport" -> WT!BrowserSteps(s)
               [] s.kind = "datagram"     -> IF s.incoming < MaxIncoming
                                             THEN {[s EXCEPT !.incoming = @ + 1]} ELSE {}

RunTask == socket' \in Tasks(socket) /\ UNCHANGED <<renet, netcode, moved>>

Open == Tasks(socket) = {} /\ socket' \in Opened(socket) /\ UNCHANGED <<renet, netcode, moved>>

Event == Tasks(socket) = {} /\ socket' \in Events(socket) /\ UNCHANGED <<renet, netcode, moved>>
-----------------------------------------------------------------------------
Update == UpdateEnded \/ UpdateDisconnects \/ UpdateReceives

Next ==
    \/ Update \/ SendPackets \/ Disconnect \/ RenetDisconnects \/ DropTransport
    \/ RunTask \/ Open \/ Event

(* the application calls update again and again, the runtime runs the      *)
(* tasks, and the browser ends its attempt to open a connection            *)
Fairness == WF_vars(Update) /\ WF_vars(RunTask) /\ WF_vars(Open)

Spec == Init /\ [][Next]_vars /\ Fairness
-----------------------------------------------------------------------------
Ended(s) == renet = "disconnected" \/ netcode = "disconnected" \/ IsClosed(s)

AllEnded(s) == renet = "disconnected" /\ netcode = "disconnected" /\ (Web(s) => IsClosed(s))

(***************************************************************************)
(* The three end together: whichever of the RenetClient, the NetcodeClient *)
(* and the socket ends first, and however a send fails on the way, a few   *)
(* updates later all have ended (unless the application drops them).       *)
(***************************************************************************)
EndsTogether == Ended(socket) ~> AllEnded(socket) \/ socket.dropped

(***************************************************************************)
(* The server is told: a disconnect packet that the WebSocket client takes *)
(* is sent, although the client is closed right after it and may be        *)
(* dropped, unless the browser has lost the connection.                    *)
(***************************************************************************)
FarewellLeaves ==
    (socket.kind = "websocket" /\ socket.farewell = "queued")
        ~> (socket.kind = "websocket" /\ (socket.farewell = "sent" \/ socket.broken))

(***************************************************************************)
(* A WebTransport client that has been closed has no open writer, wherever *)
(* it was then: the "race conditions" that the setup of the client has to  *)
(* be careful of.                                                          *)
(***************************************************************************)
WriterLetGo ==
    socket.kind = "webtransport" /\ socket.is_disconnected => socket.writer \notin {"sent", "held"}
=============================================================================
