--------------------------- MODULE WebSocketClient ---------------------------
(***************************************************************************)
(* WebSocketClient of renet2_netcode/src/websocket_socket/client: a socket *)
(* of the browser, the tasks and callbacks that serve it, and the calls of *)
(* the transport.  All run in one thread, each until it awaits.  Operators *)
(* on the record of the client; the steps of its tasks give the set of its *)
(* next records.                                                           *)
(***************************************************************************)
EXTENDS Integers

CONSTANT MaxIncoming    \* bound: packets waiting to be received

(* broken and farewell are history fields: the browser reported the end of *)
(* the connection; what became of the disconnect packet                    *)
New == [kind |-> "websocket", closed |-> FALSE, is_disconnected |-> FALSE,
        sent_request |-> FALSE, dropped |-> FALSE,
        task |-> "waiting", ws |-> "none", forward |-> "none", listener |-> "none",
        close |-> FALSE, incoming |-> 0, outgoing |-> FALSE,
        broken |-> FALSE, farewell |-> "none"]

IsClosed(s) == s.is_disconnected \/ s.closed

(* Fault: the request to close is sent, too. *)
DisconnectAtOnce(s) == [s EXCEPT !.is_disconnected = TRUE, !.closed = TRUE, !.close = TRUE]

(* disconnect: the future that close_sender.send returns is dropped before *)
(* it is polled, so nothing is sent                                        *)
Disconnect(s) == [s EXCEPT !.is_disconnected = TRUE, !.closed = TRUE]

Drop(s) == [Disconnect(s) EXCEPT !.dropped = TRUE]

Preupdate(s) == IF ~s.is_disconnected /\ s.closed THEN Disconnect(s) ELSE s

(* the outgoing channel is open while a task has its receiver *)
CanForward(s) == s.task \in {"waiting", "opening"} \/ s.forward = "running"

(* send, with its result; elsewhere: to an address that is not the server. *)
(* Before the request the NetcodeClient has sent nothing: its disconnect   *)
(* packet has sequence 0 and is too small for packet_type_from_buffer.     *)
Send(s, packet, elsewhere) ==
    IF IsClosed(s) THEN [socket |-> s, ok |-> FALSE]
    ELSE IF elsewhere THEN [socket |-> Disconnect(s), ok |-> FALSE]
    ELSE IF ~s.sent_request
         THEN [socket |-> [s EXCEPT !.sent_request = (packet = "request")],
               ok |-> packet # "disconnect"]
    ELSE IF ~CanForward(s) THEN [socket |-> Disconnect(s), ok |-> FALSE]
    ELSE [socket |-> [s EXCEPT !.outgoing = TRUE,
                               !.farewell = IF packet = "disconnect" THEN "queued" ELSE @],
          ok |-> TRUE]
-----------------------------------------------------------------------------
(* the task of new waits for the connection request, or for its sender's   *)
(* end; the browser may refuse the URL                                     *)
Starts(s) ==
    IF s.task # "waiting" THEN {}
    ELSE IF s.sent_request
         THEN {[s EXCEPT !.task = "opening", !.ws = "opening"],
               [s EXCEPT !.task = "done", !.closed = TRUE, !.broken = TRUE]}
    ELSE IF s.dropped THEN {[s EXCEPT !.task = "done", !.closed = TRUE]} ELSE {}

(* the socket opens, and two more tasks start, or it fails *)
Opens(s) ==
    IF s.task # "opening" THEN {}
    ELSE {[s EXCEPT !.task = "done", !.ws = "open", !.forward = "running",
                    !.listener = "running"],
          [s EXCEPT !.task = "done", !.ws = "closed", !.closed = TRUE, !.close = TRUE,
                    !.broken = TRUE]}

(* on_message, whose receiver is gone with the client *)
OnMessage(s) ==
    IF s.ws # "open" THEN {}
    ELSE IF s.dropped THEN {[s EXCEPT !.closed = TRUE, !.close = TRUE]}
    ELSE IF s.incoming < MaxIncoming THEN {[s EXCEPT !.incoming = @ + 1]} ELSE {}

(* on_close and on_error *)
OnClose(s) ==
    IF s.ws # "open" THEN {}
    ELSE {[s EXCEPT !.ws = "closed", !.closed = TRUE, !.close = TRUE, !.broken = TRUE]}

(* the task that forwards packets: sends all that wait, and ends when the  *)
(* socket is not open, a packet cannot be sent, or the client is dropped   *)
Forwards(s) ==
    LET sent  == [s EXCEPT !.outgoing = FALSE,
                           !.farewell = IF @ = "queued" THEN "sent" ELSE @]
        ended(r) == [r EXCEPT !.forward = "ended", !.closed = TRUE, !.close = TRUE]
    IN  IF s.forward # "running" THEN {}
        ELSE IF s.outgoing /\ s.ws # "open" THEN {ended(s)}
        ELSE IF s.dropped THEN {ended(sent)}
        ELSE IF s.outgoing
             THEN {sent, [ended(s) EXCEPT !.ws = "closed", !.broken = TRUE]}
        ELSE {}

(* the task that listens for closes *)
Listens(s) ==
    IF s.listener # "running" \/ ~s.close THEN {}
    ELSE {[s EXCEPT !.listener = "ended", !.ws = "closed", !.closed = TRUE]}

(* tasks that are ready run before the browser's next event *)
TaskSteps(s) == Starts(s) \union Forwards(s) \union Listens(s)
BrowserSteps(s) == OnMessage(s) \union OnClose(s)
=============================================================================
