------------------------- MODULE WebTransportClient -------------------------
(***************************************************************************)
(* WebTransportClient of renet2_netcode/src/webtransport_socket/client, in *)
(* the form of WebSocketClient: the session and the writer of the browser, *)
(* the task that sets them up and the task that reads.                     *)
(***************************************************************************)
EXTENDS Integers

CONSTANT MaxIncoming    \* bound: packets waiting to be received

(* writer: "sent" while it is in its channel, "held" by the client *)
New == [kind |-> "webtransport", closed |-> FALSE, is_disconnected |-> FALSE,
        sent_request |-> FALSE, dropped |-> FALSE,
        task |-> "waiting", session |-> "none", writer |-> "none", reader |-> "none",
        close |-> FALSE, incoming |-> 0]

IsClosed(s) == s.is_disconnected \/ s.closed

(* Fault: the writer is not looked for in its channel. *)
DisconnectHeld(s) ==
    [s EXCEPT !.writer = IF @ = "held" THEN "closed" ELSE @,
              !.is_disconnected = TRUE, !.closed = TRUE]

Disconnect(s) ==
    [s EXCEPT !.writer = IF @ \in {"sent", "held"} THEN "closed" ELSE @,
              !.is_disconnected = TRUE, !.closed = TRUE]

Drop(s) == [Disconnect(s) EXCEPT !.dropped = TRUE]

Preupdate(s) ==
    LET t == IF ~s.is_disconnected /\ s.closed THEN Disconnect(s) ELSE s
    IN  [t EXCEPT !.writer = IF @ = "sent" THEN "held" ELSE @]

(* send, with its result: without a writer the packet is ignored, and      *)
(* before the request a disconnect packet is an error (WebSocketClient)    *)
Send(s, packet, elsewhere) ==
    IF IsClosed(s) THEN [socket |-> s, ok |-> FALSE]
    ELSE IF elsewhere THEN [socket |-> Disconnect(s), ok |-> FALSE]
    ELSE [socket |-> [s EXCEPT !.sent_request = @ \/ packet = "request"],
          ok |-> s.sent_request \/ packet # "disconnect"]
-----------------------------------------------------------------------------
(* the task of new waits for the connection request *)
Starts(s) ==
    IF s.task # "waiting" THEN {}
    ELSE IF s.sent_request THEN {[s EXCEPT !.task = "opening"]}
    ELSE IF s.dropped THEN {[s EXCEPT !.task = "done", !.closed = TRUE]} ELSE {}

(* init_web_transport returns: an error is only sent to the close channel, *)
(* a failure to get the writer to nobody; a client that has been closed    *)
(* meanwhile gets no writer                                                *)
Opens(s) ==
    IF s.task # "opening" THEN {}
    ELSE {[s EXCEPT !.task = "done", !.close = TRUE],
          [s EXCEPT !.task = "done", !.session = "closed"],
          IF s.closed
          THEN [s EXCEPT !.task = "done", !.writer = "closed", !.session = "closed"]
          ELSE [s EXCEPT !.task = "closing", !.writer = "sent", !.session = "open",
                         !.reader = "running"]}

(* the task waits for the close channel *)
Closes(s) ==
    IF s.task # "closing" \/ ~s.close THEN {}
    ELSE {[s EXCEPT !.task = "done", !.closed = TRUE, !.session = "closed"]}

(* reader_task: a packet, unless it is too large or nobody takes it, and   *)
(* the end of the stream or of the client                                  *)
Reads(s) ==
    IF s.reader # "running" THEN {}
    ELSE IF s.closed \/ s.dropped \/ s.session = "closed"
         THEN {[s EXCEPT !.reader = "ended"]}
    ELSE {[s EXCEPT !.reader = "ended"],
          [s EXCEPT !.incoming = IF @ < MaxIncoming THEN @ + 1 ELSE @]}

(* the on-close callback *)
OnClose(s) ==
    IF s.session # "open" THEN {}
    ELSE {[s EXCEPT !.session = "closed", !.close = TRUE]}

TaskSteps(s) == Starts(s) \union Closes(s)
BrowserSteps(s) == Reads(s) \union OnClose(s)
=============================================================================
