---------------------------- MODULE MCWebServers ----------------------------
(***************************************************************************)
(* Instances of both web sockets for TLC: a behaviour is one of a          *)
(* WebSocketServer or one of a WebTransportServer.                         *)
(***************************************************************************)
EXTENDS WebServerState

VARIABLE kind

WebSocket == INSTANCE WebSocketServer
WebTransport == INSTANCE WebTransportServer

MCInit ==
    /\ kind \in {"websocket", "webtransport"}
    /\ WebSocket!Init

MCNext ==
    /\ \/ kind = "websocket" /\ WebSocket!Next
       \/ kind = "webtransport" /\ WebTransport!Next
    /\ UNCHANGED kind

Either(A, B) == (kind = "websocket" /\ A) \/ (kind = "webtransport" /\ B)

(* the fairness of both, for the one that runs *)
MCSpec ==
    /\ MCInit /\ [][MCNext]_<<vars, kind>>
    /\ WF_vars(Either(WebSocket!UpdateStep, WebTransport!UpdateStep))
    /\ \A i \in Idx : WF_vars(Either(WebSocket!TaskStep(i), WebTransport!TaskStep(i)))

(* two connections, each with a token of any client *)
AnyToken == [i \in 0 .. 1 |-> Ids]
=============================================================================
