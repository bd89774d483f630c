------------------------- MODULE WebTransportServer -------------------------
(***************************************************************************)
(* WebTransportServer of renet2_netcode/src/webtransport_socket/server.    *)
(* Unlike WebSocketServer, the task of a connection waits for the session  *)
(* after netcode has accepted its request, and reports a failure; the      *)
(* reading thread starts when the connection becomes a client; datagrams   *)
(* are sent by the socket itself, which finds out that a session is gone.  *)
(* writer stands for the session's ability to send.                        *)
(***************************************************************************)
EXTENDS WebServerState

NewServer ==
    [pending |-> {}, clients |-> {}, client_id |-> [i \in Idx |-> NoId],
     buffered |-> {}, id_to_idx |-> [d \in Ids |-> NoIdx], lost |-> {},
     current |-> 0, result |-> [i \in Idx |-> "none"], iterator |-> 0,
     recv_index |-> 0, closed |-> FALSE]

Init ==
    /\ server = NewServer
    /\ requests = <<>> /\ connections = <<>>
    /\ entering = 0
    /\ task = [i \in Idx |-> "new"]
    /\ reader = [i \in Idx |-> "none"] /\ writer = [i \in Idx |-> "none"]
    /\ inbox = [i \in Idx |-> 0] /\ quota = MaxPackets
    /\ dropped = {}
    /\ pc = "idle"
-----------------------------------------------------------------------------
(* connection_denied and disconnect *)
Disconnect(s, i) == [s EXCEPT !.lost = @ \union {i}]

ConnectionAccepted(s, d, i) ==
    IF i \notin s.pending THEN s
    ELSE [s EXCEPT !.result[i] = IF @ = "none" THEN "success" ELSE @,
                   !.client_id[i] = d,
                   !.id_to_idx[d] = i,
                   !.lost = @ \union ({s.id_to_idx[d]} \ {NoIdx, i})]

(* send: a datagram for a client, which is disconnected if its session is  *)
(* gone; for a pending one the first packet is kept until it is a client   *)
SendTo(s, i) ==
    IF i \in s.clients
    THEN IF writer[i] = "ended" THEN Disconnect(s, i) ELSE s
    ELSE IF i \in s.pending THEN [s EXCEPT !.buffered = @ \union {i}] ELSE s

(* the second loop of postupdate; L is lost_clients when it begins *)
RemoveLost(s, L) ==
    LET gone == L \intersect (s.pending \union s.clients)
        owns(d) == s.id_to_idx[d] \in gone /\ s.client_id[s.id_to_idx[d]] = d
    IN  [s EXCEPT !.clients = @ \ gone,
                  !.pending = @ \ gone,
                  !.buffered = @ \ gone,
                  !.client_id = [i \in Idx |-> IF i \in gone THEN NoId ELSE @[i]],
                  !.lost = {},
                  !.current = @ - Cardinality(gone),
                  !.id_to_idx = [d \in Ids |-> IF owns(d) THEN NoIdx ELSE @[d]],
                  !.result = [i \in Idx |->
                      IF i \in gone \ s.clients /\ @[i] = "none" THEN "failure" ELSE @[i]]]
-----------------------------------------------------------------------------
(* accept_connection: the check for capacity *)
Accept ==
    /\ ~server.closed
    /\ entering < MaxEntering /\ server.iterator + entering < MaxIdx
    /\ server.current * 4 < MaxClients * 5
    /\ entering' = entering + 1
    /\ UNCHANGED <<server, channels, task, threads, dropped, pc>>

(* the connection or its session request fails, or the URL is no good *)
HandshakeFails ==
    /\ entering > 0
    /\ entering' = entering - 1
    /\ UNCHANGED <<server, channels, task, threads, dropped, pc>>

(* handle_session_request up to its wait for the result: an index is       *)
(* taken, and the request is sent if the channel has room                  *)
HandleSessionRequest(d) ==
    /\ entering > 0 /\ d \in TokenIds[server.iterator]
    /\ LET i == server.iterator
       IN  /\ entering' = entering - 1
           /\ server' = [server EXCEPT !.iterator = @ + 1]
           /\ requests' = IF HasRoom(requests)
                          THEN Append(requests, [idx |-> i, id |-> d])
                          ELSE requests
           /\ task' = [task EXCEPT ![i] =
                          IF HasRoom(requests) THEN "waiting" ELSE "done"]
    /\ UNCHANGED <<connections, threads, dropped, pc>>

(* handle_session_request receives the result *)
ReceiveResult(i) ==
    /\ task[i] = "waiting" /\ server.result[i] \in {"success", "failure"}
    /\ task' = [task EXCEPT ![i] =
                   IF server.result[i] = "success" THEN "accepting" ELSE "done"]
    /\ server' = [server EXCEPT !.result[i] = "closed"]
    /\ UNCHANGED <<channels, entering, threads, dropped, pc>>

(* Fault: a session that cannot be accepted is not reported. *)
FinishSessionSilently(i, ok) ==
    /\ task[i] = "accepting"
    /\ task' = [task EXCEPT ![i] = "done"]
    /\ IF ok /\ HasRoom(connections)
       THEN /\ connections' = Append(connections, [idx |-> i, ok |-> ok])
            /\ writer' = [writer EXCEPT ![i] = "running"]
            /\ UNCHANGED dropped
       ELSE /\ dropped' = IF ok THEN dropped \union {i} ELSE dropped
            /\ UNCHANGED <<connections, writer>>
    /\ UNCHANGED <<server, requests, entering, reader, inbox, quota, pc>>

(* the session is accepted or not, and either is reported to the server *)
FinishSession(i, ok) ==
    /\ task[i] = "accepting"
    /\ task' = [task EXCEPT ![i] = "done"]
    /\ IF HasRoom(connections)
       THEN /\ connections' = Append(connections, [idx |-> i, ok |-> ok])
            /\ writer' = [writer EXCEPT ![i] = IF ok THEN "running" ELSE @]
            /\ UNCHANGED dropped
       ELSE /\ dropped' = dropped \union {i}
            /\ UNCHANGED <<connections, writer>>
    /\ UNCHANGED <<server, requests, entering, reader, inbox, quota, pc>>

(* reading_thread: a packet *)
ReaderReceives(i) ==
    /\ reader[i] = "running" /\ quota > 0
    /\ inbox' = [inbox EXCEPT ![i] = @ + 1]
    /\ quota' = quota - 1
    /\ UNCHANGED <<server, channels, tasks, reader, writer, pc>>

(* reading_thread: the idle timer, which also ends a session that is gone *)
ReaderEnds(i) ==
    /\ reader[i] = "running"
    /\ reader' = [reader EXCEPT ![i] = "ended"]
    /\ UNCHANGED <<server, channels, tasks, writer, inbox, quota, pc>>

(* the session is closed by its peer or lost *)
SessionCloses(i) ==
    /\ writer[i] = "running"
    /\ writer' = [writer EXCEPT ![i] = "ended"]
    /\ UNCHANGED <<server, channels, tasks, reader, inbox, quota, pc>>
-----------------------------------------------------------------------------
(* the threads and packets of sessions that are dropped *)
Drop(D) ==
    /\ reader' = [i \in Idx |-> IF i \in D THEN "none" ELSE reader[i]]
    /\ writer' = [i \in Idx |-> IF i \in D THEN "none" ELSE writer[i]]
    /\ inbox'  = [i \in Idx |-> IF i \in D THEN 0 ELSE inbox[i]]
    /\ UNCHANGED quota

Update ==
    /\ pc = "idle" /\ pc' = "pre"
    /\ UNCHANGED <<server, channels, tasks, threads>>

(* one round of preupdate's loop *)
TakeConnection ==
    /\ pc = "pre" /\ connections # <<>>
    /\ connections' = Tail(connections)
    /\ LET i     == Head(connections).idx
           known == i \in server.pending
           owner == server.id_to_idx[server.client_id[i]] = i
           rest  == [server EXCEPT !.pending = @ \ {i}, !.buffered = @ \ {i}]
       IN  IF ~Head(connections).ok
           THEN /\ server' = Disconnect(server, i)
                /\ UNCHANGED <<threads, pc>>
           ELSE IF ~known
           THEN /\ Drop({i})
                /\ UNCHANGED <<server, pc>>
           ELSE IF ~owner
           THEN /\ server' = [rest EXCEPT !.current = @ - 1]
                /\ Drop({i})
                /\ pc' = "recv"
           ELSE /\ server' = SendTo([rest EXCEPT !.clients = @ \union {i}], i)
                /\ reader' = [reader EXCEPT ![i] = "running"]
                /\ UNCHANGED <<writer, inbox, quota, pc>>
    /\ UNCHANGED <<requests, tasks>>

PreupdateEnds ==
    /\ pc = "pre" /\ connections = <<>>
    /\ pc' = "recv"
    /\ server' = [server EXCEPT !.recv_index = 0]
    /\ UNCHANGED <<channels, tasks, threads>>

Track(s, i) == [s EXCEPT !.pending = @ \union {i}, !.current = @ + 1]

(* the end of a connection request that is too long for the buffer *)
RejectRequest ==
    /\ pc = "recv" /\ requests # <<>>
    /\ requests' = Tail(requests)
    /\ server' = [server EXCEPT !.result[Head(requests).idx] = "failure"]
    /\ UNCHANGED <<connections, tasks, threads, pc>>

(* try_recv of a connection request, and netcode's answer to it *)
RecvRequest(answer) ==
    /\ pc = "recv" /\ requests # <<>>
    /\ requests' = Tail(requests)
    /\ LET r == Head(requests)
           s == Track(server, r.idx)
           i == r.idx
       IN  server' = CASE answer = "accepted" -> SendTo(ConnectionAccepted(s, r.id, i), i)
                       [] answer = "denied"   -> Disconnect(SendTo(s, i), i)
                       [] answer = "error"    -> Disconnect(s, i)
    /\ UNCHANGED <<connections, tasks, threads, pc>>

(* one pass of try_recv over the clients from recv_index on: those before  *)
(* the one that has a packet and whose inbox is empty are not tried again, *)
(* those in big had a packet too long for the buffer and are disconnected  *)
Scan(s, big, before) ==
    LET empty == {j \in before : inbox[j] = 0}
    IN  [s EXCEPT !.recv_index = IF empty = {} THEN @ ELSE Highest(empty) + 1,
                  !.lost = @ \union big]

Popped(S) == [j \in Idx |-> IF j \in S THEN inbox[j] - 1 ELSE inbox[j]]

Scanned == {j \in server.clients : j >= server.recv_index /\ j < server.iterator}

(* try_recv of a client's packet, and netcode's answer to it; an answer to *)
(* a repeated connection request comes from a client that is not pending   *)
RecvPacket(i, answer) ==
    /\ pc = "recv" /\ requests = <<>>
    /\ i \in Scanned /\ inbox[i] > 0
    /\ LET before == {j \in Scanned : j < i}
           big    == {j \in before : inbox[j] > 0}
           s      == Scan(server, big, before)
           d      == s.client_id[i]
       IN  /\ server' = CASE answer = "none"     -> s
                          [] answer = "accepted" -> SendTo(ConnectionAccepted(s, d, i), i)
                          [] answer = "lost"     -> Disconnect(SendTo(s, i), i)
           /\ inbox' = Popped(big \union {i})
    /\ UNCHANGED <<channels, tasks, reader, writer, quota, pc>>

(* try_recv: WouldBlock, which ends the transport's loop *)
RecvEnds ==
    /\ pc = "recv" /\ requests = <<>>
    /\ LET big == {j \in Scanned : inbox[j] > 0}
       IN  /\ server' = Scan(server, big, Scanned)
           /\ inbox' = Popped(big)
    /\ pc' = "post"
    /\ UNCHANGED <<channels, tasks, reader, writer, quota>>

(* the rest of the transport's update, and its disconnect_all between two  *)
(* updates: netcode may disconnect any address it has ever seen            *)
NetcodeDisconnects(i) ==
    /\ pc \in {"idle", "post"} /\ i < server.iterator /\ i \notin server.lost
    /\ server' = Disconnect(SendTo(server, i), i)
    /\ UNCHANGED <<channels, tasks, threads, pc>>

Postupdate ==
    /\ pc = "post"
    /\ pc' = "idle"
    /\ LET finished == {i \in server.clients : reader[i] = "ended"}
           L == server.lost \union finished
       IN  /\ server' = RemoveLost(server, L)
           /\ Drop(L \intersect server.clients)
    /\ UNCHANGED <<channels, tasks>>

(* send, called by the transport's send_packets between two updates *)
Send(i) ==
    /\ pc = "idle" /\ i < server.iterator
    /\ server' = SendTo(server, i)
    /\ UNCHANGED <<channels, tasks, threads, pc>>

Close ==
    /\ ~server.closed
    /\ server' = [server EXCEPT !.closed = TRUE]
    /\ UNCHANGED <<channels, tasks, threads, pc>>
-----------------------------------------------------------------------------
UpdateStep ==
    \/ Update \/ TakeConnection \/ PreupdateEnds \/ RejectRequest
    \/ \E answer \in {"accepted", "denied", "error"} : RecvRequest(answer)
    \/ \E i \in Idx, answer \in {"none", "accepted", "lost"} : RecvPacket(i, answer)
    \/ RecvEnds \/ Postupdate

TaskStep(i) == ReceiveResult(i) \/ \E ok \in BOOLEAN : FinishSession(i, ok)

Next ==
    \/ Accept \/ HandshakeFails \/ Close
    \/ \E d \in Ids : HandleSessionRequest(d)
    \/ \E i \in Idx : TaskStep(i) \/ ReaderReceives(i) \/ ReaderEnds(i)
                      \/ SessionCloses(i) \/ NetcodeDisconnects(i) \/ Send(i)
    \/ UpdateStep

(* The application calls the transport's update again and again, and the   *)
(* runtime runs the tasks that can go on; accepting a session ends.        *)
Fairness ==
    /\ WF_vars(UpdateStep)
    /\ \A i \in Idx : WF_vars(TaskStep(i))

Spec == Init /\ [][Next]_vars /\ Fairness
=============================================================================
