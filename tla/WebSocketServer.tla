--------------------------- MODULE WebSocketServer ---------------------------
(***************************************************************************)
(* WebSocketServer of renet2_netcode/src/websocket_socket/server: the      *)
(* calls of the transport (preupdate, try_recv, the answers of netcode,    *)
(* postupdate) interleaved with the task of every connection and with the  *)
(* reading and writing threads of every session.  Netcode may answer a     *)
(* request and disconnect an address as it likes.                          *)
(***************************************************************************)
EXTENDS WebServerState

NewServer ==
    [pending |-> {}, clients |-> {}, client_id |-> [i \in Idx |-> NoId],
     buffered |-> {}, id_to_idx |-> [d \in Ids |-> NoIdx], lost |-> {},
     current |-> 0, result |-> [i \in Idx |-> "none"], iterator |-> 0,
     recv_index |-> 0, closed |-> FALSE]

Init ==
    /\ server = NewServer
    /\ requests = <<>> /\ connections = <<>>
    /\ entering = 0
    /\ task = [i \in Idx |-> "new"]
    /\ reader = [i \in Idx |-> "none"] /\ writer = [i \in Idx |-> "none"]
    /\ inbox = [i \in Idx |-> 0] /\ quota = MaxPackets
    /\ dropped = {}
    /\ pc = "idle"
-----------------------------------------------------------------------------
(* connection_denied and disconnect *)
Disconnect(s, i) == [s EXCEPT !.lost = @ \union {i}]

(* Fault: the session that used the id before is not disconnected. *)
ConnectionAcceptedKeepsPrevious(s, d, i) ==
    IF i \notin s.pending THEN s
    ELSE [s EXCEPT !.result[i] = IF @ = "none" THEN "success" ELSE @,
                   !.client_id[i] = d, !.id_to_idx[d] = i]

ConnectionAccepted(s, d, i) ==
    IF i \notin s.pending THEN s
    ELSE [s EXCEPT !.result[i] = IF @ = "none" THEN "success" ELSE @,
                   !.client_id[i] = d,
                   !.id_to_idx[d] = i,
                   !.lost = @ \union ({s.id_to_idx[d]} \ {NoIdx, i})]

(* Fault: packets to a pending client are not kept. *)
SendToLosesAnswer(s, i) == s

(* send: for a client the packet goes to its writing thread or is dropped, *)
(* for a pending one the first packet is kept until it is a client         *)
SendTo(s, i) ==
    IF i \in s.pending \ s.clients THEN [s EXCEPT !.buffered = @ \union {i}] ELSE s

(* Fault: a client that is not tracked is counted too. *)
RemoveLostCountsAll(s, L) ==
    LET gone == L \intersect (s.pending \union s.clients)
    IN  [s EXCEPT !.clients = @ \ gone, !.pending = @ \ gone, !.lost = {},
                  !.buffered = @ \ gone,
                  !.client_id = [i \in Idx |-> IF i \in gone THEN NoId ELSE @[i]],
                  !.current = @ - Cardinality(L),
                  !.id_to_idx = [d \in Ids |-> IF @[d] \in gone THEN NoIdx ELSE @[d]],
                  !.result = [i \in Idx |->
                      IF i \in gone \ s.clients /\ @[i] = "none" THEN "failure" ELSE @[i]]]

(* the second loop of postupdate; L is lost_clients when it begins *)
RemoveLost(s, L) ==
    LET gone == L \intersect (s.pending \union s.clients)
        owns(d) == s.id_to_idx[d] \in gone /\ s.client_id[s.id_to_idx[d]] = d
    IN  [s EXCEPT !.clients = @ \ gone,
                  !.pending = @ \ gone,
                  !.buffered = @ \ gone,
                  !.client_id = [i \in Idx |-> IF i \in gone THEN NoId ELSE @[i]],
                  !.lost = {},
                  !.current = @ - Cardinality(gone),
                  !.id_to_idx = [d \in Ids |-> IF owns(d) THEN NoIdx ELSE @[d]],
                  !.result = [i \in Idx |->
                      IF i \in gone \ s.clients /\ @[i] = "none" THEN "failure" ELSE @[i]]]
-----------------------------------------------------------------------------
(* accept_connections: the check for capacity, at the start of the task *)
Accept ==
    /\ ~server.closed
    /\ entering < MaxEntering /\ server.iterator + entering < MaxIdx
    /\ server.current * 4 < MaxClients * 5
    /\ entering' = entering + 1
    /\ UNCHANGED <<server, channels, task, threads, dropped, pc>>

(* handle_connection, when the handshake or the URL is no good *)
HandshakeFails ==
    /\ entering > 0
    /\ entering' = entering - 1
    /\ UNCHANGED <<server, channels, task, threads, dropped, pc>>

(* handle_connection up to its wait for the result: an index is taken, and *)
(* the request is sent if the channel has room                             *)
HandleConnection(d) ==
    /\ entering > 0 /\ d \in TokenIds[server.iterator]
    /\ LET i == server.iterator
       IN  /\ entering' = entering - 1
           /\ server' = [server EXCEPT !.iterator = @ + 1]
           /\ requests' = IF HasRoom(requests)
                          THEN Append(requests, [idx |-> i, id |-> d])
                          ELSE requests
           /\ task' = [task EXCEPT ![i] =
                          IF HasRoom(requests) THEN "waiting" ELSE "done"]
    /\ UNCHANGED <<connections, threads, dropped, pc>>

(* handle_connection after the result, and the sending of its client,      *)
(* whose threads end again when the channel is full and the client dropped *)
FinishConnection(i) ==
    /\ task[i] = "waiting" /\ server.result[i] \in {"success", "failure"}
    /\ task' = [task EXCEPT ![i] = "done"]
    /\ IF server.result[i] = "success" /\ HasRoom(connections)
       THEN /\ connections' = Append(connections, [idx |-> i, ok |-> TRUE])
            /\ reader' = [reader EXCEPT ![i] = "running"]
            /\ writer' = [writer EXCEPT ![i] = "running"]
            /\ UNCHANGED dropped
       ELSE /\ dropped' = dropped \union {j \in {i} : server.result[j] = "success"}
            /\ UNCHANGED <<connections, reader, writer>>
    /\ server' = [server EXCEPT !.result[i] = "closed"]
    /\ UNCHANGED <<requests, entering, inbox, quota, pc>>

(* reading_thread: a packet *)
ReaderReceives(i) ==
    /\ reader[i] = "running" /\ quota > 0
    /\ inbox' = [inbox EXCEPT ![i] = @ + 1]
    /\ quota' = quota - 1
    /\ UNCHANGED <<server, channels, tasks, reader, writer, pc>>

(* reading_thread: an error, the idle timer or the end of the stream *)
ReaderEnds(i) ==
    /\ reader[i] = "running"
    /\ reader' = [reader EXCEPT ![i] = "ended"]
    /\ UNCHANGED <<server, channels, tasks, writer, inbox, quota, pc>>

(* writing_thread: a packet cannot be sent *)
WriterEnds(i) ==
    /\ writer[i] = "running"
    /\ writer' = [writer EXCEPT ![i] = "ended"]
    /\ UNCHANGED <<server, channels, tasks, reader, inbox, quota, pc>>
-----------------------------------------------------------------------------
(* the threads and packets of sessions that are dropped *)
Drop(D) ==
    /\ reader' = [i \in Idx |-> IF i \in D THEN "none" ELSE reader[i]]
    /\ writer' = [i \in Idx |-> IF i \in D THEN "none" ELSE writer[i]]
    /\ inbox'  = [i \in Idx |-> IF i \in D THEN 0 ELSE inbox[i]]
    /\ UNCHANGED quota

Update ==
    /\ pc = "idle" /\ pc' = "pre"
    /\ UNCHANGED <<server, channels, tasks, threads>>

(* one round of preupdate's loop *)
TakeConnection ==
    /\ pc = "pre" /\ connections # <<>>
    /\ connections' = Tail(connections)
    /\ LET i     == Head(connections).idx
           known == i \in server.pending
           owner == server.id_to_idx[server.client_id[i]] = i
           rest  == [server EXCEPT !.pending = @ \ {i}, !.buffered = @ \ {i}]
       IN  IF ~known
           THEN /\ Drop({i})
                /\ UNCHANGED <<server, pc>>
           ELSE IF ~owner
           THEN /\ server' = [rest EXCEPT !.current = @ - 1]
                /\ Drop({i})
                /\ pc' = "recv"
           ELSE /\ server' = SendTo([rest EXCEPT !.clients = @ \union {i}], i)
                /\ UNCHANGED <<threads, pc>>
    /\ UNCHANGED <<requests, tasks>>

PreupdateEnds ==
    /\ pc = "pre" /\ connections = <<>>
    /\ pc' = "recv"
    /\ server' = [server EXCEPT !.recv_index = 0]
    /\ UNCHANGED <<channels, tasks, threads>>

(* the request's client is tracked as pending *)
Track(s, i) == [s EXCEPT !.pending = @ \union {i}, !.current = @ + 1]

(* the end of a connection request that is too long for the buffer *)
RejectRequest ==
    /\ pc = "recv" /\ requests # <<>>
    /\ requests' = Tail(requests)
    /\ server' = [server EXCEPT !.result[Head(requests).idx] = "failure"]
    /\ UNCHANGED <<connections, tasks, threads, pc>>

(* try_recv of a connection request, and netcode's answer to it *)
RecvRequest(answer) ==
    /\ pc = "recv" /\ requests # <<>>
    /\ requests' = Tail(requests)
    /\ LET r == Head(requests)
           s == Track(server, r.idx)
           i == r.idx
       IN  server' = CASE answer = "accepted" -> SendTo(ConnectionAccepted(s, r.id, i), i)
                       [] answer = "denied"   -> Disconnect(SendTo(s, i), i)
                       [] answer = "error"    -> Disconnect(s, i)
    /\ UNCHANGED <<connections, tasks, threads, pc>>

(* one pass of try_recv over the clients from recv_index on: those before  *)
(* the one that has a packet and whose inbox is empty are not tried again, *)
(* those in big had a packet too long for the buffer and are disconnected  *)
Scan(s, big, before) ==
    LET empty == {j \in before : inbox[j] = 0}
    IN  [s EXCEPT !.recv_index = IF empty = {} THEN @ ELSE Highest(empty) + 1,
                  !.lost = @ \union big]

Popped(S) == [j \in Idx |-> IF j \in S THEN inbox[j] - 1 ELSE inbox[j]]

Scanned == {j \in server.clients : j >= server.recv_index /\ j < server.iterator}

(* try_recv of a client's packet, and netcode's answer to it; an answer to *)
(* a repeated connection request comes from a client that is not pending   *)
RecvPacket(i, answer) ==
    /\ pc = "recv" /\ requests = <<>>
    /\ i \in Scanned /\ inbox[i] > 0
    /\ LET before == {j \in Scanned : j < i}
           big    == {j \in before : inbox[j] > 0}
           s      == Scan(server, big, before)
           d      == s.client_id[i]
       IN  /\ server' = CASE answer = "none"     -> s
                          [] answer = "accepted" -> SendTo(ConnectionAccepted(s, d, i), i)
                          [] answer = "lost"     -> Disconnect(SendTo(s, i), i)
           /\ inbox' = Popped(big \union {i})
    /\ UNCHANGED <<channels, tasks, reader, writer, quota, pc>>

(* try_recv: WouldBlock, which ends the transport's loop *)
RecvEnds ==
    /\ pc = "recv" /\ requests = <<>>
    /\ LET big == {j \in Scanned : inbox[j] > 0}
       IN  /\ server' = Scan(server, big, Scanned)
           /\ inbox' = Popped(big)
    /\ pc' = "post"
    /\ UNCHANGED <<channels, tasks, reader, writer, quota>>

(* the rest of the transport's update, and its disconnect_all between two  *)
(* updates: netcode may disconnect any address it has ever seen            *)
NetcodeDisconnects(i) ==
    /\ pc \in {"idle", "post"} /\ i < server.iterator /\ i \notin server.lost
    /\ server' = Disconnect(SendTo(server, i), i)
    /\ UNCHANGED <<channels, tasks, threads, pc>>

Postupdate ==
    /\ pc = "post"
    /\ pc' = "idle"
    /\ LET finished == {i \in server.clients : "ended" \in {reader[i], writer[i]}}
           L == server.lost \union finished
       IN  /\ server' = RemoveLost(server, L)
           /\ Drop(L \intersect server.clients)
    /\ UNCHANGED <<channels, tasks>>

Close ==
    /\ ~server.closed
    /\ server' = [server EXCEPT !.closed = TRUE]
    /\ UNCHANGED <<channels, tasks, threads, pc>>
-----------------------------------------------------------------------------
UpdateStep ==
    \/ Update \/ TakeConnection \/ PreupdateEnds \/ RejectRequest
    \/ \E answer \in {"accepted", "denied", "error"} : RecvRequest(answer)
    \/ \E i \in Idx, answer \in {"none", "accepted", "lost"} : RecvPacket(i, answer)
    \/ RecvEnds \/ Postupdate

TaskStep(i) == FinishConnection(i)

Next ==
    \/ Accept \/ HandshakeFails \/ Close
    \/ \E d \in Ids : HandleConnection(d)
    \/ \E i \in Idx : TaskStep(i) \/ ReaderReceives(i) \/ ReaderEnds(i)
                      \/ WriterEnds(i) \/ NetcodeDisconnects(i)
    \/ UpdateStep

(* The application calls the transport's update again and again, and the   *)
(* runtime runs the tasks that can go on.                                  *)
Fairness ==
    /\ WF_vars(UpdateStep)
    /\ \A i \in Idx : WF_vars(TaskStep(i))

Spec == Init /\ [][Next]_vars /\ Fairness
=============================================================================
