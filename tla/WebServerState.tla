--------------------------- MODULE WebServerState ---------------------------
(***************************************************************************)
(* What the two web sockets of a server have in common: the state of       *)
(* WebSocketServer and WebTransportServer (renet2_netcode), shared by the  *)
(* thread that owns the socket and the tokio tasks of its connections, and *)
(* the properties both must have.                                          *)
(*                                                                         *)
(* A connection is known by its index, counted up by client_iterator; the  *)
(* netcode layer sees the index as an address.  Payloads are left out.     *)
(***************************************************************************)
EXTENDS Integers, Sequences, FiniteSets

CONSTANTS
    Ids,            \* netcode client ids
    NoId,           \* client_id: None
    TokenIds,       \* the ids that the connection of an index may claim
    MaxClients,     \* max_clients, also the capacity of both channels
    MaxIdx,         \* bound: connections that get an index
    MaxEntering,    \* bound: connections between accept and their index
    MaxPackets      \* bound: packets the peers of all sessions send

ASSUME WebServerAssumption ==
    /\ MaxClients \in Nat \ {0}
    /\ MaxIdx \in Nat
    /\ MaxEntering \in Nat
    /\ MaxPackets \in Nat
    /\ NoId \notin Ids
    /\ TokenIds \in [0 .. (MaxIdx - 1) -> SUBSET Ids]

VARIABLES
    server,         \* the socket's own fields and the channels it answers on
    requests,       \* connection_req channel: indices, with the id of the token
    connections,    \* connection channel: finished connections
    entering,       \* tasks past the check for capacity, without an index
    task,           \* the task of each index
    reader,         \* its reading thread
    writer,         \* its writing thread, or the sending half of its session
    inbox,          \* packets read and not yet received
    quota,          \* packets that the peers still send
    dropped,        \* history: connections lost to a full channel
    pc              \* where the transport's update is

channels == <<requests, connections>>
tasks == <<entering, task, dropped>>
threads == <<reader, writer, inbox, quota>>
vars == <<server, channels, tasks, threads, pc>>

Idx == 0 .. (MaxIdx - 1)
NoIdx == -1

(* try_send on a bounded channel finds room *)
HasRoom(channel) == Len(channel) < MaxClients

Lowest(S) == CHOOSE i \in S : \A j \in S : i <= j
Highest(S) == CHOOSE i \in S : \A j \in S : i >= j

TypeOK ==
    /\ server \in [pending : SUBSET Idx, clients : SUBSET Idx,
                   client_id : [Idx -> Ids \union {NoId}],
                   buffered : SUBSET Idx,
                   id_to_idx : [Ids -> Idx \union {NoIdx}],
                   lost : SUBSET Idx, current : Int,
                   result : [Idx -> {"none", "success", "failure", "closed"}],
                   iterator : Nat, recv_index : Nat, closed : BOOLEAN]
    /\ requests \in Seq([idx : Idx, id : Ids])
    /\ connections \in Seq([idx : Idx, ok : BOOLEAN])
    /\ entering \in Nat
    /\ task \in [Idx -> {"new", "waiting", "accepting", "done"}]
    /\ reader \in [Idx -> {"none", "running", "ended"}]
    /\ writer \in [Idx -> {"none", "running", "ended"}]
    /\ inbox \in [Idx -> Nat]
    /\ quota \in Nat
    /\ dropped \subseteq Idx
    /\ pc \in {"idle", "pre", "recv", "post"}
-----------------------------------------------------------------------------
Sessions == server.pending \union server.clients

(***************************************************************************)
(* current_clients, which the accepting task reads to refuse connections,  *)
(* counts the sessions exactly: the debug assertion of postupdate.  A      *)
(* session may be reported lost several times, by netcode, by its usurper  *)
(* and by its reader, before or after it has become a client.              *)
(***************************************************************************)
CountIsExact == server.current = Cardinality(Sessions)

(* A session that is not reported lost, or that was tracked before the     *)
(* last postupdate: preupdate may make it a client.                        *)
MayBeClient(i) == i \notin server.lost \/ pc \in {"idle", "pre"}

(***************************************************************************)
(* A client id belongs to one session.  Every session that may be or       *)
(* become a client owns the slot of its id in client_id_to_idx, and every  *)
(* slot leads to a session with that id; so no id has two sessions once    *)
(* postupdate is done, and the check in preupdate that "should not be      *)
(* possible" to fail cannot fail, however late a connection arrives after  *)
(* another one has usurped its id, or after disconnect_all.                *)
(***************************************************************************)
SlotsAreOwned ==
    /\ \A i \in Sessions : MayBeClient(i) =>
         server.client_id[i] # NoId /\ server.id_to_idx[server.client_id[i]] = i
    /\ \A d \in Ids : server.id_to_idx[d] # NoIdx =>
         server.id_to_idx[d] \in Sessions /\ server.client_id[server.id_to_idx[d]] = d

(***************************************************************************)
(* The answer to its connection request waits for every session that may   *)
(* still become a client, so preupdate never misses it ("internal error:   *)
(* pending client was missing a connection response").                     *)
(***************************************************************************)
AnswersWait == \A i \in server.pending : MayBeClient(i) => i \in server.buffered

(***************************************************************************)
(* A slot is not occupied for ever: a pending session becomes a client or  *)
(* is removed.  The one exception is a finished connection that finds the  *)
(* connection channel full: try_send drops it, and nothing tells the       *)
(* server.                                                                 *)
(***************************************************************************)
PendingEnds ==
    \A i \in Idx :
        i \in server.pending ~> i \notin server.pending \/ i \in dropped
=============================================================================
