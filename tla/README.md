# A TLA+ development for renet2

renet2 is a network library for games: messages over reliable and unreliable
channels (crate `renet2`), on top of an authenticated connection protocol
(crate `renetcode2`), carried by one of several sockets (crate
`renet2_netcode`). This directory models the parts whose correctness depends
on the order of events, checks them with TLC on small instances, and proves
the central ones with TLAPS for every value of their parameters.

## 1. The system

| Component | State | Operations | Interacts with |
|---|---|---|---|
| Acknowledgement ranges (`remote_connection.rs`, `packet.rs`) | `pending_acks`, a vector of ranges of packet sequences | `add_pending_ack`, `acked_largest`, encoding and decoding of an Ack | filled by `process_packet`, copied by `get_packets_to_send`, trimmed when an Ack is acked |
| Reliable channel (`channel/reliable.rs`, `slice_constructor.rs`) | unacked messages with the time of their last sending; received messages, constructors, the oldest pending id, received ids | `send_message`, `get_packets_to_send`, `process_message_ack`, `process_slice_message_ack`; `process_message`, `process_slice`, `receive_message` | called by the connection; its errors disconnect it |
| Unreliable channel (`channel/unreliable.rs`) | queue; received messages, constructors and the time of their last slice | the same without acks; `discard_incomplete_old_slices` | called by the connection |
| Remote connection (`remote_connection.rs`) | `packet_sequence`, `sent_packets`, the channels, the status | `send_message`, `receive_message`, `update`, `process_packet`, `get_packets_to_send`, `disconnect` | one at the client, one per client at the server; packets in between |
| `RenetServer` (`server.rs`) | connections by client id, queue of events | `add_connection`, `remove_connection`, `disconnect`, local clients, and the connection's operations per id | driven by a transport |
| Replay protection (`replay_protection.rs`) | ring of received sequences, most recent one | `already_received`, `advance_sequence` | called by `Packet::decode` of client and server |
| Netcode client and server (`renetcode2`) | the client's state and challenge; the server's slots, pending clients and connect token entries | `process_packet`, `update`, `update_client`, `disconnect`, `set_max_clients`, `generate_payload_packet` | each other, over a socket |
| Packets and tokens (`packet.rs`, `token.rs`, `crypto.rs` of `renetcode2`) | none; the replay window is passed in | `encode`, `decode`, `generate`, `write`, `read` | called by netcode client and server |
| Netcode transports (`renet2_netcode/src/{client,server}.rs`) | netcode state, sockets | `update`, `send_packets`, `disconnect_all` | keep `RenetServer` and `NetcodeServer`, or `RenetClient`, `NetcodeClient` and a socket, in step |
| Web server sockets (`websocket_socket/server`, `webtransport_socket/server`) | pending and connected sessions by index, the index of a client id, sessions to remove, a counter shared with the accepting task | `preupdate`, `try_recv`, `postupdate`, `send`, `connection_accepted`, `connection_denied`, `disconnect` | a task per connection and threads per session, over channels |
| Web client sockets (`websocket_socket/client`, `webtransport_socket/client`) | flags shared with the tasks, channels, the writer | `preupdate`, `try_recv`, `send`, `close` | a task, a reader, callbacks of the browser |
| UDP and in-memory sockets | none of their own | `send`, `try_recv` | the system, a channel |
| Steam transports (`renet2_steam`) | connections by client; the state of one connection | `update`, `send_packets`, `disconnect_client`, `disconnect` | Steam, `RenetServer`, `RenetClient` |
| Setup helpers, bevy plugins, visualizer, demos | | | callers of the above |

What makes it hard to test: packets are lost, duplicated and reordered, so an
operation of one end meets any earlier state of the other; a packet is recorded
for acknowledgement before it is handled, and its handling can fail; acks are
themselves packets that are acked; times decide what is resent, forgotten and
discarded, with loops that stop early; memory is accounted in one unit by the
sender and in another by the receiver; message queues run against a byte limit
per tick; and a sequence ring is shared by residue classes. Below the protocol,
the same session is kept in several tables (the socket's, netcode's, renet's)
that change one after the other; any of socket, transport and application may
end it first; and the web sockets hand it from task to task over channels that
may be full, late, or without a reader.

What makes each part correct:

- ranges: separated, only received sequences, nothing lost but by the limit,
  exact on the wire;
- reliable channels: what is acked has arrived; in order, or at most once;
  memory exact; nothing reserved for a message that is already complete;
- unreliable channels: messages intact, memory given back;
- ordered reliable substrate: no message lost, doubled or reordered;
- connection: acks of a packet touch exactly what it carried;
- replay protection: every sequence of the window at most once, none refused
  wrongly;
- netcode: one slot per client id and per address, a token bound to one
  address, both ends agree on who is connected, a payload at most once;
- packets and tokens: what decodes is what was encoded, what was damaged does
  not decode;
- server and transports: connect and disconnect events alternate per client,
  the tables of clients agree, what one side has ended the others end too;
- web sockets: sessions are counted exactly, a client id leads to one session,
  no session stays pending for ever, a client that is closed lets go of its
  writer and still sends its farewell.

## 2. Modules

| Module | Models | Kind |
|---|---|---|
| `AckRanges` | `pending_acks` and its operations, the Ack packet's wire form | operators |
| `AckVector` | `pending_acks` and what it promises | variables and properties over `AckRanges` |
| `PendingAcks` | its life in one connection | state machine over `AckVector` |
| `AckProtocol` | one direction and one reliable channel of a connection, without packing | abstract specification over `AckRanges` |
| `ReliableChannel` | `SendChannelReliable`, `ReceiveChannelReliable`, `SliceConstructor` | operators on a channel's value |
| `UnreliableChannel` | `SendChannelUnreliable`, `ReceiveChannelUnreliable` | operators on a channel's value |
| `RemoteConnection` | two `RenetClient`s and the network | state machine composing the above |
| `MCRemoteConnection` | instances of `RemoteConnection` for TLC | constants |
| `ConnectionRefinement` | `RemoteConnection` implements `AckProtocol`, for the messages of `Origin` over `Channel` | refinement mapping |
| `MCConnectionRefinement` | an instance of it for TLC | constants |
| `ReplayProtection` | the ring | operators |
| `ReplayWindow` | its use by `Packet::decode` | state machine |
| `Netcode` | `NetcodeClient`s and a `NetcodeServer` from connect token to disconnection | state machine over `ReplayProtection` |
| `MCNetcode` | instances of `Netcode` for TLC | constants |
| `ConnectToken` | `ConnectToken`, `PrivateConnectToken`, the boxes of `crypto.rs` | operators |
| `NetcodePacket` | `Packet::encode` and `decode` over a network that damages packets | state machine over `ReplayWindow` and `ConnectToken` |
| `MCNetcodePacket` | an instance of `NetcodePacket` for TLC | constants |
| `RenetServer` | `RenetServer` and the application that uses it | actions that the server transports compose |
| `NetcodeTransport` | `NetcodeServerTransport` with its sockets and what it sees of netcode | state machine over `RenetServer` |
| `SteamTransport` | `SteamServerTransport` with Steam's events | state machine over `RenetServer` |
| `WebSocketClient`, `WebTransportClient` | the web sockets of a client, their tasks and callbacks | operators on a socket's value |
| `ClientTransport` | `NetcodeClientTransport` with `RenetClient`, `NetcodeClient` and a socket | state machine over the two above |
| `SteamClientTransport` | `SteamClientTransport` | state machine |
| `MCTransports` | the four transports, one per behaviour | instance for TLC |
| `WebServerState` | what the two web sockets of a server share, and their properties | variables and properties |
| `WebSocketServer`, `WebTransportServer` | each of them with its tasks and threads | state machines over `WebServerState` |
| `MCWebServers` | the two, one per behaviour | instance for TLC |
| `*_proofs` | theorems about the module they extend; `AckProtocol_proofs` also about `PendingAcks`, `Channels_proofs` about the operators of the channels, `WebServers_proofs` and `Transports_proofs` about `MCWebServers` and `MCTransports` | proofs |

### How state and actions correspond to the code

`RemoteConnection` has one variable per field of `RenetClient` that the
protocol reads (`packet_sequence`, `sent_packets`, `pending_acks`, the send and
receive channels, the connection status), each a function of the peer, and one
action per public operation: `SendMessage`, `ReceiveMessage`, `Disconnect`,
`Update`, `GetPacketsToSend` and `ProcessPacket`. The last is taken through
`Deliver` and `Duplicate`, the choices of the network; a lost packet is one
that is never delivered. An action is the whole call: `GetPacketsToSend` packs
every channel in its order under the bytes of the tick, appends the Ack, and
fills `sent_packets`, as the method does before it returns.

Data are abstracted to what the code looks at. A payload is its length (and,
on an unreliable channel, the number of the message, so that loss and
duplication can be seen); a packet is a record; the Ack packet keeps its real
encoding, because the encoder's subtractions are what the separation of the
ranges is for, and of every other packet the size of its serialization and the
limits that `from_bytes` checks. `SliceSize` and `VarintBytes` stand for 1200 bytes and for the
length of a varint, small enough that a message of 7 bytes has two slices and
two small messages may or may not share a packet. Times are kept as ages, the
differences that the code compares, cut off at the threshold they are compared
with; beyond it they behave alike. The statistics and the round trip time are
left out: nothing in the protocol reads them.

The connection's status `connecting` is not told apart from `connected`: the
operations test only for `Disconnected`.

In `AckProtocol` a step may choose any packet ever sent, again or never, any
subset of unacked parts may go into a packet and any set of remembered packets
may be forgotten. `Receive` records the sequence before the parts, as
`process_packet` does, and may fail after storing some of them.

`Netcode` has the fields of `NetcodeServer` as variables (`clients` with its
fixed number of `slots`, `pending`, `entries`, `max_clients`, `now`) and one
`NetcodeClient` record per address. Its actions are the public operations:
`ClientUpdate` (`update_internal_state`, then `generate_packet`),
`ClientProcessPacket`, `ClientSendPayload`, `ClientDisconnect`, `Start` (a new
`NetcodeClient`, also where one has run before), and on the server `Update`,
`UpdateClient`, `SendPayload`, `Disconnect`, `SetMaxClients` and
`ProcessPacket`, which is `process_packet_internal` with its three branches for
connected, pending and new addresses. A packet that was sent may arrive at any
time, any number of times, or never; `Cut` takes the link down for good.

A connect token stands for its MAC, its keys and its user data, all unique to
it. A packet names the token it was encoded with and, for a challenge and its
response, the token the challenge was made for. `Packet::decode` has two
branches: at the addresses of `Encrypted` it fails with the key of any other
token; elsewhere the socket encrypts (WebTransport, WebSocket with TLS, memory
sockets), netcode writes its packets in the clear, and a packet of any token
decodes. `Presents` says which tokens clients present at an address, and
`Attributable` that an address without encryption presents one, as that of a
web session does; the server does not check it. The replay window is the one of
`ReplayProtection`. A slot records two tokens: the one its keys and its id were
taken from (when the pending connection was made) and the one its user data was
taken from (the challenge in the response). The properties relate the two.

`NetcodePacket` is below that: prefix, sequence bytes, fields and box of every
packet, of the connect token and of the challenge token. The cipher is a
library; a sealed value opens only with the key, nonce and additional data it
was sealed with (`Seal`, `Opens`), and without encryption a checksum over the
protocol id takes its place (`Tag`). A byte has two values, so that sequences of
none to three bytes are met.

`RenetServer` keeps of a connection whether it is disconnected, whether its
socket is reliable and, as history, the session it was made for. In
`NetcodeTransport` the loops of `update` and `send_packets` are steps, in the
code's order: receive from every socket, update every client, disconnect what
the application disconnected, `postupdate`; the application acts in between
calls. `handle_server_result` is `ClientConnected`, `ClientDisconnected` and
`SocketDisconnect`. A failing send is `SendAborted`. An address is at a socket
with connections (`WebAddrs`) or without (`BareAddrs`), reliable or not
(`ReliableAddrs`), and encrypted by netcode or by the socket (`Encrypted`); the
model keeps, as netcode does, the id that an address is pending with apart from
the ids it was challenged for, since the response is checked for the one and
connects the other. In `SteamTransport` Steam
queues its three kinds of events at any time, `HandleEvent` takes one, and
`ReceiveMessages` is the loop after the events.

A web server socket has the fields of the struct in the record `server`
(`pending`, `clients`, `id_to_idx`, `lost`, `current`, the answers on the result
channels), the two bounded channels as sequences, and one state per task and
thread. `update` of the transport is `TakeConnection` (`preupdate`, one
connection at a time), `RecvRequest`, `RejectRequest` and `RecvPacket` (one
`try_recv` each, with netcode's answer: `connection_accepted`,
`connection_denied`, `disconnect`) and `Postupdate`. `NetcodeDisconnects` is the
`disconnect` of a session by the rest of `update`, and by `disconnect_all`
between two updates. The tasks run in between:
`Accept`, `HandleConnection`, `FinishConnection`, the reader and the writer.

In `ClientTransport` a call of `update` is one step, with the early returns of
the code as alternatives (`UpdateEnded`, `UpdateDisconnects`,
`UpdateReceives`); the tasks and callbacks of the socket, which the browser runs
when no code of the application does, are steps of their own.

## 3. Runs

| Run | Shows |
|---|---|
| `pending_acks` | arrivals in every order, with repetitions, Acks sent at any time and acked in any order: the vector stays separated (`RangesSeparated`), covers only received sequences (`OnlyReceivedCovered`), its encoding decodes to itself (`AckRoundTrip`), and only the limit or an acked Ack removes anything (`AcksKept`) |
| `ack_protocol` | the abstract protocol: `AckedAreStored`, and its inductive strengthening `AcksAreSound` |
| `connection_mixed` | a reliable unordered and an unreliable channel, each near its memory limit, share the bytes of a tick, with packets lost, reordered and delivered twice: `MemoryIsExact`, `SlicesAreTimed`, `MessagesIntact`, `UnorderedOnce` |
| `connection_substrate` | the ordered reliable substrate under a byte limit per tick, with memory for every message (`RoomForAll`): `SubstrateConserves`, and `PacketsParse` (every packet fits its buffer and is accepted by `from_bytes`) |
| `connection_implements` | a reliable ordered channel and a receiver that fails at its memory limit or leaves: `ImplementsAckProtocol`, `AckedIsStored`, `OrderedIsPrefix`, `NoExpiredPacketKept` (the early stop in `update` is sound), `NoConstructorOfAssembled` |
| `netcode_admission` | two addresses, one with netcode's encryption and one without, three tokens of which two share a client id, one or two slots, restarts, every packet repeated and delayed at will: `UniqueAddresses`, `UniqueClients`, `IdentityMatches`, `KeysMatch`, `TokenBound`, `AcceptedFirst` |
| `netcode_session` | one client with two servers to try, timeouts, keep-alives, payloads, a limit of zero, a link that goes down: `DeadLinkIsNoticed`, `ConnectingEnds` |
| `replay_window` | packets and tokens, with and without encryption, over a network that repeats, reorders and damages them: `WireIsFaithful`, `ExactWindow` and the reason for it, `SlotsHoldHighest` |
| `web_servers` | both web sockets of a server, connections that fail, leave, and claim the client id of another at every point: `CountIsExact`, `SlotsAreOwned`, `AnswersWait`, `PendingEnds` |
| `transports` | server, with two client ids over a WebSocket and a UDP address, where the id that is checked and the id that is connected may come from two tokens: `TablesAgree`, `EventsTellTruth`, `DisconnectionsEnd` and `LossesEnd` over netcode, `SteamTablesAgree` and `EventsTellTruth` over Steam, with local clients; client: `ClientEndsTogether` over every socket and Steam, `FarewellLeaves` over a WebSocket, `WriterLetGo` over WebTransport |

Every state machine states its types (`TypeOK`); those of the modules with
proofs are theorems, and none is listed among the runs' properties, which are
about more than types.

`web_servers` and `transports` have several state machines that share no
behaviour: the variable `kind` or `driver` is chosen at the start and says which
one runs. Deadlock is not checked where all ends may have ended.

Runs that are expected to fail show a disagreement between a comment and the
code; the findings in `PROJECT.json` quote the comment.

| Run | The code |
|---|---|
| `substrate_requeue` | puts the overflow of a tick back in reverse order: of messages of 5, 5 and 1 bytes the last two do not fit, and the third is handed out before the second |
| `max_clients` | raises `max_clients` without making slots: a client is challenged, answers, and is denied below the limit |

More of this kind was seen with other constants and is recorded here only:

- `add_pending_ack` inserts a range on the left of the others without applying
  the limit of 64, which only a push on the right enforces
  (`Len(pending_acks) <= MaxRanges` fails in `PendingAcks`), so that late
  packets with gaps between them make an Ack packet of any size;
- on an unordered channel a late slice of a message that was handed out while
  an older one is missing starts a constructor that nothing completes or frees
  (`NoConstructorOfAssembled` fails for an unordered channel and
  `Lengths = {1, 7}`, with six packets of the sender and three of the receiver;
  it holds for an ordered one, in `connection_implements`);
- on a substrate, a message longer than a tick's bytes is never sent, nor
  anything behind it;
- on a substrate, the slices of a message overtake small messages sent before
  it (`SubstrateInOrder` with `Lengths = {1, 7}` and `MaxMessages = 2`);
- the receiver discards by age slices that a reliable substrate will never
  repeat;
- `discard_incomplete_old_slices` stops at the first young message and leaves
  older ones with higher ids behind, because ages are counted from the last
  slice received and not from the sending of the message;
- `handle_connection_request` looks at `max_clients` and the response does not,
  so clients that were pending when the limit was lowered exceed it;
- where netcode does not encrypt, an address that presents two tokens is
  pending with the first and may answer a challenge for the second: the server
  checks that the id of the challenge is not connected
  (`renetcode2/src/server.rs:600`) and fills the slot with the id of the pending
  token (`:642`) and the user data of the challenge. An id may so get two slots
  and the user data of another token (`UniqueClients`, `IdentityMatches`,
  `KeysMatch` and `AcceptedFirst` each fail with `Encrypted = {}` and all tokens
  at every address), and the tables of the transport disagree (the
  fault `HandleResponseAnyKey`, which breaks `TablesAgree` and `EventsTellTruth`
  in `transports`, is this code); hence `Attributable`. `UniqueAddresses` and
  `TokenBound` hold with these constants too, and are proved without it;
- repeated `ConnectionRequest` and `Response` packets of a session that has
  ended open it again at the server, with an empty replay window, until it
  times out;
- a full `connect_token_entries` overwrites its oldest entry, whose token is
  then good for a second address;
- a packet without fields and with sequence 0 is one byte short of what
  `decode` asks for, so the first denial of a server is refused by its client
  (`TooSmall`, the exception in `WireIsFaithful`), and a web client that is
  disconnected before its first request fails to send its disconnect packet;
- a finished connection that finds the connection channel of a web socket full
  is dropped, and its session stays pending (`dropped`, the exception in
  `PendingEnds`); the limit of 125% of `max_clients` is checked by each task
  before its session is counted;
- a packet of a connected client that does not decode makes the transport close
  the client's web socket, while its netcode session goes on until it times out
  or a send fails;
- a local client that has broken by itself is not removed by
  `disconnect_local_client`, and a new local client of its id joins the
  connection that was left;
- the Steam server transport never asks for `disconnections_id`, keeps the
  channels of a client whose new connection is reported before the end of the
  old one, and then removes the new one when that end is reported;
- `disconnect` of the web clients does not wait for `close_sender.send`, so a
  WebTransport session that the client ends stays open until the server closes
  it; a web client whose `NetcodeClient` goes on to its next server closes
  itself;
- with a round trip above three seconds packets are forgotten before their acks
  arrive, and messages are sent again and again;
- a socket whose `try_recv` fails lastingly holds `update` of the server
  transport in its loop;
- the replicon plugin reads all events of a frame before it applies any of them
  (the hazard at `server/plugin.rs:73`).

### Bounds

`MaxSequence` bounds the packets each peer makes (3 or 4, and 1): enough for a
sliced message, a small one and a resend after a loss, and for an ack to arrive
before, between and after them. `MaxMessages` is 1 to 3 per channel: two
messages are needed for any question of order or of sharing a packet, three for
the reversal of an overflow. `MaxRanges` is 2, so that the limit is reached
with three separate arrivals. `DiscardAfter` is two ticks and `ResendTime` one,
so that a resend happens before a packet is forgotten, as with 3 s and 300 ms.
`BytesPerTick` is 8: one small and one sliced message do not fit in one tick. In
`substrate_requeue` messages have 1 or 5 bytes, so that after one of 5 two more
overflow. `ReplayWindow` uses a ring of 2 and sequences up to twice round it.

In `Netcode` one tick is one second and the send rate one tick, a timeout is one
second and a token lives one or three. Ages are capped one above the greatest
value they are compared with and the server's clock at `LastSecond`, after
every token has expired, so no behaviour is cut off by time: the clock goes on
for ever, which the liveness properties need. `MaxSequence` bounds what a sender
gets through: beyond it its packets are lost, a behaviour of the network, and
the sender goes on. `PayloadAt` says which sequences an application's payload
may take. `Durations` are the ticks between two updates of a client:
`netcode_admission` uses 0 (the clients' clocks stand still while the server's
runs, so that every order of packets happens within a token's life) and
`netcode_session` uses 1. Two addresses and three tokens are what a race for an
id (two tokens of one id), for an address (two tokens at one address) and for a
slot (two ids) need; `MaxStarts = 2` gives two clients at two addresses or one
that is made anew. In `netcode_admission` the first address is encrypted and
presents every token, the second is not and presents one of the two that share
an id.

`web_servers` has two connections with tokens of any of two ids for a server of
one client, so that one may usurp, precede or follow the other at every step,
channels of one place are full with one, and the margin of 25% is reached; more
connections repeat these pairs. `transports` has two remote clients, one local
client and two sessions, and two addresses: the UDP one, where netcode encrypts,
presents the tokens of both remote clients, and the web one those of the first.
A client can leave, come back over the other socket and leave again, and be
connected at one address while it is pending, or the other client challenged, at
the second; Steam numbers two connections, an old and a new one. The queue of
events is not bounded, the sessions bound it.
`NetcodePacket` sends three packets over five sequences, one of them damaged, or
one request with none to too many addresses.

### Fairness

`Netcode` assumes weak fairness of `Update`, of `UpdateClient` for every id and
of a client's `ClientUpdate` with time passing: the transports call them in
every frame, whatever arrives. Nothing is assumed of the network or of the
applications.

`NetcodeTransport` assumes that a call of `update` or `send_packets` returns
(weak fairness of its steps; a receive loop ends because the sockets run dry),
that the application calls `update` again and again (strong fairness, since
other calls come in between), and that a client whose connection is gone times
out (strong fairness: its turn comes in every update, and time passes).
`ClientTransport` and `SteamClientTransport` assume that the application calls
`update`, that the runtime runs its tasks and that the browser's attempt to open
a connection ends, one way or the other. The web server sockets assume that
`update` is called and proceeds and that the task of a connection runs when it
can. Messages, callbacks and the ends of connections are never assumed. The
other specifications are safety specifications without fairness.

## 4. Proofs

Proved by TLAPS for every value of the constants, each theorem named after the
property of a run that it states (`AckEncodes`, that the encoder of an Ack never
subtracts below zero, follows from `RangesSeparated` and is only proved):

- `AckProtocol_proofs`, of `PendingAcks`: `TypeOK`, `RangesSeparated`,
  `OnlyReceivedCovered`, `AckEncodes`, `AcksKept`, `AckRoundTrip`. The inductive
  invariant is the conjunction of the first three. The work is in
  `AckRanges_proofs`: lemma `AddPendingAckAdds` (adding a sequence to separated ranges gives separated ranges that cover
  exactly one sequence more, but for the first range at the limit),
  `AckedLargestTrims` (trimming keeps separation and removes exactly what is at
  or below its argument) and `DecodeEncodes` (the running differences that the
  encoder writes and the decoder adds up cancel, range by range). Separation is
  needed for everything else: without it the first range at which the loop
  stops need not be the only one the sequence belongs to, and the encoder
  subtracts below zero.
- `AckProtocol_proofs`, of `AckProtocol`: `TypeOK`, `AckedAreStored`,
  `AcksAreSound`. The property that matters, that a part leaves the sender only when the receiver
  has it, is not inductive: it needs that the ranges on both sides of the
  network name only packets whose remembered parts are stored, that a sequence
  is used once, and that a receiver whose handling failed never sends again.
- `RemoteConnection_proofs`: what a pair of connections promises, for every
  list of channels, every length of messages, every tick and packet size, and
  every loss, repetition and reordering. What each operator of the channels and
  each loop of the connection does to a value is in `Channels_proofs`, with the
  sums of bytes and the folds; the invariants and their steps are here. The
  inductive invariant has three layers, each preserved with the help of the
  ones before it.
  1. `SenderInv`: the unacked messages and the queues are of messages that were
     given to the channel; every packet on the way is one that the packing of
     these messages makes, or an Ack that decodes to separated ranges of
     sequences already used; `sent_packets` is ordered by age. It gives
     `NoExpiredPacketKept`.
  2. `ReceiveInv` and `SliceIdsInv`: a constructor holds some slices of a sent
     message and never all of them, and knows its length from the moment it has
     the last one; an ordered channel has handed out exactly the ids below
     `oldest_pending_message_id`; an unordered one has seen exactly the ids
     below it or in `received_messages`; an id of a sliced unreliable message
     stands for one message, at the sender, on the way and in the constructors.
     It gives `OrderedIsPrefix`, `UnorderedOnce`, `MessagesIntact`,
     `NoConstructorOfAssembled` and `SlicesAreTimed`.
  3. `StoredInv`: `sent_packets` remembers of a packet on the way what it
     carries; a sequence that an open receiver has recorded, or that an Ack on
     the way names, belongs to a packet whose content is at the other end; and
     the sender has ticked off nothing else. Nothing that is at an end leaves it
     (`ConservesNext`). It gives `AckedIsStored`, the property that
     `AckProtocol` states abstractly, here down to the folds that pack, the
     slices and the wire form of an Ack.

  Three more invariants stand on these layers.
  - `MemoryIsExact`. The model's sums over sets and sequences are folds; the
    proof replaces a sum of lengths by the number of elements of a set of
    units, one for each byte of each message (`Bytes`), so that what a step
    does to a sum is what it does to a finite set. It needs from the second
    layer that a constructor's length is that of the message it assembles, and
    that an id is in at most one place.
  - `PacketsParse`. That `from_bytes` accepts every packet of messages or of a
    slice holds on any network (`MessagePacketsAlwaysParse`): the loops that
    pack keep the small messages within a slice, a slice with its headers fits
    in the buffer, and a message has no more slices than the parser takes. For
    an Ack it holds on an ordered network only (`PacketsAlwaysParse`): arrivals
    in order keep `pending_acks` one range, and acknowledged Acks only cut from
    it (`InOrderInv`). On other networks `add_pending_ack` inserts a range on
    the left without regard to the limit of 64, so no bound on an Ack's size
    follows from the code.
  - `SubstrateConserves` (`SubstrateAlwaysConserves`), under two hypotheses that
    the code's promise needs: the network is ordered and reliable, so that
    nothing arrives twice, and `RoomForAll`, that the channel's memory is at
    least twice what all its messages take, so that neither half drops one for
    want of memory (the receiving half may hold all of them and reserve for all
    of them at once). The invariant `PlacesInv` follows every message, the
    sliced ones too: the queue, the packets on the way, what waits and what was
    handed out have no message in common, but for the slices of one; a slice
    on the way has not been at the receiver; and the ids given to sliced
    messages are no more than the messages that have left the queue, which
    bounds what constructors reserve. The work is in `get_packets_to_send`
    (`QueueSpreads`): of a queue without repetitions every message goes into one
    small packet, into slices, or back into the queue.

  Last, the refinement: `ConnectionsImplementAckProtocol`, for either peer as
  `Origin` and every reliable `Channel`. Each variable of `AckProtocol` has its
  image in `ConnectionRefinement`: a part is a message id with a slice index,
  `offered` the parts of all messages sent, `unacked` those the channel still
  holds, `remembered` what `sent_packets` says of each packet, `stored` what the
  other end has or has handed out, `flying` and `acks` the packets on the way.
  One lemma per action and end says which step it is: `SendMessage` of the
  channel is `Offer`, `Update` of `Origin` is `Forget`, a tick of `Origin` is
  `Transmit` and one of the other end `SendAck`, a packet at the other end is
  `Receive`, an Ack at `Origin` is `ProcessAck`, a disconnection is `Fail`, and
  the rest is no step. Most of the work is in what the layers above did not
  need: a packet carries only unacked parts and is remembered with exactly
  those (`OfUnacked`, `InfoHasParts`, `PacketOfUnacked`); the receiver gains
  nothing but what the packet carries (`GainsOnly`); the loop over acked packets
  takes off the list exactly what they carried (`Leaves`); and however many Acks
  it finds acknowledged, it cuts the ranges as one cut at a sequence already
  used would (`CutBy`, from `AckedLargestTwice` of `AckRanges_proofs`, and
  `LimitsInv`, which also says that no peer passes the bound `MaxSequence`).
- `NetcodePacket_proofs`: first `TypeOK`, `SlotsHoldHighest` and `ExactWindow`
  of `ReplayWindow`. A slot holds the highest accepted sequence of its residue
  class; two sequences of one class are a ring apart (`SameResidue`), so a slot
  that refuses a sequence either holds it or puts it outside the window. Then
  `WireIsFaithful`, and `ExactWindow` under the whole decoder. The invariant
  `WireInv` says that a box on the wire that opens was sealed for what was
  sent or issued: damage changes what is around a box or spoils it, and the
  associated data ties the box to the prefix, the protocol and the expiry. The
  lemmas are about the operators: a sequence is the number that its little-endian
  bytes write, no byte of it being lost with the leading zeros
  (`SequenceReadsBack`); a host list reads back although only its present
  addresses are written (`TokenReadsBack`).
- `Netcode_proofs`: `TypeOK`, `UniqueAddresses` and `TokenBound` with and without
  encryption; `UniqueClients`, `IdentityMatches`, `KeysMatch` and
  `AcceptedFirst` under the hypothesis `Attributable`, without which they fail
  (section 3). Uniqueness of ids is not inductive alone: the check
  before a slot is filled uses the id in the challenge, and the slot gets the
  id of the pending connection, which may have been made for another token
  presented from the same address. The two agree because of `KeysMatch`: a
  `Response` that opens with the key of a token carries a challenge made for
  that token, since a client only takes a challenge that opens with the key of
  its own. Where no key is checked, `Provenance` takes its place: what an
  address sends or is sent is of the tokens presented there, of which there is
  one. `AcceptedFirst` needs that whatever sent a keep-alive on the
  way, and every slot, was accepted under its address and token. `TokenBound`
  needs that what is pending or connected has its entry of the table, and is
  the only one that asks for a finite set of tokens, since it compares their
  number with the size of the table.
- `WebServers_proofs`: `CountIsExact`, `SlotsAreOwned`, `AnswersWait`, each for
  both web servers. The invariant adds that no session is pending and
  connected at once, that the indices of waiting requests are used once and are
  of no session yet, and that after `postupdate` every session owns its slot,
  so that one which `disconnect_all` then reports lost still does when
  `preupdate` meets it.
- `Transports_proofs`: `TablesAgree`, `EventsTellTruth`, `SteamTablesAgree`,
  `WriterLetGo`, over the composition that `MCTransports` checks, the first two
  for sockets whose packets are `Attributable`. The invariant
  relates RenetServer's connections, their sessions, the queue of events and
  what the application knows (`AppInv`), the state of the client's socket with
  that of its task (`SocketOK`), and the tables of each server transport with
  those of RenetServer (`NetcodeInv`, `SteamInv`).

Loops of the code are folds or recursive functions here, and the theorems of
the library about folds take an operator as a parameter, which the provers
cannot instantiate. What a loop preserves is proved by the least number
principle instead: `SetInduction`, `LoopDefined` and `LoopKeeps` of
`Channels_proofs` say once, for the ten loop bodies that `Body` and `Keeps`
enumerate, that a fold over a finite set is defined and preserves what one
round of it preserves; `DecodeEncodes` does the same for the two recursions of
the Ack packet.

The assumptions are the named `ASSUME`s of the modules: a limit, a slice and a
ring of at least one, two peers, channels that are `ChannelConfig`s, bounds
that are natural numbers, a `NoConnection` that is not a connection, a packet
buffer with room for a slice and its headers, an `Origin` that is a peer and a
`Channel` that is reliable, messages of at most a million slices, keys that are
not the mark of a damaged box, and sequences that fit in the bytes of a word.
Messages may be empty. TLC evaluates all of them in the runs.

Only model-checked: the liveness properties (fairness is outside the prover's
reach). Neither checked nor proved: that the Ack packets of a network that
reorders fit in their buffer, which the code does not ensure (section 3).

## 5. Not modelled

In `Netcode`: one address at several sockets, tokens whose timeout is zero or negative, which
turns timeouts off, a second server with state of its own, and the checks of
version, protocol, socket id and host list, which every packet of the model
passes. In `NetcodePacket`: truncated datagrams, and prefixes that announce more
bytes than a sequence has.

In `RemoteConnection`: the disconnect of `get_packets_to_send` when a packet does
not fit its buffer, which only an Ack of too many ranges on a network that
reorders reaches (`PacketsParse`), and those of `process_packet` for bytes that
do not parse and for a channel that does not exist, which no peer with the same
list of channels causes.

In the sockets: TLS and certificates, URLs and the encoding of the connection
request in them, payloads, and errors of the operating system that last. The
native and the in-memory socket have no state besides a channel or a system
socket; the transports' models contain them as sockets of datagrams.

Statistics, which nothing reads; the setup helpers, which construct sockets and
tokens once; the bevy plugins, which call the transports in the order that the
fairness assumptions state and otherwise depend on when bevy applies deferred
commands; the visualizer and the demos.

## 6. Plan

1. Liveness of a reliable channel under fair loss, on an abstraction of
   `RemoteConnection`.
2. The replicon server plugin over `RenetServer`, with bevy's frame as external.
3. `Netcode` with one address at several sockets.
