------------------------------- MODULE Netcode -------------------------------
(***************************************************************************)
(* The connection handshake of renetcode2: NetcodeClient values, one per   *)
(* client address, and one NetcodeServer, over a network that reorders,    *)
(* loses and duplicates packets.                                           *)
(*                                                                         *)
(* A connect token stands for what is unique to it: its MAC, its two keys  *)
(* and its user data.  A packet records the token of its sender.  Where    *)
(* netcode encrypts, at the addresses of Encrypted, decoding it with the   *)
(* key of another token fails; where the socket encrypts (WebTransport,    *)
(* WebSocket with TLS, memory), netcode sends the packet in the clear and  *)
(* checks no key.  Only the sequences of KeepAlive, Payload and Disconnect *)
(* packets meet the replay window, so the others carry none.               *)
(*                                                                         *)
(* One tick is one second.  A moment is kept as its age, capped where no   *)
(* comparison of the code can tell a greater age apart, so that time needs *)
(* no bound.  Past MaxSequence the network loses every packet of a sender. *)
(***************************************************************************)
EXTENDS ReplayProtection, FiniteSets, Sequences

CONSTANTS
    Addr,           \* addresses of clients
    Encrypted,      \* addresses at sockets with needs_encryption
    Token,          \* connect tokens, all created at second 0
    Presents,       \* the tokens that clients are made with at an address
    ClientId,       \* client id of every token
    Expire,         \* second at which a token expires
    Timeout,        \* timeout_seconds of a token
    Hosts,          \* server addresses of a token: TRUE is this server's
    SendRate,       \* NETCODE_SEND_RATE, in ticks
    Durations,      \* ticks between two updates of a client
    Capacities,     \* values of ServerConfig.max_clients
    Limits,         \* values given to set_max_clients
    MaxPending,     \* NETCODE_MAX_PENDING_CLIENTS
    NumEntries,     \* length of connect_token_entries
    LastSecond,     \* a second after every token has expired, where the clock may stop
    MaxSequence,    \* bound: packets of one NetcodeClient or Connection
    MaxStarts,      \* bound: NetcodeClient values made
    PayloadAt       \* bound: the sequences that the applications' payloads may take

ASSUME NetcodeAssumption ==
    /\ Encrypted \subseteq Addr /\ Presents \in [Addr -> SUBSET Token]
    /\ Expire \in [Token -> Nat] /\ LastSecond \in Nat /\ \A t \in Token : Expire[t] < LastSecond
    /\ Timeout \in [Token -> Nat \ {0}]
    /\ Hosts \in [Token -> Seq(BOOLEAN)] /\ \A t \in Token : Hosts[t] # << >>
    /\ ClientId \in [Token -> Nat]
    /\ Capacities \subseteq Nat /\ Limits \subseteq Nat
    /\ Durations \subseteq Nat
    /\ {SendRate, NumEntries} \subseteq Nat \ {0}
    /\ {MaxPending, MaxSequence, MaxStarts} \subseteq Nat

VARIABLES
    client,         \* the NetcodeClient of an address, where one runs
    slots,          \* length of NetcodeServer.clients
    clients,        \* NetcodeServer.clients: the Connection of every used slot
    pending,        \* NetcodeServer.pending_clients, by address
    entries,        \* NetcodeServer.connect_token_entries
    max_clients,    \* NetcodeServer.max_clients
    now,            \* NetcodeServer.current_time
    net,            \* packets sent: each may arrive at any time, any number of times
    link,           \* "up", or "down" for good
    starts,         \* NetcodeClient values made so far
    accepted        \* history: <<address, token>> of every ClientConnected result

server == <<slots, clients, pending, entries, max_clients, now, accepted>>
world == <<link, starts>>
vars == <<client, server, net, world>>

Least(a, b) == IF a <= b THEN a ELSE b

With(f, x, v) == [y \in DOMAIN f \union {x} |-> IF y = x THEN v ELSE f[y]]

Without(f, x) == [y \in DOMAIN f \ {x} |-> f[y]]

(***************************************************************************)
(* Packets.  A packet names the token it was encoded with, whose key       *)
(* encrypts it at the addresses of Encrypted (a ConnectionRequest carries  *)
(* its token in the clear), and, in Challenge and Response, the token the  *)
(* challenge was made for; seq is -1 where no replay window looks at it.   *)
(***************************************************************************)
ReplayProtected == {"KeepAlive", "Payload", "Disconnect"}

PacketTypes == {"ConnectionRequest", "ConnectionDenied", "Challenge", "Response"} \union ReplayProtected

Packet(to, a, type, key, of, seq) ==
    [to |-> to, addr |-> a, type |-> type, key |-> key, of |-> of,
     seq |-> IF type \in ReplayProtected THEN seq ELSE -1]

(* Fault: the key is not checked. *)
DecodesAnyKey(m, t, w) ==
    ~(m.type \in ReplayProtected /\ AlreadyReceived(w, m.seq))

\* Packet::decode succeeds with the key of token t and the window w.  Without encryption
\* it only checks the protocol id, which all packets here share.
Decodes(m, t, w) ==
    \/ m.type = "ConnectionRequest"
    \/ /\ m.addr \in Encrypted => m.key = t
       /\ ~(m.type \in ReplayProtected /\ AlreadyReceived(w, m.seq))

\* The window after Packet::decode succeeds.
Advanced(m, w) == IF m.type \in ReplayProtected THEN AdvanceSequence(w, m.seq) ELSE w

Send(P) == net' = IF link = "up" THEN net \union P ELSE net

\* The packets P, of a sender whose sequence is n.
Carried(P, n) == IF n < MaxSequence THEN P ELSE {}

NextSequence(n) == Least(n + 1, MaxSequence)

(***************************************************************************)
(* NetcodeClient.  An unset last_packet_send_time and one SendRate ago     *)
(* both let the next packet out.                                           *)
(***************************************************************************)
NewClient(t) ==
    [token |-> t, state |-> "request", host |-> 1, sequence |-> 0,
     window |-> NewReplayProtection, challenge |-> t,
     started |-> 0, received |-> 0, sent |-> SendRate]

\* The application makes a client, whatever became of the one it had at this address.
Start(a, t) ==
    /\ starts < MaxStarts
    /\ starts' = starts + 1
    /\ client' = With(client, a, NewClient(t))
    /\ UNCHANGED <<server, net, link>>

Connecting(c) == c.state \in {"request", "response"}

ClientAged(c, d) ==
    [c EXCEPT !.started  = Least(@ + d, Expire[c.token]),
              !.received = Least(@ + d, Timeout[c.token] + 1),
              !.sent     = Least(@ + d, SendRate)]

(* Fault: a client that times out tries the same server again. *)
InternalStateSameHost(c) ==
    IF Connecting(c) /\ c.started >= Expire[c.token] THEN [c EXCEPT !.state = "disconnected"]
    ELSE IF c.received <= Timeout[c.token] THEN c
    ELSE IF Connecting(c) /\ c.host < Len(Hosts[c.token])
         THEN [c EXCEPT !.state = "request", !.started = 0, !.received = 0, !.sent = SendRate]
    ELSE [c EXCEPT !.state = "disconnected"]

\* update_internal_state: a connecting client that times out tries its next server.
InternalState(c) ==
    IF Connecting(c) /\ c.started >= Expire[c.token] THEN [c EXCEPT !.state = "disconnected"]
    ELSE IF c.received <= Timeout[c.token] THEN c
    ELSE IF Connecting(c) /\ c.host < Len(Hosts[c.token])
         THEN [c EXCEPT !.state = "request", !.host = @ + 1,
                        !.started = 0, !.received = 0, !.sent = SendRate]
    ELSE [c EXCEPT !.state = "disconnected"]

Generated(a, c) ==
    {Packet("server", a,
            CASE c.state = "request"  -> "ConnectionRequest"
              [] c.state = "response" -> "Response"
              [] OTHER                -> "KeepAlive",
            c.token, c.challenge, c.sequence)}

\* A packet to another server than this one is not seen again.
ClientSends(c, P) ==
    Send(IF Hosts[c.token][c.host] THEN Carried(P, c.sequence) ELSE {})

ClientUpdate(a, d) ==
    /\ a \in DOMAIN client /\ client[a].state # "disconnected"
    /\ \E c \in {InternalState(ClientAged(client[a], d))} :
         \/ /\ c.state # "disconnected" /\ c.sent >= SendRate
            /\ client' = [client EXCEPT ![a] =
                            [c EXCEPT !.sent = 0, !.sequence = NextSequence(@)]]
            /\ ClientSends(c, Generated(a, c))
         \/ /\ c.state = "disconnected" \/ c.sent < SendRate
            /\ client' = [client EXCEPT ![a] = c]
            /\ UNCHANGED net
    /\ UNCHANGED <<server, world>>

\* What process_packet makes of a decoded packet.
Processed(c, m) ==
    IF m.type = "ConnectionDenied" /\ Connecting(c)
    THEN [c EXCEPT !.state = "disconnected", !.received = 0]
    ELSE IF m.type = "Challenge" /\ c.state = "request"
    THEN [c EXCEPT !.state = "response", !.challenge = m.of, !.received = 0, !.sent = SendRate]
    ELSE IF m.type = "KeepAlive" /\ c.state \in {"response", "connected"}
    THEN [c EXCEPT !.state = "connected", !.received = 0]
    ELSE IF m.type = "Payload" /\ c.state = "connected"
    THEN [c EXCEPT !.received = 0]
    ELSE IF m.type = "Disconnect" /\ c.state = "connected"
    THEN [c EXCEPT !.state = "disconnected", !.received = 0]
    ELSE c

\* The transport discards what does not come from the server the client is trying, and
\* reads nothing more once the client is disconnected.
ClientProcessPacket(m) ==
    LET a == m.addr IN
    /\ m.to = "client"
    /\ a \in DOMAIN client /\ client[a].state # "disconnected"
    /\ \E c \in {client[a]} :
         client' = [client EXCEPT ![a] =
                      IF Hosts[c.token][c.host] /\ Decodes(m, c.token, c.window)
                      THEN Processed([c EXCEPT !.window = Advanced(m, @)], m)
                      ELSE c]
    /\ UNCHANGED <<server, net, world>>

ClientSendPayload(a) ==
    /\ a \in DOMAIN client /\ client[a].state = "connected" /\ client[a].sequence \in PayloadAt
    /\ \E c \in {client[a]} :
         /\ client' = [client EXCEPT ![a].sequence = NextSequence(@), ![a].sent = 0]
         /\ ClientSends(c, {Packet("server", a, "Payload", c.token, c.token, c.sequence)})
    /\ UNCHANGED <<server, world>>

ClientDisconnect(a) ==
    /\ a \in DOMAIN client /\ client[a].state # "disconnected"
    /\ \E c \in {client[a]} :
         /\ client' = [client EXCEPT ![a].state = "disconnected"]
         /\ ClientSends(c, {Packet("server", a, "Disconnect", c.token, c.token, c.sequence)})
    /\ UNCHANGED <<server, world>>

(***************************************************************************)
(* NetcodeServer.  A Connection of clients has the user data of token      *)
(* user_data and everything else of token token.  A pending one has sent   *)
(* nothing yet, and its times are set anew when it is admitted.            *)
(***************************************************************************)
(* Fault: the search starts at the second slot. *)
SlotsOfAddrButFirst(a) == {s \in DOMAIN clients : s > 1 /\ clients[s].addr = a}

SlotsOfAddr(a) == {s \in DOMAIN clients : clients[s].addr = a}

SlotsOfId(id) == {s \in DOMAIN clients : ClientId[clients[s].token] = id}

(* Fault: a client id is never found connected. *)
AlreadyConnectedNever(id) == FALSE

AlreadyConnected(id) == SlotsOfId(id) # {}

FreeSlots == (1 .. slots) \ DOMAIN clients

First(S) == CHOOSE s \in S : \A r \in S : s <= r

(* Fault: pending connections do not expire. *)
UpdateKeepsPending(d) ==
    /\ now' = Least(now + d, LastSecond)
    /\ clients' = [s \in DOMAIN clients |->
                     [clients[s] EXCEPT !.received = Least(@ + d, Timeout[clients[s].token] + 1),
                                        !.sent     = Least(@ + d, SendRate)]]
    /\ UNCHANGED <<client, slots, pending, entries, max_clients, net, world, accepted>>

\* update: advance the time and drop the pending connections whose token expired.
Update(d) ==
    /\ now' = Least(now + d, LastSecond)
    /\ clients' = [s \in DOMAIN clients |->
                     [clients[s] EXCEPT !.received = Least(@ + d, Timeout[clients[s].token] + 1),
                                        !.sent     = Least(@ + d, SendRate)]]
    /\ pending' = [a \in {x \in DOMAIN pending : now' <= Expire[pending[x].token]} |-> pending[a]]
    /\ UNCHANGED <<client, slots, entries, max_clients, net, world, accepted>>

\* The packet with which the connection in slot s goes on, or ends.
Reply(c, type) == Carried({Packet("client", c.addr, type, c.token, c.token, c.sequence)}, c.sequence)

UpdateClient(id) ==
    /\ SlotsOfId(id) # {}
    /\ \E s \in {First(SlotsOfId(id))} :
         \/ /\ clients[s].received > Timeout[clients[s].token]
            /\ clients' = Without(clients, s)
            /\ Send(Reply(clients[s], "Disconnect"))
         \/ /\ clients[s].received <= Timeout[clients[s].token]
            /\ clients[s].sent >= SendRate
            /\ clients' = [clients EXCEPT ![s].sequence = NextSequence(@), ![s].sent = 0]
            /\ Send(Reply(clients[s], "KeepAlive"))
    /\ UNCHANGED <<client, slots, pending, entries, max_clients, now, accepted, world>>

SendPayload(id) ==
    /\ SlotsOfId(id) # {}
    /\ \E s \in {First(SlotsOfId(id))} :
         /\ clients[s].sequence \in PayloadAt
         /\ clients' = [clients EXCEPT ![s].sequence = NextSequence(@), ![s].sent = 0]
         /\ Send(Reply(clients[s], "Payload"))
    /\ UNCHANGED <<client, slots, pending, entries, max_clients, now, accepted, world>>

Disconnect(id) ==
    /\ SlotsOfId(id) # {}
    /\ \E s \in {First(SlotsOfId(id))} :
         /\ clients' = Without(clients, s)
         /\ Send(Reply(clients[s], "Disconnect"))
    /\ UNCHANGED <<client, slots, pending, entries, max_clients, now, accepted, world>>

SetMaxClients(n) ==
    /\ max_clients' = n
    /\ UNCHANGED <<client, slots, clients, pending, entries, now, net, accepted, world>>

(***************************************************************************)
(* connect_token_entries remembers from which address a token was first    *)
(* used, and overwrites its oldest entry when it is full.                  *)
(***************************************************************************)
(* Fault: an entry of another address does not count. *)
UsedElsewhereNever(a, t) == FALSE

UsedElsewhere(a, t) ==
    \E i \in DOMAIN entries : entries[i].token = t /\ entries[i].addr # a

Oldest == CHOOSE i \in DOMAIN entries : \A j \in DOMAIN entries :
              entries[i].time < entries[j].time \/ (entries[i].time = entries[j].time /\ i <= j)

FindOrAddConnectTokenEntry(a, t) ==
    LET entry == [token |-> t, addr |-> a, time |-> now] IN
    entries' = IF \E i \in DOMAIN entries : entries[i].token = t THEN entries
               ELSE IF Len(entries) < NumEntries THEN Append(entries, entry)
               ELSE [entries EXCEPT ![Oldest] = entry]

\* The checks of handle_connection_request that deny a request without an answer.
Refused(a, t) ==
    \/ now >= Expire[t]
    \/ SlotsOfAddr(a) # {}
    \/ AlreadyConnected(ClientId[t])
    \/ a \notin DOMAIN pending /\ Cardinality(DOMAIN pending) >= MaxPending
    \/ UsedElsewhere(a, t)

Full == Cardinality(DOMAIN clients) >= max_clients

HandleConnectionRequest(a, t) ==
    /\ \/ /\ Refused(a, t)
          /\ UNCHANGED <<pending, entries, net>>
       \/ /\ ~Refused(a, t) /\ Full
          /\ FindOrAddConnectTokenEntry(a, t)
          /\ pending' = Without(pending, a)
          /\ Send({Packet("client", a, "ConnectionDenied", t, t, -1)})
       \/ /\ ~Refused(a, t) /\ ~Full
          /\ FindOrAddConnectTokenEntry(a, t)
          /\ pending' = IF a \in DOMAIN pending THEN pending
                        ELSE With(pending, a, [token |-> t, window |-> NewReplayProtection])
          /\ Send({Packet("client", a, "Challenge", t, t, -1)})
    /\ UNCHANGED <<clients, accepted>>

\* A pending client answers the challenge made for token t.
HandleResponse(a, t) ==
    /\ pending' = Without(pending, a)
    /\ \/ /\ AlreadyConnected(ClientId[t])
          /\ UNCHANGED <<clients, net, accepted>>
       \/ /\ ~AlreadyConnected(ClientId[t]) /\ FreeSlots = {}
          /\ Send({Packet("client", a, "ConnectionDenied", pending[a].token, t, -1)})
          /\ UNCHANGED <<clients, accepted>>
       \/ /\ ~AlreadyConnected(ClientId[t]) /\ FreeSlots # {}
          /\ \E c \in {[token |-> pending[a].token, user_data |-> t, addr |-> a, sequence |-> 0,
                        window |-> pending[a].window, received |-> 0, sent |-> 0]} :
               /\ clients' = With(clients, First(FreeSlots),
                                  [c EXCEPT !.sequence = NextSequence(@)])
               /\ Send(Reply(c, "KeepAlive"))
               /\ accepted' = accepted \union {<<a, c.token>>}
    /\ UNCHANGED entries

FromConnected(m) ==
    /\ \E s \in {First(SlotsOfAddr(m.addr))} :
         \/ /\ ~Decodes(m, clients[s].token, clients[s].window)
            /\ UNCHANGED clients
         \/ /\ Decodes(m, clients[s].token, clients[s].window)
            /\ clients' = IF m.type = "Disconnect" THEN Without(clients, s)
                          ELSE [clients EXCEPT ![s].received = 0, ![s].window = Advanced(m, @)]
    /\ UNCHANGED <<pending, entries, net, accepted>>

FromPending(m) ==
    LET a == m.addr
        opens == Decodes(m, pending[a].token, pending[a].window)
    IN
    \/ /\ m.type = "ConnectionRequest"
       /\ HandleConnectionRequest(a, m.key)
    \/ /\ m.type = "Response" /\ opens
       /\ HandleResponse(a, m.of)
    \/ /\ m.type \notin {"ConnectionRequest", "Response"} /\ opens
       /\ pending' = [pending EXCEPT ![a].window = Advanced(m, @)]
       /\ UNCHANGED <<clients, entries, net, accepted>>
    \/ /\ ~opens
       /\ UNCHANGED <<clients, pending, entries, net, accepted>>

FromNew(m) ==
    \/ /\ m.type = "ConnectionRequest"
       /\ HandleConnectionRequest(m.addr, m.key)
    \/ /\ m.type # "ConnectionRequest"
       /\ UNCHANGED <<clients, pending, entries, net, accepted>>

ProcessPacket(m) ==
    /\ m.to = "server"
    /\ \/ SlotsOfAddr(m.addr) # {} /\ FromConnected(m)
       \/ SlotsOfAddr(m.addr) = {} /\ m.addr \in DOMAIN pending /\ FromPending(m)
       \/ SlotsOfAddr(m.addr) = {} /\ m.addr \notin DOMAIN pending /\ FromNew(m)
    /\ UNCHANGED <<client, slots, max_clients, now, world>>

(***************************************************************************)
(* The network, and the specification.                                     *)
(***************************************************************************)
Deliver(m) == ClientProcessPacket(m) \/ ProcessPacket(m)

\* The link goes down for good.
Cut ==
    /\ link = "up"
    /\ link' = "down"
    /\ net' = {}
    /\ UNCHANGED <<client, server, starts>>

Init ==
    /\ client = << >> /\ clients = << >> /\ pending = << >> /\ entries = << >>
    /\ slots \in Capacities /\ max_clients = slots
    /\ now = 0 /\ link = "up" /\ starts = 0
    /\ net = {} /\ accepted = {}

Ids == {ClientId[t] : t \in Token}

Next ==
    \/ \E a \in Addr :
         \/ \E t \in Presents[a] : Start(a, t)
         \/ \E d \in Durations : ClientUpdate(a, d)
         \/ ClientSendPayload(a)
         \/ ClientDisconnect(a)
    \/ Update(1)
    \/ \E id \in Ids : UpdateClient(id) \/ SendPayload(id) \/ Disconnect(id)
    \/ \E n \in Limits : SetMaxClients(n)
    \/ \E m \in net : Deliver(m)
    \/ Cut

\* The transports call the update methods in every frame.
Fairness ==
    /\ WF_vars(Update(1))
    /\ \A id \in Ids : WF_vars(UpdateClient(id))
    /\ \A a \in Addr, d \in Durations \ {0} : WF_vars(ClientUpdate(a, d))

Spec == Init /\ [][Next]_vars /\ Fairness

(***************************************************************************)
(* Properties.                                                             *)
(***************************************************************************)
Windows == [most_recent : Int, received : [0 .. (BufferSize - 1) -> Int]]

ClientRecords ==
    [token : Token, state : {"request", "response", "connected", "disconnected"}, host : Nat,
     sequence : 0 .. MaxSequence, window : Windows, challenge : Token,
     started : Nat, received : Nat, sent : Nat]

Connections ==
    [token : Token, user_data : Token, addr : Addr, sequence : 0 .. MaxSequence, window : Windows,
     received : Nat, sent : Nat]

ClientType ==
    DOMAIN client \subseteq Addr /\ \A a \in DOMAIN client : client[a] \in ClientRecords

SlotType ==
    slots \in Nat /\ DOMAIN clients \subseteq 1 .. slots
        /\ \A s \in DOMAIN clients : clients[s] \in Connections

PendingType ==
    DOMAIN pending \subseteq Addr
        /\ \A a \in DOMAIN pending : pending[a] \in [token : Token, window : Windows]

Packets ==
    [to : {"client", "server"}, addr : Addr, type : PacketTypes, key : Token, of : Token,
     seq : -1 .. MaxSequence]

\* The types of the state; a connection is only ever put in a slot that exists.
TypeOK ==
    /\ ClientType /\ SlotType /\ PendingType
    /\ net \subseteq Packets
    /\ entries \in Seq([token : Token, addr : Addr, time : Nat])
    /\ max_clients \in Nat /\ now \in Nat
    /\ link \in {"up", "down"} /\ starts \in 0 .. MaxStarts
    /\ accepted \subseteq (Addr \X Token)

\* No two slots have one address, and no pending connection has the address of a slot, however
\* requests, responses and restarts interleave, with or without encryption: the lookup by
\* address finds at most one client, and the branch of handle_connection_request that its
\* comment calls unreachable is.
UniqueAddresses ==
    /\ \A r, s \in DOMAIN clients : r # s => clients[r].addr # clients[s].addr
    /\ \A s \in DOMAIN clients : clients[s].addr \notin DOMAIN pending

\* A packet tells whose it is, by the key that decodes it or, where netcode checks none, by
\* its address: the address of a web session is its own, and its client presents one token.
\* Nothing in the server makes sure of it.  Where an address without encryption presents two
\* tokens, the pending connection of the one is admitted by the challenge of the other, and
\* UniqueClients, IdentityMatches, KeysMatch and AcceptedFirst are all lost.
Attributable == \A a \in Addr \ Encrypted : \A t, u \in Presents[a] : t = u

\* Where packets are attributable, no two slots hold one client id: the lookups by id, of
\* update_client, generate_payload_packet and disconnect, find at most one client, although
\* the id that is checked is the challenge's and the id that is stored the pending one's.
UniqueClients ==
    \A r, s \in DOMAIN clients : r # s => ClientId[clients[r].token] # ClientId[clients[s].token]

\* Where packets are attributable, the user data of a connected client is that of the token
\* its id and its keys come from, although the one is taken from the challenge and the others
\* from the pending connection, which keeps the token it was made with when another one is
\* presented from its address.
IdentityMatches == \A s \in DOMAIN clients : clients[s].user_data = clients[s].token

\* Where packets are attributable, a challenge is only ever held, or sent, together with the
\* key of the token it was made for.
KeysMatch ==
    /\ \A m \in net : m.of = m.key
    /\ \A a \in DOMAIN client : client[a].challenge = client[a].token

\* A connect token is good for one address: whatever is pending with it, is connected with it
\* or ever was, has the same address.  It needs an entry of connect_token_entries for every
\* token in use, since a full table forgets the oldest one.
TokenBound ==
    NumEntries >= Cardinality(Token) =>
        \A p, q \in accepted \union {<<a, pending[a].token>> : a \in DOMAIN pending} :
            p[2] = q[2] => p[1] = q[1]

\* Where packets are attributable, a client believes it is connected only if the server has
\* connected its token at its address, be it for a NetcodeClient made there before.
AcceptedFirst ==
    \A a \in DOMAIN client : client[a].state = "connected" => <<a, client[a].token>> \in accepted

\* Once the link is down, both ends come to know: the server frees every slot and drops every
\* pending connection, the clients are disconnected, and it stays so, whatever late or
\* repeated packets had refreshed their timeouts before.
DeadLinkIsNoticed ==
    link = "down" ~> [](/\ DOMAIN clients = {} /\ DOMAIN pending = {}
                        /\ \A a \in DOMAIN client : client[a].state = "disconnected")

\* A connecting client is connected, or gives up: it does not go through its servers for ever.
ConnectingEnds ==
    \A a \in Addr : (a \in DOMAIN client /\ Connecting(client[a]))
                        ~> (a \in DOMAIN client /\ ~Connecting(client[a]))

\* A response is denied for want of a slot only when max_clients clients are connected
\* (set_max_clients: "Update the maximum numbers of clients that can be connected").
DeniedOnlyWhenFull ==
    [][\A a \in DOMAIN pending :
         (\E t \in Token : /\ Packet("client", a, "ConnectionDenied", t, t, -1) \in net' \ net
                           /\ a \notin DOMAIN pending')
            => Full]_vars
=============================================================================
