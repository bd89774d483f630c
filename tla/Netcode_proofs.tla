---------------------------- MODULE Netcode_proofs ----------------------------
(***************************************************************************)
(* The tables of the netcode server hold every client once and under its   *)
(* own name, for any number of addresses, tokens and slots, and whatever   *)
(* the network delivers, drops or repeats.                                 *)
(*                                                                         *)
(* UniqueClients is not inductive alone: the slot takes its client id from *)
(* the pending connection and the check of the id from the challenge.      *)
(* That both are of one token needs KeysMatch, whoever sends a Response    *)
(* with the key of a token holds a challenge made for that token, and that *)
(* the Response is of the pending token: by its key where netcode encrypts *)
(* and elsewhere by Attributable, since Provenance has whatever belongs to *)
(* an address carry a token that is presented there.                       *)
(***************************************************************************)
EXTENDS Netcode, TLAPS, SequenceTheorems, WellFoundedInduction, FiniteSetTheorems

Provenance ==
    /\ \A m \in net : m.key \in Presents[m.addr]
    /\ \A a \in DOMAIN client : client[a].token \in Presents[a]
    /\ \A a \in DOMAIN pending : pending[a].token \in Presents[a]
    /\ \A s \in DOMAIN clients : clients[s].token \in Presents[clients[s].addr]

IInv ==
    /\ TypeOK /\ Provenance /\ UniqueAddresses
    /\ Attributable => UniqueClients /\ IdentityMatches /\ KeysMatch

LEMMA FirstIsMember ==
    ASSUME NEW S, S \subseteq Nat, S # {}
    PROVE  First(S) \in S
<1> DEFINE R == {p \in Nat \X Nat : p[1] < p[2]}
<1>1. IsWellFoundedOn(R, Nat)
  BY NatLessThanWellFounded DEF OpToRel
<1>2. \E x \in S : \A y \in S : <<y, x>> \notin R
  BY <1>1, WFMin
<1>3. \E x \in S : \A y \in S : x <= y
  <2> PICK x \in S : \A y \in S : <<y, x>> \notin R
    BY <1>2
  <2> SUFFICES ASSUME NEW y \in S PROVE x <= y
    OBVIOUS
  <2>1. x \in Nat /\ y \in Nat /\ ~(y < x)
    OBVIOUS
  <2> QED BY <2>1
<1> QED BY <1>3 DEF First

LEMMA LeastType ==
    ASSUME NEW a \in Nat, NEW b \in Nat
    PROVE  Least(a, b) \in Nat /\ Least(a, b) <= b /\ Least(a, b) <= a
BY DEF Least

LEMMA NextSequenceType ==
    ASSUME NEW n \in 0 .. MaxSequence
    PROVE  NextSequence(n) \in 0 .. MaxSequence
BY NetcodeAssumption DEF NextSequence, Least

LEMMA NewWindowType == NewReplayProtection \in Windows
BY DEF NewReplayProtection, Windows, Empty

LEMMA AdvancedType ==
    ASSUME NEW m \in Packets, NEW w \in Windows
    PROVE  Advanced(m, w) \in Windows
<1>1. m.seq \in Int
  BY NetcodeAssumption DEF Packets
<1>2. CASE m.type \in ReplayProtected
  <2>1. /\ (IF m.seq > w.most_recent THEN m.seq ELSE w.most_recent) \in Int
        /\ [w.received EXCEPT ![m.seq % BufferSize] = m.seq] \in [0 .. (BufferSize - 1) -> Int]
    BY <1>1 DEF Windows
  <2> QED BY <1>2, <2>1 DEF Advanced, AdvanceSequence, Windows
<1>3. CASE m.type \notin ReplayProtected
  BY <1>3 DEF Advanced
<1> QED BY <1>2, <1>3

\* A packet of a token presented at its address that carries, where packets are
\* attributable, a challenge made for that token.
Honest(m) ==
    m \in Packets /\ m.key \in Presents[m.addr] /\ (Attributable => m.of = m.key)

\* A packet that decodes as one of token t is of token t.
LEMMA DecodedKey ==
    ASSUME Attributable, NEW m, Honest(m), NEW t \in Presents[m.addr], NEW w,
           Decodes(m, t, w), m.type # "ConnectionRequest"
    PROVE  m.key = t
<1>1. m.addr \in Addr
  BY DEF Honest, Packets
<1> QED BY <1>1 DEF Attributable, Decodes, Honest

LEMMA SendKeeps ==
    ASSUME \A m \in net : Honest(m), NEW P, Send(P), \A m \in P : Honest(m)
    PROVE  \A m \in net' : Honest(m)
BY DEF Send

LEMMA ReplyHonest ==
    ASSUME NEW c \in Connections, c.token \in Presents[c.addr], NEW type \in PacketTypes
    PROVE  \A m \in Reply(c, type) : Honest(m)
<1>1. c.addr \in Addr /\ c.token \in Token /\ c.sequence \in -1 .. MaxSequence
  BY NetcodeAssumption DEF Connections
<1>2. Honest(Packet("client", c.addr, type, c.token, c.token, c.sequence))
  BY <1>1, NetcodeAssumption DEF Packet, Honest, Packets
<1> QED BY <1>2 DEF Reply, Carried

LEMMA InitIInv == Init => IInv
<1> SUFFICES ASSUME Init PROVE IInv
  OBVIOUS
<1>1. DOMAIN << >> = {} /\ << >> \in Seq([token : Token, addr : Addr, time : Nat])
  OBVIOUS
<1>2. TypeOK
  BY <1>1, NetcodeAssumption DEF Init, TypeOK, ClientType, SlotType, PendingType
<1> QED BY <1>1, <1>2 DEF Init, IInv, Provenance, UniqueAddresses, UniqueClients,
                          IdentityMatches, KeysMatch

(***************************************************************************)
(* Steps of the clients.                                                   *)
(***************************************************************************)
ClientOK(a, c) ==
    c \in ClientRecords /\ c.token \in Presents[a] /\ (Attributable => c.challenge = c.token)

\* What every step of a client leaves: its record and the packets it sends.
LEMMA ClientStep ==
    ASSUME IInv, NEW a \in Addr, NEW c, ClientOK(a, c), UNCHANGED <<server, link>>,
           starts' \in 0 .. MaxStarts,
           \/ client' = With(client, a, c)
           \/ a \in DOMAIN client /\ client' = [client EXCEPT ![a] = c],
           \A m \in net' : Honest(m)
    PROVE  IInv'
<1>1. /\ ClientType' /\ \A x \in DOMAIN client' : client'[x].token \in Presents[x]
      /\ Attributable => \A x \in DOMAIN client' : client'[x].challenge = client'[x].token
  BY DEF IInv, TypeOK, ClientType, Provenance, KeysMatch, With, ClientOK
<1>2. TypeOK'
  BY <1>1 DEF IInv, TypeOK, SlotType, PendingType, Honest, server
<1>3. Provenance' /\ UniqueAddresses'
  BY <1>1 DEF IInv, Provenance, UniqueAddresses, Honest, server
<1>4. ASSUME Attributable PROVE UniqueClients' /\ IdentityMatches' /\ KeysMatch'
  BY <1>1, <1>4 DEF IInv, UniqueClients, IdentityMatches, KeysMatch, Honest, server
<1> QED BY <1>2, <1>3, <1>4 DEF IInv

LEMMA NetHonest == IInv => \A m \in net : Honest(m)
BY DEF IInv, TypeOK, Provenance, KeysMatch, Honest

LEMMA PresentsTokens == \A a \in Addr : Presents[a] \subseteq Token
BY NetcodeAssumption

LEMMA NewClientOK ==
    ASSUME NEW a \in Addr, NEW t \in Presents[a]
    PROVE  ClientOK(a, NewClient(t))
<1> t \in Token
  BY PresentsTokens
<1>1. 0 \in 0 .. MaxSequence /\ SendRate \in Nat /\ NewReplayProtection \in Windows
  BY NetcodeAssumption, NewWindowType
<1> HIDE DEF NewReplayProtection
<1> QED BY <1>1 DEF ClientOK, NewClient, ClientRecords

LEMMA ClientAgedOK ==
    ASSUME NEW a, NEW c, ClientOK(a, c), NEW d \in Nat
    PROVE  ClientOK(a, ClientAged(c, d))
<1>1. /\ c.token \in Token /\ c.started \in Nat /\ c.received \in Nat /\ c.sent \in Nat
      /\ Expire[c.token] \in Nat /\ Timeout[c.token] + 1 \in Nat /\ SendRate \in Nat
  BY NetcodeAssumption DEF ClientOK, ClientRecords
<1>2. /\ Least(c.started + d, Expire[c.token]) \in Nat
      /\ Least(c.received + d, Timeout[c.token] + 1) \in Nat
      /\ Least(c.sent + d, SendRate) \in Nat
  BY <1>1 DEF Least
<1> QED BY <1>1, <1>2 DEF ClientOK, ClientRecords, ClientAged

LEMMA InternalStateOK ==
    ASSUME NEW a, NEW c, ClientOK(a, c)
    PROVE  ClientOK(a, InternalState(c))
<1>1. ClientOK(a, [c EXCEPT !.state = "disconnected"])
  BY DEF ClientOK, ClientRecords
<1>2. ClientOK(a, [c EXCEPT !.state = "request", !.host = @ + 1,
                         !.started = 0, !.received = 0, !.sent = SendRate])
  <2>1. c.host + 1 \in Nat /\ SendRate \in Nat
    BY NetcodeAssumption DEF ClientOK, ClientRecords
  <2> QED BY <2>1 DEF ClientOK, ClientRecords
<1> QED BY <1>1, <1>2 DEF InternalState

LEMMA ProcessedOK ==
    ASSUME NEW a, NEW c, ClientOK(a, c), NEW m, Honest(m),
           Attributable => m.key = c.token \/ m.type = "ConnectionRequest"
    PROVE  ClientOK(a, Processed(c, m))
<1>1. ClientOK(a, [c EXCEPT !.state = "disconnected", !.received = 0])
  BY DEF ClientOK, ClientRecords
<1>2. CASE m.type = "Challenge"
  <2>1. m.of \in Token /\ (Attributable => m.of = c.token)
    BY <1>2 DEF Honest, Packets
  <2>2. ClientOK(a, [c EXCEPT !.state = "response", !.challenge = m.of, !.received = 0, !.sent = SendRate])
    BY <2>1, NetcodeAssumption DEF ClientOK, ClientRecords
  <2> QED BY <1>2, <2>2 DEF Processed
<1>3. ClientOK(a, [c EXCEPT !.state = "connected", !.received = 0]) /\ ClientOK(a, [c EXCEPT !.received = 0])
  BY DEF ClientOK, ClientRecords
<1> QED BY <1>1, <1>2, <1>3 DEF Processed

LEMMA StartStep == ASSUME IInv, NEW a \in Addr, NEW t \in Presents[a], Start(a, t) PROVE IInv'
<1>1. ClientOK(a, NewClient(t)) /\ client' = With(client, a, NewClient(t))
  BY NewClientOK DEF Start
<1>2. starts' \in 0 .. MaxStarts
  BY NetcodeAssumption DEF Start, IInv, TypeOK
<1>3. UNCHANGED <<server, link>> /\ \A m \in net' : Honest(m)
  BY NetHonest DEF Start
<1> HIDE DEF NewClient, With
<1> QED BY <1>1, <1>2, <1>3, ClientStep

LEMMA StartsKept == IInv /\ UNCHANGED world => starts' \in 0 .. MaxStarts /\ UNCHANGED link
BY DEF IInv, TypeOK, world

LEMMA ClientIsOK == ASSUME IInv, NEW a \in DOMAIN client PROVE a \in Addr /\ ClientOK(a, client[a])
BY DEF IInv, TypeOK, ClientType, Provenance, KeysMatch, ClientOK

LEMMA ClientSendsKeeps ==
    ASSUME IInv, NEW c, NEW p, Honest(p), ClientSends(c, {p})
    PROVE  \A m \in net' : Honest(m)
<1>1. PICK P : Send(P) /\ P \subseteq {p}
  BY DEF ClientSends, Carried
<1> QED BY <1>1, NetHonest, SendKeeps

LEMMA ClientUpdateStep ==
    ASSUME IInv, NEW a \in Addr, NEW d \in Durations, ClientUpdate(a, d)
    PROVE  IInv'
<1>1. a \in DOMAIN client /\ ClientOK(a, client[a]) /\ d \in Nat
  BY ClientIsOK, NetcodeAssumption DEF ClientUpdate
<1> DEFINE c == InternalState(ClientAged(client[a], d))
           sending == [c EXCEPT !.sent = 0, !.sequence = NextSequence(@)]
<1>2. ClientOK(a, c)
  BY <1>1, ClientAgedOK, InternalStateOK
<1>3. UNCHANGED <<server, link>> /\ starts' \in 0 .. MaxStarts
  BY StartsKept DEF ClientUpdate
<1>4. \/ client' = [client EXCEPT ![a] = sending] /\ ClientSends(c, Generated(a, c))
      \/ client' = [client EXCEPT ![a] = c] /\ UNCHANGED net
  BY DEF ClientUpdate
<1> HIDE DEF c
<1>5. CASE client' = [client EXCEPT ![a] = c] /\ UNCHANGED net
  BY <1>1, <1>2, <1>3, <1>5, NetHonest, ClientStep
<1>6. CASE client' = [client EXCEPT ![a] = sending] /\ ClientSends(c, Generated(a, c))
  <2>1. ClientOK(a, sending)
    <3>1. NextSequence(c.sequence) \in 0 .. MaxSequence
      BY <1>2, NextSequenceType DEF ClientOK, ClientRecords
    <3> QED BY <1>2, <3>1 DEF ClientOK, ClientRecords
  <2>2. PICK type \in PacketTypes :
            Generated(a, c) = {Packet("server", a, type, c.token, c.challenge, c.sequence)}
    <3>1. {"ConnectionRequest", "Response", "KeepAlive"} \subseteq PacketTypes
      BY DEF PacketTypes, ReplayProtected
    <3> DEFINE type == CASE c.state = "request"  -> "ConnectionRequest"
                         [] c.state = "response" -> "Response"
                         [] OTHER                -> "KeepAlive"
    <3>2. type \in PacketTypes
      BY <3>1
    <3>3. Generated(a, c) = {Packet("server", a, type, c.token, c.challenge, c.sequence)}
      BY DEF Generated
    <3> QED BY <3>2, <3>3
  <2>3. Honest(Packet("server", a, type, c.token, c.challenge, c.sequence))
    <3>1. /\ c.token \in Token /\ c.challenge \in Token /\ c.sequence \in -1 .. MaxSequence
          /\ c.token \in Presents[a] /\ (Attributable => c.challenge = c.token)
      BY <1>2, NetcodeAssumption DEF ClientOK, ClientRecords
    <3> QED BY <3>1, NetcodeAssumption DEF Packet, Honest, Packets
  <2>4. \A m \in net' : Honest(m)
    BY <1>6, <2>2, <2>3, ClientSendsKeeps
  <2> HIDE DEF sending
  <2> QED BY <1>1, <1>3, <1>6, <2>1, <2>4, ClientStep
<1> QED BY <1>4, <1>5, <1>6

LEMMA ClientProcessStep ==
    ASSUME IInv, NEW m \in net, ClientProcessPacket(m)
    PROVE  IInv'
<1> DEFINE a == m.addr
           c == client[a]
           opened == [c EXCEPT !.window = Advanced(m, @)]
<1>1. a \in DOMAIN client /\ a \in Addr /\ ClientOK(a, c) /\ Honest(m)
  BY ClientIsOK, NetHonest DEF ClientProcessPacket
<1>2. UNCHANGED <<server, link>> /\ starts' \in 0 .. MaxStarts /\ \A n \in net' : Honest(n)
  BY StartsKept, NetHonest DEF ClientProcessPacket
<1>3. \/ client' = [client EXCEPT ![a] = c]
      \/ client' = [client EXCEPT ![a] = Processed(opened, m)] /\ Decodes(m, c.token, c.window)
  BY DEF ClientProcessPacket
<1>4. ClientOK(a, opened) /\ opened.token = c.token
  <2>1. Advanced(m, c.window) \in Windows
    BY <1>1, AdvancedType DEF ClientOK, ClientRecords, Honest
  <2> QED BY <1>1, <2>1 DEF ClientOK, ClientRecords
<1>5. Decodes(m, c.token, c.window) => ClientOK(a, Processed(opened, m))
  <2>1. Attributable /\ Decodes(m, c.token, c.window)
          => m.key = c.token \/ m.type = "ConnectionRequest"
    BY <1>1, DecodedKey DEF ClientOK
  <2> HIDE DEF opened
  <2> QED BY <1>1, <1>4, <2>1, ProcessedOK
<1> HIDE DEF opened, a, c
<1>6. CASE client' = [client EXCEPT ![a] = c]
  BY <1>1, <1>2, <1>6, ClientStep
<1>7. CASE client' = [client EXCEPT ![a] = Processed(opened, m)] /\ Decodes(m, c.token, c.window)
  BY <1>1, <1>2, <1>5, <1>7, ClientStep
<1> QED BY <1>3, <1>6, <1>7

LEMMA ClientSendPayloadStep ==
    ASSUME IInv, NEW a \in Addr, ClientSendPayload(a)
    PROVE  IInv'
<1> DEFINE c == client[a]
           sent == [c EXCEPT !.sequence = NextSequence(@), !.sent = 0]
           p == Packet("server", a, "Payload", c.token, c.token, c.sequence)
<1>1. a \in DOMAIN client /\ ClientOK(a, c)
  BY ClientIsOK DEF ClientSendPayload
<1>2. client' = [client EXCEPT ![a] = sent] /\ ClientSends(c, {p})
  BY DEF ClientSendPayload
<1>3. ClientOK(a, sent)
  <2>1. NextSequence(c.sequence) \in 0 .. MaxSequence
    BY <1>1, NextSequenceType DEF ClientOK, ClientRecords
  <2> QED BY <1>1, <2>1 DEF ClientOK, ClientRecords
<1>4. Honest(p)
  <2>1. /\ c.token \in Token /\ c.token \in Presents[a] /\ c.sequence \in -1 .. MaxSequence
        /\ "Payload" \in PacketTypes
    BY <1>1, NetcodeAssumption DEF ClientOK, ClientRecords, PacketTypes, ReplayProtected
  <2> QED BY <2>1, NetcodeAssumption DEF Packet, Honest, Packets
<1>5. UNCHANGED <<server, link>> /\ starts' \in 0 .. MaxStarts
  BY StartsKept DEF ClientSendPayload
<1> HIDE DEF sent, p
<1>6. \A m \in net' : Honest(m)
  BY <1>2, <1>4, ClientSendsKeeps
<1> QED BY <1>1, <1>2, <1>3, <1>5, <1>6, ClientStep

LEMMA ClientDisconnectStep ==
    ASSUME IInv, NEW a \in Addr, ClientDisconnect(a)
    PROVE  IInv'
<1> DEFINE c == client[a]
           gone == [c EXCEPT !.state = "disconnected"]
           p == Packet("server", a, "Disconnect", c.token, c.token, c.sequence)
<1>1. a \in DOMAIN client /\ ClientOK(a, c)
  BY ClientIsOK DEF ClientDisconnect
<1>2. client' = [client EXCEPT ![a] = gone] /\ ClientSends(c, {p})
  BY DEF ClientDisconnect
<1>3. ClientOK(a, gone)
  BY <1>1 DEF ClientOK, ClientRecords
<1>4. Honest(p)
  <2>1. /\ c.token \in Token /\ c.token \in Presents[a] /\ c.sequence \in -1 .. MaxSequence
        /\ "Disconnect" \in PacketTypes
    BY <1>1, NetcodeAssumption DEF ClientOK, ClientRecords, PacketTypes, ReplayProtected
  <2> QED BY <2>1, NetcodeAssumption DEF Packet, Honest, Packets
<1>5. UNCHANGED <<server, link>> /\ starts' \in 0 .. MaxStarts
  BY StartsKept DEF ClientDisconnect
<1> HIDE DEF gone, p
<1>6. \A m \in net' : Honest(m)
  BY <1>2, <1>4, ClientSendsKeeps
<1> QED BY <1>1, <1>2, <1>3, <1>5, <1>6, ClientStep

(***************************************************************************)
(* Steps of the server that admit no client.                               *)
(***************************************************************************)
SameSession(old, new) ==
    /\ new \in Connections
    /\ new.token = old.token /\ new.user_data = old.user_data /\ new.addr = old.addr

\* The pending connections: typed, and each of a token presented at its address.
PendingOK == PendingType /\ \A a \in DOMAIN pending : pending[a].token \in Presents[a]

EntryRecords == [token : Token, addr : Addr, time : Nat]

\* The server keeps, or drops, the sessions and pending connections it has; an address that
\* becomes pending is not connected.
LEMMA NoneAdmitted ==
    ASSUME IInv, UNCHANGED <<client, slots, accepted>>,
           link' \in {"up", "down"}, UNCHANGED starts,
           DOMAIN clients' \subseteq DOMAIN clients,
           \A s \in DOMAIN clients' : SameSession(clients[s], clients'[s]),
           PendingOK',
           \A a \in DOMAIN pending' : a \in DOMAIN pending \/ SlotsOfAddr(a) = {},
           entries' \in Seq(EntryRecords), max_clients' \in Nat, now' \in Nat,
           \A m \in net' : Honest(m)
    PROVE  IInv'
<1>1. ClientType' /\ SlotType'
  BY DEF IInv, TypeOK, ClientType, SlotType, SameSession
<1>2. TypeOK'
  BY <1>1 DEF IInv, TypeOK, Honest, EntryRecords, PendingOK
<1>3. Provenance'
  BY DEF IInv, Provenance, SameSession, PendingOK, Honest
<1>4. UniqueAddresses'
  <2>1. \A r, s \in DOMAIN clients' : r # s => clients'[r].addr # clients'[s].addr
    BY DEF IInv, UniqueAddresses, SameSession
  <2>2. \A s \in DOMAIN clients' : clients'[s].addr \notin DOMAIN pending'
    <3> SUFFICES ASSUME NEW s \in DOMAIN clients', clients'[s].addr \in DOMAIN pending' PROVE FALSE
      OBVIOUS
    <3>1. s \in DOMAIN clients /\ clients[s].addr \in DOMAIN pending'
      BY DEF SameSession
    <3>2. clients[s].addr \notin DOMAIN pending /\ s \in SlotsOfAddr(clients[s].addr)
      BY <3>1 DEF IInv, UniqueAddresses, SlotsOfAddr
    <3> QED BY <3>1, <3>2
  <2> QED BY <2>1, <2>2 DEF UniqueAddresses
<1>5. ASSUME Attributable PROVE UniqueClients' /\ IdentityMatches' /\ KeysMatch'
  <2>1. UniqueClients'
    BY <1>5 DEF IInv, UniqueClients, SameSession
  <2>2. IdentityMatches'
    BY <1>5 DEF IInv, IdentityMatches, SameSession
  <2>3. KeysMatch'
    BY <1>5 DEF IInv, KeysMatch, Honest
  <2> QED BY <2>1, <2>2, <2>3
<1> QED BY <1>2, <1>3, <1>4, <1>5 DEF IInv

LEMMA ServerIsOK ==
    IInv => /\ PendingOK /\ entries \in Seq(EntryRecords) /\ max_clients \in Nat /\ now \in Nat
            /\ link \in {"up", "down"}
            /\ \A s \in DOMAIN clients : /\ clients[s] \in Connections
                                          /\ SameSession(clients[s], clients[s])
                                          /\ clients[s].token \in Presents[clients[s].addr]
            /\ \A m \in net : Honest(m)
BY NetHonest DEF IInv, TypeOK, SlotType, SameSession, EntryRecords, PendingOK, Provenance

LEMMA DroppedSlot ==
    ASSUME IInv, NEW s, clients' = Without(clients, s)
    PROVE  /\ DOMAIN clients' \subseteq DOMAIN clients
           /\ \A r \in DOMAIN clients' : SameSession(clients[r], clients'[r])
BY ServerIsOK DEF Without

LEMMA RenewedSlot ==
    ASSUME IInv, NEW s \in DOMAIN clients, NEW c, SameSession(clients[s], c),
           clients' = [clients EXCEPT ![s] = c]
    PROVE  /\ DOMAIN clients' \subseteq DOMAIN clients
           /\ \A r \in DOMAIN clients' : SameSession(clients[r], clients'[r])
BY ServerIsOK

\* A slot found by id or by address is one of the server's.
LEMMA FoundSlot ==
    ASSUME IInv
    PROVE  /\ \A id : SlotsOfId(id) # {} => First(SlotsOfId(id)) \in SlotsOfId(id)
           /\ \A a : SlotsOfAddr(a) # {} => First(SlotsOfAddr(a)) \in SlotsOfAddr(a)
<1>1. DOMAIN clients \subseteq Nat
  BY DEF IInv, TypeOK, SlotType
<1>2. ASSUME NEW id PROVE SlotsOfId(id) \subseteq Nat
  BY <1>1 DEF SlotsOfId
<1>3. ASSUME NEW a PROVE SlotsOfAddr(a) \subseteq Nat
  BY <1>1 DEF SlotsOfAddr
<1> QED BY <1>2, <1>3, FirstIsMember

LEMMA UpdateStep == IInv /\ Update(1) => IInv'
<1> SUFFICES ASSUME IInv, Update(1) PROVE IInv'
  OBVIOUS
<1>1. now' \in Nat
  <2>1. now + 1 \in Nat /\ LastSecond \in Nat
    BY ServerIsOK, NetcodeAssumption
  <2>2. Least(now + 1, LastSecond) \in Nat
    BY <2>1 DEF Least
  <2> QED BY <2>2 DEF Update
<1>2. /\ DOMAIN clients' \subseteq DOMAIN clients
      /\ \A s \in DOMAIN clients' : SameSession(clients[s], clients'[s])
  <2> SUFFICES ASSUME NEW s \in DOMAIN clients
               PROVE  SameSession(clients[s],
                        [clients[s] EXCEPT !.received = Least(@ + 1, Timeout[clients[s].token] + 1),
                                           !.sent     = Least(@ + 1, SendRate)])
    BY DEF Update
  <2>1. clients[s] \in Connections
    BY ServerIsOK
  <2>2. /\ Least(clients[s].received + 1, Timeout[clients[s].token] + 1) \in Nat
        /\ Least(clients[s].sent + 1, SendRate) \in Nat
    <3>1. clients[s].received \in Nat /\ clients[s].sent \in Nat /\ clients[s].token \in Token
      BY <2>1 DEF Connections
    <3>2. Timeout[clients[s].token] \in Nat /\ SendRate \in Nat
      BY <3>1, NetcodeAssumption
    <3> QED BY <3>1, <3>2 DEF Least
  <2> QED BY <2>1, <2>2 DEF SameSession, Connections
<1>3. PendingOK' /\ DOMAIN pending' \subseteq DOMAIN pending
  BY ServerIsOK DEF Update, PendingOK, PendingType
<1> QED BY <1>1, <1>2, <1>3, ServerIsOK, NoneAdmitted DEF Update, world

LEMMA EndedSession ==
    ASSUME IInv, NEW s \in DOMAIN clients, clients' = Without(clients, s),
           Send(Reply(clients[s], "Disconnect")),
           UNCHANGED <<client, slots, pending, entries, max_clients, now, accepted, world>>
    PROVE  IInv'
<1>1. "Disconnect" \in PacketTypes /\ clients[s] \in Connections
      /\ clients[s].token \in Presents[clients[s].addr]
  BY ServerIsOK DEF PacketTypes, ReplayProtected
<1>2. \A m \in net' : Honest(m)
  BY <1>1, ReplyHonest, SendKeeps, ServerIsOK
<1>3. PendingOK'
  BY ServerIsOK DEF PendingOK, PendingType
<1> QED BY <1>2, <1>3, DroppedSlot, ServerIsOK, NoneAdmitted DEF world

LEMMA SentOnSession ==
    ASSUME IInv, NEW s \in DOMAIN clients, NEW type \in {"KeepAlive", "Payload"},
           clients' = [clients EXCEPT ![s].sequence = NextSequence(@), ![s].sent = 0],
           Send(Reply(clients[s], type)),
           UNCHANGED <<client, slots, pending, entries, max_clients, now, accepted, world>>
    PROVE  IInv'
<1> DEFINE c == [clients[s] EXCEPT !.sequence = NextSequence(@), !.sent = 0]
<1>1. type \in PacketTypes /\ clients[s] \in Connections
      /\ clients[s].token \in Presents[clients[s].addr]
  BY ServerIsOK DEF PacketTypes, ReplayProtected
<1>2. \A m \in net' : Honest(m)
  BY <1>1, ReplyHonest, SendKeeps, ServerIsOK
<1>3. SameSession(clients[s], c)
  <2>1. NextSequence(clients[s].sequence) \in 0 .. MaxSequence
    BY <1>1, NextSequenceType DEF Connections
  <2> QED BY <1>1, <2>1 DEF SameSession, Connections
<1>4. clients' = [clients EXCEPT ![s] = c]
  OBVIOUS
<1>5. PendingOK'
  BY ServerIsOK DEF PendingOK, PendingType
<1> HIDE DEF c
<1>6. /\ DOMAIN clients' \subseteq DOMAIN clients
      /\ \A r \in DOMAIN clients' : SameSession(clients[r], clients'[r])
  BY <1>3, <1>4, RenewedSlot
<1> QED BY <1>2, <1>5, <1>6, ServerIsOK, NoneAdmitted DEF world

LEMMA UpdateClientStep == ASSUME IInv, NEW id, UpdateClient(id) PROVE IInv'
<1> DEFINE s == First(SlotsOfId(id))
<1>1. s \in DOMAIN clients
  BY FoundSlot DEF UpdateClient, SlotsOfId
<1>2. UNCHANGED <<client, slots, pending, entries, max_clients, now, accepted, world>>
  BY DEF UpdateClient
<1>3. \/ clients' = Without(clients, s) /\ Send(Reply(clients[s], "Disconnect"))
      \/ /\ clients' = [clients EXCEPT ![s].sequence = NextSequence(@), ![s].sent = 0]
         /\ Send(Reply(clients[s], "KeepAlive"))
  BY DEF UpdateClient
<1> HIDE DEF s
<1> QED BY <1>1, <1>2, <1>3, EndedSession, SentOnSession

LEMMA SendPayloadStep == ASSUME IInv, NEW id, SendPayload(id) PROVE IInv'
<1> DEFINE s == First(SlotsOfId(id))
<1>1. s \in DOMAIN clients
  BY FoundSlot DEF SendPayload, SlotsOfId
<1>2. /\ UNCHANGED <<client, slots, pending, entries, max_clients, now, accepted, world>>
      /\ clients' = [clients EXCEPT ![s].sequence = NextSequence(@), ![s].sent = 0]
      /\ Send(Reply(clients[s], "Payload"))
  BY DEF SendPayload
<1> HIDE DEF s
<1> QED BY <1>1, <1>2, SentOnSession

LEMMA DisconnectStep == ASSUME IInv, NEW id, Disconnect(id) PROVE IInv'
<1> DEFINE s == First(SlotsOfId(id))
<1>1. s \in DOMAIN clients
  BY FoundSlot DEF Disconnect, SlotsOfId
<1>2. /\ UNCHANGED <<client, slots, pending, entries, max_clients, now, accepted, world>>
      /\ clients' = Without(clients, s) /\ Send(Reply(clients[s], "Disconnect"))
  BY DEF Disconnect
<1> HIDE DEF s
<1> QED BY <1>1, <1>2, EndedSession

LEMMA SetMaxClientsStep == ASSUME IInv, NEW n \in Limits, SetMaxClients(n) PROVE IInv'
<1>1. PendingOK'
  BY ServerIsOK DEF PendingOK, PendingType, SetMaxClients
<1> QED BY <1>1, ServerIsOK, NetcodeAssumption, NoneAdmitted DEF SetMaxClients, world

LEMMA CutStep == IInv /\ Cut => IInv'
<1> SUFFICES ASSUME IInv, Cut PROVE IInv'
  OBVIOUS
<1>1. PendingOK'
  BY ServerIsOK DEF PendingOK, PendingType, Cut, server
<1> QED BY <1>1, ServerIsOK, NoneAdmitted DEF Cut, server

(***************************************************************************)
(* Packets that arrive at the server.                                      *)
(***************************************************************************)
LEMMA EntriesTyped ==
    ASSUME IInv, NEW a \in Addr, NEW t \in Token, FindOrAddConnectTokenEntry(a, t)
    PROVE  entries' \in Seq(EntryRecords)
<1> DEFINE entry == [token |-> t, addr |-> a, time |-> now]
<1>1. entry \in EntryRecords /\ entries \in Seq(EntryRecords)
  BY ServerIsOK DEF EntryRecords
<1>2. entries' \in {entries, Append(entries, entry), [entries EXCEPT ![Oldest] = entry]}
  BY DEF FindOrAddConnectTokenEntry
<1> HIDE DEF entry
<1>3. Append(entries, entry) \in Seq(EntryRecords)
  BY <1>1
<1>4. [entries EXCEPT ![Oldest] = entry] \in Seq(EntryRecords)
  <2> DEFINE i == Oldest
  <2> HIDE DEF i
  <2>1. PICK n \in Nat : entries \in [1 .. n -> EntryRecords]
    BY <1>1
  <2>2. [entries EXCEPT ![i] = entry] \in [1 .. n -> EntryRecords]
    BY <1>1, <2>1
  <2>3. [entries EXCEPT ![i] = entry] \in Seq(EntryRecords)
    BY <2>1, <2>2, SeqDef
  <2> QED BY <2>3 DEF i
<1> QED BY <1>1, <1>2, <1>3, <1>4

LEMMA RequestStep ==
    ASSUME IInv, NEW a \in Addr, NEW t \in Presents[a], HandleConnectionRequest(a, t),
           UNCHANGED <<client, slots, max_clients, now, world>>
    PROVE  IInv'
<1> t \in Token
  BY PresentsTokens
<1>1. UNCHANGED <<clients, accepted>>
  BY DEF HandleConnectionRequest
<1>2. /\ DOMAIN clients' \subseteq DOMAIN clients
      /\ \A s \in DOMAIN clients' : SameSession(clients[s], clients'[s])
  BY <1>1, ServerIsOK
<1>3. CASE Refused(a, t) /\ UNCHANGED <<pending, entries, net>>
  <2>1. PendingOK'
    BY <1>3, ServerIsOK DEF PendingOK, PendingType
  <2> QED BY <1>1, <1>2, <1>3, <2>1, ServerIsOK, NoneAdmitted DEF world
<1>4. CASE /\ ~Refused(a, t) /\ FindOrAddConnectTokenEntry(a, t)
           /\ pending' = Without(pending, a)
           /\ Send({Packet("client", a, "ConnectionDenied", t, t, -1)})
  <2>1. PendingOK' /\ DOMAIN pending' \subseteq DOMAIN pending
    BY <1>4, ServerIsOK DEF PendingOK, PendingType, Without
  <2>2. Honest(Packet("client", a, "ConnectionDenied", t, t, -1))
    BY NetcodeAssumption DEF Packet, Honest, Packets, PacketTypes
  <2>3. \A m \in net' : Honest(m)
    BY <1>4, <2>2, ServerIsOK, SendKeeps
  <2> QED BY <1>1, <1>2, <1>4, <2>1, <2>3, EntriesTyped, ServerIsOK, NoneAdmitted DEF world
<1>5. CASE /\ ~Refused(a, t) /\ FindOrAddConnectTokenEntry(a, t)
           /\ pending' = (IF a \in DOMAIN pending THEN pending
                          ELSE With(pending, a, [token |-> t, window |-> NewReplayProtection]))
           /\ Send({Packet("client", a, "Challenge", t, t, -1)})
  <2>1. [token |-> t, window |-> NewReplayProtection] \in [token : Token, window : Windows]
    BY NewWindowType
  <2>2. PendingOK'
    BY <1>5, <2>1, ServerIsOK DEF PendingOK, PendingType, With
  <2>3. \A x \in DOMAIN pending' : x \in DOMAIN pending \/ SlotsOfAddr(x) = {}
    BY <1>5 DEF With, Refused
  <2>4. Honest(Packet("client", a, "Challenge", t, t, -1))
    BY NetcodeAssumption DEF Packet, Honest, Packets, PacketTypes
  <2>5. \A m \in net' : Honest(m)
    BY <1>5, <2>4, ServerIsOK, SendKeeps
  <2> QED BY <1>1, <1>2, <1>5, <2>2, <2>3, <2>5, EntriesTyped, ServerIsOK, NoneAdmitted DEF world
<1> QED BY <1>3, <1>4, <1>5 DEF HandleConnectionRequest

\* The one step that fills a slot: where packets are attributable, the id it checks is the id
\* it stores.
LEMMA ResponseStep ==
    ASSUME IInv, NEW a \in DOMAIN pending, NEW t \in Token, Attributable => t = pending[a].token,
           SlotsOfAddr(a) = {}, HandleResponse(a, t), UNCHANGED <<client, slots, max_clients, now, world>>
    PROVE  IInv'
<1> DEFINE u == pending[a].token
<1>1. /\ a \in Addr /\ u \in Token /\ u \in Presents[a] /\ pending[a].window \in Windows
      /\ UNCHANGED entries
  BY ServerIsOK DEF PendingOK, PendingType, HandleResponse
<1>2. /\ pending' = Without(pending, a)
      /\ PendingOK' /\ DOMAIN pending' = DOMAIN pending \ {a}
  BY ServerIsOK DEF HandleResponse, PendingOK, PendingType, Without
<1>3. CASE UNCHANGED <<clients, net, accepted>>
  <2>1. /\ DOMAIN clients' \subseteq DOMAIN clients
        /\ \A s \in DOMAIN clients' : SameSession(clients[s], clients'[s])
    BY <1>3, ServerIsOK
  <2> QED BY <1>1, <1>2, <1>3, <2>1, ServerIsOK, NoneAdmitted DEF world
<1>4. CASE /\ Send({Packet("client", a, "ConnectionDenied", pending[a].token, t, -1)})
           /\ UNCHANGED <<clients, accepted>>
  <2>1. /\ DOMAIN clients' \subseteq DOMAIN clients
        /\ \A s \in DOMAIN clients' : SameSession(clients[s], clients'[s])
    BY <1>4, ServerIsOK
  <2>2. Honest(Packet("client", a, "ConnectionDenied", u, t, -1))
    BY <1>1, NetcodeAssumption DEF Packet, Honest, Packets, PacketTypes
  <2>3. \A m \in net' : Honest(m)
    BY <1>4, <2>2, ServerIsOK, SendKeeps
  <2> QED BY <1>1, <1>2, <1>4, <2>1, <2>3, ServerIsOK, NoneAdmitted DEF world
<1> DEFINE c == [token |-> u, user_data |-> t, addr |-> a, sequence |-> 0,
                 window |-> pending[a].window, received |-> 0, sent |-> 0]
           new == [c EXCEPT !.sequence = NextSequence(@)]
           s == First(FreeSlots)
<1>5. CASE /\ ~AlreadyConnected(ClientId[t]) /\ FreeSlots # {}
           /\ clients' = With(clients, s, new)
           /\ Send(Reply(c, "KeepAlive"))
           /\ accepted' = accepted \union {<<a, u>>}
  <2>1. c \in Connections /\ new \in Connections /\ c.token = u /\ c.addr = a
        /\ new.token = u /\ new.user_data = t /\ new.addr = a
    <3>1. 0 \in 0 .. MaxSequence /\ NextSequence(0) \in 0 .. MaxSequence
      BY NetcodeAssumption, NextSequenceType
    <3>2. c \in Connections
      BY <1>1, <3>1 DEF Connections
    <3>3. new = [token |-> u, user_data |-> t, addr |-> a, sequence |-> NextSequence(0),
                 window |-> pending[a].window, received |-> 0, sent |-> 0]
      OBVIOUS
    <3>4. new \in Connections
      BY <1>1, <3>1, <3>3 DEF Connections
    <3> QED BY <3>2, <3>3, <3>4
  <2>2. s \in 1 .. slots /\ s \notin DOMAIN clients
    <3>1. FreeSlots \subseteq Nat
      BY DEF FreeSlots, IInv, TypeOK, SlotType
    <3>2. s \in FreeSlots
      BY <1>5, <3>1, FirstIsMember
    <3> QED BY <3>2 DEF FreeSlots
  <2> HIDE DEF c, new, s
  <2>3. /\ DOMAIN clients' = DOMAIN clients \union {s} /\ clients'[s] = new
        /\ \A r \in DOMAIN clients : clients'[r] = clients[r]
    BY <1>5, <2>2 DEF With
  <2>4. SlotType'
    BY <2>1, <2>2, <2>3 DEF IInv, TypeOK, SlotType
  <2>5. "KeepAlive" \in PacketTypes
    BY DEF PacketTypes, ReplayProtected
  <2>6. \A m \in net' : Honest(m)
    BY <1>1, <1>5, <2>1, <2>5, ReplyHonest, ServerIsOK, SendKeeps
  <2>7. accepted' \subseteq (Addr \X Token)
    BY <1>1, <1>5 DEF IInv, TypeOK
  <2>8. TypeOK'
    BY <1>1, <1>2, <2>4, <2>6, <2>7 DEF IInv, TypeOK, ClientType, Honest, PendingOK, world
  <2>9. Provenance'
    BY <1>1, <1>2, <2>1, <2>3, <2>6 DEF IInv, Provenance, Honest, PendingOK
  <2>10. UniqueAddresses'
    <3>1. \A r \in DOMAIN clients : clients[r].addr # a
      BY DEF SlotsOfAddr
    <3>2. \A q, r \in DOMAIN clients' : q # r => clients'[q].addr # clients'[r].addr
      BY <2>1, <2>3, <3>1 DEF IInv, UniqueAddresses
    <3>3. \A r \in DOMAIN clients' : clients'[r].addr \notin DOMAIN pending'
      BY <1>2, <2>1, <2>3 DEF IInv, UniqueAddresses
    <3> QED BY <3>2, <3>3 DEF UniqueAddresses
  <2>11. ASSUME Attributable PROVE UniqueClients' /\ IdentityMatches' /\ KeysMatch'
    <3>1. \A r \in DOMAIN clients : ClientId[clients[r].token] # ClientId[u]
      BY <1>5, <2>11 DEF AlreadyConnected, SlotsOfId
    <3>2. UniqueClients'
      BY <2>1, <2>3, <2>11, <3>1 DEF IInv, UniqueClients
    <3>3. IdentityMatches'
      BY <2>1, <2>3, <2>11 DEF IInv, IdentityMatches
    <3>4. KeysMatch'
      BY <2>6, <2>11 DEF IInv, KeysMatch, Honest
    <3> QED BY <3>2, <3>3, <3>4
  <2> QED BY <2>8, <2>9, <2>10, <2>11 DEF IInv
<1> QED BY <1>3, <1>4, <1>5 DEF HandleResponse

LEMMA ProcessStep == ASSUME IInv, NEW m \in net, ProcessPacket(m) PROVE IInv'
<1> DEFINE a == m.addr
<1>1. Honest(m) /\ a \in Addr /\ m.key \in Presents[a] /\ m.of \in Token
  BY ServerIsOK DEF Honest, Packets
<1>2. UNCHANGED <<client, slots, max_clients, now, world>>
  BY DEF ProcessPacket
<1>3. ASSUME UNCHANGED <<clients, pending, entries, net, accepted>> PROVE IInv'
  <2>1. /\ DOMAIN clients' \subseteq DOMAIN clients
        /\ \A s \in DOMAIN clients' : SameSession(clients[s], clients'[s])
    BY <1>3, ServerIsOK
  <2>2. PendingOK'
    BY <1>3, ServerIsOK DEF PendingOK, PendingType
  <2> QED BY <1>2, <1>3, <2>1, <2>2, ServerIsOK, NoneAdmitted DEF world
<1>4. CASE SlotsOfAddr(a) # {} /\ FromConnected(m)
  <2> DEFINE s == First(SlotsOfAddr(a))
             c == [clients[s] EXCEPT !.received = 0, !.window = Advanced(m, @)]
  <2>1. s \in DOMAIN clients
    BY <1>4, FoundSlot DEF SlotsOfAddr
  <2>2. UNCHANGED <<pending, entries, net, accepted>>
    BY <1>4 DEF FromConnected
  <2>3. \/ UNCHANGED clients
        \/ clients' = Without(clients, s)
        \/ clients' = [clients EXCEPT ![s] = c]
    BY <1>4 DEF FromConnected
  <2>4. SameSession(clients[s], c)
    <3>1. clients[s] \in Connections /\ Advanced(m, clients[s].window) \in Windows
      BY <1>1, <2>1, ServerIsOK, AdvancedType DEF Connections, Honest
    <3> QED BY <3>1 DEF SameSession, Connections
  <2> HIDE DEF s, c
  <2>5. /\ DOMAIN clients' \subseteq DOMAIN clients
        /\ \A r \in DOMAIN clients' : SameSession(clients[r], clients'[r])
    <3>1. CASE UNCHANGED clients
      BY <3>1, ServerIsOK
    <3>2. CASE clients' = Without(clients, s)
      BY <3>2, DroppedSlot
    <3>3. CASE clients' = [clients EXCEPT ![s] = c]
      BY <2>1, <2>4, <3>3, RenewedSlot
    <3> QED BY <2>3, <3>1, <3>2, <3>3
  <2>6. PendingOK'
    BY <2>2, ServerIsOK DEF PendingOK, PendingType
  <2> QED BY <1>2, <2>2, <2>5, <2>6, ServerIsOK, NoneAdmitted DEF world
<1>5. CASE SlotsOfAddr(a) = {} /\ a \in DOMAIN pending /\ FromPending(m)
  <2>1. CASE HandleConnectionRequest(a, m.key)
    BY <1>1, <1>2, <2>1, RequestStep
  <2>2. CASE /\ m.type = "Response" /\ Decodes(m, pending[a].token, pending[a].window)
             /\ HandleResponse(a, m.of)
    <3>1. pending[a].token \in Presents[a]
      BY <1>5, ServerIsOK DEF PendingOK
    <3>2. Attributable => m.of = pending[a].token
      BY <1>1, <2>2, <3>1, DecodedKey DEF Honest
    <3> QED BY <1>1, <1>2, <1>5, <2>2, <3>2, ResponseStep
  <2>3. CASE /\ pending' = [pending EXCEPT ![a].window = Advanced(m, @)]
             /\ UNCHANGED <<clients, entries, net, accepted>>
    <3>1. pending[a] \in [token : Token, window : Windows] /\ Advanced(m, pending[a].window) \in Windows
      BY <1>1, <1>5, ServerIsOK, AdvancedType DEF PendingOK, PendingType, Honest
    <3>2. PendingOK' /\ DOMAIN pending' = DOMAIN pending
      BY <2>3, <3>1, ServerIsOK DEF PendingOK, PendingType
    <3>3. /\ DOMAIN clients' \subseteq DOMAIN clients
          /\ \A s \in DOMAIN clients' : SameSession(clients[s], clients'[s])
      BY <2>3, ServerIsOK
    <3> QED BY <1>2, <2>3, <3>2, <3>3, ServerIsOK, NoneAdmitted DEF world
  <2> QED BY <1>3, <1>5, <2>1, <2>2, <2>3 DEF FromPending
<1>6. CASE FromNew(m)
  BY <1>1, <1>2, <1>3, <1>6, RequestStep DEF FromNew
<1> QED BY <1>4, <1>5, <1>6 DEF ProcessPacket

LEMMA StutterStep == IInv /\ UNCHANGED vars => IInv'
BY DEF vars, server, world, IInv, TypeOK, ClientType, SlotType, PendingType, Provenance,
       UniqueAddresses, UniqueClients, IdentityMatches, KeysMatch

LEMMA StepIInv == IInv /\ [Next]_vars => IInv'
<1> SUFFICES ASSUME IInv, Next PROVE IInv'
  BY StutterStep
<1>1. ASSUME NEW a \in Addr, NEW t \in Presents[a], Start(a, t) PROVE IInv'
  BY <1>1, StartStep
<1>2. ASSUME NEW a \in Addr, NEW d \in Durations, ClientUpdate(a, d) PROVE IInv'
  BY <1>2, ClientUpdateStep
<1>3. ASSUME NEW a \in Addr, ClientSendPayload(a) \/ ClientDisconnect(a) PROVE IInv'
  BY <1>3, ClientSendPayloadStep, ClientDisconnectStep
<1>4. ASSUME NEW id \in Ids, UpdateClient(id) \/ SendPayload(id) \/ Disconnect(id) PROVE IInv'
  BY <1>4, UpdateClientStep, SendPayloadStep, DisconnectStep
<1>5. ASSUME NEW n \in Limits, SetMaxClients(n) PROVE IInv'
  BY <1>5, SetMaxClientsStep
<1>6. ASSUME NEW m \in net, Deliver(m) PROVE IInv'
  BY <1>6, ClientProcessStep, ProcessStep DEF Deliver
<1> QED BY <1>1, <1>2, <1>3, <1>4, <1>5, <1>6, UpdateStep, CutStep DEF Next

(***************************************************************************)
(* Type correctness: in particular NetcodeServer never indexes clients     *)
(* past its end, however many clients max_clients allows.                  *)
(***************************************************************************)
THEOREM TypeCorrect == Spec => []TypeOK
BY InitIInv, StepIInv, PTL DEF Spec, IInv

(***************************************************************************)
(* NetcodeServer never holds two connections of one address, nor a pending *)
(* connection at a connected address, for any tokens, addresses and slots, *)
(* any behaviour of clients and network, and with or without encryption.   *)
(***************************************************************************)
THEOREM AddressesAlwaysUnique == Spec => []UniqueAddresses
BY InitIInv, StepIInv, PTL DEF Spec, IInv

(***************************************************************************)
(* NetcodeServer never holds two connections of one client id, if netcode  *)
(* encrypts at every address that presents several tokens.  The hypothesis *)
(* is needed: the check in handle_connection_request and the one of the    *)
(* response both look up ids, but of a token that the slot may not get.    *)
(***************************************************************************)
THEOREM ClientsAlwaysUnique == ASSUME Attributable PROVE Spec => []UniqueClients
BY InitIInv, StepIInv, PTL DEF Spec, IInv

(***************************************************************************)
(* A connected client's user data is that of the token it proved to hold,  *)
(* although process_packet takes it from the challenge and the id from the *)
(* pending connection, if netcode encrypts at every address that presents  *)
(* several tokens.                                                         *)
(***************************************************************************)
THEOREM IdentityAlwaysMatches == ASSUME Attributable PROVE Spec => []IdentityMatches
BY InitIInv, StepIInv, PTL DEF Spec, IInv

(***************************************************************************)
(* A challenge, or a token, never gets into a packet or a client together  *)
(* with the key of another token, under the same hypothesis: what the      *)
(* proof of the two theorems above rests on.                               *)
(***************************************************************************)
THEOREM KeysAlwaysMatch == ASSUME Attributable PROVE Spec => []KeysMatch
BY InitIInv, StepIInv, PTL DEF Spec, IInv

(***************************************************************************)
(* What a client believes.  A client becomes connected by a KeepAlive of   *)
(* its token, so the inductive invariant says who may have caused one:     *)
(* every session in a slot was accepted, and so was the session that every *)
(* KeepAlive to a client was sent on, be it as old as it may.  That the    *)
(* KeepAlive is of the client's own token takes Attributable.              *)
(***************************************************************************)
Vouched(m) == m.to = "client" /\ m.type = "KeepAlive" => <<m.addr, m.key>> \in accepted

SessionsAccepted == \A s \in DOMAIN clients : <<clients[s].addr, clients[s].token>> \in accepted

AInv == (\A m \in net : Vouched(m)) /\ SessionsAccepted /\ (Attributable => AcceptedFirst)

LEMMA InitAInv == Init => AInv
<1> SUFFICES ASSUME Init PROVE AInv
  OBVIOUS
<1>1. DOMAIN << >> = {}
  OBVIOUS
<1> QED BY <1>1 DEF Init, AInv, SessionsAccepted, AcceptedFirst

\* A client that is connected after the step was so before, or is accepted.
StillAccepted ==
    \A a \in DOMAIN client' : client'[a].state = "connected" =>
        \/ a \in DOMAIN client /\ client[a].state = "connected" /\ client'[a].token = client[a].token
        \/ Attributable => <<a, client'[a].token>> \in accepted

\* Steps of a client: it sends to the server only.
LEMMA ClientVouched ==
    ASSUME AInv, UNCHANGED server, StillAccepted, \A m \in net' : m \in net \/ m.to = "server"
    PROVE  AInv'
<1>1. (\A m \in net : Vouched(m))'
  BY DEF AInv, Vouched, server
<1>2. SessionsAccepted'
  BY DEF AInv, SessionsAccepted, server
<1>3. Attributable => AcceptedFirst'
  BY DEF AInv, AcceptedFirst, StillAccepted, server
<1> QED BY <1>1, <1>2, <1>3 DEF AInv

LEMMA ClientSendsToServer ==
    ASSUME NEW c, NEW p, p.to = "server", ClientSends(c, {p})
    PROVE  \A m \in net' : m \in net \/ m.to = "server"
BY DEF ClientSends, Carried, Send

\* A client record that did not become connected.
NoBelief(c, new) == new.state = "connected" => c.state = "connected" /\ new.token = c.token

LEMMA StartAccepted == ASSUME IInv, AInv, NEW a \in Addr, NEW t \in Presents[a], Start(a, t) PROVE AInv'
<1>1. client' = With(client, a, NewClient(t)) /\ NewClient(t).state = "request"
  BY DEF Start, NewClient
<1> HIDE DEF NewClient
<1>2. StillAccepted
  BY <1>1 DEF StillAccepted, With
<1> QED BY <1>2, ClientVouched DEF Start

LEMMA UpdatedBelief ==
    ASSUME NEW a, NEW c, ClientOK(a, c), NEW d
    PROVE  NoBelief(c, InternalState(ClientAged(c, d)))
<1> DEFINE b == ClientAged(c, d)
<1>1. b.state = c.state /\ b.token = c.token
      /\ DOMAIN b = {"token", "state", "host", "sequence", "window", "challenge", "started",
                     "received", "sent"}
  BY DEF ClientAged, ClientOK, ClientRecords
<1> HIDE DEF b
<1>2. [b EXCEPT !.state = "disconnected"].state = "disconnected"
  BY <1>1
<1>3. [b EXCEPT !.state = "request", !.host = @ + 1,
                !.started = 0, !.received = 0, !.sent = SendRate].state = "request"
  BY <1>1
<1>4. NoBelief(c, InternalState(b))
  BY <1>1, <1>2, <1>3 DEF InternalState, NoBelief
<1> QED BY <1>4 DEF b

LEMMA ClientUpdateAccepted ==
    ASSUME IInv, AInv, NEW a \in Addr, NEW d \in Durations, ClientUpdate(a, d)
    PROVE  AInv'
<1> DEFINE c == InternalState(ClientAged(client[a], d))
           sending == [c EXCEPT !.sent = 0, !.sequence = NextSequence(@)]
<1>1. a \in DOMAIN client /\ ClientOK(a, client[a]) /\ d \in Nat
  BY ClientIsOK, NetcodeAssumption DEF ClientUpdate
<1>2. ClientOK(a, c) /\ NoBelief(client[a], c)
  BY <1>1, ClientAgedOK, InternalStateOK, UpdatedBelief
<1>3. \/ client' = [client EXCEPT ![a] = sending] /\ ClientSends(c, Generated(a, c))
      \/ client' = [client EXCEPT ![a] = c] /\ UNCHANGED net
  BY DEF ClientUpdate
<1> HIDE DEF c
<1>4. sending.state = c.state /\ sending.token = c.token
  BY <1>2 DEF ClientOK, ClientRecords
<1> HIDE DEF sending
<1>5. StillAccepted
  BY <1>1, <1>2, <1>3, <1>4 DEF StillAccepted, NoBelief
<1>6. \A p \in Generated(a, c) : p.to = "server"
  BY DEF Generated, Packet
<1>7. PICK p : Generated(a, c) = {p}
  BY DEF Generated
<1>8. \A m \in net' : m \in net \/ m.to = "server"
  BY <1>3, <1>6, <1>7, ClientSendsToServer
<1> QED BY <1>5, <1>8, ClientVouched DEF ClientUpdate

\* The one step that makes a client connected: a KeepAlive under the key of its token.
LEMMA ClientProcessAccepted ==
    ASSUME IInv, AInv, NEW m \in net, ClientProcessPacket(m)
    PROVE  AInv'
<1> DEFINE a == m.addr
           c == client[a]
           opened == [c EXCEPT !.window = Advanced(m, @)]
<1>1. a \in DOMAIN client /\ ClientOK(a, c) /\ Honest(m) /\ m.to = "client"
  BY ClientIsOK, NetHonest DEF ClientProcessPacket
<1>2. \/ client' = [client EXCEPT ![a] = c]
      \/ client' = [client EXCEPT ![a] = Processed(opened, m)] /\ Decodes(m, c.token, c.window)
  BY DEF ClientProcessPacket
<1>3. opened.state = c.state /\ opened.token = c.token /\ opened \in ClientRecords
  <2>1. Advanced(m, c.window) \in Windows
    BY <1>1, AdvancedType DEF ClientOK, ClientRecords, Honest
  <2> QED BY <1>1, <2>1 DEF ClientOK, ClientRecords
<1> HIDE DEF opened
<1>4. CASE client' = [client EXCEPT ![a] = c]
  <2>1. StillAccepted
    BY <1>1, <1>4 DEF StillAccepted
  <2> QED BY <2>1, ClientVouched DEF ClientProcessPacket
<1>5. CASE client' = [client EXCEPT ![a] = Processed(opened, m)] /\ Decodes(m, c.token, c.window)
  <2> DEFINE new == Processed(opened, m)
  <2>1. /\ new.token = c.token
        /\ new.state = "connected" => c.state = "connected" \/ m.type = "KeepAlive"
    BY <1>3 DEF Processed, ClientRecords
  <2>2. Attributable /\ m.type = "KeepAlive" => <<a, c.token>> \in accepted
    <3>1. Attributable /\ m.type = "KeepAlive" => m.key = c.token
      BY <1>1, <1>5, DecodedKey DEF ClientOK
    <3> QED BY <1>1, <3>1 DEF AInv, Vouched
  <2> HIDE DEF new
  <2>3. StillAccepted
    BY <1>1, <1>5, <2>1, <2>2 DEF StillAccepted, new
  <2> QED BY <2>3, ClientVouched DEF ClientProcessPacket
<1> QED BY <1>2, <1>4, <1>5

LEMMA ClientSendPayloadAccepted ==
    ASSUME IInv, AInv, NEW a \in Addr, ClientSendPayload(a)
    PROVE  AInv'
<1> DEFINE c == client[a]
           p == Packet("server", a, "Payload", c.token, c.token, c.sequence)
<1>1. a \in DOMAIN client /\ ClientOK(a, c) /\ ClientSends(c, {p}) /\ p.to = "server"
      /\ client' = [client EXCEPT ![a] = [c EXCEPT !.sequence = NextSequence(@), !.sent = 0]]
  BY ClientIsOK DEF ClientSendPayload, Packet
<1>2. [c EXCEPT !.sequence = NextSequence(@), !.sent = 0].token = c.token
      /\ [c EXCEPT !.sequence = NextSequence(@), !.sent = 0].state = c.state
  BY <1>1 DEF ClientOK, ClientRecords
<1>3. StillAccepted
  BY <1>1, <1>2 DEF StillAccepted
<1> HIDE DEF p
<1>4. \A m \in net' : m \in net \/ m.to = "server"
  BY <1>1, ClientSendsToServer
<1> QED BY <1>3, <1>4, ClientVouched DEF ClientSendPayload

LEMMA ClientDisconnectAccepted ==
    ASSUME IInv, AInv, NEW a \in Addr, ClientDisconnect(a)
    PROVE  AInv'
<1> DEFINE c == client[a]
           p == Packet("server", a, "Disconnect", c.token, c.token, c.sequence)
<1>1. a \in DOMAIN client /\ ClientOK(a, c) /\ ClientSends(c, {p}) /\ p.to = "server"
      /\ client' = [client EXCEPT ![a] = [c EXCEPT !.state = "disconnected"]]
  BY ClientIsOK DEF ClientDisconnect, Packet
<1>2. [c EXCEPT !.state = "disconnected"].state = "disconnected"
  BY <1>1 DEF ClientOK, ClientRecords
<1>3. StillAccepted
  BY <1>1, <1>2 DEF StillAccepted
<1> HIDE DEF p
<1>4. \A m \in net' : m \in net \/ m.to = "server"
  BY <1>1, ClientSendsToServer
<1> QED BY <1>3, <1>4, ClientVouched DEF ClientDisconnect

\* Steps of the server: slots keep their sessions or get accepted ones, and what it sends
\* is no KeepAlive or one of an accepted session.
LEMMA ServerVouched ==
    ASSUME AInv, UNCHANGED client, accepted \subseteq accepted',
           \A s \in DOMAIN clients' :
              \/ /\ s \in DOMAIN clients
                 /\ clients'[s].addr = clients[s].addr /\ clients'[s].token = clients[s].token
              \/ <<clients'[s].addr, clients'[s].token>> \in accepted',
           \A m \in net' : m \in net \/ m.type # "KeepAlive" \/ <<m.addr, m.key>> \in accepted'
    PROVE  AInv'
<1>1. (\A m \in net : Vouched(m))'
  BY DEF AInv, Vouched
<1>2. SessionsAccepted'
  BY DEF AInv, SessionsAccepted
<1>3. Attributable => AcceptedFirst'
  BY DEF AInv, AcceptedFirst
<1> QED BY <1>1, <1>2, <1>3 DEF AInv

LEMMA ReplyVouched ==
    ASSUME NEW c, NEW type, <<c.addr, c.token>> \in accepted', Send(Reply(c, type))
    PROVE  \A m \in net' : m \in net \/ m.type # "KeepAlive" \/ <<m.addr, m.key>> \in accepted'
BY DEF Send, Reply, Carried, Packet

LEMMA UpdateAccepted == IInv /\ AInv /\ Update(1) => AInv'
<1> SUFFICES ASSUME IInv, AInv, Update(1) PROVE AInv'
  OBVIOUS
<1>1. \A s \in DOMAIN clients' : /\ s \in DOMAIN clients
                                 /\ clients'[s].addr = clients[s].addr
                                 /\ clients'[s].token = clients[s].token
  <2> SUFFICES ASSUME NEW s \in DOMAIN clients
               PROVE  clients'[s].addr = clients[s].addr /\ clients'[s].token = clients[s].token
    BY DEF Update
  <2>1. clients[s] \in Connections
    BY ServerIsOK
  <2>2. clients'[s] = [clients[s] EXCEPT !.received = Least(@ + 1, Timeout[clients[s].token] + 1),
                                         !.sent     = Least(@ + 1, SendRate)]
    BY DEF Update
  <2> QED BY <2>1, <2>2 DEF Connections
<1> QED BY <1>1, ServerVouched DEF Update

LEMMA EndedAccepted ==
    ASSUME IInv, AInv, NEW s \in DOMAIN clients, clients' = Without(clients, s),
           Send(Reply(clients[s], "Disconnect")), UNCHANGED <<client, accepted>>
    PROVE  AInv'
<1>1. <<clients[s].addr, clients[s].token>> \in accepted'
  BY DEF AInv, SessionsAccepted
<1>2. \A m \in net' : m \in net \/ m.type # "KeepAlive" \/ <<m.addr, m.key>> \in accepted'
  BY <1>1, ReplyVouched
<1>3. \A r \in DOMAIN clients' : r \in DOMAIN clients /\ clients'[r] = clients[r]
  BY DEF Without
<1> QED BY <1>2, <1>3, ServerVouched

LEMMA SentAccepted ==
    ASSUME IInv, AInv, NEW s \in DOMAIN clients, NEW type,
           clients' = [clients EXCEPT ![s].sequence = NextSequence(@), ![s].sent = 0],
           Send(Reply(clients[s], type)), UNCHANGED <<client, accepted>>
    PROVE  AInv'
<1> DEFINE c == [clients[s] EXCEPT !.sequence = NextSequence(@), !.sent = 0]
<1>1. <<clients[s].addr, clients[s].token>> \in accepted'
  BY DEF AInv, SessionsAccepted
<1>2. \A m \in net' : m \in net \/ m.type # "KeepAlive" \/ <<m.addr, m.key>> \in accepted'
  BY <1>1, ReplyVouched
<1>3. c.addr = clients[s].addr /\ c.token = clients[s].token
  BY ServerIsOK DEF Connections
<1>4. clients' = [clients EXCEPT ![s] = c]
  OBVIOUS
<1> HIDE DEF c
<1>5. \A r \in DOMAIN clients' : /\ r \in DOMAIN clients
                                 /\ clients'[r].addr = clients[r].addr
                                 /\ clients'[r].token = clients[r].token
  BY <1>3, <1>4
<1> QED BY <1>2, <1>5, ServerVouched

LEMMA ServerSendsAccepted ==
    ASSUME IInv, AInv, NEW id, UpdateClient(id) \/ SendPayload(id) \/ Disconnect(id)
    PROVE  AInv'
<1> DEFINE s == First(SlotsOfId(id))
<1>1. s \in DOMAIN clients /\ UNCHANGED <<client, accepted>>
  BY FoundSlot DEF UpdateClient, SendPayload, Disconnect, SlotsOfId
<1>2. \/ clients' = Without(clients, s) /\ Send(Reply(clients[s], "Disconnect"))
      \/ /\ clients' = [clients EXCEPT ![s].sequence = NextSequence(@), ![s].sent = 0]
         /\ \E type \in {"KeepAlive", "Payload"} : Send(Reply(clients[s], type))
  BY DEF UpdateClient, SendPayload, Disconnect
<1> HIDE DEF s
<1> QED BY <1>1, <1>2, EndedAccepted, SentAccepted

LEMMA RequestAccepted ==
    ASSUME IInv, AInv, NEW a, NEW t, HandleConnectionRequest(a, t), UNCHANGED client
    PROVE  AInv'
<1>1. UNCHANGED <<clients, accepted>>
  BY DEF HandleConnectionRequest
<1>2. \A m \in net' : m \in net \/ m.type # "KeepAlive"
  BY DEF HandleConnectionRequest, Send, Packet
<1> QED BY <1>1, <1>2, ServerVouched

\* The step that accepts a session sends the first KeepAlive of it.
LEMMA ResponseAccepted ==
    ASSUME IInv, AInv, NEW a \in DOMAIN pending, NEW t, HandleResponse(a, t), UNCHANGED client
    PROVE  AInv'
<1>1. CASE UNCHANGED <<clients, accepted>> /\ \A m \in net' : m \in net \/ m.type # "KeepAlive"
  BY <1>1, ServerVouched
<1> DEFINE c == [token |-> pending[a].token, user_data |-> t, addr |-> a, sequence |-> 0,
                 window |-> pending[a].window, received |-> 0, sent |-> 0]
           new == [c EXCEPT !.sequence = NextSequence(@)]
<1>2. CASE /\ clients' = With(clients, First(FreeSlots), new)
           /\ Send(Reply(c, "KeepAlive"))
           /\ accepted' = accepted \union {<<a, c.token>>}
  <2>1. c.addr = a /\ c.token = pending[a].token /\ new.addr = a /\ new.token = pending[a].token
    OBVIOUS
  <2> HIDE DEF c, new
  <2>2. <<c.addr, c.token>> \in accepted' /\ <<new.addr, new.token>> \in accepted'
    BY <1>2, <2>1
  <2>3. \A m \in net' : m \in net \/ m.type # "KeepAlive" \/ <<m.addr, m.key>> \in accepted'
    BY <1>2, <2>2, ReplyVouched
  <2>4. \A s \in DOMAIN clients' : (s \in DOMAIN clients /\ clients'[s] = clients[s]) \/ clients'[s] = new
    BY <1>2 DEF With
  <2> QED BY <1>2, <2>2, <2>3, <2>4, ServerVouched
<1> QED BY <1>1, <1>2 DEF HandleResponse, Send, Packet

LEMMA ProcessAccepted == ASSUME IInv, AInv, NEW m \in net, ProcessPacket(m) PROVE AInv'
<1> DEFINE a == m.addr
<1>1. UNCHANGED client
  BY DEF ProcessPacket
<1>2. CASE UNCHANGED <<clients, net, accepted>>
  BY <1>1, <1>2, ServerVouched
<1>3. CASE SlotsOfAddr(a) # {} /\ FromConnected(m)
  <2> DEFINE s == First(SlotsOfAddr(a))
             c == [clients[s] EXCEPT !.received = 0, !.window = Advanced(m, @)]
  <2>1. s \in DOMAIN clients
    BY <1>3, FoundSlot DEF SlotsOfAddr
  <2>2. UNCHANGED <<net, accepted>> /\ \/ UNCHANGED clients
                                       \/ clients' = Without(clients, s)
                                       \/ clients' = [clients EXCEPT ![s] = c]
    BY <1>3 DEF FromConnected
  <2>3. c.addr = clients[s].addr /\ c.token = clients[s].token
    BY <2>1, ServerIsOK DEF Connections
  <2> HIDE DEF s, c
  <2>4. \A r \in DOMAIN clients' : /\ r \in DOMAIN clients
                                   /\ clients'[r].addr = clients[r].addr
                                   /\ clients'[r].token = clients[r].token
    BY <2>1, <2>2, <2>3 DEF Without
  <2> QED BY <1>1, <2>2, <2>4, ServerVouched
<1>4. CASE a \in DOMAIN pending /\ FromPending(m)
  BY <1>1, <1>2, <1>4, RequestAccepted, ResponseAccepted DEF FromPending
<1>5. CASE FromNew(m)
  BY <1>1, <1>2, <1>5, RequestAccepted DEF FromNew
<1> QED BY <1>3, <1>4, <1>5 DEF ProcessPacket

LEMMA StepAInv == IInv /\ AInv /\ [Next]_vars => AInv'
<1> SUFFICES ASSUME IInv, AInv, [Next]_vars PROVE AInv'
  OBVIOUS
<1>1. CASE UNCHANGED <<client, clients, net, accepted>>
  BY <1>1, ServerVouched
<1>2. ASSUME NEW a \in Addr, NEW t \in Presents[a], Start(a, t) PROVE AInv'
  BY <1>2, StartAccepted
<1>3. ASSUME NEW a \in Addr, NEW d \in Durations, ClientUpdate(a, d) PROVE AInv'
  BY <1>3, ClientUpdateAccepted
<1>4. ASSUME NEW a \in Addr, ClientSendPayload(a) \/ ClientDisconnect(a) PROVE AInv'
  BY <1>4, ClientSendPayloadAccepted, ClientDisconnectAccepted
<1>5. ASSUME NEW id \in Ids, UpdateClient(id) \/ SendPayload(id) \/ Disconnect(id) PROVE AInv'
  BY <1>5, ServerSendsAccepted
<1>6. ASSUME NEW n \in Limits, SetMaxClients(n) PROVE AInv'
  BY <1>1, <1>6 DEF SetMaxClients
<1>7. ASSUME NEW m \in net, Deliver(m) PROVE AInv'
  BY <1>7, ClientProcessAccepted, ProcessAccepted DEF Deliver
<1>8. CASE Cut
  BY <1>8, ServerVouched DEF Cut, server
<1> QED BY <1>1, <1>2, <1>3, <1>4, <1>5, <1>6, <1>7, <1>8, UpdateAccepted DEF Next, vars, server

(***************************************************************************)
(* A client that believes it is connected has been connected by the server *)
(* under its own token and address, whichever old KeepAlive made it        *)
(* believe so and however often it was started anew, if netcode encrypts   *)
(* at every address that presents several tokens.                          *)
(***************************************************************************)
THEOREM AlwaysAcceptedFirst == ASSUME Attributable PROVE Spec => []AcceptedFirst
BY InitIInv, StepIInv, InitAInv, StepAInv, PTL DEF Spec, AInv

(***************************************************************************)
(* One address for a token.  The inductive invariant is about the table    *)
(* that remembers first uses: no token has two entries, so a table with    *)
(* room for every token never overwrites one; and whoever was accepted or  *)
(* is pending has the entry of its token.                                  *)
(***************************************************************************)
Held == accepted \union {<<a, pending[a].token>> : a \in DOMAIN pending}

OneEntryEach == \A i, j \in DOMAIN entries : entries[i].token = entries[j].token => i = j

HasEntry(p) == \E i \in DOMAIN entries : entries[i].token = p[2] /\ entries[i].addr = p[1]

EInv == OneEntryEach /\ (NumEntries >= Cardinality(Token) => \A p \in Held : HasEntry(p))

LEMMA InitEInv == Init => EInv
<1> SUFFICES ASSUME Init PROVE EInv
  OBVIOUS
<1>1. DOMAIN << >> = {}
  OBVIOUS
<1> QED BY <1>1 DEF Init, EInv, OneEntryEach, Held

LEMMA EntriesKept ==
    ASSUME EInv, UNCHANGED entries, Held' \subseteq Held
    PROVE  EInv'
BY DEF EInv, OneEntryEach, HasEntry

LEMMA HeldKept ==
    ASSUME UNCHANGED accepted, DOMAIN pending' \subseteq DOMAIN pending,
           \A a \in DOMAIN pending' : pending'[a].token = pending[a].token
    PROVE  Held' \subseteq Held
BY DEF Held

\* A token without an entry finds room in a table as long as there are tokens.
LEMMA RoomForEntry ==
    ASSUME IsFiniteSet(Token), NumEntries >= Cardinality(Token), entries \in Seq(EntryRecords),
           OneEntryEach, NEW t \in Token, \A i \in DOMAIN entries : entries[i].token # t
    PROVE  Len(entries) < NumEntries
<1> DEFINE n == Len(entries)
           f == [i \in 1 .. (n + 1) |-> IF i = n + 1 THEN t ELSE entries[i].token]
<1>1. n \in Nat /\ DOMAIN entries = 1 .. n /\ NumEntries \in Nat /\ Cardinality(Token) \in Nat
  BY NetcodeAssumption, FS_CardinalityType
<1>2. \A i \in 1 .. n : entries[i].token \in Token
  <2>1. \A i \in 1 .. n : entries[i] \in EntryRecords
    BY <1>1
  <2> QED BY <2>1 DEF EntryRecords
<1>3. IsFiniteSet(1 .. (n + 1)) /\ Cardinality(1 .. (n + 1)) = n + 1
  BY <1>1, FS_Interval
<1> HIDE DEF n
<1>4. f \in [1 .. (n + 1) -> Token]
  BY <1>1, <1>2
<1>5. \A i, j \in 1 .. (n + 1) : i # j => f[i] # f[j]
  BY <1>1 DEF OneEntryEach
<1> HIDE DEF f
<1>6. ~(Cardinality(Token) < n + 1)
  BY <1>3, <1>4, <1>5, FS_PigeonHole
<1> QED BY <1>1, <1>6 DEF n

LEMMA RequestEntry ==
    ASSUME IInv, EInv, IsFiniteSet(Token), NEW a \in Addr, NEW t \in Token,
           HandleConnectionRequest(a, t)
    PROVE  EInv'
<1>1. CASE Refused(a, t) /\ UNCHANGED <<pending, entries, accepted>>
  BY <1>1, EntriesKept DEF Held
<1>2. CASE ~Refused(a, t) /\ FindOrAddConnectTokenEntry(a, t)
  <2> DEFINE entry == [token |-> t, addr |-> a, time |-> now]
             known == \E i \in DOMAIN entries : entries[i].token = t
  <2>1. entry.token = t /\ entry.addr = a /\ entry \in EntryRecords
    BY ServerIsOK DEF EntryRecords
  <2>2. entries \in Seq(EntryRecords) /\ DOMAIN entries = 1 .. Len(entries) /\ Len(entries) \in Nat
    BY ServerIsOK
  <2>3. /\ known => entries' = entries
        /\ ~known /\ Len(entries) < NumEntries => entries' = Append(entries, entry)
        /\ ~known /\ ~(Len(entries) < NumEntries) => entries' = [entries EXCEPT ![Oldest] = entry]
    BY <1>2 DEF FindOrAddConnectTokenEntry
  <2> HIDE DEF entry
  <2>4. ~known /\ Len(entries) < NumEntries =>
            /\ DOMAIN entries' = 1 .. (Len(entries) + 1)
            /\ \A i \in 1 .. Len(entries) : entries'[i] = entries[i]
            /\ entries'[Len(entries) + 1] = entry
    <3>1. /\ Len(Append(entries, entry)) = Len(entries) + 1
          /\ DOMAIN Append(entries, entry) = 1 .. (Len(entries) + 1)
          /\ \A i \in 1 .. Len(entries) : Append(entries, entry)[i] = entries[i]
          /\ Append(entries, entry)[Len(entries) + 1] = entry
      BY <2>1, <2>2, AppendProperties
    <3> QED BY <2>3, <3>1
  <2>5. OneEntryEach'
    <3>1. CASE known
      BY <2>3, <3>1 DEF EInv, OneEntryEach
    <3>2. CASE ~known /\ Len(entries) < NumEntries
      BY <2>1, <2>2, <2>4, <3>2 DEF EInv, OneEntryEach
    <3>3. CASE ~known /\ ~(Len(entries) < NumEntries)
      <4>1. \A i \in DOMAIN entries' : i \in DOMAIN entries /\ entries'[i] \in {entries[i], entry}
        BY <2>3, <3>3
      <4>2. \A i \in DOMAIN entries' : i # Oldest => entries'[i] = entries[i]
        BY <2>3, <3>3
      <4> HIDE DEF Oldest
      <4> QED BY <2>1, <3>3, <4>1, <4>2 DEF EInv, OneEntryEach
    <3> QED BY <3>1, <3>2, <3>3
  <2>6. ASSUME NumEntries >= Cardinality(Token), NEW p \in Held' PROVE HasEntry(p)'
    <3>1. known \/ Len(entries) < NumEntries
      BY <2>2, <2>6, RoomForEntry DEF EInv
    <3>2. \A i \in DOMAIN entries : i \in DOMAIN entries' /\ entries'[i] = entries[i]
      BY <2>2, <2>3, <2>4, <3>1
    <3>3. \E i \in DOMAIN entries' : entries'[i].token = t /\ entries'[i].addr = a
      <4>1. CASE known
        BY <1>2, <2>3, <4>1 DEF Refused, UsedElsewhere
      <4>2. CASE ~known
        BY <2>1, <2>2, <2>4, <3>1, <4>2
      <4> QED BY <4>1, <4>2
    <3>4. p \in Held \/ (p[1] = a /\ p[2] = t)
      <4>1. UNCHANGED accepted /\ \/ pending' = Without(pending, a)
                                  \/ pending' = pending
                                  \/ pending' = With(pending, a, [token |-> t, window |-> NewReplayProtection])
        BY <1>2 DEF HandleConnectionRequest
      <4>2. [token |-> t, window |-> NewReplayProtection].token = t
        OBVIOUS
      <4> DEFINE new == [token |-> t, window |-> NewReplayProtection]
      <4> HIDE DEF new
      <4>3. \A x \in DOMAIN pending' : (x \in DOMAIN pending /\ pending'[x] = pending[x])
                                        \/ (x = a /\ pending'[x].token = t)
        BY <4>1, <4>2 DEF With, Without, new
      <4> QED BY <4>1, <4>3 DEF Held
    <3>5. CASE p \in Held
      BY <2>6, <3>2, <3>5 DEF EInv, HasEntry
    <3>6. CASE p[1] = a /\ p[2] = t
      BY <3>3, <3>6 DEF HasEntry
    <3> QED BY <3>4, <3>5, <3>6
  <2>7. (NumEntries >= Cardinality(Token) => \A p \in Held : HasEntry(p))'
    BY <2>6
  <2> QED BY <2>5, <2>7 DEF EInv
<1> QED BY <1>1, <1>2 DEF HandleConnectionRequest

LEMMA ResponseEntry ==
    ASSUME EInv, NEW a \in DOMAIN pending, NEW t, HandleResponse(a, t) PROVE EInv'
<1>1. UNCHANGED entries /\ pending' = Without(pending, a)
      /\ (accepted' = accepted \/ accepted' = accepted \union {<<a, pending[a].token>>})
  BY DEF HandleResponse
<1>2. DOMAIN pending' \subseteq DOMAIN pending /\ \A x \in DOMAIN pending' : pending'[x] = pending[x]
  BY <1>1 DEF Without
<1>3. Held' \subseteq Held
  BY <1>1, <1>2 DEF Held
<1> QED BY <1>1, <1>3, EntriesKept

LEMMA ProcessEntry ==
    ASSUME IInv, EInv, IsFiniteSet(Token), NEW m \in net, ProcessPacket(m) PROVE EInv'
<1>1. m.addr \in Addr /\ m.key \in Token /\ m \in Packets
  BY ServerIsOK DEF Honest, Packets
<1>2. CASE UNCHANGED <<pending, entries, accepted>>
  BY <1>2, EntriesKept DEF Held
<1>3. CASE FromConnected(m)
  BY <1>2, <1>3 DEF FromConnected
<1>4. CASE m.addr \in DOMAIN pending /\ FromPending(m)
  <2> DEFINE a == m.addr
  <2>1. CASE /\ pending' = [pending EXCEPT ![a].window = Advanced(m, @)]
             /\ UNCHANGED <<entries, accepted>>
    <3>1. pending[a] \in [token : Token, window : Windows]
      BY <1>4, ServerIsOK DEF PendingOK, PendingType
    <3>2. [pending[a] EXCEPT !.window = Advanced(m, @)].token = pending[a].token
      BY <3>1
    <3>3. pending' = [pending EXCEPT ![a] = [pending[a] EXCEPT !.window = Advanced(m, @)]]
      BY <2>1
    <3>4. DOMAIN pending' = DOMAIN pending /\ \A x \in DOMAIN pending : pending'[x].token = pending[x].token
      BY <3>2, <3>3
    <3>5. Held' \subseteq Held
      BY <2>1, <3>4, HeldKept
    <3> QED BY <2>1, <3>5, EntriesKept
  <2> QED BY <1>1, <1>2, <1>4, <2>1, RequestEntry, ResponseEntry DEF FromPending
<1>5. CASE FromNew(m)
  BY <1>1, <1>2, <1>5, RequestEntry DEF FromNew
<1> QED BY <1>3, <1>4, <1>5 DEF ProcessPacket

LEMMA StepEInv == ASSUME IsFiniteSet(Token) PROVE IInv /\ EInv /\ [Next]_vars => EInv'
<1> SUFFICES ASSUME IInv, EInv, [Next]_vars PROVE EInv'
  OBVIOUS
<1>1. CASE UNCHANGED <<pending, entries, accepted>>
  BY <1>1, EntriesKept DEF Held
<1>2. CASE Update(1)
  <2>1. Held' \subseteq Held
    BY <1>2, HeldKept DEF Update
  <2> QED BY <1>2, <2>1, EntriesKept DEF Update
<1>3. CASE Next /\ ~Update(1)
  <2>1. CASE \E m \in net : ProcessPacket(m)
    BY <2>1, ProcessEntry
  <2>2. CASE \E m \in net : ClientProcessPacket(m)
    BY <1>1, <2>2 DEF ClientProcessPacket, server
  <2>3. CASE \E a \in Addr : \/ \E t \in Presents[a] : Start(a, t)
                             \/ \E d \in Durations : ClientUpdate(a, d)
                             \/ ClientSendPayload(a)
                             \/ ClientDisconnect(a)
    BY <1>1, <2>3 DEF Start, ClientUpdate, ClientSendPayload, ClientDisconnect, server
  <2>4. CASE \E id \in Ids : UpdateClient(id) \/ SendPayload(id) \/ Disconnect(id)
    BY <1>1, <2>4 DEF UpdateClient, SendPayload, Disconnect
  <2>5. CASE Cut \/ \E n \in Limits : SetMaxClients(n)
    BY <1>1, <2>5 DEF Cut, SetMaxClients, server
  <2> QED BY <1>3, <2>1, <2>2, <2>3, <2>4, <2>5 DEF Next, Deliver
<1> QED BY <1>1, <1>2, <1>3 DEF vars, server

LEMMA EntriesBind == EInv => TokenBound
<1> SUFFICES ASSUME EInv, NumEntries >= Cardinality(Token), NEW p \in Held, NEW q \in Held, p[2] = q[2]
             PROVE  p[1] = q[1]
  BY DEF TokenBound, Held
<1>1. PICK i \in DOMAIN entries : entries[i].token = p[2] /\ entries[i].addr = p[1]
  BY DEF EInv, HasEntry
<1>2. PICK j \in DOMAIN entries : entries[j].token = q[2] /\ entries[j].addr = q[1]
  BY DEF EInv, HasEntry
<1> QED BY <1>1, <1>2 DEF EInv, OneEntryEach

(***************************************************************************)
(* A connect token is good for one address only, for any finite number of  *)
(* tokens that connect_token_entries has room for: what is pending or was  *)
(* ever connected with a token has the address of its first use, although  *)
(* requests from several addresses may be under way at once and pending    *)
(* connections expire and come back.                                       *)
(***************************************************************************)
THEOREM TokensAlwaysBound == ASSUME IsFiniteSet(Token) PROVE Spec => []TokenBound
BY InitIInv, StepIInv, InitEInv, StepEInv, EntriesBind, PTL DEF Spec

=============================================================================
