---------------------------- MODULE NetcodePacket ----------------------------
(***************************************************************************)
(* Packets on the wire: Packet::encode and decode of renetcode2/src/       *)
(* packet.rs, over a network that loses, reorders, repeats and damages     *)
(* datagrams, with the replay window at the end of it.  Damage is modelled *)
(* where packets are encrypted; a box of clear text has no protection.     *)
(*                                                                         *)
(* A datagram is its prefix byte (two halves), the bytes of its sequence   *)
(* and a box; a ConnectionRequest has neither sequence nor box.            *)
(***************************************************************************)
EXTENDS ReplayWindow, ConnectToken

CONSTANTS
    Byte,           \* values of a byte, 256 in the code
    WordBytes,      \* bytes of a u64, 8 in the code
    Key,            \* the key of this direction
    ChallengeKey,
    Addresses,      \* server addresses that tokens have
    MaxSends,       \* bound: packets the sender encodes
    MaxDamage       \* bound: datagrams damaged on the way

ASSUME WordAssumption == Byte \in Nat \ {0, 1} /\ WordBytes \in Nat

(* 0 in the place of a key marks a box that was damaged or never sealed *)
ASSUME KeysAssumption == 0 \notin {Key, ConnectKey}

ASSUME AddressesAssumption ==
    \A addresses \in Addresses :
        addresses \in Seq({addresses[i] : i \in DOMAIN addresses} \ {NoAddress})

VARIABLES
    encrypted,      \* the policy of the socket
    next,           \* sequences from here on are unused
    sent,           \* history: packets encoded, with their sequence
    issued,         \* history: connect tokens generated, with their private part
    net,            \* datagrams on the way
    damage,         \* datagrams damaged so far
    delivered,      \* history: packets that decode returned
    opened          \* history: private tokens and clients read from them

wireVars == <<window, accepted, encrypted, next, sent, issued, net, damage, delivered, opened>>

Types == [ConnectionRequest |-> 0, ConnectionDenied |-> 1, Challenge |-> 2,
          Response |-> 3, KeepAlive |-> 4, Payload |-> 5, Disconnect |-> 6]

(* from_u8 *)
IsType(n) == n \in {Types[t] : t \in DOMAIN Types}

ApplyReplayProtection(n) == n \in {Types.KeepAlive, Types.Payload, Types.Disconnect}
-----------------------------------------------------------------------------
Power[n \in 0 .. WordBytes] == IF n = 0 THEN 1 ELSE Byte * Power[n - 1]

(* sequences are of a word *)
ASSUME SequencesFit == MaxSequence < Power[WordBytes]

(* sequence_bytes_required: 0 for the sequence 0 *)
SequenceBytesRequired(s) ==
    CHOOSE n \in 0 .. WordBytes : s < Power[n] /\ \A k \in 0 .. (n - 1) : s >= Power[k]

EncodePrefix(type, s) == [type |-> type, len |-> SequenceBytesRequired(s)]

(* write_sequence: little-endian, without the zeros at its end *)
WriteSequence(s) == [i \in 1 .. SequenceBytesRequired(s) |-> (s \div Power[i - 1]) % Byte]

(* read_sequence *)
ReadSequence(bytes) ==
    LET value[n \in 0 .. Len(bytes)] ==
          IF n = 0 THEN 0 ELSE value[n - 1] + bytes[n] * Power[n - 1]
    IN  value[Len(bytes)]

(* get_additional_data *)
AdditionalData(prefix) == <<Protocol, prefix>>

(* the box of the ChallengeToken *)
GenerateChallenge(id, n) ==
    [type |-> Types.Challenge, token_sequence |-> n,
     token_data |-> Seal(<<id>>, ChallengeKey, n, <<>>)]

ChallengeDecode(box, n) ==
    IF Opens(box, ChallengeKey, n, <<>>) THEN [client_id |-> box.fields[1]] ELSE Error

RequestFromToken(t) ==
    [type |-> Types.ConnectionRequest, protocol_id |-> t.protocol_id,
     expire_timestamp |-> t.expire_timestamp, xnonce |-> t.xnonce, data |-> t.private_data]

Write(p) ==
    CASE p.type = Types.ConnectionRequest ->
           <<p.protocol_id, p.expire_timestamp, p.xnonce, p.data>>
      [] p.type \in {Types.Challenge, Types.Response} -> <<p.token_sequence, p.token_data>>
      [] p.type = Types.KeepAlive -> <<p.client_index, p.max_clients>>
      [] p.type = Types.Payload -> <<p.payload>>
      [] OTHER -> <<>>

(* read: an error when there are too few bytes *)
Read(type, f) ==
    CASE type = Types.Payload -> [type |-> type, payload |-> f[1]]
      [] type = Types.ConnectionRequest /\ Len(f) >= 4 ->
           [type |-> type, protocol_id |-> f[1], expire_timestamp |-> f[2],
            xnonce |-> f[3], data |-> f[4]]
      [] type \in {Types.Challenge, Types.Response} /\ Len(f) >= 2 ->
           [type |-> type, token_sequence |-> f[1], token_data |-> f[2]]
      [] type = Types.KeepAlive /\ Len(f) >= 2 ->
           [type |-> type, client_index |-> f[1], max_clients |-> f[2]]
      [] type \in {Types.ConnectionDenied, Types.Disconnect} -> [type |-> type]
      [] OTHER -> Error

(* encode; a request has no sequence and no box of its own *)
Encode(p, s) ==
    IF p.type = Types.ConnectionRequest
    THEN [prefix |-> [type |-> p.type, len |-> 0], bytes |-> <<>>, box |-> Write(p)]
    ELSE LET prefix == EncodePrefix(p.type, s)
         IN  [prefix |-> prefix, bytes |-> WriteSequence(s),
              box |-> IF encrypted THEN Seal(Write(p), Key, s, AdditionalData(prefix))
                      ELSE Tag(Write(p), Protocol)]

(* Fault: the prefix is not part of the additional data. *)
AuthenticLoosely(d) ==
    IF encrypted
    THEN d.box.key = Key /\ d.box.nonce = ReadSequence(d.bytes) /\ d.box.aad[1] = Protocol
    ELSE DecodeAndCheck(d.box, Protocol)

(* the box of a datagram opens *)
Authentic(d) ==
    IF encrypted THEN Opens(d.box, Key, ReadSequence(d.bytes), AdditionalData(d.prefix))
    ELSE DecodeAndCheck(d.box, Protocol)

(* PacketTooSmall: fewer than two bytes besides the tag, which is what a   *)
(* packet of no fields and sequence 0 has                                  *)
TooSmall(d) ==
    d.prefix.type # Types.ConnectionRequest /\ Len(d.bytes) + Len(d.box.fields) = 0
-----------------------------------------------------------------------------
WireInit ==
    /\ Init
    /\ encrypted \in BOOLEAN
    /\ next = 0 /\ sent = {} /\ issued = {} /\ net = {} /\ damage = 0
    /\ delivered = {} /\ opened = {}

(* the client's answer to a challenge carries the same box *)
Packets ==
    {[type |-> Types.ConnectionDenied], [type |-> Types.Disconnect],
     [type |-> Types.Payload, payload |-> 1],
     [type |-> Types.KeepAlive, client_index |-> 0, max_clients |-> 1],
     GenerateChallenge(7, 3), [GenerateChallenge(7, 3) EXCEPT !.type = Types.Response]}

(* a packet is encoded with an unused sequence; the sequences left out are *)
(* of packets that get lost                                                *)
SendPacket(p, s) ==
    /\ Cardinality(sent) < MaxSends /\ s >= next /\ issued = {}
    /\ next' = s + 1
    /\ sent' = sent \union {[seq |-> s, packet |-> p]}
    /\ net' = net \union {Encode(p, s)}
    /\ UNCHANGED <<window, accepted, encrypted, issued, damage, delivered, opened>>

(* a connect token is generated, written and read on its way to the        *)
(* client, and sent in a request.  Requests and other packets share no     *)
(* state, so a behaviour has either.                                       *)
SendRequest(addresses) ==
    LET token == GenerateToken(1, 30, 7, 15, 0, addresses, 5)
    IN  /\ issued = {} /\ sent = {} /\ token # Error
        /\ issued' = {[token |-> token, private |-> GeneratePrivate(7, 15, 0, addresses)]}
        /\ net' = net \union {Encode(RequestFromToken(ReadToken(WriteToken(token))), 0)}
        /\ UNCHANGED <<window, accepted, encrypted, next, sent, damage, delivered, opened>>

(* what may become of a datagram: another prefix, another byte of the      *)
(* sequence, another field.  The datagram stays on the way, as every one   *)
(* does: to lose it is never to decode it.                                 *)
Damaged(d) ==
    {[d EXCEPT !.prefix.type = t] : t \in 1 .. 7}
      \union {[d EXCEPT !.bytes[i] = b] : i \in DOMAIN d.bytes, b \in 0 .. (Byte - 1)}
      \union {[d EXCEPT !.box.fields = <<0>>, !.box.key = 0]}

DamagedRequest(d) ==
    {[d EXCEPT !.box[i] = 0] : i \in 1 .. 3} \union {[d EXCEPT !.box[4].key = 0]}

Damage(d) ==
    /\ encrypted /\ damage < MaxDamage
    /\ damage' = damage + 1
    /\ \E e \in IF d.prefix.type = Types.ConnectionRequest THEN DamagedRequest(d) ELSE Damaged(d) :
         e # d /\ net' = net \union {e}
    /\ UNCHANGED <<window, accepted, encrypted, next, sent, issued, delivered, opened>>

(* a request: the server then opens the private part of its token *)
DecodeRequest(d) ==
    LET p == Read(d.prefix.type, d.box)
        private == DecodePrivate(p.data, p.protocol_id, p.expire_timestamp, p.xnonce, ConnectKey)
    IN  /\ d.prefix.type = Types.ConnectionRequest
        /\ opened' = IF private = Error THEN opened ELSE opened \union {private}
        /\ UNCHANGED <<window, accepted, encrypted, next, sent, issued, net, damage, delivered>>

(* the tokens that a packet's receiver reads: a Response has a challenge *)
TokensOf(p) ==
    IF p.type # Types.Response THEN {}
    ELSE {ChallengeDecode(p.token_data, p.token_sequence)} \ {Error}

(* every other packet; one that returns an error changes nothing *)
DecodePacket(d) ==
    LET s == ReadSequence(d.bytes)
        p == Read(d.prefix.type, d.box.fields)
        protected == ApplyReplayProtection(d.prefix.type)
    IN  /\ d.prefix.type # Types.ConnectionRequest
        /\ IsType(d.prefix.type) /\ ~TooSmall(d)
        /\ IF protected THEN Decode(s, Authentic(d)) ELSE UNCHANGED <<window, accepted>>
        /\ IF Authentic(d) /\ ~(protected /\ AlreadyReceived(window, s)) /\ p # Error
           THEN /\ delivered' = delivered \union {[seq |-> s, packet |-> p]}
                /\ opened' = opened \union TokensOf(p)
           ELSE UNCHANGED <<delivered, opened>>
        /\ UNCHANGED <<encrypted, next, sent, issued, net, damage>>

WireNext ==
    \/ \E p \in Packets, s \in Sequences : SendPacket(p, s)
    \/ \E addresses \in Addresses : SendRequest(addresses)
    \/ \E d \in net : Damage(d) \/ DecodeRequest(d) \/ DecodePacket(d)

WireSpec == WireInit /\ [][WireNext]_wireVars
-----------------------------------------------------------------------------
(***************************************************************************)
(* The wire format is faithful.  What decode returns was encoded by the    *)
(* peer with that very type and sequence, whatever happened on the way;    *)
(* the private token or the client read from a packet is one that was      *)
(* issued; a token reads back as it was written; and a packet on the wire  *)
(* decodes to what it was, unless it is too small to be one.               *)
(***************************************************************************)
WireIsFaithful ==
    /\ delivered \subseteq sent
    /\ opened \subseteq {i.private : i \in issued} \union {[client_id |-> 7]}
    /\ \A i \in issued : ReadToken(WriteToken(i.token)) = i.token
    /\ \A x \in sent :
         LET d == Encode(x.packet, x.seq)
         IN  ~TooSmall(d) => /\ Authentic(d)
                             /\ ReadSequence(d.bytes) = x.seq
                             /\ Read(d.prefix.type, d.box.fields) = x.packet
=============================================================================
