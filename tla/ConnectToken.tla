---------------------------- MODULE ConnectToken ----------------------------
(***************************************************************************)
(* Connect tokens, public and private (renetcode2/src/token.rs), and the   *)
(* cryptography of netcode (crypto.rs) as far as it is used: a sealed box  *)
(* opens with the key, the nonce and the additional data it was sealed     *)
(* with, and with no others.  What is written is a sequence of fields.     *)
(***************************************************************************)
EXTENDS Integers, Sequences, FiniteSets

CONSTANTS
    Protocol,       \* protocol_id
    ConnectKey,     \* the private key of the server
    Slots           \* length of the array server_addresses, 32 in the code

ASSUME SlotsAssumption == Slots \in Nat

NoAddress == [family |-> "none", ip |-> 0, port |-> 0]
Error == [error |-> TRUE]

Seal(fields, key, nonce, aad) == [fields |-> fields, key |-> key, nonce |-> nonce, aad |-> aad]

(* dencrypted_in_place, for either length of nonce *)
Opens(box, key, nonce, aad) == box.key = key /\ box.nonce = nonce /\ box.aad = aad

(* a packet that is not encrypted has the protocol in the place of its tag *)
Tag(fields, protocol) == [fields |-> fields, key |-> 0, nonce |-> 0, aad |-> <<protocol>>]

DecodeAndCheck(box, protocol) == box.aad = <<protocol>>
-----------------------------------------------------------------------------
(* PrivateConnectToken::generate: the addresses first, then None *)
GeneratePrivate(id, timeout, socket_id, addresses) ==
    IF Len(addresses) \notin 1 .. Slots THEN Error
    ELSE [client_id |-> id, timeout_seconds |-> timeout, socket_id |-> socket_id,
          server_addresses |-> [i \in 1 .. Slots |->
              IF i <= Len(addresses) THEN addresses[i] ELSE NoAddress]]

(* the addresses that are there, in their order: the k-th is the one with  *)
(* k of them up to its place                                               *)
Present(addresses) ==
    LET places == {i \in DOMAIN addresses : addresses[i] # NoAddress}
    IN  [k \in 1 .. Cardinality(places) |->
           addresses[CHOOSE i \in places : Cardinality({j \in places : j <= i}) = k]]

(* write_server_addresses: their number, then each of them *)
WriteServerAddresses(addresses) ==
    <<Len(Present(addresses))>> \o Present(addresses)

(* read_server_addresses: at most as many as there are places *)
ReadServerAddresses(fields) ==
    [i \in 1 .. Slots |-> IF i <= fields[1] THEN fields[i + 1] ELSE NoAddress]

(* the fields before the addresses, and those after, in the order written *)
WritePrivate(t) ==
    <<t.client_id, t.timeout_seconds, t.socket_id>> \o WriteServerAddresses(t.server_addresses)

ReadPrivate(fields) ==
    [client_id |-> fields[1], timeout_seconds |-> fields[2], socket_id |-> fields[3],
     server_addresses |-> ReadServerAddresses(SubSeq(fields, 4, Len(fields)))]

(* get_additional_data of a token *)
TokenData(protocol, expire) == <<protocol, expire>>

EncodePrivate(t, protocol, expire, xnonce, key) ==
    Seal(WritePrivate(t), key, xnonce, TokenData(protocol, expire))

DecodePrivate(box, protocol, expire, xnonce, key) ==
    IF Opens(box, key, xnonce, TokenData(protocol, expire))
    THEN ReadPrivate(box.fields) ELSE Error

(* ConnectToken::generate *)
GenerateToken(now, expire_seconds, id, timeout, socket_id, addresses, xnonce) ==
    LET private == GeneratePrivate(id, timeout, socket_id, addresses)
    IN  IF private = Error THEN Error
        ELSE [client_id |-> id, protocol_id |-> Protocol, create_timestamp |-> now,
              expire_timestamp |-> now + expire_seconds, xnonce |-> xnonce,
              socket_id |-> socket_id, server_addresses |-> private.server_addresses,
              timeout_seconds |-> timeout,
              private_data |-> EncodePrivate(private, Protocol, now + expire_seconds,
                                             xnonce, ConnectKey)]

(* ConnectToken::write and read, by which a token gets to its client *)
WriteToken(t) ==
    <<t.client_id, t.protocol_id, t.create_timestamp, t.expire_timestamp, t.xnonce,
      t.private_data, t.timeout_seconds, t.socket_id>>
    \o WriteServerAddresses(t.server_addresses)

ReadToken(fields) ==
    [client_id |-> fields[1], protocol_id |-> fields[2], create_timestamp |-> fields[3],
     expire_timestamp |-> fields[4], xnonce |-> fields[5], private_data |-> fields[6],
     timeout_seconds |-> fields[7], socket_id |-> fields[8],
     server_addresses |-> ReadServerAddresses(SubSeq(fields, 9, Len(fields)))]
-----------------------------------------------------------------------------
AddressBytes(a) == CASE a.family = "v4" -> 7 [] a.family = "v6" -> 19 [] OTHER -> 0

(* bytes that PrivateConnectToken::write takes for n addresses like a *)
PrivateBytes(n, a) ==
    8 + 4 + 1 + (4 + n * AddressBytes(a)) + 32 + 32 + 256

(* Of the NETCODE_CONNECT_TOKEN_PRIVATE_BYTES 16 are for the tag; the rest *)
(* takes the largest token, of 32 addresses of the larger family.          *)
ASSUME TokenFits == PrivateBytes(32, [family |-> "v6", ip |-> 0, port |-> 0]) <= 1024 - 16
=============================================================================
