-------------------------- MODULE Transports_proofs --------------------------
(***************************************************************************)
(* The transports keep their tables and the RenetServer's in agreement,    *)
(* and the events of the RenetServer tell the truth, for any set of        *)
(* clients and addresses and whatever the network, netcode, Steam and the  *)
(* application do.                                                         *)
(*                                                                         *)
(* The operators of the RenetServer are treated first, as functions of the *)
(* values of the variables server and view; then every action of the two   *)
(* server transports and of the clients' socket is one of them.            *)
(***************************************************************************)
EXTENDS MCTransports, TLAPS, SequenceTheorems

ServerRecords ==
    [connections : [Ids -> Connection \union {NoConnection}], events : Seq(Event)]

\* The events e that wait tell the truth, of a client i, to an application that has the view v.
Mine(e, i) == {0} \union {k \in 1 .. Len(e) : e[k].id = i}

Says(e, v, i, k) == IF k = 0 THEN i \in v ELSE e[k].type = "connected"

Follows(e, i, j, k) == j < k /\ \A m \in Mine(e, i) : m <= j \/ k <= m

IsLast(e, i, k) == \A m \in Mine(e, i) : m <= k

Alternate(e, v, i) ==
    \A j, k \in Mine(e, i) : Follows(e, i, j, k) => Says(e, v, i, j) # Says(e, v, i, k)

EndWith(e, v, i, present) ==
    \A k \in Mine(e, i) : IsLast(e, i, k) => (Says(e, v, i, k) <=> present)

Truth(s, v) ==
    \A i \in Ids : Alternate(s.events, v, i) /\ EndWith(s.events, v, i, i \in Present(s))

LEMMA TruthIsTold == EventsTellTruth <=> Truth(server, view)
BY DEF EventsTellTruth, Truth, Alternate, EndWith, Mine, Says, Follows, IsLast

LEMMA AppendElements ==
    ASSUME NEW e \in Seq(Event), NEW x \in Event
    PROVE  /\ Append(e, x) \in Seq(Event) /\ Len(e) \in Nat /\ Len(Append(e, x)) = Len(e) + 1
           /\ Append(e, x)[Len(e) + 1] = x
           /\ \A k \in 1 .. Len(e) : Append(e, x)[k] = e[k]
<1> HIDE DEF Event
<1> QED BY AppendProperties

\* An event of i that says the opposite of the last one keeps the turn.
LEMMA AppendOwn ==
    ASSUME NEW e \in Seq(Event), NEW v, NEW x \in Event, Alternate(e, v, x.id),
           EndWith(e, v, x.id, x.type # "connected")
    PROVE  /\ Alternate(Append(e, x), v, x.id)
           /\ EndWith(Append(e, x), v, x.id, x.type = "connected")
<1> DEFINE i == x.id
           f == Append(e, x)
           n == Len(e) + 1
<1>1. /\ Len(e) \in Nat /\ Len(f) = n /\ f[n] = x /\ n \in Nat /\ n # 0
      /\ \A k \in 1 .. Len(e) : f[k] = e[k]
  BY AppendElements
<1> HIDE DEF f
<1>2. Mine(e, i) \subseteq 0 .. Len(e) /\ Mine(f, i) = Mine(e, i) \union {n}
  BY <1>1 DEF Mine
<1>3. \A k \in Mine(e, i) : Says(f, v, i, k) = Says(e, v, i, k)
  BY <1>1 DEF Mine, Says
<1>4. Says(f, v, i, n) = (x.type = "connected")
  BY <1>1 DEF Says
<1>5. \A k \in Mine(e, i) : k \in Nat /\ k < n
  BY <1>1, <1>2
<1> HIDE DEF n, i
<1>6. ASSUME NEW j \in Mine(f, i), NEW k \in Mine(f, i), Follows(f, i, j, k)
      PROVE  Says(f, v, i, j) # Says(f, v, i, k)
  <2>1. CASE j \in Mine(e, i) /\ k \in Mine(e, i)
    <3>1. Follows(e, i, j, k)
      BY <1>2, <1>6 DEF Follows
    <3> QED BY <1>3, <2>1, <3>1 DEF Alternate, i
  <2>2. CASE j \in Mine(e, i) /\ k = n
    <3>1. IsLast(e, i, j)
      <4>1. \A m \in Mine(e, i) : m <= j \/ n <= m
        BY <1>2, <1>6, <2>2 DEF Follows
      <4>2. ASSUME NEW m \in Mine(e, i) PROVE m <= j
        <5>1. m \in Nat /\ j \in Nat /\ n \in Nat /\ m < n
          BY <1>1, <1>5, <2>2
        <5> QED BY <4>1, <5>1
      <4> QED BY <4>2 DEF IsLast
    <3>2. Says(e, v, i, j) <=> x.type # "connected"
      BY <2>2, <3>1 DEF EndWith, i
    <3> QED BY <1>3, <1>4, <2>2, <3>2
  <2>3. CASE j = n
    BY <1>1, <1>2, <1>5, <1>6, <2>3 DEF Follows
  <2> QED BY <1>2, <2>1, <2>2, <2>3
<1>7. ASSUME NEW k \in Mine(f, i), IsLast(f, i, k) PROVE k = n
  BY <1>1, <1>2, <1>5, <1>7 DEF IsLast
<1> QED BY <1>4, <1>6, <1>7 DEF Alternate, EndWith, i, f

\* An event of another client says nothing of i.
LEMMA AppendOther ==
    ASSUME NEW e \in Seq(Event), NEW v, NEW x \in Event, NEW i \in Ids \ {x.id}, NEW present,
           Alternate(e, v, i), EndWith(e, v, i, present)
    PROVE  Alternate(Append(e, x), v, i) /\ EndWith(Append(e, x), v, i, present)
<1> DEFINE f == Append(e, x)
           n == Len(e) + 1
<1>1. /\ Len(e) \in Nat /\ Len(f) = n /\ f[n] = x /\ \A k \in 1 .. Len(e) : f[k] = e[k]
  BY AppendElements
<1> HIDE DEF f
<1>2. Mine(f, i) = Mine(e, i)
  BY <1>1 DEF Mine
<1>3. \A k \in Mine(e, i) : Says(f, v, i, k) = Says(e, v, i, k)
  BY <1>1 DEF Mine, Says
<1>4. /\ \A j, k : Follows(f, i, j, k) <=> Follows(e, i, j, k)
      /\ \A k : IsLast(f, i, k) <=> IsLast(e, i, k)
  BY <1>2 DEF Follows, IsLast
<1> QED BY <1>2, <1>3, <1>4 DEF Alternate, EndWith, f

\* The application takes the first event.
LEMMA TakeFirst ==
    ASSUME NEW e \in Seq(Event), e # << >>, NEW v, NEW i \in Ids, NEW present,
           Alternate(e, v, i), EndWith(e, v, i, present), NEW w,
           w = IF Head(e).type = "connected" THEN v \union {Head(e).id} ELSE v \ {Head(e).id}
    PROVE  Alternate(Tail(e), w, i) /\ EndWith(Tail(e), w, i, present)
<1> DEFINE f == Tail(e)
           g(k) == IF k = 0 /\ Head(e).id # i THEN 0 ELSE k + 1
<1>1. /\ Len(e) \in Nat /\ Len(e) # 0 /\ Len(f) = Len(e) - 1 /\ Head(e) = e[1]
      /\ \A k \in 1 .. Len(f) : f[k] = e[k + 1]
  <2> HIDE DEF Event
  <2> QED BY HeadTailProperties, EmptySeq
<1> HIDE DEF f
<1>2. /\ \A k \in Mine(e, i) : k \in Nat /\ (k # 0 => k \in 1 .. Len(e) /\ e[k].id = i)
      /\ \A k \in Mine(f, i) : k \in Nat /\ (k # 0 => k \in 1 .. Len(f) /\ f[k].id = i)
  BY <1>1 DEF Mine
<1>3. ASSUME NEW k \in Mine(f, i)
      PROVE  k \in Nat /\ g(k) \in Mine(e, i) /\ Says(f, w, i, k) = Says(e, v, i, g(k))
  <2>1. CASE k = 0 /\ Head(e).id # i
    BY <2>1 DEF Mine, Says
  <2>2. CASE k = 0 /\ Head(e).id = i
    BY <1>1, <2>2 DEF Mine, Says
  <2>3. CASE k # 0
    <3>1. k \in 1 .. Len(f) /\ f[k] = e[k + 1] /\ k + 1 \in 1 .. Len(e) /\ f[k].id = i /\ k + 1 # 0
      BY <1>1, <1>2, <2>3
    <3> QED BY <2>3, <3>1 DEF Mine, Says
  <2> QED BY <1>2, <2>1, <2>2, <2>3
<1>4. ASSUME NEW m \in Mine(e, i)
      PROVE  m = 0 \/ (m = 1 /\ Head(e).id = i) \/ (m - 1 \in Mine(f, i) /\ m - 1 # 0 /\ m \in Nat)
  <2>1. CASE m = 0 \/ m = 1
    BY <1>1, <1>2, <2>1
  <2>2. CASE m # 0 /\ m # 1
    <3>1. m \in 1 .. Len(e) /\ e[m].id = i /\ m - 1 \in 1 .. Len(f) /\ (m - 1) + 1 = m
      BY <1>1, <1>2, <2>2
    <3>2. f[m - 1] = e[m]
      BY <1>1, <3>1
    <3> QED BY <3>1, <3>2 DEF Mine
  <2> QED BY <2>1, <2>2
<1>5. ASSUME NEW j \in Mine(f, i), NEW k \in Mine(f, i), Follows(f, i, j, k)
      PROVE  Follows(e, i, g(j), g(k))
  <2>1. j \in Nat /\ k \in Nat /\ j < k /\ g(j) < g(k)
    BY <1>3, <1>5 DEF Follows
  <2>2. ASSUME NEW m \in Mine(e, i) PROVE m <= g(j) \/ g(k) <= m
    <3>1. CASE m = 0 \/ (m = 1 /\ Head(e).id = i)
      BY <2>1, <3>1
    <3>2. CASE m - 1 \in Mine(f, i) /\ m - 1 # 0 /\ m \in Nat
      <4>1. m - 1 <= j \/ k <= m - 1
        BY <1>5, <3>2 DEF Follows
      <4>2. m - 1 \in Nat
        BY <1>3, <3>2
      <4> QED BY <2>1, <3>2, <4>1, <4>2
    <3> QED BY <1>4, <3>1, <3>2
  <2> QED BY <2>1, <2>2 DEF Follows
<1>6. ASSUME NEW k \in Mine(f, i), IsLast(f, i, k) PROVE IsLast(e, i, g(k))
  <2>1. k \in Nat
    BY <1>3
  <2>2. ASSUME NEW m \in Mine(e, i) PROVE m <= g(k)
    <3>1. CASE m = 0 \/ (m = 1 /\ Head(e).id = i)
      BY <2>1, <3>1
    <3>2. CASE m - 1 \in Mine(f, i) /\ m - 1 # 0 /\ m \in Nat
      <4>1. m - 1 <= k /\ m - 1 \in Nat
        BY <1>3, <1>6, <3>2 DEF IsLast
      <4> QED BY <2>1, <3>2, <4>1
    <3> QED BY <1>4, <3>1, <3>2
  <2> QED BY <2>2 DEF IsLast
<1> HIDE DEF g
<1>7. Alternate(f, w, i)
  <2> SUFFICES ASSUME NEW j \in Mine(f, i), NEW k \in Mine(f, i), Follows(f, i, j, k)
               PROVE  Says(f, w, i, j) # Says(f, w, i, k)
    BY DEF Alternate
  <2>1. Says(e, v, i, g(j)) # Says(e, v, i, g(k))
    BY <1>3, <1>5 DEF Alternate
  <2> QED BY <1>3, <2>1
<1>8. EndWith(f, w, i, present)
  BY <1>3, <1>6 DEF EndWith
<1> QED BY <1>7, <1>8 DEF f

(***************************************************************************)
(* The operations of the RenetServer.  A local client's connection is      *)
(* never reliable, so new_local_client does not replace one.               *)
(***************************************************************************)
Sound(s, v) ==
    /\ s \in ServerRecords /\ Truth(s, v)
    /\ \A i \in LocalIds \intersect Present(s) : s.connections[i].reliable = FALSE

\* The connection of i in t is the one in s, whatever its status.
SameConnection(s, t, i) ==
    /\ i \in Present(t) <=> i \in Present(s)
    /\ i \in Present(s) => /\ t.connections[i].session = s.connections[i].session
                           /\ t.connections[i].reliable = s.connections[i].reliable

LEMMA EventAppended ==
    ASSUME NEW s, NEW t, NEW v, s \in ServerRecords, Truth(s, v), NEW x \in Event,
           t.events = Append(s.events, x), x.id \in Ids,
           Present(t) = IF x.type = "connected" THEN Present(s) \union {x.id} ELSE Present(s) \ {x.id},
           x.id \in Present(s) <=> x.type # "connected"
    PROVE  Truth(t, v)
<1>1. s.events \in Seq(Event)
  BY DEF ServerRecords
<1> SUFFICES ASSUME NEW i \in Ids
             PROVE  Alternate(t.events, v, i) /\ EndWith(t.events, v, i, i \in Present(t))
  BY DEF Truth
<1>2. Alternate(s.events, v, i) /\ EndWith(s.events, v, i, i \in Present(s))
  BY DEF Truth
<1>3. CASE i = x.id
  <2>1. EndWith(s.events, v, x.id, x.type # "connected")
    BY <1>2, <1>3 DEF EndWith
  <2>2. /\ Alternate(Append(s.events, x), v, x.id)
        /\ EndWith(Append(s.events, x), v, x.id, x.type = "connected")
    BY <1>1, <1>2, <1>3, <2>1, AppendOwn
  <2>3. i \in Present(t) <=> x.type = "connected"
    BY <1>3
  <2> QED BY <1>3, <2>2, <2>3 DEF EndWith
<1>4. CASE i # x.id
  <2>1. /\ Alternate(Append(s.events, x), v, i)
        /\ EndWith(Append(s.events, x), v, i, i \in Present(s))
    BY <1>1, <1>2, <1>4, AppendOther
  <2>2. i \in Present(t) <=> i \in Present(s)
    BY <1>4
  <2> QED BY <2>1, <2>2 DEF EndWith
<1> QED BY <1>3, <1>4

\* t is s with a connection of i, made for session n unless i had one.
Added(s, t, v, i, reliable, n) ==
    /\ Sound(t, v) /\ Present(t) = Present(s) \union {i}
    /\ \A j \in Ids \ {i} : SameConnection(s, t, j)
    /\ i \in Present(s) => t = s
    /\ i \notin Present(s) => /\ t.connections[i].session = n
                              /\ t.connections[i].reliable = reliable

LEMMA AddSound ==
    ASSUME NEW s, NEW v, Sound(s, v), NEW i \in Ids, NEW reliable \in BOOLEAN, NEW n \in Nat,
           i \in LocalIds => reliable = FALSE,
           i \in Present(s) => s.connections[i].reliable = reliable
    PROVE  Added(s, AddConnection(s, i, reliable, n), v, i, reliable, n)
<1> USE DEF Added
<1> DEFINE t == AddConnection(s, i, reliable, n)
<1>1. CASE i \in Present(s)
  <2>1. t = s
    BY <1>1 DEF AddConnection
  <2> QED BY <1>1, <2>1 DEF SameConnection
<1>2. CASE i \notin Present(s)
  <2> DEFINE c == [status |-> "connected", reliable |-> reliable, session |-> n]
             x == [type |-> "connected", id |-> i]
  <2>1. c \in Connection /\ c # NoConnection /\ c.session = n /\ c.reliable = reliable
    BY RenetServerAssumption DEF Connection
  <2>2. x \in Event /\ x.id = i /\ x.type = "connected"
    BY DEF Event
  <2>3. t = [s EXCEPT !.connections[i] = c, !.events = Append(@, x)]
    BY <1>2 DEF AddConnection
  <2>4. s \in ServerRecords /\ s.connections \in [Ids -> Connection \union {NoConnection}]
        /\ s.events \in Seq(Event)
    BY DEF Sound, ServerRecords
  <2> HIDE DEF t, c, x, Connection, Event
  <2>5. Append(s.events, x) \in Seq(Event)
    BY <2>2, <2>4, AppendElements
  <2>6. /\ t \in ServerRecords /\ t.connections = [s.connections EXCEPT ![i] = c]
        /\ t.events = Append(s.events, x)
    BY <2>1, <2>3, <2>4, <2>5 DEF ServerRecords
  <2>7. Present(t) = Present(s) \union {i} /\ t.connections[i] = c
        /\ \A j \in Ids \ {i} : t.connections[j] = s.connections[j]
    BY <2>1, <2>4, <2>6 DEF Present
  <2>8. Truth(t, v)
    BY <1>2, <2>2, <2>4, <2>6, <2>7, EventAppended DEF Sound
  <2>9. \A j \in LocalIds \intersect Present(t) : t.connections[j].reliable = FALSE
    BY <2>1, <2>7 DEF Sound, Ids
  <2> QED BY <1>2, <2>1, <2>6, <2>7, <2>8, <2>9 DEF Sound, SameConnection, t
<1> QED BY <1>1, <1>2

LEMMA RemoveSound ==
    ASSUME NEW s, NEW v, Sound(s, v), NEW i \in Ids
    PROVE  /\ Sound(RemoveConnection(s, i), v)
           /\ Present(RemoveConnection(s, i)) = Present(s) \ {i}
           /\ \A j \in Ids \ {i} : SameConnection(s, RemoveConnection(s, i), j)
<1> DEFINE t == RemoveConnection(s, i)
<1>1. CASE i \notin Present(s)
  <2>1. t = s
    BY <1>1 DEF RemoveConnection
  <2> QED BY <1>1, <2>1 DEF SameConnection
<1>2. CASE i \in Present(s)
  <2> DEFINE x == [type |-> "disconnected", id |-> i]
  <2>2. x \in Event /\ x.id = i /\ x.type # "connected"
    BY DEF Event
  <2>3. t = [s EXCEPT !.connections[i] = NoConnection, !.events = Append(@, x)]
    BY <1>2 DEF RemoveConnection
  <2>4. s \in ServerRecords /\ s.connections \in [Ids -> Connection \union {NoConnection}]
        /\ s.events \in Seq(Event)
    BY DEF Sound, ServerRecords
  <2> HIDE DEF t, x, Connection, Event
  <2>5. Append(s.events, x) \in Seq(Event)
    BY <2>2, <2>4, AppendElements
  <2>6. /\ t \in ServerRecords /\ t.connections = [s.connections EXCEPT ![i] = NoConnection]
        /\ t.events = Append(s.events, x)
    BY <2>3, <2>4, <2>5 DEF ServerRecords
  <2>7. Present(t) = Present(s) \ {i} /\ \A j \in Ids \ {i} : t.connections[j] = s.connections[j]
    BY <2>4, <2>6 DEF Present
  <2>8. Truth(t, v)
    BY <1>2, <2>2, <2>4, <2>6, <2>7, EventAppended DEF Sound
  <2>9. \A j \in LocalIds \intersect Present(t) : t.connections[j].reliable = FALSE
    BY <2>7 DEF Sound, Ids
  <2> QED BY <1>2, <2>6, <2>7, <2>8, <2>9 DEF Sound, SameConnection, t
<1> QED BY <1>1, <1>2

LEMMA BreakSound ==
    ASSUME NEW s, NEW v, Sound(s, v), NEW S
    PROVE  Sound(Break(s, S), v) /\ \A j \in Ids : SameConnection(s, Break(s, S), j)
<1> DEFINE t == Break(s, S)
           f == [i \in Ids |-> IF i \in S /\ s.connections[i] # NoConnection
                               THEN [s.connections[i] EXCEPT !.status = "disconnected"]
                               ELSE s.connections[i]]
<1>1. s \in ServerRecords /\ s.connections \in [Ids -> Connection \union {NoConnection}]
  BY DEF Sound, ServerRecords
<1>2. ASSUME NEW c \in Connection
      PROVE  LET d == [c EXCEPT !.status = "disconnected"]
             IN  d \in Connection /\ d # NoConnection /\ d.session = c.session /\ d.reliable = c.reliable
  BY RenetServerAssumption DEF Connection
<1> HIDE DEF Connection
<1>3. ASSUME NEW i \in Ids
      PROVE  /\ f[i] \in Connection \union {NoConnection}
             /\ f[i] = NoConnection <=> s.connections[i] = NoConnection
             /\ s.connections[i] # NoConnection => /\ f[i].session = s.connections[i].session
                                                   /\ f[i].reliable = s.connections[i].reliable
  BY <1>1, <1>2
<1>4. t = [s EXCEPT !.connections = f]
  BY DEF Break
<1>5. f \in [Ids -> Connection \union {NoConnection}]
  BY <1>3
<1> HIDE DEF f, t, Event
<1>6. t \in ServerRecords /\ t.connections = f /\ t.events = s.events
  BY <1>1, <1>4, <1>5 DEF ServerRecords
<1>7. Present(t) = Present(s)
  BY <1>3, <1>6 DEF Present
<1>8. Truth(t, v)
  BY <1>6, <1>7 DEF Truth, Sound
<1>9. \A j \in Ids : SameConnection(s, t, j)
  BY <1>3, <1>6, <1>7 DEF SameConnection, Present
<1>10. \A j \in LocalIds \intersect Present(t) : t.connections[j].reliable = FALSE
  BY <1>7, <1>9 DEF Sound, SameConnection, Ids
<1> QED BY <1>6, <1>8, <1>9, <1>10 DEF Sound, t

LEMMA GetEventSound ==
    ASSUME Sound(server, view), GetEvent
    PROVE  Sound(server', view') /\ \A j \in Ids : SameConnection(server, server', j)
<1>1. /\ server \in ServerRecords /\ server.events \in Seq(Event) /\ server.events # << >>
      /\ server' = [server EXCEPT !.events = Tail(@)]
  BY DEF Sound, ServerRecords, GetEvent
<1> HIDE DEF Event
<1>2. Tail(server.events) \in Seq(Event)
  BY <1>1, HeadTailProperties
<1> HIDE DEF Connection
<1>3. /\ server' \in ServerRecords /\ server'.connections = server.connections
      /\ server'.events = Tail(server.events)
  BY <1>1, <1>2 DEF ServerRecords
<1>4. Present(server') = Present(server)
  BY <1>3 DEF Present
<1>5. view' = IF Head(server.events).type = "connected" THEN view \union {Head(server.events).id}
              ELSE view \ {Head(server.events).id}
  BY DEF GetEvent
<1>6. ASSUME NEW i \in Ids
      PROVE  /\ Alternate(server'.events, view', i)
             /\ EndWith(server'.events, view', i, i \in Present(server'))
  <2>1. Alternate(server.events, view, i) /\ EndWith(server.events, view, i, i \in Present(server))
    BY DEF Sound, Truth
  <2>2. /\ Alternate(Tail(server.events), view', i)
        /\ EndWith(Tail(server.events), view', i, i \in Present(server))
    BY <1>1, <1>5, <2>1, TakeFirst
  <2> QED BY <1>3, <1>4, <2>2
<1> QED BY <1>3, <1>4, <1>6 DEF Sound, Truth, SameConnection

LEMMA ProcessSound ==
    ASSUME NEW s, NEW v, Sound(s, v), NEW i, NEW breaks
    PROVE  /\ Sound(ProcessPacketFrom(s, i, breaks), v)
           /\ \A j \in Ids : SameConnection(s, ProcessPacketFrom(s, i, breaks), j)
BY BreakSound DEF ProcessPacketFrom, SameConnection

\* What the application does leaves the connections of the transport's clients alone.
LEMMA ApplicationSound ==
    ASSUME Sound(server, view), sessions \in Nat, Application
    PROVE  /\ Sound(server', view') /\ sessions' \in Nat
           /\ \A j \in RemoteIds : SameConnection(server, server', j)
<1>1. RemoteIds \subseteq Ids /\ LocalIds \subseteq Ids /\ RemoteIds \intersect LocalIds = {}
  BY RenetServerAssumption DEF Ids
<1>2. CASE GetEvent
  BY <1>1, <1>2, GetEventSound DEF GetEvent
<1>3. CASE DisconnectAll \/ (\E i \in Ids : Disconnect(i)) \/ (\E S \in SUBSET Ids : Broadcast(S))
  <2>1. (\E S : server' = Break(server, S)) /\ UNCHANGED <<view, sessions>>
    BY <1>3 DEF DisconnectAll, Disconnect, Broadcast
  <2> QED BY <1>1, <2>1, BreakSound
<1>4. ASSUME NEW i \in LocalIds, NewLocalClient(i)
      PROVE  /\ Sound(server', view') /\ sessions' \in Nat
             /\ \A j \in RemoteIds : SameConnection(server, server', j)
  <2>1. /\ server' = AddConnection(server, i, FALSE, sessions + 1) /\ view' = view
        /\ sessions' = sessions + 1 /\ sessions + 1 \in Nat
    BY <1>4 DEF NewLocalClient
  <2>2. i \in Ids /\ (i \in Present(server) => server.connections[i].reliable = FALSE) /\ FALSE \in BOOLEAN
    BY <1>1 DEF Sound
  <2>3. Sound(server', view) /\ \A j \in Ids \ {i} : SameConnection(server, server', j)
    BY <2>1, <2>2, AddSound DEF Added
  <2> QED BY <1>1, <2>1, <2>3
<1>5. ASSUME NEW i \in LocalIds, DisconnectLocalClient(i)
      PROVE  /\ Sound(server', view') /\ sessions' \in Nat
             /\ \A j \in RemoteIds : SameConnection(server, server', j)
  <2>1. Sound(server', view) /\ \A j \in Ids \ {i} : SameConnection(server, server', j)
    BY <1>1, <1>5, RemoveSound DEF DisconnectLocalClient
  <2> QED BY <1>1, <1>5, <2>1 DEF DisconnectLocalClient
<1>6. ASSUME NEW i \in LocalIds, NEW c \in BOOLEAN, NEW s \in BOOLEAN, ProcessLocalClient(i, c, s)
      PROVE  /\ Sound(server', view') /\ sessions' \in Nat
             /\ \A j \in RemoteIds : SameConnection(server, server', j)
  BY <1>1, <1>6, ProcessSound DEF ProcessLocalClient
<1> QED BY <1>2, <1>3, <1>4, <1>5, <1>6 DEF Application

LEMMA SameApplication ==
    (NetcodeServer!Application <=> Application) /\ (SteamServer!Application <=> Application)
<1>1. NetcodeServer!Application <=> Application
  BY DEF NetcodeServer!Application, NetcodeServer!GetEvent, NetcodeServer!DisconnectAll, NetcodeServer!Disconnect,
         NetcodeServer!Broadcast, NetcodeServer!NewLocalClient, NetcodeServer!DisconnectLocalClient,
         NetcodeServer!ProcessLocalClient, NetcodeServer!ProcessPacketFrom, NetcodeServer!Break,
         NetcodeServer!ClientsId, NetcodeServer!Present, NetcodeServer!AddConnection,
         NetcodeServer!RemoveConnection, NetcodeServer!Ids, Application, GetEvent, DisconnectAll, Disconnect,
         Broadcast, NewLocalClient, DisconnectLocalClient, ProcessLocalClient, ProcessPacketFrom,
         Break, ClientsId, Present, AddConnection, RemoveConnection, Ids
<1>2. SteamServer!Application <=> Application
  BY DEF SteamServer!Application, SteamServer!GetEvent, SteamServer!DisconnectAll, SteamServer!Disconnect,
         SteamServer!Broadcast, SteamServer!NewLocalClient, SteamServer!DisconnectLocalClient,
         SteamServer!ProcessLocalClient, SteamServer!ProcessPacketFrom, SteamServer!Break,
         SteamServer!ClientsId, SteamServer!Present, SteamServer!AddConnection,
         SteamServer!RemoveConnection, SteamServer!Ids, Application, GetEvent, DisconnectAll, Disconnect,
         Broadcast, NewLocalClient, DisconnectLocalClient, ProcessLocalClient, ProcessPacketFrom,
         Break, ClientsId, Present, AddConnection, RemoveConnection, Ids
<1> QED BY <1>1, <1>2

(***************************************************************************)
(* The netcode server's transport.  C is netcode's table, s the            *)
(* RenetServer's: TablesAgree, with the types of C.                        *)
(***************************************************************************)
ClientRecords == [id : RemoteIds, addr : WebAddrs \union BareAddrs, session : Nat]

Agree(C, s) ==
    /\ C \subseteq ClientRecords
    /\ \A c, d \in C : c.id = d.id \/ c.addr = d.addr => c = d
    /\ \A i \in RemoteIds : i \in Present(s) <=> \E c \in C : c.id = i
    /\ \A c \in C : /\ s.connections[c.id].session = c.session
                    /\ s.connections[c.id].reliable = (c.addr \in ReliableAddrs)

LEMMA RemoteIdsAreIds == RemoteIds \subseteq Ids /\ RemoteIds \intersect LocalIds = {}
BY RenetServerAssumption DEF Ids

LEMMA AgreeSame ==
    ASSUME NEW C, NEW s, NEW t, Agree(C, s), \A j \in RemoteIds : SameConnection(s, t, j)
    PROVE  Agree(C, t)
<1>1. ASSUME NEW c \in C
      PROVE  /\ t.connections[c.id].session = c.session
             /\ t.connections[c.id].reliable = (c.addr \in ReliableAddrs)
  <2>1. c.id \in RemoteIds /\ c.id \in Present(s)
    BY DEF Agree, ClientRecords
  <2> QED BY <2>1 DEF Agree, SameConnection
<1>2. \A i \in RemoteIds : i \in Present(t) <=> \E c \in C : c.id = i
  BY DEF Agree, SameConnection
<1> QED BY <1>1, <1>2 DEF Agree

LEMMA AgreeAdds ==
    ASSUME NEW C, NEW s, NEW v, Agree(C, s), Sound(s, v), NEW i \in RemoteIds,
           NEW a \in WebAddrs \union BareAddrs, NEW n \in Nat,
           \A c \in C : c.id # i /\ c.addr # a
    PROVE  /\ Sound(AddConnection(s, i, a \in ReliableAddrs, n), v)
           /\ Agree(C \union {[id |-> i, addr |-> a, session |-> n]}, AddConnection(s, i, a \in ReliableAddrs, n))
<1> DEFINE t == AddConnection(s, i, a \in ReliableAddrs, n)
           c == [id |-> i, addr |-> a, session |-> n]
<1>1. i \in Ids /\ i \notin LocalIds /\ i \notin Present(s)
  BY RemoteIdsAreIds DEF Agree
<1>2. c \in ClientRecords /\ c.id = i /\ c.addr = a /\ c.session = n
  BY DEF ClientRecords
<1> HIDE DEF c
<1>4. /\ Sound(t, v) /\ Present(t) = Present(s) \union {i}
      /\ \A j \in Ids \ {i} : SameConnection(s, t, j)
      /\ t.connections[i].session = n /\ t.connections[i].reliable = (a \in ReliableAddrs)
  <2>1. CASE a \in ReliableAddrs
    <3>1. t = AddConnection(s, i, TRUE, n)
      <4>1. (a \in ReliableAddrs) = TRUE
        BY <2>1
      <4> QED BY <4>1, Zenon
    <3>2. (i \in LocalIds => TRUE = FALSE) /\ (i \in Present(s) => s.connections[i].reliable = TRUE)
      BY <1>1
    <3>3. Added(s, AddConnection(s, i, TRUE, n), v, i, TRUE, n)
      BY <1>1, <3>2, TRUE \in BOOLEAN, AddSound
    <3>4. Added(s, t, v, i, TRUE, n)
      BY <3>1, <3>3
    <3> HIDE DEF t
    <3> QED BY <1>1, <2>1, <3>4 DEF Added
  <2>2. CASE a \notin ReliableAddrs
    <3>1. t = AddConnection(s, i, FALSE, n)
      <4>1. (a \in ReliableAddrs) = FALSE
        BY <2>2
      <4> QED BY <4>1, Zenon
    <3>2. (i \in LocalIds => FALSE = FALSE) /\ (i \in Present(s) => s.connections[i].reliable = FALSE)
      BY <1>1
    <3>3. Added(s, AddConnection(s, i, FALSE, n), v, i, FALSE, n)
      BY <1>1, <3>2, FALSE \in BOOLEAN, AddSound
    <3>4. Added(s, t, v, i, FALSE, n)
      BY <3>1, <3>3
    <3> HIDE DEF t
    <3>5. t.connections[i].reliable = FALSE /\ (a \in ReliableAddrs) = FALSE
      BY <1>1, <2>2, <3>4 DEF Added
    <3>6. t.connections[i].reliable = (a \in ReliableAddrs)
      BY <3>5, Zenon
    <3> QED BY <1>1, <3>4, <3>6 DEF Added
  <2> QED BY <2>1, <2>2
<1> HIDE DEF t
<1>5. \A d \in C : d.id \in Ids \ {i} /\ d.id \in Present(s)
  BY RemoteIdsAreIds DEF Agree, ClientRecords
<1>6. ASSUME NEW d \in C \union {c}
      PROVE  /\ t.connections[d.id].session = d.session
             /\ t.connections[d.id].reliable = (d.addr \in ReliableAddrs)
  <2>1. CASE d = c
    BY <1>2, <1>4, <2>1
  <2>2. CASE d \in C
    BY <1>4, <1>5, <2>2 DEF Agree, SameConnection
  <2> QED BY <2>1, <2>2
<1>7. \A j \in RemoteIds : j \in Present(t) <=> \E d \in C \union {c} : d.id = j
  BY <1>2, <1>4 DEF Agree
<1>8. \A d, e \in C \union {c} : d.id = e.id \/ d.addr = e.addr => d = e
  BY <1>2 DEF Agree
<1>9. Agree(C \union {c}, t)
  BY <1>2, <1>6, <1>7, <1>8 DEF Agree
<1> QED BY <1>4, <1>9 DEF c, t

LEMMA AgreeRemoves ==
    ASSUME NEW C, NEW s, NEW v, Agree(C, s), Sound(s, v), NEW c \in C
    PROVE  Sound(RemoveConnection(s, c.id), v) /\ Agree(C \ {c}, RemoveConnection(s, c.id))
<1> DEFINE t == RemoveConnection(s, c.id)
<1>1. c.id \in RemoteIds /\ c.id \in Ids
  BY RemoteIdsAreIds DEF Agree, ClientRecords
<1>2. /\ Sound(t, v) /\ Present(t) = Present(s) \ {c.id}
      /\ \A j \in Ids \ {c.id} : SameConnection(s, t, j)
  BY <1>1, RemoveSound
<1> HIDE DEF t
<1>3. ASSUME NEW d \in C \ {c}
      PROVE  /\ t.connections[d.id].session = d.session
             /\ t.connections[d.id].reliable = (d.addr \in ReliableAddrs)
  <2>1. d.id \in Ids \ {c.id} /\ d.id \in Present(s)
    BY RemoteIdsAreIds DEF Agree, ClientRecords
  <2> QED BY <1>2, <2>1 DEF Agree, SameConnection
<1>4. \A j \in RemoteIds : j \in Present(t) <=> \E d \in C \ {c} : d.id = j
  BY <1>2 DEF Agree
<1>5. Agree(C \ {c}, t)
  BY <1>3, <1>4 DEF Agree
<1> QED BY <1>2, <1>5 DEF t

LEMMA SameNetcodeOperators ==
    /\ \A s, i, r, n : NetcodeServer!AddConnection(s, i, r, n) = AddConnection(s, i, r, n)
    /\ \A s, i : NetcodeServer!RemoveConnection(s, i) = RemoveConnection(s, i)
    /\ \A s, i, b : NetcodeServer!ProcessPacketFrom(s, i, b) = ProcessPacketFrom(s, i, b)
    /\ \A a : NetcodeServer!Reliable(a) = (a \in ReliableAddrs)
    /\ NetcodeServer!Addrs = WebAddrs \union BareAddrs
BY DEF NetcodeServer!AddConnection, NetcodeServer!RemoveConnection, NetcodeServer!ProcessPacketFrom,
       NetcodeServer!Break, NetcodeServer!Present, NetcodeServer!Ids, NetcodeServer!Reliable, NetcodeServer!Addrs,
       AddConnection, RemoveConnection, ProcessPacketFrom, Break, Present, Ids

LEMMA SameSteamOperators ==
    /\ \A s, i, r, n : SteamServer!AddConnection(s, i, r, n) = AddConnection(s, i, r, n)
    /\ \A s, i : SteamServer!RemoveConnection(s, i) = RemoveConnection(s, i)
    /\ \A s, S : SteamServer!Break(s, S) = Break(s, S)
BY DEF SteamServer!AddConnection, SteamServer!RemoveConnection, SteamServer!Break,
       SteamServer!Present, SteamServer!Ids, AddConnection, RemoveConnection, Break, Present, Ids

AppInv == Sound(server, view) /\ sessions \in Nat

\* The tables, and whose packets may come from an address: what is pending there, and what
\* was challenged, is one of the ids that it presents.
Presented(p, q) ==
    \A a \in WebAddrs \union BareAddrs : p[a] \in Presents[a] \union {NoId} /\ q[a] \subseteq Presents[a]

NetcodeInv ==
    /\ Agree(clients, server)
    /\ pending \in [WebAddrs \union BareAddrs -> RemoteIds \union {NoId}]
    /\ challenged \in [WebAddrs \union BareAddrs -> SUBSET RemoteIds]
    /\ Presented(pending, challenged)

\* A step that leaves both tables and the application's view alone.
LEMMA NetcodeRests ==
    ASSUME AppInv, NetcodeInv, UNCHANGED <<server, view, sessions, clients, pending, challenged>>
    PROVE  AppInv' /\ NetcodeInv'
BY DEF AppInv, NetcodeInv

\* Both tables lose the client c.
LEMMA ClientLeaves ==
    ASSUME AppInv, NetcodeInv, NEW c \in clients, clients' = clients \ {c},
           server' = RemoveConnection(server, c.id), UNCHANGED <<view, sessions, pending, challenged>>
    PROVE  AppInv' /\ NetcodeInv'
<1>1. Sound(server', view) /\ Agree(clients', server')
  BY AgreeRemoves DEF AppInv, NetcodeInv
<1> QED BY <1>1 DEF AppInv, NetcodeInv

LEMMA DisconnectedLeaves ==
    ASSUME AppInv, NetcodeInv, UNCHANGED <<view, sessions, pending, challenged>>, NEW x,
           NetcodeServer!ClientDisconnected(NetcodeServer!At(x)) \/ NetcodeServer!ClientDisconnected(NetcodeServer!Of(x))
    PROVE  AppInv' /\ NetcodeInv'
<1>1. \E c \in clients : clients' = clients \ {c} /\ server' = RemoveConnection(server, c.id)
  BY SameNetcodeOperators DEF NetcodeServer!ClientDisconnected, NetcodeServer!At, NetcodeServer!Of
<1> QED BY <1>1, ClientLeaves

LEMMA RecvFromClientKeeps ==
    ASSUME AppInv, NetcodeInv, NEW a, NetcodeServer!RecvFromClient(a)
    PROVE  AppInv' /\ NetcodeInv'
<1>1. UNCHANGED <<view, sessions, pending, challenged>>
  BY DEF NetcodeServer!RecvFromClient, NetcodeServer!Recv
<1>2. CASE NetcodeServer!ClientDisconnected(NetcodeServer!At(a))
  BY <1>1, <1>2, DisconnectedLeaves
<1>3. CASE (\E i : server' = ProcessPacketFrom(server, i, TRUE)) /\ UNCHANGED clients
  <2>1. Sound(server', view) /\ \A j \in RemoteIds : SameConnection(server, server', j)
    BY <1>3, ProcessSound, RemoteIdsAreIds DEF AppInv
  <2>2. Agree(clients, server')
    BY <2>1, AgreeSame DEF NetcodeInv
  <2> QED BY <1>1, <1>3, <2>1, <2>2 DEF AppInv, NetcodeInv
<1>4. CASE UNCHANGED <<server, clients>>
  BY <1>1, <1>4, NetcodeRests
<1>5. \/ NetcodeServer!ClientDisconnected(NetcodeServer!At(a))
      \/ (\E i : server' = ProcessPacketFrom(server, i, TRUE)) /\ UNCHANGED clients
      \/ UNCHANGED <<server, clients>>
  BY SameNetcodeOperators DEF NetcodeServer!RecvFromClient
<1> QED BY <1>2, <1>3, <1>4, <1>5

\* The step that adds a client: the id that is looked up is the id that is added.
LEMMA RecvFromOtherKeeps ==
    ASSUME NetcodeServer!Attributable, AppInv, NetcodeInv, NEW a \in WebAddrs \union BareAddrs,
           NetcodeServer!RecvFromOther(a)
    PROVE  AppInv' /\ NetcodeInv'
<1>1. UNCHANGED view /\ \A c \in clients : c.addr # a
  BY DEF NetcodeServer!RecvFromOther, NetcodeServer!Recv, NetcodeServer!At
<1>2. /\ pending \in [WebAddrs \union BareAddrs -> RemoteIds \union {NoId}]
      /\ challenged \in [WebAddrs \union BareAddrs -> SUBSET RemoteIds]
      /\ Presented(pending, challenged)
  BY DEF NetcodeInv
<1>3. PICK j \in Presents[a] : NetcodeServer!HandleResponse(a, j) \/ NetcodeServer!HandleConnectionRequest(a, j)
  BY DEF NetcodeServer!RecvFromOther
<1>4. j \in RemoteIds
  BY <1>3, MCTransportsAssumption
<1>5. CASE NetcodeServer!HandleResponse(a, j)
  <2>1. pending' \in [WebAddrs \union BareAddrs -> RemoteIds \union {NoId}] /\ UNCHANGED challenged
    BY <1>2, <1>5 DEF NetcodeServer!HandleResponse
  <2>2. Presented(pending', challenged')
    BY <1>2, <1>5, <2>1 DEF NetcodeServer!HandleResponse, Presented
  <2>3. CASE UNCHANGED <<server, sessions, clients>>
    BY <1>1, <1>2, <2>1, <2>2, <2>3 DEF AppInv, NetcodeInv
  <2>4. CASE NetcodeServer!Of(j) = {} /\ NetcodeServer!ClientConnected(pending[a], a)
    <3> DEFINE i == pending[a]
               n == sessions + 1
    <3>1. i # NoId /\ i \in Presents[a] /\ i = j
      <4>1. i # NoId /\ (a \in Encrypted => i = j)
        BY <1>5 DEF NetcodeServer!HandleResponse
      <4>2. i \in Presents[a]
        BY <1>2, <4>1 DEF Presented
      <4>3. a \notin Encrypted => i = j
        BY <4>2, SameNetcodeOperators DEF NetcodeServer!Attributable
      <4> QED BY <4>1, <4>2, <4>3
    <3>2. i \in RemoteIds /\ n \in Nat /\ \A c \in clients : c.id # i
      BY <1>4, <2>4, <3>1 DEF NetcodeServer!Of, AppInv
    <3>3. /\ sessions' = n /\ clients' = clients \union {[id |-> i, addr |-> a, session |-> n]}
          /\ server' = AddConnection(server, i, a \in ReliableAddrs, n)
      BY <2>4, SameNetcodeOperators DEF NetcodeServer!ClientConnected
    <3> HIDE DEF i, n
    <3>4. Sound(server', view) /\ Agree(clients', server')
      BY <1>1, <3>2, <3>3, AgreeAdds DEF AppInv, NetcodeInv
    <3> QED BY <1>1, <1>2, <2>1, <2>2, <3>2, <3>3, <3>4 DEF AppInv, NetcodeInv
  <2> QED BY <1>5, <2>3, <2>4 DEF NetcodeServer!HandleResponse
<1>6. CASE NetcodeServer!HandleConnectionRequest(a, j)
  <2>1. UNCHANGED <<server, sessions, clients>>
    BY <1>6 DEF NetcodeServer!HandleConnectionRequest
  <2>2. /\ pending' \in [WebAddrs \union BareAddrs -> RemoteIds \union {NoId}]
        /\ challenged' \in [WebAddrs \union BareAddrs -> SUBSET RemoteIds]
    BY <1>2, <1>4, <1>6 DEF NetcodeServer!HandleConnectionRequest
  <2>3. Presented(pending', challenged')
    BY <1>2, <1>3, <1>6 DEF NetcodeServer!HandleConnectionRequest, Presented
  <2> QED BY <1>1, <2>1, <2>2, <2>3 DEF AppInv, NetcodeInv
<1> QED BY <1>3, <1>5, <1>6

LEMMA NetcodeServerStep ==
    ASSUME NetcodeServer!Attributable, AppInv, NetcodeInv, NetcodeServer!Next
    PROVE  AppInv' /\ NetcodeInv'
<1>1. CASE NetcodeServer!AppStep
  <2>1. Application /\ UNCHANGED <<clients, pending, challenged>>
    BY <1>1, SameApplication DEF NetcodeServer!AppStep, NetcodeServer!netcode
  <2>2. /\ Sound(server', view') /\ sessions' \in Nat
        /\ \A j \in RemoteIds : SameConnection(server, server', j)
    BY <2>1, ApplicationSound DEF AppInv
  <2>3. Agree(clients, server')
    BY <2>2, AgreeSame DEF NetcodeInv
  <2> QED BY <2>1, <2>2, <2>3 DEF AppInv, NetcodeInv
<1>2. CASE \/ NetcodeServer!BeginSend \/ NetcodeServer!BeginDisconnectAll \/ NetcodeServer!RecvEnds
           \/ NetcodeServer!ClientsEnd \/ NetcodeServer!SendEnds \/ NetcodeServer!DisconnectAllEnds
           \/ \E i \in NetcodeServer!Ids : NetcodeServer!UpdateClient(i) \/ NetcodeServer!SendPackets(i)
           \/ \E ended \in SUBSET (WebAddrs \ gone) : NetcodeServer!Postupdate(ended)
  <2>1. UNCHANGED <<server, view, sessions, clients, pending, challenged>>
    BY <1>2 DEF NetcodeServer!BeginSend, NetcodeServer!BeginDisconnectAll, NetcodeServer!RecvEnds,
                NetcodeServer!ClientsEnd, NetcodeServer!SendEnds, NetcodeServer!DisconnectAllEnds,
                NetcodeServer!UpdateClient, NetcodeServer!SendPackets, NetcodeServer!Postupdate,
                NetcodeServer!appVars, NetcodeServer!netcode
  <2> QED BY <2>1, NetcodeRests
<1>3. ASSUME NEW expired, NetcodeServer!BeginUpdate(expired) PROVE AppInv' /\ NetcodeInv'
  <2>1. UNCHANGED <<server, view, sessions, clients, challenged>>
    BY <1>3 DEF NetcodeServer!BeginUpdate, NetcodeServer!appVars
  <2>2. pending' \in [WebAddrs \union BareAddrs -> RemoteIds \union {NoId}]
    BY <1>3, SameNetcodeOperators DEF NetcodeServer!BeginUpdate, NetcodeInv
  <2>3. Presented(pending', challenged')
    BY <1>3, <2>1, SameNetcodeOperators DEF NetcodeServer!BeginUpdate, NetcodeInv, Presented
  <2> QED BY <2>1, <2>2, <2>3 DEF AppInv, NetcodeInv
<1>4. ASSUME NEW a \in WebAddrs \union BareAddrs, NetcodeServer!RecvFromClient(a) \/ NetcodeServer!RecvFromOther(a)
      PROVE  AppInv' /\ NetcodeInv'
  BY <1>4, RecvFromClientKeeps, RecvFromOtherKeeps
<1>5. ASSUME NEW i, NetcodeServer!UpdateClientTimesOut(i) \/ NetcodeServer!DisconnectOne(i)
      PROVE  AppInv' /\ NetcodeInv'
  <2>1. UNCHANGED <<view, sessions, pending, challenged>>
    BY <1>5 DEF NetcodeServer!UpdateClientTimesOut, NetcodeServer!DisconnectOne
  <2>2. NetcodeServer!ClientDisconnected(NetcodeServer!Of(i)) \/ UNCHANGED <<server, clients>>
    BY <1>5 DEF NetcodeServer!UpdateClientTimesOut, NetcodeServer!DisconnectOne
  <2> QED BY <2>1, <2>2, DisconnectedLeaves, NetcodeRests
<1>6. ASSUME NEW i, NetcodeServer!SendAborted(i) PROVE AppInv' /\ NetcodeInv'
  <2>1. PICK c \in clients : c.id = i /\ clients' = clients \ {c}
    BY <1>6 DEF NetcodeServer!SendAborted, NetcodeServer!Of
  <2> QED BY <1>6, <2>1, ClientLeaves, SameNetcodeOperators DEF NetcodeServer!SendAborted
<1> QED BY <1>1, <1>2, <1>3, <1>4, <1>5, <1>6, SameNetcodeOperators
        DEF NetcodeServer!Next, NetcodeServer!UpdateProceeds
(***************************************************************************)
(* The Steam server's transport.  Its connections are never reliable, so   *)
(* add_connection of a client that has one changes nothing.                *)
(***************************************************************************)
SteamEvents == [type : {"Connecting", "Connected", "Disconnected"}, id : RemoteIds,
                number : 1 .. MaxConnections]

SteamAgree(C, s) ==
    /\ C \in [RemoteIds -> Nat]
    /\ \A i \in RemoteIds : C[i] # 0 <=> i \in Present(s)
    /\ \A i \in RemoteIds : i \in Present(s) => s.connections[i].reliable = FALSE

\* What Steam knows of its numbers: one that is open is some client's.
SteamStates == {"none", "connecting", "accepted", "connected", "closed"}

SteamRecords == [id : RemoteIds \union {0}, state : SteamStates]

SteamOK(f) ==
    /\ f \in [1 .. MaxConnections -> SteamRecords]
    /\ \A n \in 1 .. MaxConnections : f[n].state \notin {"none", "closed"} => f[n].id \in RemoteIds

SteamInv == SteamAgree(connections, server) /\ queue \in Seq(SteamEvents) /\ SteamOK(steam)

LEMMA SteamSame ==
    ASSUME NEW C, NEW s, NEW t, SteamAgree(C, s), \A j \in RemoteIds : SameConnection(s, t, j)
    PROVE  SteamAgree(C, t)
BY DEF SteamAgree, SameConnection

LEMMA SteamAdds ==
    ASSUME NEW C, NEW s, NEW v, SteamAgree(C, s), Sound(s, v), NEW i \in RemoteIds,
           NEW n \in Nat \ {0}
    PROVE  /\ Sound(AddConnection(s, i, FALSE, n), v)
           /\ SteamAgree([C EXCEPT ![i] = n], AddConnection(s, i, FALSE, n))
<1> DEFINE t == AddConnection(s, i, FALSE, n)
           D == [C EXCEPT ![i] = n]
<1>1. i \in Ids /\ (i \in Present(s) => s.connections[i].reliable = FALSE) /\ FALSE \in BOOLEAN
  BY RemoteIdsAreIds DEF SteamAgree
<1>2. Added(s, t, v, i, FALSE, n)
  BY <1>1, AddSound
<1> HIDE DEF t
<1>3. Sound(t, v) /\ Present(t) = Present(s) \union {i} /\ t.connections[i].reliable = FALSE
      /\ \A j \in Ids \ {i} : SameConnection(s, t, j)
  BY <1>1, <1>2 DEF Added
<1>4. D \in [RemoteIds -> Nat] /\ D[i] = n /\ \A j \in RemoteIds \ {i} : D[j] = C[j]
  BY DEF SteamAgree
<1> HIDE DEF D
<1>5. SteamAgree(D, t)
  BY <1>3, <1>4, RemoteIdsAreIds DEF SteamAgree, SameConnection
<1> QED BY <1>3, <1>5 DEF t, D

LEMMA SteamRemoves ==
    ASSUME NEW C, NEW s, NEW v, SteamAgree(C, s), Sound(s, v), NEW i \in RemoteIds
    PROVE  /\ Sound(RemoveConnection(s, i), v)
           /\ SteamAgree([C EXCEPT ![i] = 0], RemoveConnection(s, i))
<1> DEFINE t == RemoveConnection(s, i)
           D == [C EXCEPT ![i] = 0]
<1>1. i \in Ids
  BY RemoteIdsAreIds
<1>2. /\ Sound(t, v) /\ Present(t) = Present(s) \ {i}
      /\ \A j \in Ids \ {i} : SameConnection(s, t, j)
  BY <1>1, RemoveSound
<1> HIDE DEF t
<1>3. D \in [RemoteIds -> Nat] /\ D[i] = 0 /\ \A j \in RemoteIds \ {i} : D[j] = C[j]
  BY DEF SteamAgree
<1> HIDE DEF D
<1>4. SteamAgree(D, t)
  BY <1>2, <1>3, RemoteIdsAreIds DEF SteamAgree, SameConnection
<1> QED BY <1>2, <1>4 DEF t, D

LEMMA SteamMoves ==
    ASSUME SteamOK(steam), NEW n \in 1 .. MaxConnections, steam[n].state \notin {"none", "closed"},
           NEW to \in SteamStates, steam' = [steam EXCEPT ![n].state = to]
    PROVE  SteamOK(steam')
<1>1. steam[n] \in SteamRecords /\ steam[n].id \in RemoteIds
  BY DEF SteamOK
<1>2. /\ [steam[n] EXCEPT !.state = to] \in SteamRecords
      /\ [steam[n] EXCEPT !.state = to].id = steam[n].id
  BY <1>1 DEF SteamRecords
<1>3. steam' = [steam EXCEPT ![n] = [steam[n] EXCEPT !.state = to]]
  BY DEF SteamOK
<1> HIDE DEF SteamRecords
<1> QED BY <1>1, <1>2, <1>3 DEF SteamOK

LEMMA SteamCloses == ASSUME SteamOK(steam), NEW N, steam' = SteamServer!Close(N) PROVE SteamOK(steam')
<1>1. ASSUME NEW n \in 1 .. MaxConnections
      PROVE  /\ steam[n] \in SteamRecords
             /\ [steam[n] EXCEPT !.state = "closed"] \in SteamRecords
             /\ [steam[n] EXCEPT !.state = "closed"].state = "closed"
             /\ steam[n].state \notin {"none", "closed"} => steam[n].id \in RemoteIds
  BY DEF SteamOK, SteamRecords, SteamStates
<1> HIDE DEF SteamRecords
<1>2. steam' = [n \in 1 .. MaxConnections |-> IF n \in N THEN [steam[n] EXCEPT !.state = "closed"]
                                              ELSE steam[n]]
  BY DEF SteamServer!Close, SteamServer!Numbers
<1> QED BY <1>1, <1>2 DEF SteamOK

\* Steam's own steps: an event is queued, of the client whose number it is.
LEMMA SteamQueues ==
    ASSUME AppInv, SteamInv, UNCHANGED <<server, view, sessions, connections>>, SteamOK(steam'),
           NEW type \in {"Connecting", "Connected", "Disconnected"}, NEW i \in RemoteIds,
           NEW n \in 1 .. MaxConnections, queue' = Append(queue, [type |-> type, id |-> i, number |-> n])
    PROVE  AppInv' /\ SteamInv'
<1>1. [type |-> type, id |-> i, number |-> n] \in SteamEvents
  BY DEF SteamEvents
<1> HIDE DEF SteamEvents
<1>2. queue' \in Seq(SteamEvents)
  BY <1>1, AppendProperties DEF SteamInv
<1> QED BY <1>2 DEF AppInv, SteamInv

LEMMA SteamOwnSteps ==
    ASSUME AppInv, SteamInv,
           \/ \E i \in RemoteIds : SteamServer!SteamConnecting(i)
           \/ \E n \in 1 .. MaxConnections : SteamServer!SteamConnected(n) \/ SteamServer!SteamDisconnected(n)
    PROVE  AppInv' /\ SteamInv'
<1>1. SteamOK(steam) /\ SteamServer!Numbers = 1 .. MaxConnections
  BY DEF SteamInv, SteamServer!Numbers
<1>2. ASSUME NEW i \in RemoteIds, SteamServer!SteamConnecting(i) PROVE AppInv' /\ SteamInv'
  <2>1. PICK n \in 1 .. MaxConnections :
            /\ steam' = [steam EXCEPT ![n] = [id |-> i, state |-> "connecting"]]
            /\ queue' = Append(queue, [type |-> "Connecting", id |-> i, number |-> n])
    BY <1>1, <1>2 DEF SteamServer!SteamConnecting
  <2>2. [id |-> i, state |-> "connecting"] \in SteamRecords /\ [id |-> i, state |-> "connecting"].id = i
    BY DEF SteamRecords, SteamStates
  <2> HIDE DEF SteamRecords
  <2>3. SteamOK(steam')
    BY <1>1, <2>1, <2>2 DEF SteamOK
  <2>4. UNCHANGED <<server, view, sessions, connections>>
    BY <1>2 DEF SteamServer!SteamConnecting, SteamServer!appVars
  <2> QED BY <2>1, <2>3, <2>4, SteamQueues
<1>3. ASSUME NEW n \in 1 .. MaxConnections, SteamServer!SteamConnected(n) PROVE AppInv' /\ SteamInv'
  <2>1. /\ steam[n].state = "accepted" /\ steam' = [steam EXCEPT ![n].state = "connected"]
        /\ queue' = Append(queue, [type |-> "Connected", id |-> steam[n].id, number |-> n])
        /\ UNCHANGED <<server, view, sessions, connections>>
    BY <1>3 DEF SteamServer!SteamConnected, SteamServer!appVars
  <2>2. steam[n].id \in RemoteIds /\ "connected" \in SteamStates
    BY <1>1, <2>1 DEF SteamOK, SteamStates
  <2>3. SteamOK(steam')
    BY <1>1, <2>1, <2>2, SteamMoves
  <2> QED BY <2>1, <2>2, <2>3, SteamQueues
<1>4. ASSUME NEW n \in 1 .. MaxConnections, SteamServer!SteamDisconnected(n) PROVE AppInv' /\ SteamInv'
  <2>1. /\ steam[n].state \in {"connecting", "accepted", "connected"}
        /\ steam' = [steam EXCEPT ![n].state = "closed"]
        /\ queue' = Append(queue, [type |-> "Disconnected", id |-> steam[n].id, number |-> n])
        /\ UNCHANGED <<server, view, sessions, connections>>
    BY <1>4 DEF SteamServer!SteamDisconnected, SteamServer!appVars
  <2>2. steam[n].id \in RemoteIds /\ "closed" \in SteamStates
    BY <1>1, <2>1 DEF SteamOK, SteamStates
  <2>3. SteamOK(steam')
    BY <1>1, <2>1, <2>2, SteamMoves
  <2> QED BY <2>1, <2>2, <2>3, SteamQueues
<1> QED BY <1>2, <1>3, <1>4

LEMMA HandleEventKeeps == ASSUME AppInv, SteamInv, SteamServer!HandleEvent PROVE AppInv' /\ SteamInv'
<1> DEFINE e == Head(queue)
<1>1. queue # << >> /\ queue' = Tail(queue) /\ queue \in Seq(SteamEvents) /\ UNCHANGED <<view, sessions>>
  BY DEF SteamServer!HandleEvent, SteamInv
<1>2. queue' \in Seq(SteamEvents) /\ e \in SteamEvents
  <2> HIDE DEF SteamEvents
  <2> QED BY <1>1, HeadTailProperties
<1>3. e.id \in RemoteIds /\ e.number \in 1 .. MaxConnections /\ e.number \in Nat \ {0}
  BY <1>2, MCTransportsAssumption DEF SteamEvents
<1> HIDE DEF e
<1>4. CASE SteamServer!HandleConnecting(e)
  <2>1. UNCHANGED <<server, connections>>
    BY <1>4 DEF SteamServer!HandleConnecting
  <2>2. SteamOK(steam')
    <3>1. CASE steam' = SteamServer!Close({e.number})
      BY <3>1, SteamCloses DEF SteamInv
    <3>2. CASE steam[e.number].state = "connecting" /\ steam' = [steam EXCEPT ![e.number].state = "accepted"]
      <4>1. "accepted" \in SteamStates /\ steam[e.number].state \notin {"none", "closed"}
        BY <3>2 DEF SteamStates
      <4> QED BY <1>3, <3>2, <4>1, SteamMoves DEF SteamInv
    <3> QED BY <1>4, <3>1, <3>2 DEF SteamServer!HandleConnecting
  <2> QED BY <1>1, <1>2, <2>1, <2>2 DEF AppInv, SteamInv
<1>5. CASE SteamServer!HandleConnected(e)
  <2>1. /\ server' = AddConnection(server, e.id, FALSE, e.number)
        /\ connections' = [connections EXCEPT ![e.id] = e.number]
        /\ \E N : steam' = SteamServer!Close(N)
    BY <1>5, SameSteamOperators DEF SteamServer!HandleConnected
  <2>2. Sound(server', view) /\ SteamAgree(connections', server')
    BY <1>3, <2>1, SteamAdds DEF AppInv, SteamInv
  <2>3. SteamOK(steam')
    BY <2>1, SteamCloses DEF SteamInv
  <2> QED BY <1>1, <1>2, <2>2, <2>3 DEF AppInv, SteamInv
<1>6. CASE SteamServer!HandleDisconnected(e)
  <2>1. /\ server' = RemoveConnection(server, e.id)
        /\ connections' = [connections EXCEPT ![e.id] = 0]
        /\ \E N : steam' = SteamServer!Close(N)
    BY <1>6, SameSteamOperators DEF SteamServer!HandleDisconnected
  <2>2. Sound(server', view) /\ SteamAgree(connections', server')
    BY <1>3, <2>1, SteamRemoves DEF AppInv, SteamInv
  <2>3. SteamOK(steam')
    BY <2>1, SteamCloses DEF SteamInv
  <2> QED BY <1>1, <1>2, <2>2, <2>3 DEF AppInv, SteamInv
<1> QED BY <1>4, <1>5, <1>6 DEF SteamServer!HandleEvent, e

LEMMA SteamServerStep == ASSUME AppInv, SteamInv, SteamServer!Next PROVE AppInv' /\ SteamInv'
<1>1. CASE SteamServer!AppStep
  <2>1. Application /\ UNCHANGED <<connections, queue, steam>>
    BY <1>1, SameApplication DEF SteamServer!AppStep, SteamServer!steamVars
  <2>2. /\ Sound(server', view') /\ sessions' \in Nat
        /\ \A j \in RemoteIds : SameConnection(server, server', j)
    BY <2>1, ApplicationSound DEF AppInv
  <2>3. SteamAgree(connections, server')
    BY <2>2, SteamSame DEF SteamInv
  <2> QED BY <2>1, <2>2, <2>3 DEF AppInv, SteamInv
<1>2. CASE SteamServer!BeginUpdate
  BY <1>2 DEF SteamServer!BeginUpdate, SteamServer!appVars, AppInv, SteamInv
<1>3. CASE SteamServer!HandleEvent
  BY <1>3, HandleEventKeeps
<1>4. ASSUME NEW broken, SteamServer!ReceiveMessages(broken) PROVE AppInv' /\ SteamInv'
  <2>1. server' = Break(server, broken) /\ UNCHANGED <<view, sessions, connections, queue, steam>>
    BY <1>4, SameSteamOperators DEF SteamServer!ReceiveMessages
  <2>2. Sound(server', view) /\ \A j \in RemoteIds : SameConnection(server, server', j)
    BY <2>1, BreakSound, RemoteIdsAreIds DEF AppInv
  <2>3. SteamAgree(connections, server')
    BY <2>2, SteamSame DEF SteamInv
  <2> QED BY <2>1, <2>2, <2>3 DEF AppInv, SteamInv
<1>5. ASSUME NEW i \in RemoteIds, SteamServer!DisconnectClient(i) PROVE AppInv' /\ SteamInv'
  <2>1. /\ server' = RemoveConnection(server, i) /\ connections' = [connections EXCEPT ![i] = 0]
        /\ (\E N : steam' = SteamServer!Close(N)) /\ UNCHANGED <<view, sessions, queue>>
    BY <1>5, SameSteamOperators DEF SteamServer!DisconnectClient
  <2>2. Sound(server', view) /\ SteamAgree(connections', server')
    BY <2>1, SteamRemoves DEF AppInv, SteamInv
  <2>3. SteamOK(steam')
    BY <2>1, SteamCloses DEF SteamInv
  <2> QED BY <2>1, <2>2, <2>3 DEF AppInv, SteamInv
<1> QED BY <1>1, <1>2, <1>3, <1>4, <1>5, SteamOwnSteps DEF SteamServer!Next, SteamServer!Numbers

(***************************************************************************)
(* The socket of a client.  A WebTransport client that is disconnected is  *)
(* closed too, which its setup looks at before it sends a writer.          *)
(***************************************************************************)
SocketOK(s) ==
    /\ s.kind \in {"websocket", "webtransport", "datagram"} /\ "kind" \in DOMAIN s
    /\ s.kind = "webtransport" =>
         /\ {"closed", "is_disconnected", "writer"} \subseteq DOMAIN s
         /\ s.is_disconnected => s.closed /\ s.writer \notin {"sent", "held"}

LEMMA WebTransportKeeps ==
    ASSUME NEW s, SocketOK(s), s.kind = "webtransport"
    PROVE  /\ SocketOK(NetcodeClient!WT!Disconnect(s)) /\ SocketOK(NetcodeClient!WT!Drop(s))
           /\ SocketOK(NetcodeClient!WT!Preupdate(s))
           /\ \A p, e : SocketOK(NetcodeClient!WT!Send(s, p, e).socket)
           /\ \A t \in NetcodeClient!WT!TaskSteps(s) : SocketOK(t)
           /\ \A t \in NetcodeClient!WT!Opens(s) : SocketOK(t)
           /\ \A t \in NetcodeClient!WT!BrowserSteps(s) : SocketOK(t)
<1>1. SocketOK(NetcodeClient!WT!Disconnect(s)) /\ SocketOK(NetcodeClient!WT!Drop(s))
  BY DEF SocketOK, NetcodeClient!WT!Disconnect, NetcodeClient!WT!Drop
<1>2. SocketOK(NetcodeClient!WT!Preupdate(s))
  BY DEF SocketOK, NetcodeClient!WT!Disconnect, NetcodeClient!WT!Preupdate
<1>3. ASSUME NEW p, NEW e PROVE SocketOK(NetcodeClient!WT!Send(s, p, e).socket)
  BY <1>1 DEF SocketOK, NetcodeClient!WT!Send
<1>4. \A t \in NetcodeClient!WT!TaskSteps(s) : SocketOK(t)
  BY DEF SocketOK, NetcodeClient!WT!TaskSteps, NetcodeClient!WT!Starts, NetcodeClient!WT!Closes
<1>5. \A t \in NetcodeClient!WT!Opens(s) : SocketOK(t)
  BY DEF SocketOK, NetcodeClient!WT!Opens
<1>6. \A t \in NetcodeClient!WT!BrowserSteps(s) : SocketOK(t)
  BY DEF SocketOK, NetcodeClient!WT!BrowserSteps, NetcodeClient!WT!Reads, NetcodeClient!WT!OnClose
<1> QED BY <1>1, <1>2, <1>3, <1>4, <1>5, <1>6

LEMMA WebSocketKeeps ==
    ASSUME NEW s, SocketOK(s), s.kind = "websocket"
    PROVE  /\ SocketOK(NetcodeClient!WS!Disconnect(s)) /\ SocketOK(NetcodeClient!WS!Drop(s))
           /\ SocketOK(NetcodeClient!WS!Preupdate(s))
           /\ \A p, e : SocketOK(NetcodeClient!WS!Send(s, p, e).socket)
           /\ \A t \in NetcodeClient!WS!TaskSteps(s) : SocketOK(t)
           /\ \A t \in NetcodeClient!WS!Opens(s) : SocketOK(t)
           /\ \A t \in NetcodeClient!WS!BrowserSteps(s) : SocketOK(t)
<1>1. SocketOK(NetcodeClient!WS!Disconnect(s)) /\ SocketOK(NetcodeClient!WS!Drop(s))
  BY DEF SocketOK, NetcodeClient!WS!Disconnect, NetcodeClient!WS!Drop
<1>2. SocketOK(NetcodeClient!WS!Preupdate(s))
  BY <1>1 DEF NetcodeClient!WS!Preupdate
<1>3. ASSUME NEW p, NEW e PROVE SocketOK(NetcodeClient!WS!Send(s, p, e).socket)
  BY <1>1 DEF SocketOK, NetcodeClient!WS!Send
<1>4. \A t \in NetcodeClient!WS!TaskSteps(s) : SocketOK(t)
  <2>1. \A t \in NetcodeClient!WS!Starts(s) \union NetcodeClient!WS!Listens(s) : SocketOK(t)
    BY DEF SocketOK, NetcodeClient!WS!Starts, NetcodeClient!WS!Listens
  <2>2. \A t \in NetcodeClient!WS!Forwards(s) : SocketOK(t)
    BY DEF SocketOK, NetcodeClient!WS!Forwards
  <2> QED BY <2>1, <2>2 DEF NetcodeClient!WS!TaskSteps
<1>5. \A t \in NetcodeClient!WS!Opens(s) : SocketOK(t)
  BY DEF SocketOK, NetcodeClient!WS!Opens
<1>6. \A t \in NetcodeClient!WS!BrowserSteps(s) : SocketOK(t)
  BY DEF SocketOK, NetcodeClient!WS!BrowserSteps, NetcodeClient!WS!OnMessage, NetcodeClient!WS!OnClose
<1> QED BY <1>1, <1>2, <1>3, <1>4, <1>5, <1>6

LEMMA SocketKeeps ==
    ASSUME NEW s, SocketOK(s)
    PROVE  /\ SocketOK(NetcodeClient!Close(s)) /\ SocketOK(NetcodeClient!Drop(s))
           /\ SocketOK(NetcodeClient!Preupdate(s)) /\ SocketOK([s EXCEPT !.incoming = 0])
           /\ \A p : \A r \in NetcodeClient!Sends(s, p) : SocketOK(r.socket)
           /\ \A t \in NetcodeClient!Tasks(s) : SocketOK(t)
           /\ \A t \in NetcodeClient!Opened(s) : SocketOK(t)
           /\ \A t \in NetcodeClient!Events(s) : SocketOK(t)
<1>1. SocketOK([s EXCEPT !.incoming = 0])
  BY DEF SocketOK
<1>2. CASE s.kind = "websocket"
  BY <1>1, <1>2, WebSocketKeeps
  DEF NetcodeClient!Close, NetcodeClient!Drop, NetcodeClient!Preupdate, NetcodeClient!Sends,
      NetcodeClient!Tasks, NetcodeClient!Opened, NetcodeClient!Events
<1>3. CASE s.kind = "webtransport"
  BY <1>1, <1>3, WebTransportKeeps
  DEF NetcodeClient!Close, NetcodeClient!Drop, NetcodeClient!Preupdate, NetcodeClient!Sends,
      NetcodeClient!Tasks, NetcodeClient!Opened, NetcodeClient!Events
<1>4. CASE s.kind = "datagram"
  <2>1. SocketOK(NetcodeClient!Close(s)) /\ SocketOK(NetcodeClient!Preupdate(s))
    BY <1>4 DEF NetcodeClient!Close, NetcodeClient!Preupdate
  <2>2. SocketOK(NetcodeClient!Drop(s))
    BY <1>4 DEF NetcodeClient!Drop, SocketOK
  <2>3. ASSUME NEW p, NEW r \in NetcodeClient!Sends(s, p) PROVE SocketOK(r.socket)
    BY <1>4 DEF NetcodeClient!Sends
  <2>4. /\ \A t \in NetcodeClient!Tasks(s) : SocketOK(t)
        /\ \A t \in NetcodeClient!Opened(s) : SocketOK(t)
    BY <1>4 DEF NetcodeClient!Tasks, NetcodeClient!Opened
  <2>5. \A t \in NetcodeClient!Events(s) : SocketOK(t)
    BY <1>4 DEF NetcodeClient!Events, SocketOK
  <2> QED BY <1>1, <2>1, <2>2, <2>3, <2>4, <2>5
<1> QED BY <1>2, <1>3, <1>4 DEF SocketOK

LEMMA NetcodeClientStep == ASSUME SocketOK(socket), NetcodeClient!Next PROVE SocketOK(socket')
<1>1. CASE NetcodeClient!UpdateEnded
  BY <1>1, SocketKeeps DEF NetcodeClient!UpdateEnded
<1>2. CASE NetcodeClient!UpdateDisconnects
  <2>1. CASE UNCHANGED socket
    BY <2>1
  <2>2. ASSUME NEW r \in NetcodeClient!Sends(socket, "disconnect"),
               socket' = IF r.ok THEN NetcodeClient!Close(r.socket) ELSE r.socket
        PROVE  SocketOK(socket')
    <3>1. SocketOK(r.socket)
      BY SocketKeeps
    <3>2. SocketOK(NetcodeClient!Close(r.socket))
      BY <3>1, SocketKeeps
    <3> QED BY <2>2, <3>1, <3>2
  <2> QED BY <1>2, <2>1, <2>2 DEF NetcodeClient!UpdateDisconnects
<1>3. CASE NetcodeClient!UpdateReceives
  <2> DEFINE s == [NetcodeClient!Preupdate(socket) EXCEPT !.incoming = 0]
  <2>1. SocketOK(s)
    <3>1. SocketOK(NetcodeClient!Preupdate(socket))
      BY SocketKeeps
    <3> QED BY <3>1, SocketKeeps
  <2>2. socket' = s \/ \E p : \E r \in NetcodeClient!Sends(s, p) : socket' = r.socket
    BY <1>3 DEF NetcodeClient!UpdateReceives
  <2> HIDE DEF s
  <2> QED BY <2>1, <2>2, SocketKeeps
<1>4. CASE NetcodeClient!SendPackets \/ NetcodeClient!Disconnect
  BY <1>4, SocketKeeps DEF NetcodeClient!SendPackets, NetcodeClient!Disconnect
<1>5. CASE NetcodeClient!RenetDisconnects
  BY <1>5 DEF NetcodeClient!RenetDisconnects
<1>6. CASE NetcodeClient!DropTransport \/ NetcodeClient!RunTask \/ NetcodeClient!Open \/ NetcodeClient!Event
  BY <1>6, SocketKeeps
  DEF NetcodeClient!DropTransport, NetcodeClient!RunTask, NetcodeClient!Open, NetcodeClient!Event
<1> QED BY <1>1, <1>2, <1>3, <1>4, <1>5, <1>6 DEF NetcodeClient!Next, NetcodeClient!Update

(***************************************************************************)
(* The four transports together.                                           *)
(***************************************************************************)
\* Over netcode the RenetServer's side needs Attributable, over Steam it does not.
Identified == driver = "netcode server" => NetcodeServer!Attributable

IInv ==
    /\ SocketOK(socket)
    /\ Identified => AppInv /\ (driver = "netcode server" => NetcodeInv)
    /\ driver = "steam server" => SteamInv

LEMMA InitAppInv == NewServer \in ServerRecords /\ Sound(NewServer, {}) /\ Present(NewServer) = {}
<1>1. << >> \in Seq(Event) /\ Len(<< >>) = 0
  OBVIOUS
<1> HIDE DEF Event, Connection
<1>2. NewServer \in ServerRecords /\ NewServer.events = << >> /\ Present(NewServer) = {}
  BY <1>1 DEF NewServer, ServerRecords, Present
<1>3. ASSUME NEW i PROVE Mine(<< >>, i) = {0}
  BY <1>1 DEF Mine
<1>4. ASSUME NEW i \in Ids PROVE Alternate(<< >>, {}, i) /\ EndWith(<< >>, {}, i, FALSE)
  BY <1>3 DEF Alternate, EndWith, Follows, Says
<1>5. \A i \in Ids : EndWith(<< >>, {}, i, i \in Present(NewServer))
  BY <1>2, <1>4 DEF EndWith
<1>6. Truth(NewServer, {})
  BY <1>2, <1>4, <1>5 DEF Truth
<1> QED BY <1>2, <1>6 DEF Sound

LEMMA InitIInv == MCInit => IInv
<1> SUFFICES ASSUME MCInit PROVE IInv
  OBVIOUS
<1>1. server = NewServer /\ view = {} /\ sessions = 0
  BY DEF MCInit, NetcodeServer!Init, NetcodeServer!AppInit, NetcodeServer!NewServer, NewServer,
         NetcodeServer!Ids, Ids
<1>2. AppInv /\ Present(server) = {}
  BY <1>1, InitAppInv DEF AppInv
<1>3. NetcodeInv
  <2>1. /\ clients = {} /\ pending = [a \in WebAddrs \union BareAddrs |-> NoId]
        /\ challenged = [a \in WebAddrs \union BareAddrs |-> {}]
    BY SameNetcodeOperators DEF MCInit, NetcodeServer!Init
  <2> QED BY <1>2, <2>1 DEF NetcodeInv, Agree, Presented
<1>4. SteamInv
  <2>1. /\ connections = [i \in RemoteIds |-> 0] /\ queue = << >>
        /\ steam = [n \in 1 .. MaxConnections |-> [id |-> 0, state |-> "none"]]
    BY DEF MCInit, SteamServer!Init, SteamServer!Numbers, SteamServer!Fresh
  <2>2. SteamAgree(connections, server) /\ queue \in Seq(SteamEvents)
    BY <1>2, <2>1 DEF SteamAgree
  <2>3. SteamOK(steam)
    BY <2>1 DEF SteamOK, SteamRecords, SteamStates
  <2> QED BY <2>2, <2>3 DEF SteamInv
<1>5. SocketOK(socket)
  <2>1. socket \in {NetcodeClient!WS!New, NetcodeClient!WT!New, NetcodeClient!Datagram}
    BY DEF MCInit, NetcodeClient!Init
  <2>2. SocketOK(NetcodeClient!WS!New)
    BY DEF NetcodeClient!WS!New, SocketOK
  <2>3. SocketOK(NetcodeClient!WT!New)
    BY DEF NetcodeClient!WT!New, SocketOK
  <2>4. SocketOK(NetcodeClient!Datagram)
    BY DEF NetcodeClient!Datagram, SocketOK
  <2> QED BY <2>1, <2>2, <2>3, <2>4
<1> QED BY <1>2, <1>3, <1>4, <1>5 DEF IInv

LEMMA StepIInv == IInv /\ [MCNext]_mcVars => IInv'
<1> SUFFICES ASSUME IInv, [MCNext]_mcVars PROVE IInv'
  OBVIOUS
<1>1. CASE OfNetcodeServer(NetcodeServer!Next)
  <2>1. driver = "netcode server" /\ NetcodeServer!Next /\ UNCHANGED <<driver, socket>>
    BY <1>1 DEF OfNetcodeServer, clientVars, netcodeClient
  <2>2. NetcodeServer!Attributable => AppInv' /\ NetcodeInv'
    BY <2>1, NetcodeServerStep DEF IInv, Identified
  <2> QED BY <2>1, <2>2 DEF IInv, Identified
<1>2. CASE OfSteamServer(SteamServer!Next)
  <2>1. driver = "steam server" /\ SteamServer!Next /\ UNCHANGED <<driver, socket>>
    BY <1>2 DEF OfSteamServer, clientVars, netcodeClient
  <2>2. AppInv' /\ SteamInv'
    BY <2>1, SteamServerStep DEF IInv, Identified
  <2> QED BY <2>1, <2>2 DEF IInv
<1>3. CASE OfNetcodeClient(NetcodeClient!Next)
  <2>1. driver = "netcode client" /\ NetcodeClient!Next /\ UNCHANGED <<driver, server, view, sessions>>
    BY <1>3 DEF OfNetcodeClient, serverVars, appVars
  <2>2. SocketOK(socket')
    BY <2>1, NetcodeClientStep DEF IInv
  <2> QED BY <2>1, <2>2 DEF IInv, Identified, AppInv
<1>4. CASE OfSteamClient(SteamClient!Next)
  <2>1. driver = "steam client" /\ UNCHANGED <<driver, server, view, sessions, socket>>
    BY <1>4 DEF OfSteamClient, serverVars, appVars, netcodeClient
  <2> QED BY <2>1 DEF IInv, Identified, AppInv
<1>5. CASE UNCHANGED mcVars
  <2>1. UNCHANGED <<driver, server, view, sessions, clients, pending, challenged,
                  connections, queue, steam, socket>>
    BY <1>5 DEF mcVars, serverVars, appVars, netcodeServer, steamServer, clientVars, netcodeClient
  <2> QED BY <2>1 DEF IInv, Identified, AppInv, NetcodeInv, SteamInv
<1> QED BY <1>1, <1>2, <1>3, <1>4, <1>5 DEF MCNext

LEMMA AlwaysIInv == MCSpec => []IInv
BY InitIInv, StepIInv, PTL DEF MCSpec

(***************************************************************************)
(* NetcodeServerTransport: netcode's clients and the connections of the    *)
(* RenetServer are the same, for the same sessions, at every step of       *)
(* update, send_packets and disconnect_all, for any ids, addresses and     *)
(* kinds of sockets, provided that an address at which netcode checks no   *)
(* key presents one client id only.                                        *)
(***************************************************************************)
THEOREM TablesAlwaysAgree == ASSUME NetcodeServer!Attributable PROVE MCSpec => []TablesAgree
<1>1. IInv => TablesAgree
  <2> SUFFICES ASSUME IInv, driver = "netcode server" PROVE NetcodeServer!TablesAgree
    BY DEF TablesAgree
  <2>1. Agree(clients, server)
    BY DEF IInv, NetcodeInv, Identified
  <2>2. NetcodeServer!IdsOf(clients) = NetcodeServer!Present(server) \ LocalIds
    <3>1. NetcodeServer!Present(server) = Present(server) /\ Present(server) \subseteq RemoteIds \union LocalIds
      BY DEF NetcodeServer!Present, NetcodeServer!Ids, Present, Ids
    <3>2. \A c \in clients : c.id \in RemoteIds
      BY <2>1 DEF Agree, ClientRecords
    <3>3. ASSUME NEW i \in NetcodeServer!IdsOf(clients) PROVE i \in Present(server) \ LocalIds
      <4>1. i \in RemoteIds /\ \E c \in clients : c.id = i
        BY <3>2 DEF NetcodeServer!IdsOf
      <4> QED BY <2>1, <4>1, RemoteIdsAreIds DEF Agree
    <3>4. ASSUME NEW i \in Present(server) \ LocalIds PROVE i \in NetcodeServer!IdsOf(clients)
      <4>1. i \in RemoteIds
        BY <3>1
      <4>2. \E c \in clients : c.id = i
        BY <2>1, <4>1 DEF Agree
      <4> QED BY <4>2 DEF NetcodeServer!IdsOf
    <3> QED BY <3>1, <3>3, <3>4
  <2> QED BY <2>1, <2>2, SameNetcodeOperators DEF Agree, NetcodeServer!TablesAgree
<1> QED BY <1>1, AlwaysIInv, PTL

(***************************************************************************)
(* SteamServerTransport: it has a connection exactly for the clients that  *)
(* are in the RenetServer, in whatever order Steam reports old and new     *)
(* connections.                                                            *)
(***************************************************************************)
THEOREM SteamTablesAlwaysAgree == MCSpec => []SteamTablesAgree
<1>1. IInv => SteamTablesAgree
  <2> SUFFICES ASSUME IInv, driver = "steam server" PROVE SteamServer!SteamTablesAgree
    BY DEF SteamTablesAgree
  <2>1. SteamAgree(connections, server)
    BY DEF IInv, SteamInv
  <2>2. SteamServer!Present(server) = Present(server) /\ Present(server) \subseteq RemoteIds \union LocalIds
    BY DEF SteamServer!Present, SteamServer!Ids, Present, Ids
  <2> QED BY <2>1, <2>2, RemoteIdsAreIds DEF SteamAgree, SteamServer!SteamTablesAgree
<1> QED BY <1>1, AlwaysIInv, PTL

(***************************************************************************)
(* RenetServer: the events of a client are in turn a connection and a      *)
(* disconnection, and the application that takes them all knows exactly    *)
(* the clients in the server, under both transports, with the same         *)
(* condition on the addresses of netcode's clients.                        *)
(***************************************************************************)
THEOREM EventsAlwaysTellTruth == ASSUME NetcodeServer!Attributable PROVE MCSpec => []EventsTellTruth
<1>1. IInv => EventsTellTruth
  BY TruthIsTold DEF IInv, AppInv, Sound, Identified
<1> QED BY <1>1, AlwaysIInv, PTL

(***************************************************************************)
(* WebTransportClient: one that has been closed has no writer that is open *)
(* or on its way, wherever its setup was.                                  *)
(***************************************************************************)
THEOREM WriterAlwaysLetGo == MCSpec => []WriterLetGo
<1>1. IInv => WriterLetGo
  BY DEF IInv, SocketOK, WriterLetGo, NetcodeClient!WriterLetGo
<1> QED BY <1>1, AlwaysIInv, PTL
=============================================================================
