-------------------------- MODULE WebServers_proofs --------------------------
(***************************************************************************)
(* The tables of WebSocketServer and WebTransportServer stay consistent,   *)
(* for any number of connections and clients and whatever the order in     *)
(* which the tasks, the threads and the transport's calls run.             *)
(*                                                                         *)
(* The two servers treat their tables alike, so the argument is about      *)
(* values s of the variable server.  A server is Good if its three         *)
(* properties hold and, which makes them inductive, no session is in both  *)
(* tables and every session has an index that was given out.  A request    *)
(* that waits in the channel has an index of its own without a session:    *)
(* that is why tracking it adds one session and usurps no other's slot.    *)
(* From a postupdate to the end of the next preupdate the server is clean  *)
(* as well: reports of lost sessions may come in, from disconnect_all and  *)
(* from send, but none of them has been tracked since.                     *)
(***************************************************************************)
EXTENDS MCWebServers, TLAPS, FiniteSetTheorems, SequenceTheorems, WellFoundedInduction

Results == {"none", "success", "failure", "closed"}

ServerRecords ==
    [pending : SUBSET Idx, clients : SUBSET Idx, client_id : [Idx -> Ids \union {NoId}],
     buffered : SUBSET Idx, id_to_idx : [Ids -> Idx \union {NoIdx}], lost : SUBSET Idx,
     current : Int, result : [Idx -> Results], iterator : Nat, recv_index : Nat,
     closed : BOOLEAN]

SessionsOf(s) == s.pending \union s.clients

OwnSlots(s) ==
    \A i \in SessionsOf(s) \ s.lost : s.client_id[i] # NoId /\ s.id_to_idx[s.client_id[i]] = i

SlotsLead(s) ==
    \A d \in Ids : s.id_to_idx[d] # NoIdx =>
        s.id_to_idx[d] \in SessionsOf(s) /\ s.client_id[s.id_to_idx[d]] = d

Good(s) ==
    /\ s \in ServerRecords
    /\ s.pending \intersect s.clients = {}
    /\ \A i \in SessionsOf(s) : i < s.iterator
    /\ s.current = Cardinality(SessionsOf(s))
    /\ OwnSlots(s) /\ SlotsLead(s)
    /\ s.pending \ s.lost \subseteq s.buffered

RequestRecords == [idx : Idx, id : Ids]

RequestsFresh ==
    /\ requests \in Seq(RequestRecords)
    /\ \A k \in 1 .. Len(requests) :
         requests[k].idx < server.iterator /\ requests[k].idx \notin SessionsOf(server)
    /\ \A j, k \in 1 .. Len(requests) : requests[j].idx = requests[k].idx => j = k

Indexed ==
    /\ entering \in Nat /\ server.iterator + entering <= MaxIdx
    /\ connections \in Seq([idx : Idx, ok : BOOLEAN])

\* Every session owns its slot and every pending one has its answer, lost or not.
Clean(s) ==
    /\ \A i \in SessionsOf(s) : s.client_id[i] # NoId /\ s.id_to_idx[s.client_id[i]] = i
    /\ s.pending \subseteq s.buffered

BeforeRecv == {"idle", "pre"}

CleanBeforeRecv == pc \in BeforeRecv => Clean(server)

IInv == Good(server) /\ RequestsFresh /\ Indexed /\ CleanBeforeRecv

LEMMA InvImplies == IInv => CountIsExact /\ SlotsAreOwned /\ AnswersWait
BY DEF IInv, Good, CleanBeforeRecv, Clean, BeforeRecv, CountIsExact, SlotsAreOwned, AnswersWait,
       MayBeClient, Sessions, SessionsOf, OwnSlots, SlotsLead

(***************************************************************************)
(* What the operations do to a good server.                                *)
(***************************************************************************)
LEMMA SessionsFinite ==
    ASSUME NEW S \in SUBSET Idx
    PROVE  IsFiniteSet(S) /\ Cardinality(S) \in Nat
<1>1. IsFiniteSet(Idx)
  BY WebServerAssumption, FS_Interval DEF Idx
<1> QED BY <1>1, FS_Subset, FS_CardinalityType

\* Reports of lost sessions and buffered answers only accumulate.
Grows(s, t) ==
    /\ t \in ServerRecords
    /\ t.pending = s.pending /\ t.clients = s.clients /\ t.client_id = s.client_id
    /\ t.id_to_idx = s.id_to_idx /\ t.current = s.current /\ s.iterator <= t.iterator
    /\ s.lost \subseteq t.lost /\ s.buffered \subseteq t.buffered

LEMMA GoodGrows == ASSUME NEW s, Good(s), NEW t, Grows(s, t) PROVE Good(t)
<1> USE DEF Grows
<1>1. SessionsOf(t) = SessionsOf(s)
  BY DEF SessionsOf
<1>2. OwnSlots(t) /\ SlotsLead(t)
  BY <1>1 DEF Good, OwnSlots, SlotsLead
<1>3. \A i \in SessionsOf(s) : i \in Int /\ i < t.iterator
  <2>1. s.iterator \in Nat /\ t.iterator \in Nat /\ SessionsOf(s) \subseteq Int
    BY DEF Good, ServerRecords, SessionsOf, Idx
  <2> QED BY <2>1 DEF Good
<1> QED BY <1>1, <1>2, <1>3 DEF Good

LEMMA CleanGrows == ASSUME NEW s, Clean(s), NEW t, Grows(s, t) PROVE Clean(t)
BY DEF Clean, Grows, SessionsOf

LEMMA CleanStays ==
    ASSUME IInv, Grows(server, server'), pc' \in BeforeRecv => pc \in BeforeRecv
    PROVE  CleanBeforeRecv'
BY CleanGrows DEF IInv, CleanBeforeRecv

\* A pending session whose connection has arrived becomes a client.
LEMMA GoodPromotes ==
    ASSUME NEW s, Good(s), NEW i \in s.pending
    PROVE  LET t == [s EXCEPT !.pending = @ \ {i}, !.buffered = @ \ {i}, !.clients = @ \union {i}]
           IN  Good(t) /\ (Clean(s) => Clean(t))
<1> DEFINE t == [s EXCEPT !.pending = @ \ {i}, !.buffered = @ \ {i}, !.clients = @ \union {i}]
<1>1. /\ t \in ServerRecords
      /\ t.pending = s.pending \ {i} /\ t.buffered = s.buffered \ {i} /\ t.clients = s.clients \union {i}
      /\ t.client_id = s.client_id /\ t.id_to_idx = s.id_to_idx /\ t.current = s.current
      /\ t.iterator = s.iterator /\ t.lost = s.lost
  BY DEF Good, ServerRecords
<1> HIDE DEF t
<1>2. SessionsOf(t) = SessionsOf(s)
  BY <1>1 DEF SessionsOf
<1>3. OwnSlots(t) /\ SlotsLead(t)
  BY <1>1, <1>2 DEF Good, OwnSlots, SlotsLead
<1>4. Good(t)
  BY <1>1, <1>2, <1>3 DEF Good
<1>5. Clean(s) => Clean(t)
  BY <1>1, <1>2 DEF Clean
<1> QED BY <1>4, <1>5 DEF t

\* A request is tracked, and denied or in error: its session is already lost.
LEMMA GoodTracks ==
    ASSUME NEW s, Good(s), NEW i \in Idx, i \notin SessionsOf(s), i < s.iterator,
           NEW B \in SUBSET {i}
    PROVE  Good([s EXCEPT !.pending = @ \union {i}, !.current = @ + 1,
                          !.buffered = @ \union B, !.lost = @ \union {i}])
<1> DEFINE t == [s EXCEPT !.pending = @ \union {i}, !.current = @ + 1,
                          !.buffered = @ \union B, !.lost = @ \union {i}]
<1>1. /\ t \in ServerRecords
      /\ t.pending = s.pending \union {i} /\ t.buffered = s.buffered \union B
      /\ t.clients = s.clients /\ t.lost = s.lost \union {i}
      /\ t.client_id = s.client_id /\ t.id_to_idx = s.id_to_idx /\ t.current = s.current + 1
      /\ t.iterator = s.iterator
  <2>1. s \in ServerRecords /\ s.current + 1 \in Int /\ B \subseteq Idx
    BY DEF Good, ServerRecords
  <2> QED BY <2>1 DEF ServerRecords
<1> HIDE DEF t
<1>2. SessionsOf(t) = SessionsOf(s) \union {i}
  BY <1>1 DEF SessionsOf
<1>3. SessionsOf(s) \in SUBSET Idx
  BY DEF Good, ServerRecords, SessionsOf
<1>4. t.current = Cardinality(SessionsOf(t))
  BY <1>1, <1>2, <1>3, SessionsFinite, FS_AddElement DEF Good
<1>5. OwnSlots(t) /\ SlotsLead(t)
  BY <1>1, <1>2 DEF Good, OwnSlots, SlotsLead
<1>6. t.pending \intersect t.clients = {}
  BY <1>1 DEF Good, SessionsOf
<1>7. Good(t)
  BY <1>1, <1>2, <1>4, <1>5, <1>6 DEF Good
<1> QED BY <1>7 DEF t

\* A request is tracked and accepted: its session takes the slot of the id, and the session
\* that had it is lost.
LEMMA GoodAccepts ==
    ASSUME NEW s, Good(s), NEW i \in Idx, i \notin SessionsOf(s), i < s.iterator,
           NEW d \in Ids, NEW r \in Results
    PROVE  Good([s EXCEPT !.pending = @ \union {i}, !.current = @ + 1,
                          !.result[i] = r, !.client_id[i] = d, !.id_to_idx[d] = i,
                          !.lost = @ \union ({s.id_to_idx[d]} \ {NoIdx, i}),
                          !.buffered = @ \union {i}])
<1> DEFINE usurped == {s.id_to_idx[d]} \ {NoIdx, i}
           t == [s EXCEPT !.pending = @ \union {i}, !.current = @ + 1,
                          !.result[i] = r, !.client_id[i] = d, !.id_to_idx[d] = i,
                          !.lost = @ \union ({s.id_to_idx[d]} \ {NoIdx, i}),
                          !.buffered = @ \union {i}]
<1>1. /\ t \in ServerRecords
      /\ t.pending = s.pending \union {i} /\ t.buffered = s.buffered \union {i}
      /\ t.clients = s.clients /\ t.lost = s.lost \union usurped
      /\ t.client_id = [s.client_id EXCEPT ![i] = d]
      /\ t.id_to_idx = [s.id_to_idx EXCEPT ![d] = i] /\ t.current = s.current + 1
      /\ t.iterator = s.iterator
  <2>1. s \in ServerRecords /\ s.current + 1 \in Int /\ usurped \subseteq Idx
    BY DEF Good, ServerRecords
  <2>2. /\ [s.client_id EXCEPT ![i] = d] \in [Idx -> Ids \union {NoId}]
        /\ [s.id_to_idx EXCEPT ![d] = i] \in [Ids -> Idx \union {NoIdx}]
        /\ [s.result EXCEPT ![i] = r] \in [Idx -> Results]
    BY <2>1 DEF ServerRecords
  <2> HIDE DEF Idx, Results, NoIdx
  <2> QED BY <2>1, <2>2 DEF ServerRecords
<1> HIDE DEF t
<1>2. SessionsOf(t) = SessionsOf(s) \union {i}
  BY <1>1 DEF SessionsOf
<1>3. SessionsOf(s) \in SUBSET Idx
  BY DEF Good, ServerRecords, SessionsOf
<1>4. t.current = Cardinality(SessionsOf(t))
  BY <1>1, <1>2, <1>3, SessionsFinite, FS_AddElement DEF Good
<1>5. /\ s.client_id \in [Idx -> Ids \union {NoId}]
      /\ s.id_to_idx \in [Ids -> Idx \union {NoIdx}] /\ NoIdx \notin Idx /\ NoId \notin Ids
  BY WebServerAssumption DEF Good, ServerRecords, Idx, NoIdx
<1> HIDE DEF Idx, NoIdx
<1>6. OwnSlots(t)
  <2> SUFFICES ASSUME NEW j \in SessionsOf(t) \ t.lost
               PROVE  t.client_id[j] # NoId /\ t.id_to_idx[t.client_id[j]] = j
    BY DEF OwnSlots
  <2>1. CASE j = i
    BY <1>1, <1>5, <2>1
  <2>2. CASE j # i
    <3>1. j \in SessionsOf(s) \ s.lost /\ j \in Idx /\ t.client_id[j] = s.client_id[j]
      BY <1>1, <1>2, <1>3, <1>5, <2>2
    <3>2. s.client_id[j] \in Ids /\ s.id_to_idx[s.client_id[j]] = j
      BY <1>5, <3>1 DEF Good, OwnSlots
    <3>3. s.client_id[j] # d
      BY <1>1, <1>5, <2>2, <3>1, <3>2
    <3> QED BY <1>1, <1>5, <3>1, <3>2, <3>3
  <2> QED BY <2>1, <2>2
<1>7. SlotsLead(t)
  <2> SUFFICES ASSUME NEW e \in Ids, t.id_to_idx[e] # NoIdx
               PROVE  t.id_to_idx[e] \in SessionsOf(t) /\ t.client_id[t.id_to_idx[e]] = e
    BY DEF SlotsLead
  <2>1. CASE e = d
    BY <1>1, <1>2, <1>5, <2>1
  <2>2. CASE e # d
    <3>1. t.id_to_idx[e] = s.id_to_idx[e]
      BY <1>1, <1>5, <2>2
    <3>2. s.id_to_idx[e] \in SessionsOf(s) /\ s.client_id[s.id_to_idx[e]] = e
      BY <3>1 DEF Good, SlotsLead
    <3> QED BY <1>1, <1>2, <1>3, <1>5, <3>1, <3>2
  <2> QED BY <2>1, <2>2
<1>8. t.pending \intersect t.clients = {} /\ t.pending \ t.lost \subseteq t.buffered
  BY <1>1 DEF Good, SessionsOf
<1>9. Good(t)
  BY <1>1, <1>2, <1>4, <1>6, <1>7, <1>8 DEF Good
<1> QED BY <1>9 DEF t

\* The second loop of postupdate: what was lost goes, with the slots it owned.
LEMMA GoodRemoves ==
    ASSUME NEW s, Good(s), NEW L, s.lost \subseteq L, NEW t \in ServerRecords,
           NEW gone, gone = L \intersect SessionsOf(s),
           t.pending = s.pending \ gone, t.clients = s.clients \ gone,
           t.buffered = s.buffered \ gone, t.lost = {}, t.iterator = s.iterator,
           t.current = s.current - Cardinality(gone),
           t.client_id = [i \in Idx |-> IF i \in gone THEN NoId ELSE s.client_id[i]],
           t.id_to_idx = [d \in Ids |-> IF s.id_to_idx[d] \in gone /\ s.client_id[s.id_to_idx[d]] = d
                                        THEN NoIdx ELSE s.id_to_idx[d]]
    PROVE  Good(t)
<1>1. SessionsOf(t) = SessionsOf(s) \ gone /\ SessionsOf(s) \intersect gone = gone
  BY DEF SessionsOf
<1>2. SessionsOf(s) \in SUBSET Idx /\ gone \in SUBSET Idx
  BY DEF Good, ServerRecords, SessionsOf
<1>3. t.current = Cardinality(SessionsOf(t))
  <2>1. IsFiniteSet(SessionsOf(s))
    BY <1>2, SessionsFinite
  <2>2. Cardinality(SessionsOf(s) \ gone) = Cardinality(SessionsOf(s)) - Cardinality(SessionsOf(s) \intersect gone)
    BY <2>1, FS_Difference
  <2> QED BY <1>1, <2>2 DEF Good
<1>4. /\ s.client_id \in [Idx -> Ids \union {NoId}]
      /\ s.id_to_idx \in [Ids -> Idx \union {NoIdx}] /\ NoIdx \notin Idx /\ NoId \notin Ids
  BY WebServerAssumption DEF Good, ServerRecords, Idx, NoIdx
<1> HIDE DEF Idx, NoIdx
<1>5. OwnSlots(t)
  <2> SUFFICES ASSUME NEW j \in SessionsOf(t)
               PROVE  t.client_id[j] # NoId /\ t.id_to_idx[t.client_id[j]] = j
    BY DEF OwnSlots
  <2>1. j \in SessionsOf(s) \ s.lost /\ j \notin gone /\ j \in Idx
    BY <1>1, <1>2
  <2>2. s.client_id[j] \in Ids /\ s.id_to_idx[s.client_id[j]] = j
    BY <1>4, <2>1 DEF Good, OwnSlots
  <2> QED BY <1>4, <2>1, <2>2
<1>6. SlotsLead(t)
  <2> SUFFICES ASSUME NEW d \in Ids, t.id_to_idx[d] # NoIdx
               PROVE  t.id_to_idx[d] \in SessionsOf(t) /\ t.client_id[t.id_to_idx[d]] = d
    BY DEF SlotsLead
  <2>1. t.id_to_idx[d] = s.id_to_idx[d] /\ ~(s.id_to_idx[d] \in gone /\ s.client_id[s.id_to_idx[d]] = d)
    OBVIOUS
  <2>2. s.id_to_idx[d] \in SessionsOf(s) /\ s.client_id[s.id_to_idx[d]] = d
    BY <2>1 DEF Good, SlotsLead
  <2> QED BY <1>1, <1>2, <2>1, <2>2
<1>7. t.pending \intersect t.clients = {} /\ t.pending \subseteq t.buffered
  BY DEF Good, SessionsOf
<1> QED BY <1>1, <1>3, <1>5, <1>6, <1>7 DEF Good
(***************************************************************************)
(* The channels, and steps that leave the tables as they are.              *)
(***************************************************************************)
LEMMA RequestsKept ==
    ASSUME IInv, UNCHANGED requests, server'.iterator = server.iterator,
           SessionsOf(server') \subseteq SessionsOf(server)
    PROVE  RequestsFresh'
BY DEF IInv, RequestsFresh

LEMMA RequestTaken ==
    ASSUME IInv, requests # << >>, requests' = Tail(requests), server'.iterator = server.iterator,
           SessionsOf(server') \subseteq SessionsOf(server) \union {Head(requests).idx}
    PROVE  RequestsFresh'
<1>1. requests \in Seq(RequestRecords) /\ requests' \in Seq(RequestRecords)
  BY HeadTailProperties DEF IInv, RequestsFresh
<1>2. /\ Len(requests) \in Nat \ {0} /\ Len(requests') = Len(requests) - 1
      /\ \A k \in 1 .. Len(requests') : requests'[k] = requests[k + 1]
      /\ Head(requests) = requests[1]
  BY <1>1, HeadTailProperties, EmptySeq
<1>3. \A k \in 1 .. Len(requests') : k + 1 \in 1 .. Len(requests) /\ k + 1 # 1
  BY <1>2
<1>4. \A k \in 1 .. Len(requests') :
          requests'[k].idx < server'.iterator /\ requests'[k].idx \notin SessionsOf(server')
  BY <1>2, <1>3 DEF IInv, RequestsFresh
<1>5. \A j, k \in 1 .. Len(requests') : requests'[j].idx = requests'[k].idx => j = k
  <2> SUFFICES ASSUME NEW j \in 1 .. Len(requests'), NEW k \in 1 .. Len(requests'),
                      requests'[j].idx = requests'[k].idx
               PROVE  j = k
    OBVIOUS
  <2>1. j + 1 = k + 1
    BY <1>2, <1>3 DEF IInv, RequestsFresh
  <2> QED BY <2>1
<1> QED BY <1>1, <1>4, <1>5 DEF RequestsFresh

LEMMA FirstRequest ==
    ASSUME IInv, requests # << >>
    PROVE  /\ Head(requests).idx \in Idx /\ Head(requests).id \in Ids
           /\ Head(requests).idx < server.iterator /\ Head(requests).idx \notin SessionsOf(server)
<1>1. requests \in Seq(RequestRecords)
  BY DEF IInv, RequestsFresh
<1>2. Len(requests) \in Nat \ {0} /\ Head(requests) = requests[1] /\ Head(requests) \in RequestRecords
  BY <1>1, EmptySeq, HeadTailProperties
<1>3. 1 \in 1 .. Len(requests)
  BY <1>2
<1> QED BY <1>2, <1>3 DEF IInv, RequestsFresh, RequestRecords

ConnectionRecords == [idx : Idx, ok : BOOLEAN]

LEMMA ConnectionsTyped ==
    ASSUME IInv
    PROVE  /\ connections \in Seq(ConnectionRecords)
           /\ \A i \in Idx, ok \in BOOLEAN :
                Append(connections, [idx |-> i, ok |-> ok]) \in Seq(ConnectionRecords)
           /\ connections # << >> => /\ Tail(connections) \in Seq(ConnectionRecords)
                                     /\ Head(connections).idx \in Idx
<1>1. connections \in Seq(ConnectionRecords)
  BY DEF IInv, Indexed, ConnectionRecords
<1>2. ASSUME NEW i \in Idx, NEW ok \in BOOLEAN
      PROVE  Append(connections, [idx |-> i, ok |-> ok]) \in Seq(ConnectionRecords)
  <2>1. [idx |-> i, ok |-> ok] \in ConnectionRecords
    BY DEF ConnectionRecords
  <2> HIDE DEF ConnectionRecords
  <2> QED BY <1>1, <2>1, AppendProperties
<1>3. ASSUME connections # << >>
      PROVE  Tail(connections) \in Seq(ConnectionRecords) /\ Head(connections) \in ConnectionRecords
  BY <1>1, <1>3, HeadTailProperties
<1> QED BY <1>1, <1>2, <1>3 DEF ConnectionRecords

\* A step after which the server has grown and no request is new.
LEMMA QuietStep ==
    ASSUME IInv, Grows(server, server'), server'.iterator = server.iterator,
           UNCHANGED requests \/ (requests # << >> /\ requests' = Tail(requests)),
           entering' \in {entering, entering - 1} \intersect Nat
             \/ (entering' = entering + 1 /\ server.iterator + entering < MaxIdx),
           connections' \in Seq(ConnectionRecords), pc' \in BeforeRecv => pc \in BeforeRecv
    PROVE  IInv'
<1>1. Good(server')
  BY GoodGrows DEF IInv
<1>2. SessionsOf(server') = SessionsOf(server)
  BY DEF Grows, SessionsOf
<1>3. RequestsFresh'
  BY <1>2, RequestsKept, RequestTaken
<1>4. Indexed'
  <2>1. entering \in Nat /\ server.iterator \in Nat /\ MaxIdx \in Nat
    BY WebServerAssumption DEF IInv, Good, ServerRecords, Indexed
  <2>2. entering' \in Nat /\ server.iterator + entering' <= MaxIdx
    BY <2>1 DEF IInv, Indexed
  <2> QED BY <2>2 DEF Indexed, ConnectionRecords
<1> QED BY <1>1, <1>3, <1>4, CleanStays DEF IInv

LEMMA GrowsSame == ASSUME NEW s, Good(s) PROVE Grows(s, s)
BY DEF Good, Grows, ServerRecords

LEMMA GrowsFields ==
    ASSUME NEW s, Good(s)
    PROVE  /\ \A n \in Nat : Grows(s, [s EXCEPT !.recv_index = n])
           /\ Grows(s, [s EXCEPT !.closed = TRUE])
           /\ \A i \in Idx, r \in Results : Grows(s, [s EXCEPT !.result[i] = r])
           /\ \A L \in SUBSET Idx : Grows(s, [s EXCEPT !.lost = @ \union L])
           /\ \A B \in SUBSET Idx : Grows(s, [s EXCEPT !.buffered = @ \union B])
           /\ \A n \in Nat, L \in SUBSET Idx :
                Grows(s, [s EXCEPT !.recv_index = n, !.lost = @ \union L])
<1>1. s \in ServerRecords
  BY DEF Good
<1> USE DEF Grows
<1>2. ASSUME NEW n \in Nat, NEW L \in SUBSET Idx
      PROVE  Grows(s, [s EXCEPT !.recv_index = n, !.lost = @ \union L])
  <2> DEFINE t == [s EXCEPT !.recv_index = n, !.lost = @ \union L]
  <2>1. s.lost \union L \in SUBSET Idx /\ s.iterator <= s.iterator
    BY <1>1 DEF ServerRecords
  <2> HIDE DEF Idx, Results
  <2>2. t \in ServerRecords
    BY <1>1, <2>1 DEF ServerRecords
  <2>3. /\ t.pending = s.pending /\ t.clients = s.clients /\ t.client_id = s.client_id
        /\ t.id_to_idx = s.id_to_idx /\ t.current = s.current /\ t.iterator = s.iterator
        /\ t.lost = s.lost \union L /\ t.buffered = s.buffered
    BY <1>1 DEF ServerRecords
  <2> HIDE DEF t
  <2>4. Grows(s, t)
    BY <2>1, <2>2, <2>3
  <2> QED BY <2>4 DEF t
<1>3. ASSUME NEW n \in Nat PROVE Grows(s, [s EXCEPT !.recv_index = n])
  BY <1>1 DEF ServerRecords
<1>4. Grows(s, [s EXCEPT !.closed = TRUE])
  <2> DEFINE t == [s EXCEPT !.closed = TRUE]
  <2>1. TRUE \in BOOLEAN /\ s.iterator <= s.iterator
    BY <1>1 DEF ServerRecords
  <2> HIDE DEF Idx, Results
  <2>2. t \in ServerRecords
    BY <1>1, <2>1 DEF ServerRecords
  <2>3. /\ t.pending = s.pending /\ t.clients = s.clients /\ t.client_id = s.client_id
        /\ t.id_to_idx = s.id_to_idx /\ t.current = s.current /\ t.iterator = s.iterator
        /\ t.lost = s.lost /\ t.buffered = s.buffered
    BY <1>1 DEF ServerRecords
  <2> HIDE DEF t
  <2>4. Grows(s, t)
    BY <2>1, <2>2, <2>3
  <2> QED BY <2>4 DEF t
<1>5. ASSUME NEW i \in Idx, NEW r \in Results PROVE Grows(s, [s EXCEPT !.result[i] = r])
  <2>1. [s.result EXCEPT ![i] = r] \in [Idx -> Results]
    BY <1>1 DEF ServerRecords
  <2> HIDE DEF Idx, Results
  <2> QED BY <1>1, <2>1 DEF ServerRecords
<1>6. ASSUME NEW L \in SUBSET Idx PROVE Grows(s, [s EXCEPT !.lost = @ \union L])
  BY <1>1 DEF ServerRecords
<1>7. ASSUME NEW B \in SUBSET Idx PROVE Grows(s, [s EXCEPT !.buffered = @ \union B])
  BY <1>1 DEF ServerRecords
<1> HIDE DEF Grows
<1> QED BY <1>2, <1>3, <1>4, <1>5, <1>6, <1>7

LEMMA GrowsTransitive ==
    ASSUME NEW s, NEW t, NEW u, s \in ServerRecords, Grows(s, t), Grows(t, u)
    PROVE  Grows(s, u)
BY DEF Grows, ServerRecords

LEMMA HighestIsIndex == ASSUME NEW S \in SUBSET Idx, S # {} PROVE Highest(S) \in S /\ Highest(S) + 1 \in Nat
<1> DEFINE D == {n \in Nat : \E i \in S : n = MaxIdx - i}
<1>1. \A i \in S : i \in Nat /\ MaxIdx \in Nat /\ MaxIdx - i \in Nat
  BY WebServerAssumption DEF Idx
<1>2. D \subseteq Nat /\ D # {}
  BY <1>1
<1>3. PICK n \in D : \A m \in D : <<m, n>> \notin OpToRel(<, Nat)
  BY <1>2, WFMin, NatLessThanWellFounded, Zenon
<1>4. ASSUME NEW m \in D PROVE n <= m
  <2>1. m \in Nat /\ n \in Nat
    BY <1>2
  <2>2. ~(m < n)
    BY <1>3, <2>1 DEF OpToRel
  <2> QED BY <2>1, <2>2
<1>5. PICK i \in S : n = MaxIdx - i
  OBVIOUS
<1>6. \A j \in S : i >= j
  BY <1>1, <1>4, <1>5
<1> QED BY <1>1, <1>5, <1>6 DEF Highest
(***************************************************************************)
(* The initial state, and one lemma for the steps that leave the tables as *)
(* they are: those of the accepting task, of the tasks and the threads.    *)
(***************************************************************************)
LEMMA InitIInv == WebSocket!Init \/ WebTransport!Init => IInv
<1> SUFFICES ASSUME WebSocket!Init \/ WebTransport!Init PROVE IInv
  OBVIOUS
<1> DEFINE s == [pending |-> {}, clients |-> {}, client_id |-> [i \in Idx |-> NoId],
     buffered |-> {}, id_to_idx |-> [d \in Ids |-> NoIdx], lost |-> {},
     current |-> 0, result |-> [i \in Idx |-> "none"], iterator |-> 0,
     recv_index |-> 0, closed |-> FALSE]
<1>1. server = s /\ requests = << >> /\ connections = << >> /\ entering = 0 /\ pc = "idle"
  BY DEF WebSocket!Init, WebTransport!Init, WebSocket!NewServer, WebTransport!NewServer,
         WebSocket!Idx, WebTransport!Idx, Idx, WebSocket!NoIdx, WebTransport!NoIdx, NoIdx
<1>2. /\ s \in ServerRecords /\ SessionsOf(s) = {} /\ s.pending = {} /\ s.clients = {}
      /\ s.current = 0 /\ s.lost = {} /\ s.iterator = 0 /\ \A d \in Ids : s.id_to_idx[d] = NoIdx
  BY DEF ServerRecords, SessionsOf, Results
<1> HIDE DEF s
<1>3. Good(s)
  BY <1>2, FS_EmptySet DEF Good, OwnSlots, SlotsLead
<1>4. RequestsFresh /\ Indexed /\ CleanBeforeRecv
  BY <1>1, <1>2, WebServerAssumption DEF RequestsFresh, Indexed, CleanBeforeRecv, Clean
<1> QED BY <1>1, <1>3, <1>4 DEF IInv

LEMMA SameServer ==
    ASSUME IInv, UNCHANGED <<server, requests>>, connections' \in Seq(ConnectionRecords),
           entering' \in {entering, entering - 1} \intersect Nat
             \/ (entering' = entering + 1 /\ server.iterator + entering < MaxIdx),
           pc' \in BeforeRecv => pc \in BeforeRecv
    PROVE  IInv'
<1>1. Grows(server, server')
  BY GrowsSame DEF IInv
<1> QED BY <1>1, QuietStep

LEMMA TaskKeeps ==
    ASSUME IInv,
           \/ WebSocket!Accept \/ WebSocket!HandshakeFails \/ WebSocket!Update
           \/ WebTransport!Accept \/ WebTransport!HandshakeFails \/ WebTransport!Update
           \/ UNCHANGED vars
    PROVE  IInv'
<1>1. entering \in Nat
  BY DEF IInv, Indexed
<1>2. /\ UNCHANGED <<server, requests, connections>> /\ (pc' \in BeforeRecv => pc \in BeforeRecv)
      /\ \/ entering' = entering
         \/ entering > 0 /\ entering' = entering - 1
         \/ entering' = entering + 1 /\ server.iterator + entering < MaxIdx
  BY DEF WebSocket!Accept, WebSocket!HandshakeFails, WebSocket!Update, WebTransport!Accept,
         WebTransport!HandshakeFails, WebTransport!Update, BeforeRecv, vars, channels, WebSocket!channels,
         WebTransport!channels, tasks, WebSocket!tasks, WebTransport!tasks
<1>3. \/ entering' \in {entering, entering - 1} \intersect Nat
      \/ entering' = entering + 1 /\ server.iterator + entering < MaxIdx
  BY <1>1, <1>2
<1> QED BY <1>2, <1>3, SameServer, ConnectionsTyped

LEMMA ThreadKeeps ==
    ASSUME IInv, NEW i \in Idx,
           \/ WebSocket!ReaderReceives(i) \/ WebSocket!ReaderEnds(i) \/ WebSocket!WriterEnds(i)
           \/ WebTransport!ReaderReceives(i) \/ WebTransport!ReaderEnds(i) \/ WebTransport!SessionCloses(i)
    PROVE  IInv'
<1>1. entering \in Nat
  BY DEF IInv, Indexed
<1>2. UNCHANGED <<server, requests, connections, entering, pc>>
  BY DEF WebSocket!ReaderReceives, WebSocket!ReaderEnds, WebSocket!WriterEnds,
         WebTransport!ReaderReceives, WebTransport!ReaderEnds, WebTransport!SessionCloses,
         WebSocket!channels, WebTransport!channels, WebSocket!tasks, WebTransport!tasks
<1> QED BY <1>1, <1>2, SameServer, ConnectionsTyped

LEMMA CloseKeeps == ASSUME IInv, WebSocket!Close \/ WebTransport!Close PROVE IInv'
<1>1. /\ server' = [server EXCEPT !.closed = TRUE]
      /\ UNCHANGED <<requests, connections, entering, pc>>
  BY DEF WebSocket!Close, WebTransport!Close, WebSocket!channels, WebTransport!channels,
         WebSocket!tasks, WebTransport!tasks
<1>2. Good(server) /\ server \in ServerRecords /\ entering \in Nat
  BY DEF IInv, Good, Indexed
<1>3. Grows(server, server')
  BY <1>1, <1>2, GrowsFields
<1>4. server'.iterator = server.iterator
  BY <1>1, <1>2 DEF ServerRecords
<1> QED BY <1>1, <1>2, <1>3, <1>4, QuietStep, ConnectionsTyped

\* A task takes the next index; its request, if it is sent, is the newest.
LEMMA RequestKeeps ==
    ASSUME IInv, NEW d \in Ids,
           WebSocket!HandleConnection(d) \/ WebTransport!HandleSessionRequest(d)
    PROVE  IInv'
<1> DEFINE i == server.iterator
           r == [idx |-> i, id |-> d]
<1>1. /\ entering > 0 /\ entering' = entering - 1
      /\ server' = [server EXCEPT !.iterator = @ + 1]
      /\ requests' \in {requests, Append(requests, r)}
      /\ UNCHANGED <<connections, pc>>
  BY DEF WebSocket!HandleConnection, WebTransport!HandleSessionRequest
<1>2. /\ Good(server) /\ server \in ServerRecords /\ entering \in Nat /\ i \in Nat
      /\ i + entering <= MaxIdx /\ MaxIdx \in Nat
  BY WebServerAssumption DEF IInv, Good, Indexed, ServerRecords
<1>3. i \in Idx /\ entering' \in Nat /\ (i + 1) + entering' <= MaxIdx /\ i + 1 \in Nat /\ i <= i + 1
  BY <1>1, <1>2 DEF Idx
<1>4. /\ server' \in ServerRecords /\ server'.iterator = i + 1
      /\ server'.pending = server.pending /\ server'.clients = server.clients
      /\ server'.client_id = server.client_id /\ server'.id_to_idx = server.id_to_idx
      /\ server'.current = server.current /\ server'.lost = server.lost
      /\ server'.buffered = server.buffered
  <2> HIDE DEF Idx, Results, i
  <2>1. server' = [server EXCEPT !.iterator = i + 1]
    BY <1>1 DEF i
  <2> QED BY <1>2, <1>3, <2>1 DEF ServerRecords
<1>5. Grows(server, server') /\ Good(server')
  <2>1. Grows(server, server')
    BY <1>2, <1>3, <1>4 DEF Grows
  <2> QED BY <1>2, <2>1, GoodGrows
<1>6. SessionsOf(server') = SessionsOf(server) /\ i \notin SessionsOf(server)
  BY <1>2, <1>4 DEF SessionsOf, Good
<1>7. requests \in Seq(RequestRecords) /\ r \in RequestRecords
  BY <1>3 DEF IInv, RequestsFresh, RequestRecords
<1>8. ASSUME NEW k \in 1 .. Len(requests)
      PROVE  requests[k].idx \in Nat /\ requests[k].idx < i
  <2>1. requests[k] \in RequestRecords
    BY <1>7, ElementOfSeq
  <2> QED BY <2>1 DEF IInv, RequestsFresh, RequestRecords, Idx
<1>9. RequestsFresh'
  <2>1. CASE requests' = requests
    <3>1. \A k \in 1 .. Len(requests') : requests'[k].idx < i + 1
      BY <1>2, <1>8, <2>1
    <3> QED BY <1>4, <1>6, <1>7, <2>1, <3>1 DEF IInv, RequestsFresh
  <2>2. CASE requests' = Append(requests, r)
    <3> HIDE DEF r, RequestRecords
    <3>1. /\ requests' \in Seq(RequestRecords) /\ Len(requests) \in Nat
          /\ Len(requests') = Len(requests) + 1
          /\ \A k \in 1 .. Len(requests) : requests'[k] = requests[k]
          /\ requests'[Len(requests) + 1] = r
      BY <1>7, <2>2, AppendProperties
    <3>2. r.idx = i
      BY DEF r
    <3>3. ASSUME NEW k \in 1 .. Len(requests')
          PROVE  requests'[k].idx < i + 1 /\ requests'[k].idx \notin SessionsOf(server)
      <4>1. CASE k \in 1 .. Len(requests)
        BY <1>2, <1>8, <3>1, <4>1 DEF IInv, RequestsFresh
      <4>2. CASE k = Len(requests) + 1
        BY <1>2, <1>6, <3>1, <3>2, <4>2
      <4> QED BY <3>1, <4>1, <4>2
    <3>4. ASSUME NEW j \in 1 .. Len(requests'), NEW k \in 1 .. Len(requests'),
                 requests'[j].idx = requests'[k].idx
          PROVE  j = k
      <4>1. CASE j \in 1 .. Len(requests) /\ k \in 1 .. Len(requests)
        BY <3>1, <3>4, <4>1 DEF IInv, RequestsFresh
      <4>2. CASE j \in 1 .. Len(requests) /\ k = Len(requests) + 1
        BY <1>2, <1>8, <3>1, <3>2, <3>4, <4>2
      <4>3. CASE j = Len(requests) + 1 /\ k \in 1 .. Len(requests)
        BY <1>2, <1>8, <3>1, <3>2, <3>4, <4>3
      <4> QED BY <3>1, <4>1, <4>2, <4>3
    <3> QED BY <1>4, <1>6, <3>1, <3>3, <3>4 DEF RequestsFresh
  <2> QED BY <1>1, <2>1, <2>2
<1>10. Indexed' /\ CleanBeforeRecv'
  BY <1>1, <1>3, <1>4, <1>5, CleanStays DEF IInv, Indexed
<1> QED BY <1>5, <1>9, <1>10 DEF IInv

\* A task takes its result, and sends its connection if the channel has room.
LEMMA FinishKeeps ==
    ASSUME IInv, NEW i \in Idx, NEW ok \in BOOLEAN,
           WebSocket!FinishConnection(i) \/ WebTransport!ReceiveResult(i) \/ WebTransport!FinishSession(i, ok)
    PROVE  IInv'
<1>1. /\ server' \in {server, [server EXCEPT !.result[i] = "closed"]}
      /\ \/ connections' = connections
         \/ connections' = Append(connections, [idx |-> i, ok |-> TRUE])
         \/ connections' = Append(connections, [idx |-> i, ok |-> ok])
      /\ UNCHANGED <<requests, entering, pc>>
  BY DEF WebSocket!FinishConnection, WebTransport!ReceiveResult, WebTransport!FinishSession,
         WebTransport!channels
<1>2. Good(server) /\ server \in ServerRecords /\ entering \in Nat /\ "closed" \in Results
  BY DEF IInv, Good, Indexed, Results
<1>3. Grows(server, server')
  <2>1. Grows(server, [server EXCEPT !.result[i] = "closed"])
    BY <1>2, GrowsFields
  <2>2. Grows(server, server)
    BY <1>2, GrowsSame
  <2> QED BY <1>1, <2>1, <2>2
<1>4. server'.iterator = server.iterator
  BY <1>1, <1>2 DEF ServerRecords
<1>5. connections' \in Seq(ConnectionRecords)
  BY <1>1, ConnectionsTyped
<1> QED BY <1>1, <1>2, <1>3, <1>4, <1>5, QuietStep

(***************************************************************************)
(* The steps of the transport's update.                                    *)
(***************************************************************************)
\* A step of the transport under way, after which the server is good.
LEMMA UpdateGoodStep ==
    ASSUME IInv, Good(server'), server'.iterator = server.iterator, UNCHANGED entering,
           CleanBeforeRecv', connections' \in Seq(ConnectionRecords),
           \/ UNCHANGED requests /\ SessionsOf(server') \subseteq SessionsOf(server)
           \/ /\ requests # << >> /\ requests' = Tail(requests)
              /\ SessionsOf(server') \subseteq SessionsOf(server) \union {Head(requests).idx}
    PROVE  IInv'
<1>1. RequestsFresh'
  BY RequestsKept, RequestTaken
<1>2. Indexed'
  BY DEF IInv, Indexed, ConnectionRecords
<1> QED BY <1>1, <1>2 DEF IInv

LEMMA UpdateGrowsStep ==
    ASSUME IInv, Grows(server, server'), server'.iterator = server.iterator,
           UNCHANGED entering, pc' \in BeforeRecv => pc \in BeforeRecv,
           connections' \in Seq(ConnectionRecords),
           UNCHANGED requests \/ (requests # << >> /\ requests' = Tail(requests))
    PROVE  IInv'
<1>1. Good(server')
  BY GoodGrows DEF IInv
<1>2. SessionsOf(server') = SessionsOf(server)
  BY DEF Grows, SessionsOf
<1> QED BY <1>1, <1>2, CleanStays, UpdateGoodStep

\* What send and disconnect do to a good server.
LEMMA SendGrows ==
    ASSUME NEW s, Good(s), NEW i \in Idx
    PROVE  /\ Grows(s, WebSocket!SendTo(s, i)) /\ Grows(s, WebTransport!SendTo(s, i))
           /\ WebSocket!SendTo(s, i).iterator = s.iterator
           /\ WebTransport!SendTo(s, i).iterator = s.iterator
           /\ Grows(s, WebSocket!Disconnect(s, i)) /\ Grows(s, WebTransport!Disconnect(s, i))
           /\ WebSocket!Disconnect(s, i).iterator = s.iterator
           /\ WebTransport!Disconnect(s, i).iterator = s.iterator
<1>1. {i} \in SUBSET Idx /\ s \in ServerRecords
  BY DEF Good
<1>2. Grows(s, s)
  BY GrowsSame
<1>3. Grows(s, [s EXCEPT !.lost = @ \union {i}]) /\ Grows(s, [s EXCEPT !.buffered = @ \union {i}])
  BY <1>1, GrowsFields
<1>4. /\ [s EXCEPT !.lost = @ \union {i}].iterator = s.iterator
      /\ [s EXCEPT !.buffered = @ \union {i}].iterator = s.iterator
  BY <1>1 DEF ServerRecords
<1> QED
  BY <1>2, <1>3, <1>4
  DEF WebSocket!SendTo, WebTransport!SendTo, WebSocket!Disconnect, WebTransport!Disconnect

LEMMA SendThenDisconnectGrows ==
    ASSUME NEW s, Good(s), NEW i \in Idx
    PROVE  /\ Grows(s, WebSocket!Disconnect(WebSocket!SendTo(s, i), i))
           /\ Grows(s, WebTransport!Disconnect(WebTransport!SendTo(s, i), i))
           /\ WebSocket!Disconnect(WebSocket!SendTo(s, i), i).iterator = s.iterator
           /\ WebTransport!Disconnect(WebTransport!SendTo(s, i), i).iterator = s.iterator
<1> DEFINE a == WebSocket!SendTo(s, i)
           b == WebTransport!SendTo(s, i)
<1>1. Grows(s, a) /\ Grows(s, b) /\ a.iterator = s.iterator /\ b.iterator = s.iterator
  BY SendGrows
<1> HIDE DEF a, b
<1>2. Good(a) /\ Good(b) /\ s \in ServerRecords
  BY <1>1, GoodGrows DEF Good
<1>3. /\ Grows(a, WebSocket!Disconnect(a, i)) /\ WebSocket!Disconnect(a, i).iterator = a.iterator
      /\ Grows(b, WebTransport!Disconnect(b, i)) /\ WebTransport!Disconnect(b, i).iterator = b.iterator
  BY <1>2, SendGrows
<1>4. Grows(s, WebSocket!Disconnect(a, i)) /\ Grows(s, WebTransport!Disconnect(b, i))
  BY <1>1, <1>2, <1>3, GrowsTransitive
<1> QED BY <1>1, <1>3, <1>4 DEF a, b

LEMMA PreupdateKeeps ==
    ASSUME IInv, WebSocket!PreupdateEnds \/ WebTransport!PreupdateEnds PROVE IInv'
<1>1. /\ server' = [server EXCEPT !.recv_index = 0] /\ pc' = "recv"
      /\ UNCHANGED <<requests, connections, entering>>
  BY DEF WebSocket!PreupdateEnds, WebTransport!PreupdateEnds, WebSocket!channels,
         WebTransport!channels, WebSocket!tasks, WebTransport!tasks
<1>2. Good(server) /\ server \in ServerRecords /\ 0 \in Nat
  BY DEF IInv, Good
<1>3. Grows(server, [server EXCEPT !.recv_index = 0])
  BY <1>2, GrowsFields
<1>4. server'.iterator = server.iterator
  BY <1>1, <1>2 DEF ServerRecords
<1> QED BY <1>1, <1>3, <1>4, UpdateGrowsStep, ConnectionsTyped DEF BeforeRecv

LEMMA RejectKeeps ==
    ASSUME IInv, WebSocket!RejectRequest \/ WebTransport!RejectRequest PROVE IInv'
<1> DEFINE i == Head(requests).idx
<1>1. /\ server' = [server EXCEPT !.result[i] = "failure"] /\ pc' = "recv"
      /\ requests # << >> /\ requests' = Tail(requests) /\ UNCHANGED <<connections, entering>>
  BY DEF WebSocket!RejectRequest, WebTransport!RejectRequest, WebSocket!tasks, WebTransport!tasks
<1>2. Good(server) /\ server \in ServerRecords /\ i \in Idx /\ "failure" \in Results
  BY <1>1, FirstRequest DEF IInv, Good, Results
<1> HIDE DEF i
<1>3. Grows(server, [server EXCEPT !.result[i] = "failure"])
  BY <1>2, GrowsFields
<1>4. server'.iterator = server.iterator
  BY <1>1, <1>2 DEF ServerRecords
<1> QED BY <1>1, <1>3, <1>4, UpdateGrowsStep, ConnectionsTyped DEF BeforeRecv

LEMMA NetcodeDisconnectKeeps ==
    ASSUME IInv, NEW i \in Idx, WebSocket!NetcodeDisconnects(i) \/ WebTransport!NetcodeDisconnects(i)
    PROVE  IInv'
<1>1. /\ server' \in {WebSocket!Disconnect(WebSocket!SendTo(server, i), i),
                      WebTransport!Disconnect(WebTransport!SendTo(server, i), i)}
      /\ UNCHANGED <<pc, requests, connections, entering>>
  BY DEF WebSocket!NetcodeDisconnects, WebTransport!NetcodeDisconnects, WebSocket!channels,
         WebTransport!channels, WebSocket!tasks, WebTransport!tasks
<1>2. Good(server)
  BY DEF IInv
<1>3. Grows(server, server') /\ server'.iterator = server.iterator
  BY <1>1, <1>2, SendThenDisconnectGrows
<1> QED BY <1>1, <1>3, UpdateGrowsStep, ConnectionsTyped

\* A request is tracked and netcode denies it, with or without sending an answer.
LEMMA DeniedIsGood ==
    ASSUME IInv, requests # << >>
    PROVE  LET i == Head(requests).idx
               Becomes(t) == Good(t) /\ t.iterator = server.iterator
                             /\ SessionsOf(t) = SessionsOf(server) \union {i}
           IN  /\ Becomes(WebSocket!Disconnect(WebSocket!Track(server, i), i))
               /\ Becomes(WebTransport!Disconnect(WebTransport!Track(server, i), i))
               /\ Becomes(WebSocket!Disconnect(WebSocket!SendTo(WebSocket!Track(server, i), i), i))
               /\ Becomes(WebTransport!Disconnect(WebTransport!SendTo(WebTransport!Track(server, i), i), i))
<1> DEFINE i == Head(requests).idx
           Tracked(B) == [server EXCEPT !.pending = @ \union {i}, !.current = @ + 1,
                                        !.buffered = @ \union B, !.lost = @ \union {i}]
           Becomes(t) == Good(t) /\ t.iterator = server.iterator
                         /\ SessionsOf(t) = SessionsOf(server) \union {i}
<1>1. /\ Good(server) /\ server \in ServerRecords /\ i \in Idx /\ i < server.iterator
      /\ i \notin SessionsOf(server)
  BY FirstRequest DEF IInv, Good
<1> HIDE DEF i
<1>2. ASSUME NEW B \in SUBSET {i} PROVE Becomes(Tracked(B))
  <2>1. Good(Tracked(B))
    BY <1>1, GoodTracks
  <2>2. /\ Tracked(B).iterator = server.iterator /\ Tracked(B).pending = server.pending \union {i}
        /\ Tracked(B).clients = server.clients
    BY <1>1 DEF ServerRecords
  <2> HIDE DEF Tracked
  <2> QED BY <2>1, <2>2 DEF SessionsOf
<1>3. /\ WebSocket!Disconnect(WebSocket!Track(server, i), i) = Tracked({})
      /\ WebTransport!Disconnect(WebTransport!Track(server, i), i) = Tracked({})
  BY <1>1 DEF ServerRecords, WebSocket!Disconnect, WebTransport!Disconnect, WebSocket!Track, WebTransport!Track
<1>4. i \notin server.clients
  BY <1>1 DEF SessionsOf
<1>5. /\ WebSocket!Disconnect(WebSocket!SendTo(WebSocket!Track(server, i), i), i) = Tracked({i})
      /\ WebTransport!Disconnect(WebTransport!SendTo(WebTransport!Track(server, i), i), i) = Tracked({i})
  BY <1>1, <1>4
  DEF ServerRecords, WebSocket!Disconnect, WebTransport!Disconnect, WebSocket!Track,
      WebTransport!Track, WebSocket!SendTo, WebTransport!SendTo
<1>6. Becomes(Tracked({})) /\ Becomes(Tracked({i}))
  BY <1>2
<1> HIDE DEF Tracked
<1> QED BY <1>3, <1>5, <1>6 DEF i

\* A request is tracked and netcode accepts it.
LEMMA AcceptedIsGood ==
    ASSUME IInv, requests # << >>
    PROVE  LET i == Head(requests).idx
               d == Head(requests).id
               Becomes(t) == Good(t) /\ t.iterator = server.iterator
                             /\ SessionsOf(t) = SessionsOf(server) \union {i}
           IN  /\ Becomes(WebSocket!SendTo(WebSocket!ConnectionAccepted(WebSocket!Track(server, i), d, i), i))
               /\ Becomes(WebTransport!SendTo(WebTransport!ConnectionAccepted(WebTransport!Track(server, i), d, i), i))
<1> DEFINE i == Head(requests).idx
           d == Head(requests).id
           r == IF server.result[i] = "none" THEN "success" ELSE server.result[i]
           t == [server EXCEPT !.pending = @ \union {i}, !.current = @ + 1,
                          !.result[i] = r, !.client_id[i] = d, !.id_to_idx[d] = i,
                          !.lost = @ \union ({server.id_to_idx[d]} \ {NoIdx, i}),
                          !.buffered = @ \union {i}]
           Becomes(u) == Good(u) /\ u.iterator = server.iterator
                         /\ SessionsOf(u) = SessionsOf(server) \union {i}
<1>1. /\ Good(server) /\ server \in ServerRecords /\ i \in Idx /\ i < server.iterator
      /\ i \notin SessionsOf(server) /\ d \in Ids
  BY FirstRequest DEF IInv, Good
<1> HIDE DEF i, d
<1>2. r \in Results
  BY <1>1 DEF ServerRecords, Results
<1>3. Becomes(t)
  <2> HIDE DEF r
  <2>1. Good(t)
    BY <1>1, <1>2, GoodAccepts
  <2>2. /\ t.iterator = server.iterator /\ t.pending = server.pending \union {i}
        /\ t.clients = server.clients
    BY <1>1 DEF ServerRecords
  <2> HIDE DEF t
  <2> QED BY <2>1, <2>2 DEF SessionsOf
<1>4. i \notin server.clients
  BY <1>1 DEF SessionsOf
<1>5. /\ WebSocket!SendTo(WebSocket!ConnectionAccepted(WebSocket!Track(server, i), d, i), i) = t
      /\ WebTransport!SendTo(WebTransport!ConnectionAccepted(WebTransport!Track(server, i), d, i), i) = t
  BY <1>1, <1>4
  DEF ServerRecords, WebSocket!ConnectionAccepted, WebTransport!ConnectionAccepted, WebSocket!Track,
      WebTransport!Track, WebSocket!SendTo, WebTransport!SendTo, WebSocket!NoIdx, WebTransport!NoIdx, NoIdx
<1> HIDE DEF t
<1> QED BY <1>3, <1>5 DEF i, d

LEMMA RecvRequestKeeps ==
    ASSUME IInv, NEW answer \in {"accepted", "denied", "error"},
           WebSocket!RecvRequest(answer) \/ WebTransport!RecvRequest(answer)
    PROVE  IInv'
<1> DEFINE i == Head(requests).idx
           d == Head(requests).id
           Becomes(t) == Good(t) /\ t.iterator = server.iterator
                         /\ SessionsOf(t) = SessionsOf(server) \union {i}
<1>1. /\ pc' = "recv" /\ requests # << >> /\ requests' = Tail(requests)
      /\ UNCHANGED <<connections, entering>>
  BY DEF WebSocket!RecvRequest, WebTransport!RecvRequest, WebSocket!tasks, WebTransport!tasks
<1>2. Becomes(server')
  <2>1. CASE answer = "accepted"
    BY <1>1, <2>1, AcceptedIsGood DEF WebSocket!RecvRequest, WebTransport!RecvRequest
  <2>2. CASE answer = "denied"
    BY <1>1, <2>2, DeniedIsGood DEF WebSocket!RecvRequest, WebTransport!RecvRequest
  <2>3. CASE answer = "error"
    BY <1>1, <2>3, DeniedIsGood DEF WebSocket!RecvRequest, WebTransport!RecvRequest
  <2> QED BY <2>1, <2>2, <2>3
<1> QED BY <1>1, <1>2, UpdateGoodStep, ConnectionsTyped DEF CleanBeforeRecv, BeforeRecv

\* One pass of try_recv over clients.
LEMMA ScanGrows ==
    ASSUME NEW s, Good(s), NEW big \in SUBSET Idx, NEW before \in SUBSET Idx
    PROVE  /\ Grows(s, WebSocket!Scan(s, big, before)) /\ WebSocket!Scan(s, big, before).iterator = s.iterator
           /\ Grows(s, WebTransport!Scan(s, big, before)) /\ WebTransport!Scan(s, big, before).iterator = s.iterator
<1> DEFINE empty == {j \in before : inbox[j] = 0}
           n == IF empty = {} THEN s.recv_index ELSE Highest(empty) + 1
<1>1. s \in ServerRecords /\ n \in Nat
  <2>1. s \in ServerRecords /\ empty \in SUBSET Idx
    BY DEF Good
  <2>2. CASE empty = {}
    BY <2>1, <2>2 DEF ServerRecords
  <2>3. CASE empty # {}
    <3> HIDE DEF empty
    <3>1. Highest(empty) + 1 \in Nat
      BY <2>1, <2>3, HighestIsIndex
    <3> QED BY <2>1, <2>3, <3>1
  <2> QED BY <2>1, <2>2, <2>3
<1>2. /\ WebSocket!Scan(s, big, before) = [s EXCEPT !.recv_index = n, !.lost = @ \union big]
      /\ WebTransport!Scan(s, big, before) = [s EXCEPT !.recv_index = n, !.lost = @ \union big]
  BY DEF WebSocket!Scan, WebTransport!Scan, Highest, WebSocket!Highest, WebTransport!Highest
<1> HIDE DEF n
<1>3. Grows(s, [s EXCEPT !.recv_index = n, !.lost = @ \union big])
  BY <1>1, GrowsFields
<1>4. [s EXCEPT !.recv_index = n, !.lost = @ \union big].iterator = s.iterator
  BY <1>1 DEF ServerRecords
<1> QED BY <1>2, <1>3, <1>4

LEMMA RecvEndsKeeps ==
    ASSUME IInv, WebSocket!RecvEnds \/ WebTransport!RecvEnds PROVE IInv'
<1>1. /\ pc' = "post" /\ UNCHANGED <<requests, connections, entering>>
  BY DEF WebSocket!RecvEnds, WebTransport!RecvEnds, WebSocket!channels,
         WebTransport!channels, WebSocket!tasks, WebTransport!tasks
<1>2. Good(server) /\ server.clients \subseteq Idx
  BY DEF IInv, Good, ServerRecords
<1>3. /\ WebSocket!Scanned \in SUBSET Idx /\ {j \in WebSocket!Scanned : inbox[j] > 0} \in SUBSET Idx
      /\ WebTransport!Scanned \in SUBSET Idx /\ {j \in WebTransport!Scanned : inbox[j] > 0} \in SUBSET Idx
  BY <1>2 DEF WebSocket!Scanned, WebTransport!Scanned
<1>4. Grows(server, server') /\ server'.iterator = server.iterator
  BY <1>2, <1>3, ScanGrows DEF WebSocket!RecvEnds, WebTransport!RecvEnds
<1> QED BY <1>1, <1>4, UpdateGrowsStep, ConnectionsTyped DEF BeforeRecv

LEMMA RecvPacketKeeps ==
    ASSUME IInv, NEW i \in Idx, NEW answer \in {"none", "accepted", "lost"},
           WebSocket!RecvPacket(i, answer) \/ WebTransport!RecvPacket(i, answer)
    PROVE  IInv'
<1> DEFINE before == {j \in WebSocket!Scanned : j < i}
           big == {j \in before : inbox[j] > 0}
           s == WebSocket!Scan(server, big, before)
           u == WebTransport!Scan(server, big, before)
<1>1. /\ pc' = "recv" /\ UNCHANGED <<requests, connections, entering>> /\ i \in server.clients
  BY DEF WebSocket!RecvPacket, WebTransport!RecvPacket, WebSocket!channels, WebSocket!Scanned,
         WebTransport!channels, WebSocket!tasks, WebTransport!tasks, WebTransport!Scanned
<1>2. Good(server) /\ server.clients \subseteq Idx /\ server \in ServerRecords
  BY DEF IInv, Good, ServerRecords
<1>3. before \in SUBSET Idx /\ big \in SUBSET Idx
  BY <1>2 DEF WebSocket!Scanned
<1>4. server' \in {s, WebSocket!SendTo(WebSocket!ConnectionAccepted(s, s.client_id[i], i), i),
                   WebSocket!Disconnect(WebSocket!SendTo(s, i), i),
                   u, WebTransport!SendTo(WebTransport!ConnectionAccepted(u, u.client_id[i], i), i),
                   WebTransport!Disconnect(WebTransport!SendTo(u, i), i)}
  <2>1. WebTransport!Scanned = WebSocket!Scanned
    BY DEF WebTransport!Scanned, WebSocket!Scanned
  <2>2. CASE answer = "none"
    BY <2>1, <2>2 DEF WebSocket!RecvPacket, WebTransport!RecvPacket
  <2>3. CASE answer = "accepted"
    BY <2>1, <2>3 DEF WebSocket!RecvPacket, WebTransport!RecvPacket
  <2>4. CASE answer = "lost"
    BY <2>1, <2>4 DEF WebSocket!RecvPacket, WebTransport!RecvPacket
  <2> QED BY <2>2, <2>3, <2>4
<1> HIDE DEF before, big
<1>5. Grows(server, s) /\ s.iterator = server.iterator /\ Grows(server, u) /\ u.iterator = server.iterator
  BY <1>2, <1>3, ScanGrows
<1> HIDE DEF s, u
<1>6. Good(s) /\ Good(u) /\ i \notin s.pending /\ i \notin u.pending
  BY <1>1, <1>2, <1>5, GoodGrows DEF Good, Grows
<1>7. /\ WebSocket!ConnectionAccepted(s, s.client_id[i], i) = s
      /\ WebTransport!ConnectionAccepted(u, u.client_id[i], i) = u
  BY <1>6 DEF WebSocket!ConnectionAccepted, WebTransport!ConnectionAccepted
<1>8. /\ Grows(s, WebSocket!SendTo(s, i)) /\ WebSocket!SendTo(s, i).iterator = s.iterator
      /\ Grows(u, WebTransport!SendTo(u, i)) /\ WebTransport!SendTo(u, i).iterator = u.iterator
  BY <1>6, SendGrows
<1>9. /\ Grows(s, WebSocket!Disconnect(WebSocket!SendTo(s, i), i))
      /\ WebSocket!Disconnect(WebSocket!SendTo(s, i), i).iterator = s.iterator
      /\ Grows(u, WebTransport!Disconnect(WebTransport!SendTo(u, i), i))
      /\ WebTransport!Disconnect(WebTransport!SendTo(u, i), i).iterator = u.iterator
  BY <1>6, SendThenDisconnectGrows
<1>10. Grows(server, server') /\ server'.iterator = server.iterator
  BY <1>2, <1>4, <1>5, <1>7, <1>8, <1>9, GrowsTransitive
<1> QED BY <1>1, <1>10, UpdateGrowsStep, ConnectionsTyped DEF BeforeRecv

\* One round of preupdate's loop: the connection is dropped, its session is reported lost or
\* removed, or the session becomes a client and is sent its answer.
LEMMA TakeConnectionKeeps ==
    ASSUME IInv, WebSocket!TakeConnection \/ WebTransport!TakeConnection PROVE IInv'
<1> DEFINE i == Head(connections).idx
           t == [server EXCEPT !.pending = @ \ {i}, !.buffered = @ \ {i}, !.clients = @ \union {i}]
<1>1. Good(server) /\ server \in ServerRecords
  BY DEF IInv, Good
<1>2. /\ connections # << >> /\ connections' = Tail(connections) /\ UNCHANGED <<requests, entering>>
      /\ pc = "pre" /\ Clean(server)
  BY DEF WebSocket!TakeConnection, WebTransport!TakeConnection, WebSocket!tasks, WebTransport!tasks,
         IInv, CleanBeforeRecv, BeforeRecv
<1>3. i \in Idx /\ connections' \in Seq(ConnectionRecords)
  BY <1>2, ConnectionsTyped
<1>4. \/ server' \in {server, WebTransport!Disconnect(server, i)}
      \/ i \in server.pending /\ server.id_to_idx[server.client_id[i]] # i
      \/ i \in server.pending /\ server' \in {WebSocket!SendTo(t, i), WebTransport!SendTo(t, i)}
  <2>1. [[server EXCEPT !.pending = @ \ {i}, !.buffered = @ \ {i}] EXCEPT !.clients = @ \union {i}] = t
    BY <1>1 DEF ServerRecords
  <2>2. CASE WebSocket!TakeConnection
    <3> HIDE DEF t
    <3> QED BY <2>1, <2>2 DEF WebSocket!TakeConnection
  <2>3. CASE WebTransport!TakeConnection
    <3> HIDE DEF t
    <3> QED BY <2>1, <2>3 DEF WebTransport!TakeConnection
  <2> QED BY <2>2, <2>3
<1> HIDE DEF i
<1>5. CASE server' \in {server, WebTransport!Disconnect(server, i)}
  <2>1. Grows(server, server') /\ server'.iterator = server.iterator
    BY <1>1, <1>3, <1>5, GrowsSame, SendGrows
  <2> QED BY <1>2, <1>3, <2>1, UpdateGrowsStep DEF BeforeRecv
<1>6. CASE i \in server.pending /\ server.id_to_idx[server.client_id[i]] # i
  BY <1>2, <1>6 DEF Clean, SessionsOf
<1>7. CASE i \in server.pending /\ server' \in {WebSocket!SendTo(t, i), WebTransport!SendTo(t, i)}
  <2>1. Good(t) /\ Clean(t)
    BY <1>1, <1>2, <1>7, GoodPromotes
  <2>2. /\ t.iterator = server.iterator /\ t.pending = server.pending \ {i}
        /\ t.clients = server.clients \union {i}
    BY <1>1 DEF ServerRecords
  <2> HIDE DEF t
  <2>3. SessionsOf(t) \subseteq SessionsOf(server)
    BY <1>7, <2>2 DEF SessionsOf
  <2>4. Grows(t, server') /\ server'.iterator = t.iterator
    BY <1>3, <1>7, <2>1, SendGrows
  <2>5. Good(server') /\ CleanBeforeRecv' /\ SessionsOf(server') = SessionsOf(t)
    BY <2>1, <2>4, GoodGrows, CleanGrows DEF CleanBeforeRecv, Grows, SessionsOf
  <2> QED BY <1>2, <1>3, <2>2, <2>3, <2>4, <2>5, UpdateGoodStep
<1> QED BY <1>4, <1>5, <1>6, <1>7

LEMMA SameCardinality ==
    ASSUME NEW S
    PROVE  WebSocket!Cardinality(S) = Cardinality(S) /\ WebTransport!Cardinality(S) = Cardinality(S)
BY DEF WebSocket!Cardinality, WebTransport!Cardinality, Cardinality

\* The second loop of postupdate, at the end of which no report is left.
LEMMA RemoveLostIsGood ==
    ASSUME NEW s, Good(s), NEW L \in SUBSET Idx, s.lost \subseteq L, NEW t,
           t \in {WebSocket!RemoveLost(s, L), WebTransport!RemoveLost(s, L)}
    PROVE  /\ Good(t) /\ Clean(t) /\ t.iterator = s.iterator
           /\ SessionsOf(t) \subseteq SessionsOf(s)
<1> DEFINE gone == L \intersect SessionsOf(s)
           client_id == [i \in Idx |-> IF i \in gone THEN NoId ELSE s.client_id[i]]
           id_to_idx == [d \in Ids |-> IF s.id_to_idx[d] \in gone /\ s.client_id[s.id_to_idx[d]] = d
                                       THEN NoIdx ELSE s.id_to_idx[d]]
           result == [i \in Idx |-> IF i \in gone \ s.clients /\ s.result[i] = "none"
                                    THEN "failure" ELSE s.result[i]]
           current == s.current - Cardinality(gone)
<1>1. s \in ServerRecords /\ gone \in SUBSET Idx /\ Cardinality(gone) \in Nat
  BY SessionsFinite DEF Good
<1>2. /\ client_id \in [Idx -> Ids \union {NoId}] /\ id_to_idx \in [Ids -> Idx \union {NoIdx}]
      /\ result \in [Idx -> Results] /\ current \in Int
  BY <1>1 DEF ServerRecords, Results
<1>3. t = [s EXCEPT !.clients = @ \ gone, !.pending = @ \ gone, !.buffered = @ \ gone,
                    !.client_id = client_id, !.lost = {}, !.current = current,
                    !.id_to_idx = id_to_idx, !.result = result]
  <2>1. CASE t = WebSocket!RemoveLost(s, L)
    BY <2>1, SameCardinality DEF WebSocket!RemoveLost, SessionsOf, Idx, NoIdx, WebSocket!Idx, WebSocket!NoIdx
  <2>2. CASE t = WebTransport!RemoveLost(s, L)
    BY <2>2, SameCardinality DEF WebTransport!RemoveLost, SessionsOf, Idx, NoIdx, WebTransport!Idx, WebTransport!NoIdx
  <2> QED BY <2>1, <2>2
<1> HIDE DEF client_id, id_to_idx, result, current, gone
<1>4. /\ t \in ServerRecords
      /\ t.pending = s.pending \ gone /\ t.clients = s.clients \ gone
      /\ t.buffered = s.buffered \ gone /\ t.lost = {} /\ t.iterator = s.iterator
      /\ t.current = current /\ t.client_id = client_id /\ t.id_to_idx = id_to_idx
  <2> HIDE DEF Idx, Results, NoIdx
  <2> QED BY <1>1, <1>2, <1>3 DEF ServerRecords
<1>5. Good(t)
  BY <1>4, GoodRemoves DEF client_id, id_to_idx, current, gone
<1>6. Clean(t)
  BY <1>4, <1>5 DEF Good, OwnSlots, Clean
<1> QED BY <1>4, <1>5, <1>6 DEF SessionsOf

LEMMA PostupdateKeeps ==
    ASSUME IInv, WebSocket!Postupdate \/ WebTransport!Postupdate PROVE IInv'
<1>1. Good(server) /\ server.lost \in SUBSET Idx /\ server.clients \in SUBSET Idx
  BY DEF IInv, Good, ServerRecords
<1>2. /\ UNCHANGED <<requests, connections, entering>>
      /\ \E L \in SUBSET Idx : /\ server.lost \subseteq L
                               /\ server' \in {WebSocket!RemoveLost(server, L), WebTransport!RemoveLost(server, L)}
  BY <1>1 DEF WebSocket!Postupdate, WebTransport!Postupdate, WebSocket!channels,
              WebTransport!channels, WebSocket!tasks, WebTransport!tasks
<1>3. /\ Good(server') /\ Clean(server') /\ server'.iterator = server.iterator
      /\ SessionsOf(server') \subseteq SessionsOf(server)
  BY <1>1, <1>2, RemoveLostIsGood
<1>4. RequestsFresh'
  BY <1>2, <1>3, RequestsKept
<1>5. Indexed' /\ CleanBeforeRecv'
  BY <1>2, <1>3 DEF IInv, Indexed, CleanBeforeRecv
<1> QED BY <1>3, <1>4, <1>5 DEF IInv

\* A datagram sent between two updates may find that the session of a client is gone.
LEMMA SendKeeps == ASSUME IInv, NEW i \in Idx, WebTransport!Send(i) PROVE IInv'
<1>1. Good(server) /\ entering \in Nat
  BY DEF IInv, Indexed
<1>2. server' = WebTransport!SendTo(server, i) /\ UNCHANGED <<requests, connections, entering, pc>>
  BY DEF WebTransport!Send, WebTransport!channels, WebTransport!tasks
<1>3. Grows(server, server') /\ server'.iterator = server.iterator
  BY <1>1, <1>2, SendGrows
<1> QED BY <1>1, <1>2, <1>3, QuietStep, ConnectionsTyped
-----------------------------------------------------------------------------
LEMMA WebSocketStep == IInv /\ [WebSocket!Next]_vars => IInv'
<1> SUFFICES ASSUME IInv, [WebSocket!Next]_vars PROVE IInv'
  OBVIOUS
<1>1. CASE WebSocket!Accept \/ WebSocket!HandshakeFails \/ UNCHANGED vars
  BY <1>1, TaskKeeps
<1>2. CASE WebSocket!Close
  BY <1>2, CloseKeeps
<1>3. ASSUME NEW d \in Ids, WebSocket!HandleConnection(d) PROVE IInv'
  BY <1>3, RequestKeeps
<1>4. ASSUME NEW i \in Idx, WebSocket!TaskStep(i) PROVE IInv'
  BY <1>4, FinishKeeps DEF WebSocket!TaskStep
<1>5. ASSUME NEW i \in Idx, WebSocket!ReaderReceives(i) \/ WebSocket!ReaderEnds(i) \/ WebSocket!WriterEnds(i)
      PROVE  IInv'
  BY <1>5, ThreadKeeps
<1>6. ASSUME NEW i \in Idx, WebSocket!NetcodeDisconnects(i) PROVE IInv'
  BY <1>6, NetcodeDisconnectKeeps
<1>7. CASE WebSocket!UpdateStep
  BY <1>7, TaskKeeps, TakeConnectionKeeps, PreupdateKeeps, RejectKeeps, RecvRequestKeeps,
     RecvPacketKeeps, RecvEndsKeeps, PostupdateKeeps
  DEF WebSocket!UpdateStep, WebSocket!Idx, Idx
<1> QED BY <1>1, <1>2, <1>3, <1>4, <1>5, <1>6, <1>7 DEF WebSocket!Next, WebSocket!Idx, Idx

LEMMA WebTransportStep == IInv /\ [WebTransport!Next]_vars => IInv'
<1> SUFFICES ASSUME IInv, [WebTransport!Next]_vars PROVE IInv'
  OBVIOUS
<1>1. CASE WebTransport!Accept \/ WebTransport!HandshakeFails \/ UNCHANGED vars
  BY <1>1, TaskKeeps
<1>2. CASE WebTransport!Close
  BY <1>2, CloseKeeps
<1>3. ASSUME NEW d \in Ids, WebTransport!HandleSessionRequest(d) PROVE IInv'
  BY <1>3, RequestKeeps
<1>4. ASSUME NEW i \in Idx, WebTransport!TaskStep(i) PROVE IInv'
  BY <1>4, FinishKeeps DEF WebTransport!TaskStep
<1>5. ASSUME NEW i \in Idx,
             WebTransport!ReaderReceives(i) \/ WebTransport!ReaderEnds(i) \/ WebTransport!SessionCloses(i)
      PROVE  IInv'
  BY <1>5, ThreadKeeps
<1>6. ASSUME NEW i \in Idx, WebTransport!NetcodeDisconnects(i) \/ WebTransport!Send(i) PROVE IInv'
  BY <1>6, NetcodeDisconnectKeeps, SendKeeps
<1>7. CASE WebTransport!UpdateStep
  BY <1>7, TaskKeeps, TakeConnectionKeeps, PreupdateKeeps, RejectKeeps, RecvRequestKeeps,
     RecvPacketKeeps, RecvEndsKeeps, PostupdateKeeps
  DEF WebTransport!UpdateStep, WebTransport!Idx, Idx
<1> QED BY <1>1, <1>2, <1>3, <1>4, <1>5, <1>6, <1>7 DEF WebTransport!Next, WebTransport!Idx, Idx

LEMMA AlwaysIInv == (WebSocket!Spec => []IInv) /\ (WebTransport!Spec => []IInv)
<1>1. WebSocket!Spec => []IInv
  <2>1. WebSocket!Init => IInv
    BY InitIInv
  <2>2. IInv /\ [WebSocket!Next]_(WebSocket!vars) => IInv'
    BY WebSocketStep DEF WebSocket!vars, vars, WebSocket!channels, channels, WebSocket!tasks, tasks, WebSocket!threads, threads
  <2> QED BY <2>1, <2>2, PTL DEF WebSocket!Spec
<1>2. WebTransport!Spec => []IInv
  <2>1. WebTransport!Init => IInv
    BY InitIInv
  <2>2. IInv /\ [WebTransport!Next]_(WebTransport!vars) => IInv'
    BY WebTransportStep DEF WebTransport!vars, vars, WebTransport!channels, channels, WebTransport!tasks, tasks, WebTransport!threads, threads
  <2> QED BY <2>1, <2>2, PTL DEF WebTransport!Spec
<1> QED BY <1>1, <1>2

(***************************************************************************)
(* current_clients counts the sessions exactly, in every state of either   *)
(* server: what its accepting task compares with the capacity is the       *)
(* number of sessions, and the debug assertion of postupdate holds.        *)
(***************************************************************************)
THEOREM CountAlwaysExact ==
    (WebSocket!Spec => []CountIsExact) /\ (WebTransport!Spec => []CountIsExact)
<1>1. IInv => CountIsExact
  BY InvImplies
<1> QED BY <1>1, AlwaysIInv, PTL

(***************************************************************************)
(* The slots of client_id_to_idx and the sessions lead to each other, so   *)
(* an id never has two live sessions, and from postupdate to the end of    *)
(* the next preupdate it has one at most, whatever is reported lost in     *)
(* between, by disconnect_all or a failed send.                            *)
(***************************************************************************)
THEOREM SlotsAlwaysOwned ==
    (WebSocket!Spec => []SlotsAreOwned) /\ (WebTransport!Spec => []SlotsAreOwned)
<1>1. IInv => SlotsAreOwned
  BY InvImplies
<1> QED BY <1>1, AlwaysIInv, PTL

(***************************************************************************)
(* Netcode's answer is kept for every pending session that may become a    *)
(* client: preupdate never finds it missing.                               *)
(***************************************************************************)
THEOREM AnswersAlwaysWait ==
    (WebSocket!Spec => []AnswersWait) /\ (WebTransport!Spec => []AnswersWait)
<1>1. IInv => AnswersWait
  BY InvImplies
<1> QED BY <1>1, AlwaysIInv, PTL
=============================================================================
