-------------------------- MODULE ListenerProofs --------------------------
(***************************************************************************)
(* Proofs about the listener, for any set of connections: every connection  *)
(* has one that answers for it.  The lemmas about sequences and the number   *)
(* of their places that hold something are used by ConnectionsProofs too.     *)
(***************************************************************************)
EXTENDS ConnectionParts, FiniteSetTheorems, FunctionTheorems, SequenceTheorems, TLAPS

\* What is in a sequence over a set is of that set.
LEMMA Members ==
    ASSUME NEW S, NEW q \in Seq(S)
    PROVE  /\ Len(q) \in Nat /\ DOMAIN q = 1 .. Len(q) /\ \A i \in 1 .. Len(q) : q[i] \in S
           /\ <<>> \in Seq(S)
           /\ q # <<>> => Len(q) \in Nat \ {0} /\ Head(q) = q[1] /\ Head(q) \in S /\ Tail(q) \in Seq(S)
  <1>1. Len(q) \in Nat /\ DOMAIN q = 1 .. Len(q) /\ \A i \in 1 .. Len(q) : q[i] \in S
    BY LenProperties, ElementOfSeq
  <1>2. q # <<>> => Head(q) \in S /\ Tail(q) \in Seq(S)
    BY HeadTailProperties
  <1>3. q # <<>> => Len(q) \in Nat \ {0} /\ Head(q) = q[1]
    BY EmptySeq, LenProperties
  <1>4. <<>> \in Seq(S)
    BY EmptySeq
  <1>5. QED
    BY <1>1, <1>2, <1>3, <1>4

LEMMA Appended ==
    ASSUME NEW S, NEW q \in Seq(S), NEW e \in S
    PROVE  /\ Append(q, e) \in Seq(S) /\ Append(q, e) # <<>> /\ Len(Append(q, e)) = Len(q) + 1
           /\ \A i \in 1 .. Len(q) : Append(q, e)[i] = q[i]
           /\ Append(q, e)[Len(q) + 1] = e
  BY AppendProperties

LEMMA Behind ==
    ASSUME NEW S, NEW q \in Seq(S), q # <<>>
    PROVE  /\ Tail(q) \in Seq(S) /\ Len(Tail(q)) = Len(q) - 1 /\ Head(q) = q[1] /\ Head(q) \in S
           /\ \A i \in 1 .. Len(Tail(q)) : Tail(q)[i] = q[i + 1]
  BY HeadTailProperties, EmptySeq, Members

\* Where a sequence has what is in a set.
Places(q, A) == {i \in DOMAIN q : q[i] \in A}
Number(q, A) == Cardinality(Places(q, A))

LEMMA PlacesFinite ==
    ASSUME NEW S, NEW q \in Seq(S), NEW A
    PROVE  IsFiniteSet(Places(q, A)) /\ Number(q, A) \in Nat
<1>1. Len(q) \in Int /\ 1 \in Int /\ Places(q, A) \in SUBSET (1 .. Len(q))
  BY Members DEF Places
<1>2. IsFiniteSet(1 .. Len(q))
  BY <1>1, FS_Interval
<1>3. IsFiniteSet(Places(q, A))
  BY <1>1, <1>2, FS_Subset
<1>4. QED
  BY <1>3, FS_CardinalityType DEF Number

LEMMA PlacesAppend ==
    ASSUME NEW S, NEW q \in Seq(S), NEW e \in S, NEW A
    PROVE  Number(Append(q, e), A) = Number(q, A) + (IF e \in A THEN 1 ELSE 0)
<1> DEFINE r == Append(q, e)
<1>1. /\ r \in Seq(S) /\ Len(r) = Len(q) + 1 /\ Len(q) \in Nat /\ r[Len(q) + 1] = e
      /\ \A i \in 1 .. Len(q) : r[i] = q[i]
      /\ DOMAIN r = 1 .. Len(r) /\ DOMAIN q = 1 .. Len(q)
  BY Appended, Members
<1> HIDE DEF r
<1>2. /\ \A i \in 1 .. Len(r) : i \in 1 .. Len(q) \/ i = Len(q) + 1
      /\ \A i \in 1 .. Len(q) : i \in 1 .. Len(r) /\ i # Len(q) + 1
      /\ Len(q) + 1 \in 1 .. Len(r) /\ Len(q) + 1 \notin 1 .. Len(q)
  BY <1>1
<1>3. IsFiniteSet(Places(q, A)) /\ Len(q) + 1 \notin Places(q, A) /\ Number(q, A) \in Nat
  BY <1>1, <1>2, PlacesFinite DEF Places
<1>4. CASE e \in A
  <2>1. Places(r, A) = Places(q, A) \cup {Len(q) + 1}
    BY <1>1, <1>2, <1>4 DEF Places
  <2>2. QED
    BY <1>3, <1>4, <2>1, FS_AddElement DEF Number, r
<1>5. CASE e \notin A
  <2>1. Places(r, A) = Places(q, A)
    BY <1>1, <1>2, <1>5 DEF Places
  <2>2. QED
    BY <1>3, <1>5, <2>1 DEF Number, r
<1>6. QED
  BY <1>4, <1>5

LEMMA PlacesTail ==
    ASSUME NEW S, NEW q \in Seq(S), q # <<>>, NEW A
    PROVE  Number(Tail(q), A) = Number(q, A) - (IF Head(q) \in A THEN 1 ELSE 0)
<1> DEFINE r == Tail(q)
<1>1. /\ r \in Seq(S) /\ Len(r) = Len(q) - 1 /\ Len(q) \in Nat \ {0} /\ Head(q) = q[1]
      /\ \A i \in 1 .. Len(r) : r[i] = q[i + 1]
      /\ DOMAIN r = 1 .. Len(r) /\ DOMAIN q = 1 .. Len(q)
  BY Behind, Members
<1> HIDE DEF r
<1>2. /\ \A i \in 1 .. Len(r) : i + 1 \in 1 .. Len(q) /\ i + 1 # 1 /\ i \in Nat
      /\ \A i \in 1 .. Len(q) : i # 1 => i - 1 \in 1 .. Len(r) /\ (i - 1) + 1 = i
      /\ 1 \in 1 .. Len(q) /\ \A i, j \in Nat : i + 1 = j + 1 => i = j
  BY <1>1
<1> DEFINE P == Places(r, A)
           Q == Places(q, A) \ {1}
           f == [i \in P |-> i + 1]
<1>3. \A i \in P : i \in 1 .. Len(r) /\ i \in Nat /\ f[i] = i + 1 /\ f[i] \in Q
  BY <1>1, <1>2 DEF Places
<1>4. f \in [P -> Q]
  BY <1>3
<1>5. \A i, j \in P : f[i] = f[j] => i = j
  BY <1>2, <1>3
<1>6. \A k \in Q : \E i \in P : f[i] = k
  <2> TAKE k \in Q
  <2>1. k \in 1 .. Len(q) /\ k # 1 /\ q[k] \in A
    BY <1>1 DEF Places
  <2>2. k - 1 \in 1 .. Len(r) /\ r[k - 1] = q[k] /\ (k - 1) + 1 = k
    BY <1>1, <1>2, <2>1
  <2>3. k - 1 \in P
    BY <1>1, <2>1, <2>2 DEF Places
  <2>4. QED
    BY <1>3, <2>2, <2>3
<1> HIDE DEF f
<1>7. ExistsBijection(P, Q)
  <2>1. f \in Injection(P, Q)
    BY <1>4, <1>5, Fun_IsInj
  <2>2. f \in Surjection(P, Q)
    BY <1>4, <1>6, Fun_IsSurj
  <2>3. QED
    BY <2>1, <2>2 DEF Bijection, ExistsBijection
<1>8. IsFiniteSet(P) /\ Cardinality(Q) = Cardinality(P)
  BY <1>1, <1>7, PlacesFinite, FS_Bijection
<1>9. /\ IsFiniteSet(Places(q, A)) /\ Number(q, A) \in Nat
      /\ Cardinality(Q) = IF 1 \in Places(q, A) THEN Number(q, A) - 1 ELSE Number(q, A)
  BY PlacesFinite, FS_RemoveElement DEF Number
<1>10. 1 \in Places(q, A) <=> Head(q) \in A
  BY <1>1, <1>2 DEF Places
<1>11. Number(r, A) = Cardinality(P)
  BY DEF Number
<1>12. QED
  BY <1>8, <1>9, <1>10, <1>11 DEF r

------------------------------------------------------------------------------
(* The listener.                                                               *)

\* How many events of a kind are in the queue for a connection.
Count(q, kind, c) == Number(q, {Listener!Ev(kind, c)})
Arrivals(q, c) == Count(q, "Accepted", c) + Count(q, "DisconnectedOnAccept", c)
Kinds == {"Accepted", "DisconnectedOnAccept", "Ready", "Success", "Failure"}

ListenTypes == Listener!TypeOK

\* A connection that was just accepted is not known to anybody else.
Fresh(c) == c \notin newClients /\ c \notin deafUnknown /\ l_owner[c] = "nobody" /\ proxy[c] = "none"

\* The life of a connection.  It arrives once, as long as nobody knows it (ArrivalInv); the unknown
\* client has a stream whose socket the listener keeps, until it has a proxy instead, and is deaf
\* from then on (UnknownInv); what ends it is in the queue, and what is in the queue fits what
\* became of it (OutcomeInv); the proxy has an owner as long as it lives (ProxyInv).
ArrivalInv(c) ==
    /\ Arrivals(l_events, c) <= 1
    /\ Arrivals(l_events, c) = 1 \/ l_peer[c] = "connecting" => Fresh(c)
    /\ l_peer[c] = "connecting" => Arrivals(l_events, c) = 0
    /\ socket[c] \in {"none", "backlog"} => l_peer[c] = "connecting"
    /\ Arrivals(l_events, c) = 1 /\ ~stopped => c \in clientSockets
UnknownInv(c) ==
    /\ c \in l_timer \cup stream => c \in newClients
    /\ c \in stream => c \in clientSockets
    /\ c \in newClients => l_owner[c] \in {"nobody", "unknown"}
    /\ c \in newClients \ stream => proxy[c] # "none"
    /\ proxy[c] # "none" => c \in deafUnknown
OutcomeInv(c) ==
    /\ Count(l_events, "Ready", c) > 0 => proxy[c] # "none"
    /\ Count(l_events, "Success", c) > 0 => c \in deafUnknown
    /\ Count(l_events, "Failure", c) > 0 => c \in deafUnknown /\ l_owner[c] # "unknown"
    /\ l_owner[c] = "unknown" /\ Count(l_events, "Success", c) > 0 => c \in l_ready
    /\ c \in newClients \ l_timer => Count(l_events, "Success", c) + Count(l_events, "Failure", c) > 0
ProxyInv(c) ==
    /\ l_owner[c] = "nobody" <=> proxy[c] \in {"none", "deleted"}
    /\ l_owner[c] = "unknown" => c \in newClients /\ c \notin stream
    /\ l_owner[c] # "nobody" => c \in clientSockets
    /\ c \in clientSockets /\ socket[c] = "open" /\ l_peer[c] # "connecting" /\ c \notin newClients
          /\ Arrivals(l_events, c) = 0 => proxy[c] # "none"
ConnInv(c) == ArrivalInv(c) /\ UnknownInv(c) /\ OutcomeInv(c) /\ ProxyInv(c)

\* The clients that wait are those the listener owns, each once, and none more than is announced.
WaitingInv ==
    /\ \A i, j \in 1 .. Len(waitingClients) : waitingClients[i] = waitingClients[j] => i = j
    /\ \A c \in Conns : l_owner[c] = "listener" <=> \E i \in 1 .. Len(waitingClients) : waitingClients[i] = c
    /\ ~stopped => Len(waitingClients) <= Count(l_events, "Handover", NoConn)

\* Somebody accepts while the listening socket is not polled, until the listener is deleted.
ListenInv ==
    /\ listenJob = "taken" => Count(l_events, "Connecting", NoConn) > 0
    /\ stopped => clientSockets = {} /\ newClients = {} /\ waitingClients = <<>> /\ listenJob = "lost"

ListenerInv == ListenTypes /\ (\A c \in Conns : ConnInv(c)) /\ WaitingInv /\ ListenInv

LEMMA EvSame ==
    \A kind, c, other, d : Listener!Ev(kind, c) = Listener!Ev(other, d) <=> kind = other /\ c = d
  BY DEF Listener!Ev

LEMMA EvTyped ==
    /\ \A c \in Conns, kind \in Listener!SocketEvents \cup Listener!StreamEvents \cup Listener!OtherEvents :
          Listener!Ev(kind, c) \in Listener!Event
    /\ \A kind \in {"Connecting", "Handover"} : Listener!Ev(kind, NoConn) \in Listener!Event
  BY DEF Listener!Ev, Listener!Event

\* What adding, taking and handling an event does to the numbers.
LEMMA MailAdded ==
    ASSUME NEW q \in Seq(Listener!Event), NEW e \in Listener!Event
    PROVE  /\ Append(q, e) \in Seq(Listener!Event)
           /\ \A kind, c : /\ Count(q, kind, c) \in Nat
                           /\ Count(Append(q, e), kind, c) =
                                 Count(q, kind, c) + (IF e = Listener!Ev(kind, c) THEN 1 ELSE 0)
<1>1. Append(q, e) \in Seq(Listener!Event)
  BY Appended
<1>2. ASSUME NEW kind, NEW c
      PROVE  /\ Count(q, kind, c) \in Nat
             /\ Count(Append(q, e), kind, c) = Count(q, kind, c) + (IF e = Listener!Ev(kind, c) THEN 1 ELSE 0)
  <2>1. e \in {Listener!Ev(kind, c)} <=> e = Listener!Ev(kind, c)
    OBVIOUS
  <2>2. Number(Append(q, e), {Listener!Ev(kind, c)})
           = Number(q, {Listener!Ev(kind, c)}) + (IF e \in {Listener!Ev(kind, c)} THEN 1 ELSE 0)
    BY PlacesAppend
  <2>3. Number(q, {Listener!Ev(kind, c)}) \in Nat
    BY PlacesFinite
  <2>4. QED
    BY <2>1, <2>2, <2>3 DEF Count
<1>3. QED
  BY <1>1, <1>2

LEMMA MailTaken ==
    ASSUME NEW q \in Seq(Listener!Event), q # <<>>
    PROVE  /\ Tail(q) \in Seq(Listener!Event) /\ Head(q) \in Listener!Event
           /\ \A kind, c : /\ Count(q, kind, c) \in Nat /\ Count(Tail(q), kind, c) \in Nat
                           /\ Count(Tail(q), kind, c) =
                                 Count(q, kind, c) - (IF Head(q) = Listener!Ev(kind, c) THEN 1 ELSE 0)
<1>1. Tail(q) \in Seq(Listener!Event) /\ Head(q) \in Listener!Event
  BY Members
<1>2. ASSUME NEW kind, NEW c
      PROVE  /\ Count(q, kind, c) \in Nat /\ Count(Tail(q), kind, c) \in Nat
             /\ Count(Tail(q), kind, c) = Count(q, kind, c) - (IF Head(q) = Listener!Ev(kind, c) THEN 1 ELSE 0)
  <2>1. Head(q) \in {Listener!Ev(kind, c)} <=> Head(q) = Listener!Ev(kind, c)
    OBVIOUS
  <2>2. Number(Tail(q), {Listener!Ev(kind, c)})
           = Number(q, {Listener!Ev(kind, c)}) - (IF Head(q) \in {Listener!Ev(kind, c)} THEN 1 ELSE 0)
    BY PlacesTail
  <2>3. Number(q, {Listener!Ev(kind, c)}) \in Nat /\ Number(Tail(q), {Listener!Ev(kind, c)}) \in Nat
    BY <1>1, PlacesFinite
  <2>4. QED
    BY <2>1, <2>2, <2>3 DEF Count
<1>3. QED
  BY <1>1, <1>2

\* The numbers after a step that took and added at most one event each, given by kind and
\* connection; "none" is no event.
Mailed(taken, from, added, to) ==
    /\ l_events' \in Seq(Listener!Event)
    /\ \A kind, c : kind # "none" =>
          /\ Count(l_events, kind, c) \in Nat /\ Count(l_events', kind, c) \in Nat
          /\ Count(l_events', kind, c) = Count(l_events, kind, c)
                - (IF kind = taken /\ c = from THEN 1 ELSE 0) + (IF kind = added /\ c = to THEN 1 ELSE 0)
    /\ taken # "none" => Count(l_events, taken, from) > 0

\* The same for one connection: by how much each number grows.
Moved(c, accepted, refused, ready_, success, failure, handover, connecting) ==
    /\ Count(l_events', "Accepted", c) = Count(l_events, "Accepted", c) + accepted
    /\ Count(l_events', "DisconnectedOnAccept", c) = Count(l_events, "DisconnectedOnAccept", c) + refused
    /\ Count(l_events', "Ready", c) = Count(l_events, "Ready", c) + ready_
    /\ Count(l_events', "Success", c) = Count(l_events, "Success", c) + success
    /\ Count(l_events', "Failure", c) = Count(l_events, "Failure", c) + failure
    /\ Count(l_events', "Handover", NoConn) = Count(l_events, "Handover", NoConn) + handover
    /\ Count(l_events', "Connecting", NoConn) = Count(l_events, "Connecting", NoConn) + connecting
CountTypes(c) ==
    /\ Count(l_events, "Accepted", c) \in Nat /\ Count(l_events, "DisconnectedOnAccept", c) \in Nat
    /\ Count(l_events, "Ready", c) \in Nat /\ Count(l_events, "Success", c) \in Nat
    /\ Count(l_events, "Failure", c) \in Nat
    /\ Count(l_events, "Handover", NoConn) \in Nat /\ Count(l_events, "Connecting", NoConn) \in Nat

LEMMA MailStep ==
    ASSUME ListenTypes
    PROVE  /\ l_events' = l_events => Mailed("none", NoConn, "none", NoConn)
           /\ \A other, b :
                  (Listener!Ev(other, b) \in Listener!Event /\ l_events' = Append(l_events, Listener!Ev(other, b)))
                     => Mailed("none", NoConn, other, b)
           /\ \A kind, c : Listener!Takes(kind, c) /\ l_events' = Tail(l_events) =>
                              Mailed(kind, c, "none", NoConn)
           /\ \A kind, c, other, b :
                  (Listener!Ev(other, b) \in Listener!Event /\ Listener!Takes(kind, c)
                      /\ l_events' = Append(Tail(l_events), Listener!Ev(other, b)))
                     => Mailed(kind, c, other, b)
<1>1. l_events \in Seq(Listener!Event)
  BY DEF ListenTypes, Listener!TypeOK
<1>2. l_events' = l_events => Mailed("none", NoConn, "none", NoConn)
  <2>1. \A kind, c : Count(l_events, kind, c) \in Nat
    BY <1>1, PlacesFinite DEF Count
  <2>2. QED
    BY <1>1, <2>1 DEF Mailed
<1>3. ASSUME NEW other, NEW b, Listener!Ev(other, b) \in Listener!Event,
             l_events' = Append(l_events, Listener!Ev(other, b))
      PROVE  Mailed("none", NoConn, other, b)
  <2>1. /\ l_events' \in Seq(Listener!Event)
        /\ \A kind, c : /\ Count(l_events, kind, c) \in Nat
                        /\ Count(l_events', kind, c) = Count(l_events, kind, c)
                              + (IF Listener!Ev(other, b) = Listener!Ev(kind, c) THEN 1 ELSE 0)
    BY <1>1, <1>3, MailAdded
  <2>2. \A kind, c : Listener!Ev(other, b) = Listener!Ev(kind, c) <=> kind = other /\ c = b
    BY EvSame
  <2>3. QED
    BY <2>1, <2>2 DEF Mailed
<1>4. ASSUME NEW kind, NEW c, Listener!Takes(kind, c)
      PROVE  /\ Tail(l_events) \in Seq(Listener!Event)
             /\ \A k, d : /\ Count(l_events, k, d) \in Nat /\ Count(Tail(l_events), k, d) \in Nat
                          /\ Count(Tail(l_events), k, d) = Count(l_events, k, d)
                                - (IF k = kind /\ d = c THEN 1 ELSE 0)
             /\ Count(l_events, kind, c) > 0
  <2>1. l_events # <<>> /\ Head(l_events) = Listener!Ev(kind, c)
    BY <1>4 DEF Listener!Takes
  <2>2. \A k, d : Listener!Ev(kind, c) = Listener!Ev(k, d) <=> k = kind /\ d = c
    BY EvSame
  <2>3. /\ Tail(l_events) \in Seq(Listener!Event)
        /\ \A k, d : /\ Count(l_events, k, d) \in Nat /\ Count(Tail(l_events), k, d) \in Nat
                     /\ Count(Tail(l_events), k, d) = Count(l_events, k, d)
                           - (IF Listener!Ev(kind, c) = Listener!Ev(k, d) THEN 1 ELSE 0)
    BY <1>1, <2>1, MailTaken
  <2>4. QED
    BY <2>2, <2>3
<1>5. ASSUME NEW kind, NEW c, Listener!Takes(kind, c), l_events' = Tail(l_events)
      PROVE  Mailed(kind, c, "none", NoConn)
  BY <1>4, <1>5 DEF Mailed
<1>6. ASSUME NEW kind, NEW c, NEW other, NEW b, Listener!Ev(other, b) \in Listener!Event,
             Listener!Takes(kind, c), l_events' = Append(Tail(l_events), Listener!Ev(other, b))
      PROVE  Mailed(kind, c, other, b)
  <2> DEFINE q == Tail(l_events)
             e == Listener!Ev(other, b)
  <2>1. /\ q \in Seq(Listener!Event) /\ Count(l_events, kind, c) > 0
        /\ \A k, d : /\ Count(l_events, k, d) \in Nat /\ Count(q, k, d) \in Nat
                     /\ Count(q, k, d) = Count(l_events, k, d) - (IF k = kind /\ d = c THEN 1 ELSE 0)
    BY <1>4, <1>6
  <2>2. l_events' = Append(q, e) /\ e \in Listener!Event
    BY <1>6
  <2>3. \A k, d : e = Listener!Ev(k, d) <=> k = other /\ d = b
    BY EvSame
  <2> HIDE DEF q, e
  <2>4. /\ Append(q, e) \in Seq(Listener!Event)
        /\ \A k, d : Count(Append(q, e), k, d) = Count(q, k, d) + (IF e = Listener!Ev(k, d) THEN 1 ELSE 0)
    BY <2>1, <2>2, MailAdded
  <2>5. \A k, d : /\ Count(l_events', k, d) = Count(l_events, k, d)
                        - (IF k = kind /\ d = c THEN 1 ELSE 0) + (IF k = other /\ d = b THEN 1 ELSE 0)
                  /\ Count(l_events', k, d) \in Nat
    BY <2>1, <2>2, <2>3, <2>4
  <2>6. QED
    BY <2>1, <2>2, <2>4, <2>5 DEF Mailed
<1>7. \A other, b :
         (Listener!Ev(other, b) \in Listener!Event /\ l_events' = Append(l_events, Listener!Ev(other, b)))
            => Mailed("none", NoConn, other, b)
  BY <1>3
<1>8. \A kind, c : Listener!Takes(kind, c) /\ l_events' = Tail(l_events) => Mailed(kind, c, "none", NoConn)
  BY <1>5
<1>9. \A kind, c, other, b :
         (Listener!Ev(other, b) \in Listener!Event /\ Listener!Takes(kind, c)
             /\ l_events' = Append(Tail(l_events), Listener!Ev(other, b)))
            => Mailed(kind, c, other, b)
  BY <1>6
<1>10. QED
  BY <1>2, <1>7, <1>8, <1>9

\* Nothing changes for a connection.
SameFor(d) ==
    /\ socket'[d] = socket[d] /\ l_peer'[d] = l_peer[d] /\ proxy'[d] = proxy[d] /\ l_owner'[d] = l_owner[d]
    /\ (d \in clientSockets') <=> (d \in clientSockets)
    /\ (d \in newClients') <=> (d \in newClients)
    /\ (d \in stream') <=> (d \in stream)
    /\ (d \in l_ready') <=> (d \in l_ready)
    /\ (d \in l_timer') <=> (d \in l_timer)
    /\ (d \in deafUnknown') <=> (d \in deafUnknown)
    /\ \A kind \in Kinds : Count(l_events', kind, d) = Count(l_events, kind, d)
    /\ stopped' = stopped

LEMMA SameKept == ASSUME NEW d \in Conns, ConnInv(d), SameFor(d) PROVE ConnInv(d)'
<1>1. /\ Count(l_events', "Accepted", d) = Count(l_events, "Accepted", d)
      /\ Count(l_events', "DisconnectedOnAccept", d) = Count(l_events, "DisconnectedOnAccept", d)
      /\ Count(l_events', "Ready", d) = Count(l_events, "Ready", d)
      /\ Count(l_events', "Success", d) = Count(l_events, "Success", d)
      /\ Count(l_events', "Failure", d) = Count(l_events, "Failure", d)
  BY DEF SameFor, Kinds
<1>2. Arrivals(l_events', d) = Arrivals(l_events, d)
  BY <1>1 DEF Arrivals
<1>3. ArrivalInv(d)'
  BY <1>2 DEF SameFor, ConnInv, ArrivalInv, Fresh
<1>4. UnknownInv(d)'
  BY DEF SameFor, ConnInv, UnknownInv
<1>5. OutcomeInv(d)'
  BY <1>1 DEF SameFor, ConnInv, OutcomeInv
<1>6. ProxyInv(d)'
  BY <1>2 DEF SameFor, ConnInv, ProxyInv
<1>7. QED
  BY <1>3, <1>4, <1>5, <1>6 DEF ConnInv

\* A step that leaves those who wait alone.
LEMMA WaitingSame ==
    ASSUME WaitingInv, waitingClients' = waitingClients, stopped' = stopped,
           \A c \in Conns : l_owner'[c] = "listener" <=> l_owner[c] = "listener",
           Count(l_events, "Handover", NoConn) \in Nat, Count(l_events', "Handover", NoConn) \in Nat,
           Count(l_events, "Handover", NoConn) <= Count(l_events', "Handover", NoConn),
           Len(waitingClients) \in Nat
    PROVE  WaitingInv'
  BY DEF WaitingInv

LEMMA ListenConnects ==
    ASSUME Listener!ListenerAssumption, ListenerInv, NEW c \in Conns, Listener!connects(c)
    PROVE  ListenerInv'
<1>1. ListenTypes /\ WaitingInv /\ ListenInv /\ NoConn \notin Conns
  BY DEF ListenerInv, Listener!ListenerAssumption
<1>2. Mailed("none", NoConn, "none", NoConn)
  BY <1>1, MailStep, EvTyped DEF Listener!connects, Listener!SocketEvents, Listener!StreamEvents, Listener!OtherEvents
<1>3. l_events' \in Seq(Listener!Event) /\ CountTypes(c) /\ Moved(c, 0, 0, 0, 0, 0, 0, 0)
  <2>1. l_events' \in Seq(Listener!Event) /\ CountTypes(c)
    BY ONLY <1>2 DEF Mailed, CountTypes
  <2>2. Moved(c, 0, 0, 0, 0, 0, 0, 0)
    BY ONLY <1>1, <1>2, <2>1, SMTT(30) DEF Mailed, Moved, CountTypes
  <2>3. QED
    BY <2>1, <2>2
<1>4. ListenTypes'
  BY <1>1, <1>3 DEF ListenTypes, Listener!TypeOK, Listener!connects, Listener!sockVars, Listener!unknownVars, Listener!proxyVars
<1>5. ASSUME NEW d \in Conns, d # c PROVE ConnInv(d)'
  <2>1. \A kind \in Kinds : Count(l_events', kind, d) = Count(l_events, kind, d)
    BY <1>1, <1>2, <1>5 DEF Mailed, Kinds
  <2>2. SameFor(d)
    BY <1>1, <1>5, <2>1 DEF SameFor, ListenTypes, Listener!TypeOK, Listener!connects, Listener!sockVars, Listener!unknownVars, Listener!proxyVars
  <2>3. QED
    BY <2>2, SameKept DEF ListenerInv
<1>6. ConnInv(c)'
  <2>1. ArrivalInv(c) /\ UnknownInv(c) /\ OutcomeInv(c) /\ ProxyInv(c)
    BY DEF ListenerInv, ConnInv
  <2>2. ArrivalInv(c)'
    BY <1>1, <1>3, <2>1 DEF Moved, CountTypes, ArrivalInv, Arrivals, Fresh, UnknownInv, ProxyInv, ListenInv,
      ListenTypes, Listener!TypeOK, Listener!connects, Listener!sockVars, Listener!unknownVars, Listener!proxyVars
  <2>3. UnknownInv(c)'
    BY <1>1, <1>3, <2>1 DEF Moved, CountTypes, ArrivalInv, Arrivals, Fresh, UnknownInv, OutcomeInv, ProxyInv, ListenInv,
      ListenTypes, Listener!TypeOK, Listener!connects, Listener!sockVars, Listener!unknownVars, Listener!proxyVars
  <2>4. OutcomeInv(c)'
    BY <1>1, <1>3, <2>1 DEF Moved, CountTypes, ArrivalInv, Arrivals, Fresh, UnknownInv, OutcomeInv, ProxyInv, ListenInv,
      ListenTypes, Listener!TypeOK, Listener!connects, Listener!sockVars, Listener!unknownVars, Listener!proxyVars
  <2>5. ProxyInv(c)'
    BY <1>1, <1>3, <2>1 DEF Moved, CountTypes, ArrivalInv, Arrivals, Fresh, UnknownInv, OutcomeInv, ProxyInv, ListenInv,
      ListenTypes, Listener!TypeOK, Listener!connects, Listener!sockVars, Listener!unknownVars, Listener!proxyVars
  <2>6. QED
    BY <2>2, <2>3, <2>4, <2>5 DEF ConnInv
<1>7. WaitingInv'
  <2>1. waitingClients' = waitingClients /\ stopped' = stopped
    BY <1>1 DEF Listener!connects, Listener!sockVars, Listener!unknownVars, Listener!proxyVars
  <2>2. \A d \in Conns : l_owner'[d] = "listener" <=> l_owner[d] = "listener"
    BY <1>1 DEF ListenerInv, ConnInv, UnknownInv, ListenTypes, Listener!TypeOK, Listener!connects, Listener!sockVars, Listener!unknownVars, Listener!proxyVars
  <2>3. Len(waitingClients) \in Nat
    BY <1>1, Members DEF ListenTypes, Listener!TypeOK
  <2>4. /\ Count(l_events, "Handover", NoConn) \in Nat /\ Count(l_events', "Handover", NoConn) \in Nat
        /\ Count(l_events, "Handover", NoConn) <= Count(l_events', "Handover", NoConn)
    BY <1>3 DEF Moved, CountTypes
  <2>5. QED
    BY <1>1, <2>1, <2>2, <2>3, <2>4, WaitingSame
<1>8. ListenInv'
  BY <1>1, <1>3 DEF Moved, CountTypes, ListenInv, Listener!connects, Listener!sockVars, Listener!unknownVars, Listener!proxyVars
<1>9. QED
  BY <1>1, <1>4, <1>5, <1>6, <1>7, <1>8 DEF ListenerInv

LEMMA ListenInforms ==
    ASSUME Listener!ListenerAssumption, ListenerInv, NEW c \in Conns, Listener!informs(c)
    PROVE  ListenerInv'
<1>1. ListenTypes /\ WaitingInv /\ ListenInv /\ NoConn \notin Conns
  BY DEF ListenerInv, Listener!ListenerAssumption
<1>2. Mailed("none", NoConn, "Info", c)
  BY <1>1, MailStep, EvTyped DEF Listener!informs, Listener!Served, Listener!SocketEvents, Listener!StreamEvents, Listener!OtherEvents
<1>3. l_events' \in Seq(Listener!Event) /\ CountTypes(c) /\ Moved(c, 0, 0, 0, 0, 0, 0, 0)
  <2>1. l_events' \in Seq(Listener!Event) /\ CountTypes(c)
    BY ONLY <1>2 DEF Mailed, CountTypes
  <2>2. Moved(c, 0, 0, 0, 0, 0, 0, 0)
    BY ONLY <1>1, <1>2, <2>1, SMTT(30) DEF Mailed, Moved, CountTypes
  <2>3. QED
    BY <2>1, <2>2
<1>4. ListenTypes'
  BY <1>1, <1>3 DEF ListenTypes, Listener!TypeOK, Listener!informs, Listener!Served, Listener!sockVars, Listener!unknownVars, Listener!proxyVars
<1>5. ASSUME NEW d \in Conns, d # c PROVE ConnInv(d)'
  <2>1. \A kind \in Kinds : Count(l_events', kind, d) = Count(l_events, kind, d)
    BY <1>1, <1>2, <1>5 DEF Mailed, Kinds
  <2>2. SameFor(d)
    BY <1>1, <1>5, <2>1 DEF SameFor, ListenTypes, Listener!TypeOK, Listener!informs, Listener!Served, Listener!sockVars, Listener!unknownVars, Listener!proxyVars
  <2>3. QED
    BY <2>2, SameKept DEF ListenerInv
<1>6. ConnInv(c)'
  <2>1. ArrivalInv(c) /\ UnknownInv(c) /\ OutcomeInv(c) /\ ProxyInv(c)
    BY DEF ListenerInv, ConnInv
  <2>2. ArrivalInv(c)'
    BY <1>1, <1>3, <2>1 DEF Moved, CountTypes, ArrivalInv, Arrivals, Fresh, UnknownInv, ProxyInv, ListenInv,
      ListenTypes, Listener!TypeOK, Listener!informs, Listener!Served, Listener!sockVars, Listener!unknownVars, Listener!proxyVars
  <2>3. UnknownInv(c)'
    BY <1>1, <1>3, <2>1 DEF Moved, CountTypes, ArrivalInv, Arrivals, Fresh, UnknownInv, OutcomeInv, ProxyInv, ListenInv,
      ListenTypes, Listener!TypeOK, Listener!informs, Listener!Served, Listener!sockVars, Listener!unknownVars, Listener!proxyVars
  <2>4. OutcomeInv(c)'
    BY <1>1, <1>3, <2>1 DEF Moved, CountTypes, ArrivalInv, Arrivals, Fresh, UnknownInv, OutcomeInv, ProxyInv, ListenInv,
      ListenTypes, Listener!TypeOK, Listener!informs, Listener!Served, Listener!sockVars, Listener!unknownVars, Listener!proxyVars
  <2>5. ProxyInv(c)'
    BY <1>1, <1>3, <2>1 DEF Moved, CountTypes, ArrivalInv, Arrivals, Fresh, UnknownInv, OutcomeInv, ProxyInv, ListenInv,
      ListenTypes, Listener!TypeOK, Listener!informs, Listener!Served, Listener!sockVars, Listener!unknownVars, Listener!proxyVars
  <2>6. QED
    BY <2>2, <2>3, <2>4, <2>5 DEF ConnInv
<1>7. WaitingInv'
  <2>1. waitingClients' = waitingClients /\ stopped' = stopped
    BY <1>1 DEF Listener!informs, Listener!Served, Listener!sockVars, Listener!unknownVars, Listener!proxyVars
  <2>2. \A d \in Conns : l_owner'[d] = "listener" <=> l_owner[d] = "listener"
    BY <1>1 DEF ListenerInv, ConnInv, UnknownInv, ListenTypes, Listener!TypeOK, Listener!informs, Listener!Served, Listener!sockVars, Listener!unknownVars, Listener!proxyVars
  <2>3. Len(waitingClients) \in Nat
    BY <1>1, Members DEF ListenTypes, Listener!TypeOK
  <2>4. /\ Count(l_events, "Handover", NoConn) \in Nat /\ Count(l_events', "Handover", NoConn) \in Nat
        /\ Count(l_events, "Handover", NoConn) <= Count(l_events', "Handover", NoConn)
    BY <1>3 DEF Moved, CountTypes
  <2>5. QED
    BY <1>1, <2>1, <2>2, <2>3, <2>4, WaitingSame
<1>8. ListenInv'
  BY <1>1, <1>3 DEF Moved, CountTypes, ListenInv, Listener!informs, Listener!Served, Listener!sockVars, Listener!unknownVars, Listener!proxyVars
<1>9. QED
  BY <1>1, <1>4, <1>5, <1>6, <1>7, <1>8 DEF ListenerInv

LEMMA ListenLeaves ==
    ASSUME Listener!ListenerAssumption, ListenerInv, NEW c \in Conns, Listener!leaves(c)
    PROVE  ListenerInv'
<1>1. ListenTypes /\ WaitingInv /\ ListenInv /\ NoConn \notin Conns
  BY DEF ListenerInv, Listener!ListenerAssumption
<1>2. Mailed("none", NoConn, "Gone", c)
  BY <1>1, MailStep, EvTyped DEF Listener!leaves, Listener!Served, Listener!SocketEvents, Listener!StreamEvents, Listener!OtherEvents
<1>3. l_events' \in Seq(Listener!Event) /\ CountTypes(c) /\ Moved(c, 0, 0, 0, 0, 0, 0, 0)
  <2>1. l_events' \in Seq(Listener!Event) /\ CountTypes(c)
    BY ONLY <1>2 DEF Mailed, CountTypes
  <2>2. Moved(c, 0, 0, 0, 0, 0, 0, 0)
    BY ONLY <1>1, <1>2, <2>1, SMTT(30) DEF Mailed, Moved, CountTypes
  <2>3. QED
    BY <2>1, <2>2
<1>4. ListenTypes'
  BY <1>1, <1>3 DEF ListenTypes, Listener!TypeOK, Listener!leaves, Listener!Served, Listener!sockVars, Listener!unknownVars, Listener!proxyVars
<1>5. ASSUME NEW d \in Conns, d # c PROVE ConnInv(d)'
  <2>1. \A kind \in Kinds : Count(l_events', kind, d) = Count(l_events, kind, d)
    BY <1>1, <1>2, <1>5 DEF Mailed, Kinds
  <2>2. SameFor(d)
    BY <1>1, <1>5, <2>1 DEF SameFor, ListenTypes, Listener!TypeOK, Listener!leaves, Listener!Served, Listener!sockVars, Listener!unknownVars, Listener!proxyVars
  <2>3. QED
    BY <2>2, SameKept DEF ListenerInv
<1>6. ConnInv(c)'
  <2>1. ArrivalInv(c) /\ UnknownInv(c) /\ OutcomeInv(c) /\ ProxyInv(c)
    BY DEF ListenerInv, ConnInv
  <2>2. ArrivalInv(c)'
    BY <1>1, <1>3, <2>1 DEF Moved, CountTypes, ArrivalInv, Arrivals, Fresh, UnknownInv, ProxyInv, ListenInv,
      ListenTypes, Listener!TypeOK, Listener!leaves, Listener!Served, Listener!sockVars, Listener!unknownVars, Listener!proxyVars
  <2>3. UnknownInv(c)'
    BY <1>1, <1>3, <2>1 DEF Moved, CountTypes, ArrivalInv, Arrivals, Fresh, UnknownInv, OutcomeInv, ProxyInv, ListenInv,
      ListenTypes, Listener!TypeOK, Listener!leaves, Listener!Served, Listener!sockVars, Listener!unknownVars, Listener!proxyVars
  <2>4. OutcomeInv(c)'
    BY <1>1, <1>3, <2>1 DEF Moved, CountTypes, ArrivalInv, Arrivals, Fresh, UnknownInv, OutcomeInv, ProxyInv, ListenInv,
      ListenTypes, Listener!TypeOK, Listener!leaves, Listener!Served, Listener!sockVars, Listener!unknownVars, Listener!proxyVars
  <2>5. ProxyInv(c)'
    BY <1>1, <1>3, <2>1 DEF Moved, CountTypes, ArrivalInv, Arrivals, Fresh, UnknownInv, OutcomeInv, ProxyInv, ListenInv,
      ListenTypes, Listener!TypeOK, Listener!leaves, Listener!Served, Listener!sockVars, Listener!unknownVars, Listener!proxyVars
  <2>6. QED
    BY <2>2, <2>3, <2>4, <2>5 DEF ConnInv
<1>7. WaitingInv'
  <2>1. waitingClients' = waitingClients /\ stopped' = stopped
    BY <1>1 DEF Listener!leaves, Listener!Served, Listener!sockVars, Listener!unknownVars, Listener!proxyVars
  <2>2. \A d \in Conns : l_owner'[d] = "listener" <=> l_owner[d] = "listener"
    BY <1>1 DEF ListenerInv, ConnInv, UnknownInv, ListenTypes, Listener!TypeOK, Listener!leaves, Listener!Served, Listener!sockVars, Listener!unknownVars, Listener!proxyVars
  <2>3. Len(waitingClients) \in Nat
    BY <1>1, Members DEF ListenTypes, Listener!TypeOK
  <2>4. /\ Count(l_events, "Handover", NoConn) \in Nat /\ Count(l_events', "Handover", NoConn) \in Nat
        /\ Count(l_events, "Handover", NoConn) <= Count(l_events', "Handover", NoConn)
    BY <1>3 DEF Moved, CountTypes
  <2>5. QED
    BY <1>1, <2>1, <2>2, <2>3, <2>4, WaitingSame
<1>8. ListenInv'
  BY <1>1, <1>3 DEF Moved, CountTypes, ListenInv, Listener!leaves, Listener!Served, Listener!sockVars, Listener!unknownVars, Listener!proxyVars
<1>9. QED
  BY <1>1, <1>4, <1>5, <1>6, <1>7, <1>8 DEF ListenerInv

LEMMA ListenGreets ==
    ASSUME Listener!ListenerAssumption, ListenerInv, NEW c \in Conns, Listener!handleHelloBack(c)
    PROVE  ListenerInv'
<1>1. ListenTypes /\ WaitingInv /\ ListenInv /\ NoConn \notin Conns
  BY DEF ListenerInv, Listener!ListenerAssumption
<1>2. Mailed("HelloBack", c, "none", NoConn)
  BY <1>1, MailStep, EvTyped DEF Listener!handleHelloBack, Listener!HeardByUnknown, Listener!SocketEvents, Listener!StreamEvents, Listener!OtherEvents
<1>3. l_events' \in Seq(Listener!Event) /\ CountTypes(c) /\ Moved(c, 0, 0, 0, 0, 0, 0, 0) /\ Count(l_events, "HelloBack", c) > 0
  <2>1. l_events' \in Seq(Listener!Event) /\ CountTypes(c) /\ Count(l_events, "HelloBack", c) > 0
    BY ONLY <1>2 DEF Mailed, CountTypes
  <2>2. Moved(c, 0, 0, 0, 0, 0, 0, 0)
    BY ONLY <1>1, <1>2, <2>1, SMTT(30) DEF Mailed, Moved, CountTypes
  <2>3. QED
    BY <2>1, <2>2
<1>4. ListenTypes'
  BY <1>1, <1>3 DEF ListenTypes, Listener!TypeOK, Listener!handleHelloBack, Listener!HeardByUnknown, Listener!sockVars, Listener!unknownVars, Listener!proxyVars
<1>5. ASSUME NEW d \in Conns, d # c PROVE ConnInv(d)'
  <2>1. \A kind \in Kinds : Count(l_events', kind, d) = Count(l_events, kind, d)
    BY <1>1, <1>2, <1>5 DEF Mailed, Kinds
  <2>2. SameFor(d)
    BY <1>1, <1>5, <2>1 DEF SameFor, ListenTypes, Listener!TypeOK, Listener!handleHelloBack, Listener!HeardByUnknown, Listener!sockVars, Listener!unknownVars, Listener!proxyVars
  <2>3. QED
    BY <2>2, SameKept DEF ListenerInv
<1>6. ConnInv(c)'
  <2>1. ArrivalInv(c) /\ UnknownInv(c) /\ OutcomeInv(c) /\ ProxyInv(c)
    BY DEF ListenerInv, ConnInv
  <2>2. ArrivalInv(c)'
    BY <1>1, <1>3, <2>1 DEF Moved, CountTypes, ArrivalInv, Arrivals, Fresh, UnknownInv, ProxyInv, ListenInv,
      ListenTypes, Listener!TypeOK, Listener!handleHelloBack, Listener!HeardByUnknown, Listener!sockVars, Listener!unknownVars, Listener!proxyVars
  <2>3. UnknownInv(c)'
    BY <1>1, <1>3, <2>1 DEF Moved, CountTypes, ArrivalInv, Arrivals, Fresh, UnknownInv, OutcomeInv, ProxyInv, ListenInv,
      ListenTypes, Listener!TypeOK, Listener!handleHelloBack, Listener!HeardByUnknown, Listener!sockVars, Listener!unknownVars, Listener!proxyVars
  <2>4. OutcomeInv(c)'
    BY <1>1, <1>3, <2>1 DEF Moved, CountTypes, ArrivalInv, Arrivals, Fresh, UnknownInv, OutcomeInv, ProxyInv, ListenInv,
      ListenTypes, Listener!TypeOK, Listener!handleHelloBack, Listener!HeardByUnknown, Listener!sockVars, Listener!unknownVars, Listener!proxyVars
  <2>5. ProxyInv(c)'
    BY <1>1, <1>3, <2>1 DEF Moved, CountTypes, ArrivalInv, Arrivals, Fresh, UnknownInv, OutcomeInv, ProxyInv, ListenInv,
      ListenTypes, Listener!TypeOK, Listener!handleHelloBack, Listener!HeardByUnknown, Listener!sockVars, Listener!unknownVars, Listener!proxyVars
  <2>6. QED
    BY <2>2, <2>3, <2>4, <2>5 DEF ConnInv
<1>7. WaitingInv'
  <2>1. waitingClients' = waitingClients /\ stopped' = stopped
    BY <1>1 DEF Listener!handleHelloBack, Listener!HeardByUnknown, Listener!sockVars, Listener!unknownVars, Listener!proxyVars
  <2>2. \A d \in Conns : l_owner'[d] = "listener" <=> l_owner[d] = "listener"
    BY <1>1 DEF ListenerInv, ConnInv, UnknownInv, ListenTypes, Listener!TypeOK, Listener!handleHelloBack, Listener!HeardByUnknown, Listener!sockVars, Listener!unknownVars, Listener!proxyVars
  <2>3. Len(waitingClients) \in Nat
    BY <1>1, Members DEF ListenTypes, Listener!TypeOK
  <2>4. /\ Count(l_events, "Handover", NoConn) \in Nat /\ Count(l_events', "Handover", NoConn) \in Nat
        /\ Count(l_events, "Handover", NoConn) <= Count(l_events', "Handover", NoConn)
    BY <1>3 DEF Moved, CountTypes
  <2>5. QED
    BY <1>1, <2>1, <2>2, <2>3, <2>4, WaitingSame
<1>8. ListenInv'
  BY <1>1, <1>3 DEF Moved, CountTypes, ListenInv, Listener!handleHelloBack, Listener!HeardByUnknown, Listener!sockVars, Listener!unknownVars, Listener!proxyVars
<1>9. QED
  BY <1>1, <1>4, <1>5, <1>6, <1>7, <1>8 DEF ListenerInv

LEMMA ListenHangsUp ==
    ASSUME Listener!ListenerAssumption, ListenerInv, NEW c \in Conns, Listener!proxyDisconnects(c)
    PROVE  ListenerInv'
<1>1. ListenTypes /\ WaitingInv /\ ListenInv /\ NoConn \notin Conns
  BY DEF ListenerInv, Listener!ListenerAssumption
<1>2. Mailed("Gone", c, "Disconnected", c)
  BY <1>1, MailStep, EvTyped DEF Listener!proxyDisconnects, Listener!HeardByProxy, Listener!SocketEvents, Listener!StreamEvents, Listener!OtherEvents
<1>3. l_events' \in Seq(Listener!Event) /\ CountTypes(c) /\ Moved(c, 0, 0, 0, 0, 0, 0, 0) /\ Count(l_events, "Gone", c) > 0
  <2>1. l_events' \in Seq(Listener!Event) /\ CountTypes(c) /\ Count(l_events, "Gone", c) > 0
    BY ONLY <1>2 DEF Mailed, CountTypes
  <2>2. Moved(c, 0, 0, 0, 0, 0, 0, 0)
    BY ONLY <1>1, <1>2, <2>1, SMTT(30) DEF Mailed, Moved, CountTypes
  <2>3. QED
    BY <2>1, <2>2
<1>4. ListenTypes'
  BY <1>1, <1>3 DEF ListenTypes, Listener!TypeOK, Listener!proxyDisconnects, Listener!HeardByProxy, Listener!sockVars, Listener!unknownVars, Listener!proxyVars
<1>5. ASSUME NEW d \in Conns, d # c PROVE ConnInv(d)'
  <2>1. \A kind \in Kinds : Count(l_events', kind, d) = Count(l_events, kind, d)
    BY <1>1, <1>2, <1>5 DEF Mailed, Kinds
  <2>2. SameFor(d)
    BY <1>1, <1>5, <2>1 DEF SameFor, ListenTypes, Listener!TypeOK, Listener!proxyDisconnects, Listener!HeardByProxy, Listener!sockVars, Listener!unknownVars, Listener!proxyVars
  <2>3. QED
    BY <2>2, SameKept DEF ListenerInv
<1>6. ConnInv(c)'
  <2>1. ArrivalInv(c) /\ UnknownInv(c) /\ OutcomeInv(c) /\ ProxyInv(c)
    BY DEF ListenerInv, ConnInv
  <2>2. ArrivalInv(c)'
    <3>1. Arrivals(l_events', c) = Arrivals(l_events, c)
      BY ONLY <1>3 DEF Moved, CountTypes, Arrivals
    <3>2. proxy[c] # "none" /\ socket'[c] = "closed" /\ l_peer' = l_peer /\ clientSockets' = clientSockets /\ stopped' = stopped
      BY <1>1 DEF Listener!proxyDisconnects, Listener!HeardByProxy, ListenTypes, Listener!TypeOK
    <3>3. QED
      BY ONLY <2>1, <3>1, <3>2 DEF ArrivalInv, Fresh
  <2>3. UnknownInv(c)'
    BY <1>1, <1>3, <2>1 DEF Moved, CountTypes, ArrivalInv, Arrivals, Fresh, UnknownInv, OutcomeInv, ProxyInv, ListenInv,
      ListenTypes, Listener!TypeOK, Listener!proxyDisconnects, Listener!HeardByProxy, Listener!sockVars, Listener!unknownVars, Listener!proxyVars
  <2>4. OutcomeInv(c)'
    BY <1>1, <1>3, <2>1 DEF Moved, CountTypes, ArrivalInv, Arrivals, Fresh, UnknownInv, OutcomeInv, ProxyInv, ListenInv,
      ListenTypes, Listener!TypeOK, Listener!proxyDisconnects, Listener!HeardByProxy, Listener!sockVars, Listener!unknownVars, Listener!proxyVars
  <2>5. ProxyInv(c)'
    BY <1>1, <1>3, <2>1 DEF Moved, CountTypes, ArrivalInv, Arrivals, Fresh, UnknownInv, OutcomeInv, ProxyInv, ListenInv,
      ListenTypes, Listener!TypeOK, Listener!proxyDisconnects, Listener!HeardByProxy, Listener!sockVars, Listener!unknownVars, Listener!proxyVars
  <2>6. QED
    BY <2>2, <2>3, <2>4, <2>5 DEF ConnInv
<1>7. WaitingInv'
  <2>1. waitingClients' = waitingClients /\ stopped' = stopped
    BY <1>1 DEF Listener!proxyDisconnects, Listener!HeardByProxy, Listener!sockVars, Listener!unknownVars, Listener!proxyVars
  <2>2. \A d \in Conns : l_owner'[d] = "listener" <=> l_owner[d] = "listener"
    BY <1>1 DEF ListenerInv, ConnInv, UnknownInv, ListenTypes, Listener!TypeOK, Listener!proxyDisconnects, Listener!HeardByProxy, Listener!sockVars, Listener!unknownVars, Listener!proxyVars
  <2>3. Len(waitingClients) \in Nat
    BY <1>1, Members DEF ListenTypes, Listener!TypeOK
  <2>4. /\ Count(l_events, "Handover", NoConn) \in Nat /\ Count(l_events', "Handover", NoConn) \in Nat
        /\ Count(l_events, "Handover", NoConn) <= Count(l_events', "Handover", NoConn)
    BY <1>3 DEF Moved, CountTypes
  <2>5. QED
    BY <1>1, <2>1, <2>2, <2>3, <2>4, WaitingSame
<1>8. ListenInv'
  BY <1>1, <1>3 DEF Moved, CountTypes, ListenInv, Listener!proxyDisconnects, Listener!HeardByProxy, Listener!sockVars, Listener!unknownVars, Listener!proxyVars
<1>9. QED
  BY <1>1, <1>4, <1>5, <1>6, <1>7, <1>8 DEF ListenerInv

LEMMA ListenTimesOut ==
    ASSUME Listener!ListenerAssumption, ListenerInv, NEW c \in Conns, Listener!handleTimeout(c)
    PROVE  ListenerInv'
<1>1. ListenTypes /\ WaitingInv /\ ListenInv /\ NoConn \notin Conns
  BY DEF ListenerInv, Listener!ListenerAssumption
<1>2. Mailed("none", NoConn, "Failure", c)
  BY <1>1, MailStep, EvTyped DEF Listener!handleTimeout, Listener!sendFailure, Listener!SocketEvents, Listener!StreamEvents, Listener!OtherEvents
<1>3. l_events' \in Seq(Listener!Event) /\ CountTypes(c) /\ Moved(c, 0, 0, 0, 0, 1, 0, 0)
  <2>1. l_events' \in Seq(Listener!Event) /\ CountTypes(c)
    BY ONLY <1>2 DEF Mailed, CountTypes
  <2>2. Moved(c, 0, 0, 0, 0, 1, 0, 0)
    BY ONLY <1>1, <1>2, <2>1, SMTT(30) DEF Mailed, Moved, CountTypes
  <2>3. QED
    BY <2>1, <2>2
<1>4. ListenTypes'
  BY <1>1, <1>3 DEF ListenTypes, Listener!TypeOK, Listener!handleTimeout, Listener!sendFailure, Listener!sockVars, Listener!unknownVars, Listener!proxyVars
<1>5. ASSUME NEW d \in Conns, d # c PROVE ConnInv(d)'
  <2>1. \A kind \in Kinds : Count(l_events', kind, d) = Count(l_events, kind, d)
    BY <1>1, <1>2, <1>5 DEF Mailed, Kinds
  <2>2. SameFor(d)
    BY <1>1, <1>5, <2>1 DEF SameFor, ListenTypes, Listener!TypeOK, Listener!handleTimeout, Listener!sendFailure, Listener!sockVars, Listener!unknownVars, Listener!proxyVars
  <2>3. QED
    BY <2>2, SameKept DEF ListenerInv
<1>6. ConnInv(c)'
  <2>1. ArrivalInv(c) /\ UnknownInv(c) /\ OutcomeInv(c) /\ ProxyInv(c)
    BY DEF ListenerInv, ConnInv
  <2>2. ArrivalInv(c)'
    BY <1>1, <1>3, <2>1 DEF Moved, CountTypes, ArrivalInv, Arrivals, Fresh, UnknownInv, ProxyInv, ListenInv,
      ListenTypes, Listener!TypeOK, Listener!handleTimeout, Listener!sendFailure, Listener!sockVars, Listener!unknownVars, Listener!proxyVars
  <2>3. UnknownInv(c)'
    BY <1>1, <1>3, <2>1 DEF Moved, CountTypes, ArrivalInv, Arrivals, Fresh, UnknownInv, OutcomeInv, ProxyInv, ListenInv,
      ListenTypes, Listener!TypeOK, Listener!handleTimeout, Listener!sendFailure, Listener!sockVars, Listener!unknownVars, Listener!proxyVars
  <2>4. OutcomeInv(c)'
    BY <1>1, <1>3, <2>1 DEF Moved, CountTypes, ArrivalInv, Arrivals, Fresh, UnknownInv, OutcomeInv, ProxyInv, ListenInv,
      ListenTypes, Listener!TypeOK, Listener!handleTimeout, Listener!sendFailure, Listener!sockVars, Listener!unknownVars, Listener!proxyVars
  <2>5. ProxyInv(c)'
    BY <1>1, <1>3, <2>1 DEF Moved, CountTypes, ArrivalInv, Arrivals, Fresh, UnknownInv, OutcomeInv, ProxyInv, ListenInv,
      ListenTypes, Listener!TypeOK, Listener!handleTimeout, Listener!sendFailure, Listener!sockVars, Listener!unknownVars, Listener!proxyVars
  <2>6. QED
    BY <2>2, <2>3, <2>4, <2>5 DEF ConnInv
<1>7. WaitingInv'
  <2>1. waitingClients' = waitingClients /\ stopped' = stopped
    BY <1>1 DEF Listener!handleTimeout, Listener!sendFailure, Listener!sockVars, Listener!unknownVars, Listener!proxyVars
  <2>2. \A d \in Conns : l_owner'[d] = "listener" <=> l_owner[d] = "listener"
    BY <1>1 DEF ListenerInv, ConnInv, UnknownInv, ListenTypes, Listener!TypeOK, Listener!handleTimeout, Listener!sendFailure, Listener!sockVars, Listener!unknownVars, Listener!proxyVars
  <2>3. Len(waitingClients) \in Nat
    BY <1>1, Members DEF ListenTypes, Listener!TypeOK
  <2>4. /\ Count(l_events, "Handover", NoConn) \in Nat /\ Count(l_events', "Handover", NoConn) \in Nat
        /\ Count(l_events, "Handover", NoConn) <= Count(l_events', "Handover", NoConn)
    BY <1>3 DEF Moved, CountTypes
  <2>5. QED
    BY <1>1, <2>1, <2>2, <2>3, <2>4, WaitingSame
<1>8. ListenInv'
  BY <1>1, <1>3 DEF Moved, CountTypes, ListenInv, Listener!handleTimeout, Listener!sendFailure, Listener!sockVars, Listener!unknownVars, Listener!proxyVars
<1>9. QED
  BY <1>1, <1>4, <1>5, <1>6, <1>7, <1>8 DEF ListenerInv

LEMMA ListenDeletes ==
    ASSUME Listener!ListenerAssumption, ListenerInv, NEW c \in Conns, Listener!serverDeletes(c)
    PROVE  ListenerInv'
<1>1. ListenTypes /\ WaitingInv /\ ListenInv /\ NoConn \notin Conns
  BY DEF ListenerInv, Listener!ListenerAssumption
<1>2. Mailed("none", NoConn, "none", NoConn)
  BY <1>1, MailStep, EvTyped DEF Listener!serverDeletes, Listener!proxyDeleted, Listener!SocketEvents, Listener!StreamEvents, Listener!OtherEvents
<1>3. l_events' \in Seq(Listener!Event) /\ CountTypes(c) /\ Moved(c, 0, 0, 0, 0, 0, 0, 0)
  <2>1. l_events' \in Seq(Listener!Event) /\ CountTypes(c)
    BY ONLY <1>2 DEF Mailed, CountTypes
  <2>2. Moved(c, 0, 0, 0, 0, 0, 0, 0)
    BY ONLY <1>1, <1>2, <2>1, SMTT(30) DEF Mailed, Moved, CountTypes
  <2>3. QED
    BY <2>1, <2>2
<1>4. ListenTypes'
  BY <1>1, <1>3 DEF ListenTypes, Listener!TypeOK, Listener!serverDeletes, Listener!proxyDeleted, Listener!sockVars, Listener!unknownVars, Listener!proxyVars
<1>5. ASSUME NEW d \in Conns, d # c PROVE ConnInv(d)'
  <2>1. \A kind \in Kinds : Count(l_events', kind, d) = Count(l_events, kind, d)
    BY <1>1, <1>2, <1>5 DEF Mailed, Kinds
  <2>2. SameFor(d)
    BY <1>1, <1>5, <2>1 DEF SameFor, ListenTypes, Listener!TypeOK, Listener!serverDeletes, Listener!proxyDeleted, Listener!sockVars, Listener!unknownVars, Listener!proxyVars
  <2>3. QED
    BY <2>2, SameKept DEF ListenerInv
<1>6. ConnInv(c)'
  <2>1. ArrivalInv(c) /\ UnknownInv(c) /\ OutcomeInv(c) /\ ProxyInv(c)
    BY DEF ListenerInv, ConnInv
  <2>2. ArrivalInv(c)'
    BY <1>1, <1>3, <2>1 DEF Moved, CountTypes, ArrivalInv, Arrivals, Fresh, UnknownInv, ProxyInv, ListenInv,
      ListenTypes, Listener!TypeOK, Listener!serverDeletes, Listener!proxyDeleted, Listener!sockVars, Listener!unknownVars, Listener!proxyVars
  <2>3. UnknownInv(c)'
    BY <1>1, <1>3, <2>1 DEF Moved, CountTypes, ArrivalInv, Arrivals, Fresh, UnknownInv, OutcomeInv, ProxyInv, ListenInv,
      ListenTypes, Listener!TypeOK, Listener!serverDeletes, Listener!proxyDeleted, Listener!sockVars, Listener!unknownVars, Listener!proxyVars
  <2>4. OutcomeInv(c)'
    BY <1>1, <1>3, <2>1 DEF Moved, CountTypes, ArrivalInv, Arrivals, Fresh, UnknownInv, OutcomeInv, ProxyInv, ListenInv,
      ListenTypes, Listener!TypeOK, Listener!serverDeletes, Listener!proxyDeleted, Listener!sockVars, Listener!unknownVars, Listener!proxyVars
  <2>5. ProxyInv(c)'
    BY <1>1, <1>3, <2>1 DEF Moved, CountTypes, ArrivalInv, Arrivals, Fresh, UnknownInv, OutcomeInv, ProxyInv, ListenInv,
      ListenTypes, Listener!TypeOK, Listener!serverDeletes, Listener!proxyDeleted, Listener!sockVars, Listener!unknownVars, Listener!proxyVars
  <2>6. QED
    BY <2>2, <2>3, <2>4, <2>5 DEF ConnInv
<1>7. WaitingInv'
  <2>1. waitingClients' = waitingClients /\ stopped' = stopped
    BY <1>1 DEF Listener!serverDeletes, Listener!proxyDeleted, Listener!sockVars, Listener!unknownVars, Listener!proxyVars
  <2>2. \A d \in Conns : l_owner'[d] = "listener" <=> l_owner[d] = "listener"
    BY <1>1 DEF ListenerInv, ConnInv, UnknownInv, ListenTypes, Listener!TypeOK, Listener!serverDeletes, Listener!proxyDeleted, Listener!sockVars, Listener!unknownVars, Listener!proxyVars
  <2>3. Len(waitingClients) \in Nat
    BY <1>1, Members DEF ListenTypes, Listener!TypeOK
  <2>4. /\ Count(l_events, "Handover", NoConn) \in Nat /\ Count(l_events', "Handover", NoConn) \in Nat
        /\ Count(l_events, "Handover", NoConn) <= Count(l_events', "Handover", NoConn)
    BY <1>3 DEF Moved, CountTypes
  <2>5. QED
    BY <1>1, <2>1, <2>2, <2>3, <2>4, WaitingSame
<1>8. ListenInv'
  BY <1>1, <1>3 DEF Moved, CountTypes, ListenInv, Listener!serverDeletes, Listener!proxyDeleted, Listener!sockVars, Listener!unknownVars, Listener!proxyVars
<1>9. QED
  BY <1>1, <1>4, <1>5, <1>6, <1>7, <1>8 DEF ListenerInv

LEMMA ListenFails ==
    ASSUME Listener!ListenerAssumption, ListenerInv, NEW c \in Conns, Listener!handleFailure(c)
    PROVE  ListenerInv'
<1>1. ListenTypes /\ WaitingInv /\ ListenInv /\ NoConn \notin Conns
  BY DEF ListenerInv, Listener!ListenerAssumption
<1>2. Mailed("Failure", c, "none", NoConn)
  BY <1>1, MailStep, EvTyped DEF Listener!handleFailure, Listener!removeClientSocket, Listener!removeUnknownClient, Listener!SocketEvents, Listener!StreamEvents, Listener!OtherEvents
<1>3. l_events' \in Seq(Listener!Event) /\ CountTypes(c) /\ Moved(c, 0, 0, 0, 0, 0 - 1, 0, 0) /\ Count(l_events, "Failure", c) > 0
  <2>1. l_events' \in Seq(Listener!Event) /\ CountTypes(c) /\ Count(l_events, "Failure", c) > 0
    BY ONLY <1>2 DEF Mailed, CountTypes
  <2>2. Moved(c, 0, 0, 0, 0, 0 - 1, 0, 0)
    BY ONLY <1>1, <1>2, <2>1, SMTT(30) DEF Mailed, Moved, CountTypes
  <2>3. QED
    BY <2>1, <2>2
<1>4. ListenTypes'
  BY <1>1, <1>3 DEF ListenTypes, Listener!TypeOK, Listener!handleFailure, Listener!removeClientSocket, Listener!removeUnknownClient, Listener!sockVars, Listener!unknownVars, Listener!proxyVars
<1>5. ASSUME NEW d \in Conns, d # c PROVE ConnInv(d)'
  <2>1. \A kind \in Kinds : Count(l_events', kind, d) = Count(l_events, kind, d)
    BY <1>1, <1>2, <1>5 DEF Mailed, Kinds
  <2>2. SameFor(d)
    BY <1>1, <1>5, <2>1 DEF SameFor, ListenTypes, Listener!TypeOK, Listener!handleFailure, Listener!removeClientSocket, Listener!removeUnknownClient, Listener!sockVars, Listener!unknownVars, Listener!proxyVars
  <2>3. QED
    BY <2>2, SameKept DEF ListenerInv
<1>6. ConnInv(c)'
  <2>1. ArrivalInv(c) /\ UnknownInv(c) /\ OutcomeInv(c) /\ ProxyInv(c)
    BY DEF ListenerInv, ConnInv
  <2>2. ArrivalInv(c)'
    BY <1>1, <1>3, <2>1 DEF Moved, CountTypes, ArrivalInv, Arrivals, Fresh, UnknownInv, ProxyInv, ListenInv,
      ListenTypes, Listener!TypeOK, Listener!handleFailure, Listener!removeClientSocket, Listener!removeUnknownClient, Listener!sockVars, Listener!unknownVars, Listener!proxyVars
  <2>3. UnknownInv(c)'
    BY <1>1, <1>3, <2>1 DEF Moved, CountTypes, ArrivalInv, Arrivals, Fresh, UnknownInv, OutcomeInv, ProxyInv, ListenInv,
      ListenTypes, Listener!TypeOK, Listener!handleFailure, Listener!removeClientSocket, Listener!removeUnknownClient, Listener!sockVars, Listener!unknownVars, Listener!proxyVars
  <2>4. OutcomeInv(c)'
    BY <1>1, <1>3, <2>1 DEF Moved, CountTypes, ArrivalInv, Arrivals, Fresh, UnknownInv, OutcomeInv, ProxyInv, ListenInv,
      ListenTypes, Listener!TypeOK, Listener!handleFailure, Listener!removeClientSocket, Listener!removeUnknownClient, Listener!sockVars, Listener!unknownVars, Listener!proxyVars
  <2>5. ProxyInv(c)'
    BY <1>1, <1>3, <2>1 DEF Moved, CountTypes, ArrivalInv, Arrivals, Fresh, UnknownInv, OutcomeInv, ProxyInv, ListenInv,
      ListenTypes, Listener!TypeOK, Listener!handleFailure, Listener!removeClientSocket, Listener!removeUnknownClient, Listener!sockVars, Listener!unknownVars, Listener!proxyVars
  <2>6. QED
    BY <2>2, <2>3, <2>4, <2>5 DEF ConnInv
<1>7. WaitingInv'
  <2>1. waitingClients' = waitingClients /\ stopped' = stopped
    BY <1>1 DEF Listener!handleFailure, Listener!removeClientSocket, Listener!removeUnknownClient, Listener!sockVars, Listener!unknownVars, Listener!proxyVars
  <2>2. \A d \in Conns : l_owner'[d] = "listener" <=> l_owner[d] = "listener"
    BY <1>1 DEF ListenerInv, ConnInv, UnknownInv, ListenTypes, Listener!TypeOK, Listener!handleFailure, Listener!removeClientSocket, Listener!removeUnknownClient, Listener!sockVars, Listener!unknownVars, Listener!proxyVars
  <2>3. Len(waitingClients) \in Nat
    BY <1>1, Members DEF ListenTypes, Listener!TypeOK
  <2>4. /\ Count(l_events, "Handover", NoConn) \in Nat /\ Count(l_events', "Handover", NoConn) \in Nat
        /\ Count(l_events, "Handover", NoConn) <= Count(l_events', "Handover", NoConn)
    BY <1>3 DEF Moved, CountTypes
  <2>5. QED
    BY <1>1, <2>1, <2>2, <2>3, <2>4, WaitingSame
<1>8. ListenInv'
  BY <1>1, <1>3 DEF Moved, CountTypes, ListenInv, Listener!handleFailure, Listener!removeClientSocket, Listener!removeUnknownClient, Listener!sockVars, Listener!unknownVars, Listener!proxyVars
<1>9. QED
  BY <1>1, <1>4, <1>5, <1>6, <1>7, <1>8 DEF ListenerInv

LEMMA ListenSecures ==
    ASSUME Listener!ListenerAssumption, ListenerInv, NEW c \in Conns, Listener!secured(c)
    PROVE  ListenerInv'
<1>1. CASE l_events' = Append(l_events, Listener!Ev("Accepted", c)) /\ l_peer' = [l_peer EXCEPT ![c] = "silent"]
  <2>1. ListenTypes /\ WaitingInv /\ ListenInv /\ NoConn \notin Conns
    BY DEF ListenerInv, Listener!ListenerAssumption
  <2>2. Mailed("none", NoConn, "Accepted", c)
    BY <2>1, <1>1, MailStep, EvTyped DEF Listener!secured, Listener!Served, Listener!SocketEvents, Listener!StreamEvents, Listener!OtherEvents
  <2>3. l_events' \in Seq(Listener!Event) /\ CountTypes(c) /\ Moved(c, 1, 0, 0, 0, 0, 0, 0)
    <3>1. l_events' \in Seq(Listener!Event) /\ CountTypes(c)
      BY ONLY <2>2 DEF Mailed, CountTypes
    <3>2. Moved(c, 1, 0, 0, 0, 0, 0, 0)
      BY ONLY <2>1, <2>2, <3>1, SMTT(30) DEF Mailed, Moved, CountTypes
    <3>3. QED
      BY <3>1, <3>2
  <2>4. ListenTypes'
    BY <2>1, <2>3, <1>1 DEF ListenTypes, Listener!TypeOK, Listener!secured, Listener!Served, Listener!sockVars, Listener!unknownVars, Listener!proxyVars
  <2>5. ASSUME NEW d \in Conns, d # c PROVE ConnInv(d)'
    <3>1. \A kind \in Kinds : Count(l_events', kind, d) = Count(l_events, kind, d)
      BY <2>1, <2>2, <2>5 DEF Mailed, Kinds
    <3>2. SameFor(d)
      BY <2>1, <2>5, <3>1, <1>1 DEF SameFor, ListenTypes, Listener!TypeOK, Listener!secured, Listener!Served, Listener!sockVars, Listener!unknownVars, Listener!proxyVars
    <3>3. QED
      BY <3>2, SameKept DEF ListenerInv
  <2>6. ConnInv(c)'
    <3>1. ArrivalInv(c) /\ UnknownInv(c) /\ OutcomeInv(c) /\ ProxyInv(c)
      BY DEF ListenerInv, ConnInv
    <3>2. ArrivalInv(c)'
      BY <2>1, <2>3, <3>1, <1>1 DEF Moved, CountTypes, ArrivalInv, Arrivals, Fresh, UnknownInv, ProxyInv, ListenInv,
        ListenTypes, Listener!TypeOK, Listener!secured, Listener!Served, Listener!sockVars, Listener!unknownVars, Listener!proxyVars
    <3>3. UnknownInv(c)'
      BY <2>1, <2>3, <3>1, <1>1 DEF Moved, CountTypes, ArrivalInv, Arrivals, Fresh, UnknownInv, OutcomeInv, ProxyInv, ListenInv,
        ListenTypes, Listener!TypeOK, Listener!secured, Listener!Served, Listener!sockVars, Listener!unknownVars, Listener!proxyVars
    <3>4. OutcomeInv(c)'
      BY <2>1, <2>3, <3>1, <1>1 DEF Moved, CountTypes, ArrivalInv, Arrivals, Fresh, UnknownInv, OutcomeInv, ProxyInv, ListenInv,
        ListenTypes, Listener!TypeOK, Listener!secured, Listener!Served, Listener!sockVars, Listener!unknownVars, Listener!proxyVars
    <3>5. ProxyInv(c)'
      BY <2>1, <2>3, <3>1, <1>1 DEF Moved, CountTypes, ArrivalInv, Arrivals, Fresh, UnknownInv, OutcomeInv, ProxyInv, ListenInv,
        ListenTypes, Listener!TypeOK, Listener!secured, Listener!Served, Listener!sockVars, Listener!unknownVars, Listener!proxyVars
    <3>6. QED
      BY <3>2, <3>3, <3>4, <3>5 DEF ConnInv
  <2>7. WaitingInv'
    <3>1. waitingClients' = waitingClients /\ stopped' = stopped
      BY <1>1 DEF Listener!secured, Listener!Served, Listener!sockVars, Listener!unknownVars, Listener!proxyVars
    <3>2. \A d \in Conns : l_owner'[d] = "listener" <=> l_owner[d] = "listener"
      BY <2>1, <1>1 DEF ListenerInv, ConnInv, UnknownInv, ListenTypes, Listener!TypeOK, Listener!secured, Listener!Served, Listener!sockVars, Listener!unknownVars, Listener!proxyVars
    <3>3. Len(waitingClients) \in Nat
      BY <2>1, Members DEF ListenTypes, Listener!TypeOK
    <3>4. /\ Count(l_events, "Handover", NoConn) \in Nat /\ Count(l_events', "Handover", NoConn) \in Nat
          /\ Count(l_events, "Handover", NoConn) <= Count(l_events', "Handover", NoConn)
      BY <2>3 DEF Moved, CountTypes
    <3>5. QED
      BY <2>1, <3>1, <3>2, <3>3, <3>4, WaitingSame
  <2>8. ListenInv'
    BY <2>1, <2>3, <1>1 DEF Moved, CountTypes, ListenInv, Listener!secured, Listener!Served, Listener!sockVars, Listener!unknownVars, Listener!proxyVars
  <2>9. QED
    BY <2>1, <2>4, <2>5, <2>6, <2>7, <2>8 DEF ListenerInv
<1>2. CASE /\ l_events' = Append(l_events, Listener!Ev("DisconnectedOnAccept", c))
           /\ l_peer' = [l_peer EXCEPT ![c] = "left"]
  <2>1. ListenTypes /\ WaitingInv /\ ListenInv /\ NoConn \notin Conns
    BY DEF ListenerInv, Listener!ListenerAssumption
  <2>2. Mailed("none", NoConn, "DisconnectedOnAccept", c)
    BY <2>1, <1>2, MailStep, EvTyped DEF Listener!secured, Listener!Served, Listener!SocketEvents, Listener!StreamEvents, Listener!OtherEvents
  <2>3. l_events' \in Seq(Listener!Event) /\ CountTypes(c) /\ Moved(c, 0, 1, 0, 0, 0, 0, 0)
    <3>1. l_events' \in Seq(Listener!Event) /\ CountTypes(c)
      BY ONLY <2>2 DEF Mailed, CountTypes
    <3>2. Moved(c, 0, 1, 0, 0, 0, 0, 0)
      BY ONLY <2>1, <2>2, <3>1, SMTT(30) DEF Mailed, Moved, CountTypes
    <3>3. QED
      BY <3>1, <3>2
  <2>4. ListenTypes'
    BY <2>1, <2>3, <1>2 DEF ListenTypes, Listener!TypeOK, Listener!secured, Listener!Served, Listener!sockVars, Listener!unknownVars, Listener!proxyVars
  <2>5. ASSUME NEW d \in Conns, d # c PROVE ConnInv(d)'
    <3>1. \A kind \in Kinds : Count(l_events', kind, d) = Count(l_events, kind, d)
      BY <2>1, <2>2, <2>5 DEF Mailed, Kinds
    <3>2. SameFor(d)
      BY <2>1, <2>5, <3>1, <1>2 DEF SameFor, ListenTypes, Listener!TypeOK, Listener!secured, Listener!Served, Listener!sockVars, Listener!unknownVars, Listener!proxyVars
    <3>3. QED
      BY <3>2, SameKept DEF ListenerInv
  <2>6. ConnInv(c)'
    <3>1. ArrivalInv(c) /\ UnknownInv(c) /\ OutcomeInv(c) /\ ProxyInv(c)
      BY DEF ListenerInv, ConnInv
    <3>2. ArrivalInv(c)'
      BY <2>1, <2>3, <3>1, <1>2 DEF Moved, CountTypes, ArrivalInv, Arrivals, Fresh, UnknownInv, ProxyInv, ListenInv,
        ListenTypes, Listener!TypeOK, Listener!secured, Listener!Served, Listener!sockVars, Listener!unknownVars, Listener!proxyVars
    <3>3. UnknownInv(c)'
      BY <2>1, <2>3, <3>1, <1>2 DEF Moved, CountTypes, ArrivalInv, Arrivals, Fresh, UnknownInv, OutcomeInv, ProxyInv, ListenInv,
        ListenTypes, Listener!TypeOK, Listener!secured, Listener!Served, Listener!sockVars, Listener!unknownVars, Listener!proxyVars
    <3>4. OutcomeInv(c)'
      BY <2>1, <2>3, <3>1, <1>2 DEF Moved, CountTypes, ArrivalInv, Arrivals, Fresh, UnknownInv, OutcomeInv, ProxyInv, ListenInv,
        ListenTypes, Listener!TypeOK, Listener!secured, Listener!Served, Listener!sockVars, Listener!unknownVars, Listener!proxyVars
    <3>5. ProxyInv(c)'
      BY <2>1, <2>3, <3>1, <1>2 DEF Moved, CountTypes, ArrivalInv, Arrivals, Fresh, UnknownInv, OutcomeInv, ProxyInv, ListenInv,
        ListenTypes, Listener!TypeOK, Listener!secured, Listener!Served, Listener!sockVars, Listener!unknownVars, Listener!proxyVars
    <3>6. QED
      BY <3>2, <3>3, <3>4, <3>5 DEF ConnInv
  <2>7. WaitingInv'
    <3>1. waitingClients' = waitingClients /\ stopped' = stopped
      BY <1>2 DEF Listener!secured, Listener!Served, Listener!sockVars, Listener!unknownVars, Listener!proxyVars
    <3>2. \A d \in Conns : l_owner'[d] = "listener" <=> l_owner[d] = "listener"
      BY <2>1, <1>2 DEF ListenerInv, ConnInv, UnknownInv, ListenTypes, Listener!TypeOK, Listener!secured, Listener!Served, Listener!sockVars, Listener!unknownVars, Listener!proxyVars
    <3>3. Len(waitingClients) \in Nat
      BY <2>1, Members DEF ListenTypes, Listener!TypeOK
    <3>4. /\ Count(l_events, "Handover", NoConn) \in Nat /\ Count(l_events', "Handover", NoConn) \in Nat
          /\ Count(l_events, "Handover", NoConn) <= Count(l_events', "Handover", NoConn)
      BY <2>3 DEF Moved, CountTypes
    <3>5. QED
      BY <2>1, <3>1, <3>2, <3>3, <3>4, WaitingSame
  <2>8. ListenInv'
    BY <2>1, <2>3, <1>2 DEF Moved, CountTypes, ListenInv, Listener!secured, Listener!Served, Listener!sockVars, Listener!unknownVars, Listener!proxyVars
  <2>9. QED
    BY <2>1, <2>4, <2>5, <2>6, <2>7, <2>8 DEF ListenerInv
<1>3. QED
  BY <1>1, <1>2 DEF Listener!secured

LEMMA ListenReplies ==
    ASSUME Listener!ListenerAssumption, ListenerInv, NEW c \in Conns, Listener!replies(c)
    PROVE  ListenerInv'
<1>1. CASE l_events' = Append(l_events, Listener!Ev("HelloBack", c))
  <2>1. ListenTypes /\ WaitingInv /\ ListenInv /\ NoConn \notin Conns
    BY DEF ListenerInv, Listener!ListenerAssumption
  <2>2. Mailed("none", NoConn, "HelloBack", c)
    BY <2>1, <1>1, MailStep, EvTyped DEF Listener!replies, Listener!Served, Listener!SocketEvents, Listener!StreamEvents, Listener!OtherEvents
  <2>3. l_events' \in Seq(Listener!Event) /\ CountTypes(c) /\ Moved(c, 0, 0, 0, 0, 0, 0, 0)
    <3>1. l_events' \in Seq(Listener!Event) /\ CountTypes(c)
      BY ONLY <2>2 DEF Mailed, CountTypes
    <3>2. Moved(c, 0, 0, 0, 0, 0, 0, 0)
      BY ONLY <2>1, <2>2, <3>1, SMTT(30) DEF Mailed, Moved, CountTypes
    <3>3. QED
      BY <3>1, <3>2
  <2>4. ListenTypes'
    BY <2>1, <2>3, <1>1 DEF ListenTypes, Listener!TypeOK, Listener!replies, Listener!Served, Listener!sockVars, Listener!unknownVars, Listener!proxyVars
  <2>5. ASSUME NEW d \in Conns, d # c PROVE ConnInv(d)'
    <3>1. \A kind \in Kinds : Count(l_events', kind, d) = Count(l_events, kind, d)
      BY <2>1, <2>2, <2>5 DEF Mailed, Kinds
    <3>2. SameFor(d)
      BY <2>1, <2>5, <3>1, <1>1 DEF SameFor, ListenTypes, Listener!TypeOK, Listener!replies, Listener!Served, Listener!sockVars, Listener!unknownVars, Listener!proxyVars
    <3>3. QED
      BY <3>2, SameKept DEF ListenerInv
  <2>6. ConnInv(c)'
    <3>1. ArrivalInv(c) /\ UnknownInv(c) /\ OutcomeInv(c) /\ ProxyInv(c)
      BY DEF ListenerInv, ConnInv
    <3>2. ArrivalInv(c)'
      BY <2>1, <2>3, <3>1, <1>1 DEF Moved, CountTypes, ArrivalInv, Arrivals, Fresh, UnknownInv, ProxyInv, ListenInv,
        ListenTypes, Listener!TypeOK, Listener!replies, Listener!Served, Listener!sockVars, Listener!unknownVars, Listener!proxyVars
    <3>3. UnknownInv(c)'
      BY <2>1, <2>3, <3>1, <1>1 DEF Moved, CountTypes, ArrivalInv, Arrivals, Fresh, UnknownInv, OutcomeInv, ProxyInv, ListenInv,
        ListenTypes, Listener!TypeOK, Listener!replies, Listener!Served, Listener!sockVars, Listener!unknownVars, Listener!proxyVars
    <3>4. OutcomeInv(c)'
      BY <2>1, <2>3, <3>1, <1>1 DEF Moved, CountTypes, ArrivalInv, Arrivals, Fresh, UnknownInv, OutcomeInv, ProxyInv, ListenInv,
        ListenTypes, Listener!TypeOK, Listener!replies, Listener!Served, Listener!sockVars, Listener!unknownVars, Listener!proxyVars
    <3>5. ProxyInv(c)'
      BY <2>1, <2>3, <3>1, <1>1 DEF Moved, CountTypes, ArrivalInv, Arrivals, Fresh, UnknownInv, OutcomeInv, ProxyInv, ListenInv,
        ListenTypes, Listener!TypeOK, Listener!replies, Listener!Served, Listener!sockVars, Listener!unknownVars, Listener!proxyVars
    <3>6. QED
      BY <3>2, <3>3, <3>4, <3>5 DEF ConnInv
  <2>7. WaitingInv'
    <3>1. waitingClients' = waitingClients /\ stopped' = stopped
      BY <1>1 DEF Listener!replies, Listener!Served, Listener!sockVars, Listener!unknownVars, Listener!proxyVars
    <3>2. \A d \in Conns : l_owner'[d] = "listener" <=> l_owner[d] = "listener"
      BY <2>1, <1>1 DEF ListenerInv, ConnInv, UnknownInv, ListenTypes, Listener!TypeOK, Listener!replies, Listener!Served, Listener!sockVars, Listener!unknownVars, Listener!proxyVars
    <3>3. Len(waitingClients) \in Nat
      BY <2>1, Members DEF ListenTypes, Listener!TypeOK
    <3>4. /\ Count(l_events, "Handover", NoConn) \in Nat /\ Count(l_events', "Handover", NoConn) \in Nat
          /\ Count(l_events, "Handover", NoConn) <= Count(l_events', "Handover", NoConn)
      BY <2>3 DEF Moved, CountTypes
    <3>5. QED
      BY <2>1, <3>1, <3>2, <3>3, <3>4, WaitingSame
  <2>8. ListenInv'
    BY <2>1, <2>3, <1>1 DEF Moved, CountTypes, ListenInv, Listener!replies, Listener!Served, Listener!sockVars, Listener!unknownVars, Listener!proxyVars
  <2>9. QED
    BY <2>1, <2>4, <2>5, <2>6, <2>7, <2>8 DEF ListenerInv
<1>2. CASE l_events' = Append(l_events, Listener!Ev("BadHello", c))
  <2>1. ListenTypes /\ WaitingInv /\ ListenInv /\ NoConn \notin Conns
    BY DEF ListenerInv, Listener!ListenerAssumption
  <2>2. Mailed("none", NoConn, "BadHello", c)
    BY <2>1, <1>2, MailStep, EvTyped DEF Listener!replies, Listener!Served, Listener!SocketEvents, Listener!StreamEvents, Listener!OtherEvents
  <2>3. l_events' \in Seq(Listener!Event) /\ CountTypes(c) /\ Moved(c, 0, 0, 0, 0, 0, 0, 0)
    <3>1. l_events' \in Seq(Listener!Event) /\ CountTypes(c)
      BY ONLY <2>2 DEF Mailed, CountTypes
    <3>2. Moved(c, 0, 0, 0, 0, 0, 0, 0)
      BY ONLY <2>1, <2>2, <3>1, SMTT(30) DEF Mailed, Moved, CountTypes
    <3>3. QED
      BY <3>1, <3>2
  <2>4. ListenTypes'
    BY <2>1, <2>3, <1>2 DEF ListenTypes, Listener!TypeOK, Listener!replies, Listener!Served, Listener!sockVars, Listener!unknownVars, Listener!proxyVars
  <2>5. ASSUME NEW d \in Conns, d # c PROVE ConnInv(d)'
    <3>1. \A kind \in Kinds : Count(l_events', kind, d) = Count(l_events, kind, d)
      BY <2>1, <2>2, <2>5 DEF Mailed, Kinds
    <3>2. SameFor(d)
      BY <2>1, <2>5, <3>1, <1>2 DEF SameFor, ListenTypes, Listener!TypeOK, Listener!replies, Listener!Served, Listener!sockVars, Listener!unknownVars, Listener!proxyVars
    <3>3. QED
      BY <3>2, SameKept DEF ListenerInv
  <2>6. ConnInv(c)'
    <3>1. ArrivalInv(c) /\ UnknownInv(c) /\ OutcomeInv(c) /\ ProxyInv(c)
      BY DEF ListenerInv, ConnInv
    <3>2. ArrivalInv(c)'
      BY <2>1, <2>3, <3>1, <1>2 DEF Moved, CountTypes, ArrivalInv, Arrivals, Fresh, UnknownInv, ProxyInv, ListenInv,
        ListenTypes, Listener!TypeOK, Listener!replies, Listener!Served, Listener!sockVars, Listener!unknownVars, Listener!proxyVars
    <3>3. UnknownInv(c)'
      BY <2>1, <2>3, <3>1, <1>2 DEF Moved, CountTypes, ArrivalInv, Arrivals, Fresh, UnknownInv, OutcomeInv, ProxyInv, ListenInv,
        ListenTypes, Listener!TypeOK, Listener!replies, Listener!Served, Listener!sockVars, Listener!unknownVars, Listener!proxyVars
    <3>4. OutcomeInv(c)'
      BY <2>1, <2>3, <3>1, <1>2 DEF Moved, CountTypes, ArrivalInv, Arrivals, Fresh, UnknownInv, OutcomeInv, ProxyInv, ListenInv,
        ListenTypes, Listener!TypeOK, Listener!replies, Listener!Served, Listener!sockVars, Listener!unknownVars, Listener!proxyVars
    <3>5. ProxyInv(c)'
      BY <2>1, <2>3, <3>1, <1>2 DEF Moved, CountTypes, ArrivalInv, Arrivals, Fresh, UnknownInv, OutcomeInv, ProxyInv, ListenInv,
        ListenTypes, Listener!TypeOK, Listener!replies, Listener!Served, Listener!sockVars, Listener!unknownVars, Listener!proxyVars
    <3>6. QED
      BY <3>2, <3>3, <3>4, <3>5 DEF ConnInv
  <2>7. WaitingInv'
    <3>1. waitingClients' = waitingClients /\ stopped' = stopped
      BY <1>2 DEF Listener!replies, Listener!Served, Listener!sockVars, Listener!unknownVars, Listener!proxyVars
    <3>2. \A d \in Conns : l_owner'[d] = "listener" <=> l_owner[d] = "listener"
      BY <2>1, <1>2 DEF ListenerInv, ConnInv, UnknownInv, ListenTypes, Listener!TypeOK, Listener!replies, Listener!Served, Listener!sockVars, Listener!unknownVars, Listener!proxyVars
    <3>3. Len(waitingClients) \in Nat
      BY <2>1, Members DEF ListenTypes, Listener!TypeOK
    <3>4. /\ Count(l_events, "Handover", NoConn) \in Nat /\ Count(l_events', "Handover", NoConn) \in Nat
          /\ Count(l_events, "Handover", NoConn) <= Count(l_events', "Handover", NoConn)
      BY <2>3 DEF Moved, CountTypes
    <3>5. QED
      BY <2>1, <3>1, <3>2, <3>3, <3>4, WaitingSame
  <2>8. ListenInv'
    BY <2>1, <2>3, <1>2 DEF Moved, CountTypes, ListenInv, Listener!replies, Listener!Served, Listener!sockVars, Listener!unknownVars, Listener!proxyVars
  <2>9. QED
    BY <2>1, <2>4, <2>5, <2>6, <2>7, <2>8 DEF ListenerInv
<1>3. QED
  BY <1>1, <1>2 DEF Listener!replies

LEMMA ListenServes ==
    ASSUME Listener!ListenerAssumption, ListenerInv, Listener!serviceListening
    PROVE  ListenerInv'
<1>1. CASE listenJob' = "taken" /\ l_events' = Append(l_events, Listener!Ev("Connecting", NoConn))
  <2>1. ListenTypes /\ WaitingInv /\ ListenInv /\ NoConn \notin Conns
    BY DEF ListenerInv, Listener!ListenerAssumption
  <2>2. Mailed("none", NoConn, "Connecting", NoConn)
    BY <2>1, <1>1, MailStep, EvTyped DEF Listener!serviceListening, Listener!SocketEvents, Listener!StreamEvents, Listener!OtherEvents
  <2>3. l_events' \in Seq(Listener!Event) /\ CountTypes(NoConn) /\ Moved(NoConn, 0, 0, 0, 0, 0, 0, 1)
    <3>1. l_events' \in Seq(Listener!Event) /\ CountTypes(NoConn)
      BY ONLY <2>2 DEF Mailed, CountTypes
    <3>2. Moved(NoConn, 0, 0, 0, 0, 0, 0, 1)
      BY ONLY <2>1, <2>2, <3>1, SMTT(30) DEF Mailed, Moved, CountTypes
    <3>3. QED
      BY <3>1, <3>2
  <2>4. ListenTypes'
    BY <2>1, <2>3, <1>1 DEF ListenTypes, Listener!TypeOK, Listener!serviceListening, Listener!sockVars, Listener!unknownVars, Listener!proxyVars
  <2>5. ASSUME NEW d \in Conns PROVE ConnInv(d)'
    <3>1. \A kind \in Kinds : Count(l_events', kind, d) = Count(l_events, kind, d)
      BY <2>1, <2>2, <2>5 DEF Mailed, Kinds
    <3>2. SameFor(d)
      BY <2>1, <2>5, <3>1, <1>1 DEF SameFor, ListenTypes, Listener!TypeOK, Listener!serviceListening, Listener!sockVars, Listener!unknownVars, Listener!proxyVars
    <3>3. QED
      BY <3>2, SameKept DEF ListenerInv
  <2>6. TRUE
    OBVIOUS
  <2>7. WaitingInv'
    <3>1. waitingClients' = waitingClients /\ stopped' = stopped
      BY <1>1 DEF Listener!serviceListening, Listener!sockVars, Listener!unknownVars, Listener!proxyVars
    <3>2. \A d \in Conns : l_owner'[d] = "listener" <=> l_owner[d] = "listener"
      BY <2>1, <1>1 DEF ListenerInv, ConnInv, UnknownInv, ListenTypes, Listener!TypeOK, Listener!serviceListening, Listener!sockVars, Listener!unknownVars, Listener!proxyVars
    <3>3. Len(waitingClients) \in Nat
      BY <2>1, Members DEF ListenTypes, Listener!TypeOK
    <3>4. /\ Count(l_events, "Handover", NoConn) \in Nat /\ Count(l_events', "Handover", NoConn) \in Nat
          /\ Count(l_events, "Handover", NoConn) <= Count(l_events', "Handover", NoConn)
      BY <2>3 DEF Moved, CountTypes
    <3>5. QED
      BY <2>1, <3>1, <3>2, <3>3, <3>4, WaitingSame
  <2>8. ListenInv'
    BY <2>1, <2>3, <1>1 DEF Moved, CountTypes, ListenInv, Listener!serviceListening, Listener!sockVars, Listener!unknownVars, Listener!proxyVars
  <2>9. QED
    BY <2>1, <2>4, <2>5, <2>6, <2>7, <2>8 DEF ListenerInv
<1>2. CASE listenJob' = "stuck" /\ UNCHANGED l_events
  <2>1. ListenTypes /\ WaitingInv /\ ListenInv /\ NoConn \notin Conns
    BY DEF ListenerInv, Listener!ListenerAssumption
  <2>2. Mailed("none", NoConn, "none", NoConn)
    BY <2>1, <1>2, MailStep, EvTyped DEF Listener!serviceListening, Listener!SocketEvents, Listener!StreamEvents, Listener!OtherEvents
  <2>3. l_events' \in Seq(Listener!Event) /\ CountTypes(NoConn) /\ Moved(NoConn, 0, 0, 0, 0, 0, 0, 0)
    <3>1. l_events' \in Seq(Listener!Event) /\ CountTypes(NoConn)
      BY ONLY <2>2 DEF Mailed, CountTypes
    <3>2. Moved(NoConn, 0, 0, 0, 0, 0, 0, 0)
      BY ONLY <2>1, <2>2, <3>1, SMTT(30) DEF Mailed, Moved, CountTypes
    <3>3. QED
      BY <3>1, <3>2
  <2>4. ListenTypes'
    BY <2>1, <2>3, <1>2 DEF ListenTypes, Listener!TypeOK, Listener!serviceListening, Listener!sockVars, Listener!unknownVars, Listener!proxyVars
  <2>5. ASSUME NEW d \in Conns PROVE ConnInv(d)'
    <3>1. \A kind \in Kinds : Count(l_events', kind, d) = Count(l_events, kind, d)
      BY <2>1, <2>2, <2>5 DEF Mailed, Kinds
    <3>2. SameFor(d)
      BY <2>1, <2>5, <3>1, <1>2 DEF SameFor, ListenTypes, Listener!TypeOK, Listener!serviceListening, Listener!sockVars, Listener!unknownVars, Listener!proxyVars
    <3>3. QED
      BY <3>2, SameKept DEF ListenerInv
  <2>6. TRUE
    OBVIOUS
  <2>7. WaitingInv'
    <3>1. waitingClients' = waitingClients /\ stopped' = stopped
      BY <1>2 DEF Listener!serviceListening, Listener!sockVars, Listener!unknownVars, Listener!proxyVars
    <3>2. \A d \in Conns : l_owner'[d] = "listener" <=> l_owner[d] = "listener"
      BY <2>1, <1>2 DEF ListenerInv, ConnInv, UnknownInv, ListenTypes, Listener!TypeOK, Listener!serviceListening, Listener!sockVars, Listener!unknownVars, Listener!proxyVars
    <3>3. Len(waitingClients) \in Nat
      BY <2>1, Members DEF ListenTypes, Listener!TypeOK
    <3>4. /\ Count(l_events, "Handover", NoConn) \in Nat /\ Count(l_events', "Handover", NoConn) \in Nat
          /\ Count(l_events, "Handover", NoConn) <= Count(l_events', "Handover", NoConn)
      BY <2>3 DEF Moved, CountTypes
    <3>5. QED
      BY <2>1, <3>1, <3>2, <3>3, <3>4, WaitingSame
  <2>8. ListenInv'
    BY <2>1, <2>3, <1>2 DEF Moved, CountTypes, ListenInv, Listener!serviceListening, Listener!sockVars, Listener!unknownVars, Listener!proxyVars
  <2>9. QED
    BY <2>1, <2>4, <2>5, <2>6, <2>7, <2>8 DEF ListenerInv
<1>3. QED
  BY <1>1, <1>2 DEF Listener!serviceListening

LEMMA ListenAccepted ==
    ASSUME Listener!ListenerAssumption, ListenerInv, NEW c \in Conns, Listener!handleClientAccepted(c)
    PROVE  ListenerInv'
<1>1. CASE stopped
  <2>1. ListenTypes /\ WaitingInv /\ ListenInv /\ NoConn \notin Conns
    BY DEF ListenerInv, Listener!ListenerAssumption
  <2>2. Mailed("Accepted", c, "none", NoConn)
    BY <2>1, <1>1, MailStep, EvTyped DEF Listener!handleClientAccepted, Listener!SocketEvents, Listener!StreamEvents, Listener!OtherEvents
  <2>3. l_events' \in Seq(Listener!Event) /\ CountTypes(c) /\ Moved(c, 0 - 1, 0, 0, 0, 0, 0, 0) /\ Count(l_events, "Accepted", c) > 0
    <3>1. l_events' \in Seq(Listener!Event) /\ CountTypes(c) /\ Count(l_events, "Accepted", c) > 0
      BY ONLY <2>2 DEF Mailed, CountTypes
    <3>2. Moved(c, 0 - 1, 0, 0, 0, 0, 0, 0)
      BY ONLY <2>1, <2>2, <3>1, SMTT(30) DEF Mailed, Moved, CountTypes
    <3>3. QED
      BY <3>1, <3>2
  <2>4. ListenTypes'
    BY <2>1, <2>3, <1>1 DEF ListenTypes, Listener!TypeOK, Listener!handleClientAccepted, Listener!sockVars, Listener!unknownVars, Listener!proxyVars
  <2>5. ASSUME NEW d \in Conns, d # c PROVE ConnInv(d)'
    <3>1. \A kind \in Kinds : Count(l_events', kind, d) = Count(l_events, kind, d)
      BY <2>1, <2>2, <2>5 DEF Mailed, Kinds
    <3>2. SameFor(d)
      BY <2>1, <2>5, <3>1, <1>1 DEF SameFor, ListenTypes, Listener!TypeOK, Listener!handleClientAccepted, Listener!sockVars, Listener!unknownVars, Listener!proxyVars
    <3>3. QED
      BY <3>2, SameKept DEF ListenerInv
  <2>6. ConnInv(c)'
    <3>1. ArrivalInv(c) /\ UnknownInv(c) /\ OutcomeInv(c) /\ ProxyInv(c)
      BY DEF ListenerInv, ConnInv
    <3>2. ArrivalInv(c)'
      BY <2>1, <2>3, <3>1, <1>1 DEF Moved, CountTypes, ArrivalInv, Arrivals, Fresh, UnknownInv, ProxyInv, ListenInv,
        ListenTypes, Listener!TypeOK, Listener!handleClientAccepted, Listener!sockVars, Listener!unknownVars, Listener!proxyVars
    <3>3. UnknownInv(c)'
      BY <2>1, <2>3, <3>1, <1>1 DEF Moved, CountTypes, ArrivalInv, Arrivals, Fresh, UnknownInv, OutcomeInv, ProxyInv, ListenInv,
        ListenTypes, Listener!TypeOK, Listener!handleClientAccepted, Listener!sockVars, Listener!unknownVars, Listener!proxyVars
    <3>4. OutcomeInv(c)'
      BY <2>1, <2>3, <3>1, <1>1 DEF Moved, CountTypes, ArrivalInv, Arrivals, Fresh, UnknownInv, OutcomeInv, ProxyInv, ListenInv,
        ListenTypes, Listener!TypeOK, Listener!handleClientAccepted, Listener!sockVars, Listener!unknownVars, Listener!proxyVars
    <3>5. ProxyInv(c)'
      BY <2>1, <2>3, <3>1, <1>1 DEF Moved, CountTypes, ArrivalInv, Arrivals, Fresh, UnknownInv, OutcomeInv, ProxyInv, ListenInv,
        ListenTypes, Listener!TypeOK, Listener!handleClientAccepted, Listener!sockVars, Listener!unknownVars, Listener!proxyVars
    <3>6. QED
      BY <3>2, <3>3, <3>4, <3>5 DEF ConnInv
  <2>7. WaitingInv'
    <3>1. waitingClients' = waitingClients /\ stopped' = stopped
      BY <1>1 DEF Listener!handleClientAccepted, Listener!sockVars, Listener!unknownVars, Listener!proxyVars
    <3>2. \A d \in Conns : l_owner'[d] = "listener" <=> l_owner[d] = "listener"
      BY <2>1, <1>1 DEF ListenerInv, ConnInv, UnknownInv, ListenTypes, Listener!TypeOK, Listener!handleClientAccepted, Listener!sockVars, Listener!unknownVars, Listener!proxyVars
    <3>3. Len(waitingClients) \in Nat
      BY <2>1, Members DEF ListenTypes, Listener!TypeOK
    <3>4. /\ Count(l_events, "Handover", NoConn) \in Nat /\ Count(l_events', "Handover", NoConn) \in Nat
          /\ Count(l_events, "Handover", NoConn) <= Count(l_events', "Handover", NoConn)
      BY <2>3 DEF Moved, CountTypes
    <3>5. QED
      BY <2>1, <3>1, <3>2, <3>3, <3>4, WaitingSame
  <2>8. ListenInv'
    BY <2>1, <2>3, <1>1 DEF Moved, CountTypes, ListenInv, Listener!handleClientAccepted, Listener!sockVars, Listener!unknownVars, Listener!proxyVars
  <2>9. QED
    BY <2>1, <2>4, <2>5, <2>6, <2>7, <2>8 DEF ListenerInv
<1>2. CASE ~stopped
  <2>1. ListenTypes /\ WaitingInv /\ ListenInv /\ NoConn \notin Conns
    BY DEF ListenerInv, Listener!ListenerAssumption
  <2>2. Mailed("Accepted", c, "none", NoConn)
    BY <2>1, <1>2, MailStep, EvTyped DEF Listener!handleClientAccepted, Listener!SocketEvents, Listener!StreamEvents, Listener!OtherEvents
  <2>3. l_events' \in Seq(Listener!Event) /\ CountTypes(c) /\ Moved(c, 0 - 1, 0, 0, 0, 0, 0, 0) /\ Count(l_events, "Accepted", c) > 0
    <3>1. l_events' \in Seq(Listener!Event) /\ CountTypes(c) /\ Count(l_events, "Accepted", c) > 0
      BY ONLY <2>2 DEF Mailed, CountTypes
    <3>2. Moved(c, 0 - 1, 0, 0, 0, 0, 0, 0)
      BY ONLY <2>1, <2>2, <3>1, SMTT(30) DEF Mailed, Moved, CountTypes
    <3>3. QED
      BY <3>1, <3>2
  <2>4. ListenTypes'
    BY <2>1, <2>3, <1>2 DEF ListenTypes, Listener!TypeOK, Listener!handleClientAccepted, Listener!sockVars, Listener!unknownVars, Listener!proxyVars
  <2>5. ASSUME NEW d \in Conns, d # c PROVE ConnInv(d)'
    <3>1. \A kind \in Kinds : Count(l_events', kind, d) = Count(l_events, kind, d)
      BY <2>1, <2>2, <2>5 DEF Mailed, Kinds
    <3>2. SameFor(d)
      BY <2>1, <2>5, <3>1, <1>2 DEF SameFor, ListenTypes, Listener!TypeOK, Listener!handleClientAccepted, Listener!sockVars, Listener!unknownVars, Listener!proxyVars
    <3>3. QED
      BY <3>2, SameKept DEF ListenerInv
  <2>6. ConnInv(c)'
    <3>1. ArrivalInv(c) /\ UnknownInv(c) /\ OutcomeInv(c) /\ ProxyInv(c)
      BY DEF ListenerInv, ConnInv
    <3>2. ArrivalInv(c)'
      BY <2>1, <2>3, <3>1, <1>2 DEF Moved, CountTypes, ArrivalInv, Arrivals, Fresh, UnknownInv, ProxyInv, ListenInv,
        ListenTypes, Listener!TypeOK, Listener!handleClientAccepted, Listener!sockVars, Listener!unknownVars, Listener!proxyVars
    <3>3. UnknownInv(c)'
      BY <2>1, <2>3, <3>1, <1>2 DEF Moved, CountTypes, ArrivalInv, Arrivals, Fresh, UnknownInv, OutcomeInv, ProxyInv, ListenInv,
        ListenTypes, Listener!TypeOK, Listener!handleClientAccepted, Listener!sockVars, Listener!unknownVars, Listener!proxyVars
    <3>4. OutcomeInv(c)'
      BY <2>1, <2>3, <3>1, <1>2 DEF Moved, CountTypes, ArrivalInv, Arrivals, Fresh, UnknownInv, OutcomeInv, ProxyInv, ListenInv,
        ListenTypes, Listener!TypeOK, Listener!handleClientAccepted, Listener!sockVars, Listener!unknownVars, Listener!proxyVars
    <3>5. ProxyInv(c)'
      BY <2>1, <2>3, <3>1, <1>2 DEF Moved, CountTypes, ArrivalInv, Arrivals, Fresh, UnknownInv, OutcomeInv, ProxyInv, ListenInv,
        ListenTypes, Listener!TypeOK, Listener!handleClientAccepted, Listener!sockVars, Listener!unknownVars, Listener!proxyVars
    <3>6. QED
      BY <3>2, <3>3, <3>4, <3>5 DEF ConnInv
  <2>7. WaitingInv'
    <3>1. waitingClients' = waitingClients /\ stopped' = stopped
      BY <1>2 DEF Listener!handleClientAccepted, Listener!sockVars, Listener!unknownVars, Listener!proxyVars
    <3>2. \A d \in Conns : l_owner'[d] = "listener" <=> l_owner[d] = "listener"
      BY <2>1, <1>2 DEF ListenerInv, ConnInv, UnknownInv, ListenTypes, Listener!TypeOK, Listener!handleClientAccepted, Listener!sockVars, Listener!unknownVars, Listener!proxyVars
    <3>3. Len(waitingClients) \in Nat
      BY <2>1, Members DEF ListenTypes, Listener!TypeOK
    <3>4. /\ Count(l_events, "Handover", NoConn) \in Nat /\ Count(l_events', "Handover", NoConn) \in Nat
          /\ Count(l_events, "Handover", NoConn) <= Count(l_events', "Handover", NoConn)
      BY <2>3 DEF Moved, CountTypes
    <3>5. QED
      BY <2>1, <3>1, <3>2, <3>3, <3>4, WaitingSame
  <2>8. ListenInv'
    BY <2>1, <2>3, <1>2 DEF Moved, CountTypes, ListenInv, Listener!handleClientAccepted, Listener!sockVars, Listener!unknownVars, Listener!proxyVars
  <2>9. QED
    BY <2>1, <2>4, <2>5, <2>6, <2>7, <2>8 DEF ListenerInv
<1>3. QED
  BY <1>1, <1>2 DEF Listener!handleClientAccepted

LEMMA ListenRefuses ==
    ASSUME Listener!ListenerAssumption, ListenerInv, NEW c \in Conns, Listener!handleDisconnectedOnAccept(c)
    PROVE  ListenerInv'
<1>1. CASE stopped
  <2>1. ListenTypes /\ WaitingInv /\ ListenInv /\ NoConn \notin Conns
    BY DEF ListenerInv, Listener!ListenerAssumption
  <2>2. Mailed("DisconnectedOnAccept", c, "none", NoConn)
    BY <2>1, <1>1, MailStep, EvTyped DEF Listener!handleDisconnectedOnAccept, Listener!removeClientSocket, Listener!SocketEvents, Listener!StreamEvents, Listener!OtherEvents
  <2>3. l_events' \in Seq(Listener!Event) /\ CountTypes(c) /\ Moved(c, 0, 0 - 1, 0, 0, 0, 0, 0) /\ Count(l_events, "DisconnectedOnAccept", c) > 0
    <3>1. l_events' \in Seq(Listener!Event) /\ CountTypes(c) /\ Count(l_events, "DisconnectedOnAccept", c) > 0
      BY ONLY <2>2 DEF Mailed, CountTypes
    <3>2. Moved(c, 0, 0 - 1, 0, 0, 0, 0, 0)
      BY ONLY <2>1, <2>2, <3>1, SMTT(30) DEF Mailed, Moved, CountTypes
    <3>3. QED
      BY <3>1, <3>2
  <2>4. ListenTypes'
    BY <2>1, <2>3, <1>1 DEF ListenTypes, Listener!TypeOK, Listener!handleDisconnectedOnAccept, Listener!removeClientSocket, Listener!sockVars, Listener!unknownVars, Listener!proxyVars
  <2>5. ASSUME NEW d \in Conns, d # c PROVE ConnInv(d)'
    <3>1. \A kind \in Kinds : Count(l_events', kind, d) = Count(l_events, kind, d)
      BY <2>1, <2>2, <2>5 DEF Mailed, Kinds
    <3>2. SameFor(d)
      BY <2>1, <2>5, <3>1, <1>1 DEF SameFor, ListenTypes, Listener!TypeOK, Listener!handleDisconnectedOnAccept, Listener!removeClientSocket, Listener!sockVars, Listener!unknownVars, Listener!proxyVars
    <3>3. QED
      BY <3>2, SameKept DEF ListenerInv
  <2>6. ConnInv(c)'
    <3>1. ArrivalInv(c) /\ UnknownInv(c) /\ OutcomeInv(c) /\ ProxyInv(c)
      BY DEF ListenerInv, ConnInv
    <3>2. ArrivalInv(c)'
      BY <2>1, <2>3, <3>1, <1>1 DEF Moved, CountTypes, ArrivalInv, Arrivals, Fresh, UnknownInv, ProxyInv, ListenInv,
        ListenTypes, Listener!TypeOK, Listener!handleDisconnectedOnAccept, Listener!removeClientSocket, Listener!sockVars, Listener!unknownVars, Listener!proxyVars
    <3>3. UnknownInv(c)'
      BY <2>1, <2>3, <3>1, <1>1 DEF Moved, CountTypes, ArrivalInv, Arrivals, Fresh, UnknownInv, OutcomeInv, ProxyInv, ListenInv,
        ListenTypes, Listener!TypeOK, Listener!handleDisconnectedOnAccept, Listener!removeClientSocket, Listener!sockVars, Listener!unknownVars, Listener!proxyVars
    <3>4. OutcomeInv(c)'
      BY <2>1, <2>3, <3>1, <1>1 DEF Moved, CountTypes, ArrivalInv, Arrivals, Fresh, UnknownInv, OutcomeInv, ProxyInv, ListenInv,
        ListenTypes, Listener!TypeOK, Listener!handleDisconnectedOnAccept, Listener!removeClientSocket, Listener!sockVars, Listener!unknownVars, Listener!proxyVars
    <3>5. ProxyInv(c)'
      BY <2>1, <2>3, <3>1, <1>1 DEF Moved, CountTypes, ArrivalInv, Arrivals, Fresh, UnknownInv, OutcomeInv, ProxyInv, ListenInv,
        ListenTypes, Listener!TypeOK, Listener!handleDisconnectedOnAccept, Listener!removeClientSocket, Listener!sockVars, Listener!unknownVars, Listener!proxyVars
    <3>6. QED
      BY <3>2, <3>3, <3>4, <3>5 DEF ConnInv
  <2>7. WaitingInv'
    <3>1. waitingClients' = waitingClients /\ stopped' = stopped
      BY <1>1 DEF Listener!handleDisconnectedOnAccept, Listener!removeClientSocket, Listener!sockVars, Listener!unknownVars, Listener!proxyVars
    <3>2. \A d \in Conns : l_owner'[d] = "listener" <=> l_owner[d] = "listener"
      BY <2>1, <1>1 DEF ListenerInv, ConnInv, UnknownInv, ListenTypes, Listener!TypeOK, Listener!handleDisconnectedOnAccept, Listener!removeClientSocket, Listener!sockVars, Listener!unknownVars, Listener!proxyVars
    <3>3. Len(waitingClients) \in Nat
      BY <2>1, Members DEF ListenTypes, Listener!TypeOK
    <3>4. /\ Count(l_events, "Handover", NoConn) \in Nat /\ Count(l_events', "Handover", NoConn) \in Nat
          /\ Count(l_events, "Handover", NoConn) <= Count(l_events', "Handover", NoConn)
      BY <2>3 DEF Moved, CountTypes
    <3>5. QED
      BY <2>1, <3>1, <3>2, <3>3, <3>4, WaitingSame
  <2>8. ListenInv'
    BY <2>1, <2>3, <1>1 DEF Moved, CountTypes, ListenInv, Listener!handleDisconnectedOnAccept, Listener!removeClientSocket, Listener!sockVars, Listener!unknownVars, Listener!proxyVars
  <2>9. QED
    BY <2>1, <2>4, <2>5, <2>6, <2>7, <2>8 DEF ListenerInv
<1>2. CASE ~stopped
  <2>1. ListenTypes /\ WaitingInv /\ ListenInv /\ NoConn \notin Conns
    BY DEF ListenerInv, Listener!ListenerAssumption
  <2>2. Mailed("DisconnectedOnAccept", c, "none", NoConn)
    BY <2>1, <1>2, MailStep, EvTyped DEF Listener!handleDisconnectedOnAccept, Listener!removeClientSocket, Listener!SocketEvents, Listener!StreamEvents, Listener!OtherEvents
  <2>3. l_events' \in Seq(Listener!Event) /\ CountTypes(c) /\ Moved(c, 0, 0 - 1, 0, 0, 0, 0, 0) /\ Count(l_events, "DisconnectedOnAccept", c) > 0
    <3>1. l_events' \in Seq(Listener!Event) /\ CountTypes(c) /\ Count(l_events, "DisconnectedOnAccept", c) > 0
      BY ONLY <2>2 DEF Mailed, CountTypes
    <3>2. Moved(c, 0, 0 - 1, 0, 0, 0, 0, 0)
      BY ONLY <2>1, <2>2, <3>1, SMTT(30) DEF Mailed, Moved, CountTypes
    <3>3. QED
      BY <3>1, <3>2
  <2>4. ListenTypes'
    BY <2>1, <2>3, <1>2 DEF ListenTypes, Listener!TypeOK, Listener!handleDisconnectedOnAccept, Listener!removeClientSocket, Listener!sockVars, Listener!unknownVars, Listener!proxyVars
  <2>5. ASSUME NEW d \in Conns, d # c PROVE ConnInv(d)'
    <3>1. \A kind \in Kinds : Count(l_events', kind, d) = Count(l_events, kind, d)
      BY <2>1, <2>2, <2>5 DEF Mailed, Kinds
    <3>2. SameFor(d)
      BY <2>1, <2>5, <3>1, <1>2 DEF SameFor, ListenTypes, Listener!TypeOK, Listener!handleDisconnectedOnAccept, Listener!removeClientSocket, Listener!sockVars, Listener!unknownVars, Listener!proxyVars
    <3>3. QED
      BY <3>2, SameKept DEF ListenerInv
  <2>6. ConnInv(c)'
    <3>1. ArrivalInv(c) /\ UnknownInv(c) /\ OutcomeInv(c) /\ ProxyInv(c)
      BY DEF ListenerInv, ConnInv
    <3>2. ArrivalInv(c)'
      BY <2>1, <2>3, <3>1, <1>2 DEF Moved, CountTypes, ArrivalInv, Arrivals, Fresh, UnknownInv, ProxyInv, ListenInv,
        ListenTypes, Listener!TypeOK, Listener!handleDisconnectedOnAccept, Listener!removeClientSocket, Listener!sockVars, Listener!unknownVars, Listener!proxyVars
    <3>3. UnknownInv(c)'
      BY <2>1, <2>3, <3>1, <1>2 DEF Moved, CountTypes, ArrivalInv, Arrivals, Fresh, UnknownInv, OutcomeInv, ProxyInv, ListenInv,
        ListenTypes, Listener!TypeOK, Listener!handleDisconnectedOnAccept, Listener!removeClientSocket, Listener!sockVars, Listener!unknownVars, Listener!proxyVars
    <3>4. OutcomeInv(c)'
      BY <2>1, <2>3, <3>1, <1>2 DEF Moved, CountTypes, ArrivalInv, Arrivals, Fresh, UnknownInv, OutcomeInv, ProxyInv, ListenInv,
        ListenTypes, Listener!TypeOK, Listener!handleDisconnectedOnAccept, Listener!removeClientSocket, Listener!sockVars, Listener!unknownVars, Listener!proxyVars
    <3>5. ProxyInv(c)'
      BY <2>1, <2>3, <3>1, <1>2 DEF Moved, CountTypes, ArrivalInv, Arrivals, Fresh, UnknownInv, OutcomeInv, ProxyInv, ListenInv,
        ListenTypes, Listener!TypeOK, Listener!handleDisconnectedOnAccept, Listener!removeClientSocket, Listener!sockVars, Listener!unknownVars, Listener!proxyVars
    <3>6. QED
      BY <3>2, <3>3, <3>4, <3>5 DEF ConnInv
  <2>7. WaitingInv'
    <3>1. waitingClients' = waitingClients /\ stopped' = stopped
      BY <1>2 DEF Listener!handleDisconnectedOnAccept, Listener!removeClientSocket, Listener!sockVars, Listener!unknownVars, Listener!proxyVars
    <3>2. \A d \in Conns : l_owner'[d] = "listener" <=> l_owner[d] = "listener"
      BY <2>1, <1>2 DEF ListenerInv, ConnInv, UnknownInv, ListenTypes, Listener!TypeOK, Listener!handleDisconnectedOnAccept, Listener!removeClientSocket, Listener!sockVars, Listener!unknownVars, Listener!proxyVars
    <3>3. Len(waitingClients) \in Nat
      BY <2>1, Members DEF ListenTypes, Listener!TypeOK
    <3>4. /\ Count(l_events, "Handover", NoConn) \in Nat /\ Count(l_events', "Handover", NoConn) \in Nat
          /\ Count(l_events, "Handover", NoConn) <= Count(l_events', "Handover", NoConn)
      BY <2>3 DEF Moved, CountTypes
    <3>5. QED
      BY <2>1, <3>1, <3>2, <3>3, <3>4, WaitingSame
  <2>8. ListenInv'
    BY <2>1, <2>3, <1>2 DEF Moved, CountTypes, ListenInv, Listener!handleDisconnectedOnAccept, Listener!removeClientSocket, Listener!sockVars, Listener!unknownVars, Listener!proxyVars
  <2>9. QED
    BY <2>1, <2>4, <2>5, <2>6, <2>7, <2>8 DEF ListenerInv
<1>3. QED
  BY <1>1, <1>2 DEF Listener!handleDisconnectedOnAccept, Listener!removeClientSocket

LEMMA ListenBad ==
    ASSUME Listener!ListenerAssumption, ListenerInv, NEW c \in Conns, Listener!handleBadStream(c)
    PROVE  ListenerInv'
<1>1. CASE Listener!Takes("BadHello", c)
  <2>1. ListenTypes /\ WaitingInv /\ ListenInv /\ NoConn \notin Conns
    BY DEF ListenerInv, Listener!ListenerAssumption
  <2>2. Mailed("BadHello", c, "Failure", c)
    BY <2>1, <1>1, MailStep, EvTyped DEF Listener!handleBadStream, Listener!sendFailure, Listener!HeardByUnknown, Listener!SocketEvents, Listener!StreamEvents, Listener!OtherEvents
  <2>3. l_events' \in Seq(Listener!Event) /\ CountTypes(c) /\ Moved(c, 0, 0, 0, 0, 1, 0, 0) /\ Count(l_events, "BadHello", c) > 0
    <3>1. l_events' \in Seq(Listener!Event) /\ CountTypes(c) /\ Count(l_events, "BadHello", c) > 0
      BY ONLY <2>2 DEF Mailed, CountTypes
    <3>2. Moved(c, 0, 0, 0, 0, 1, 0, 0)
      BY ONLY <2>1, <2>2, <3>1, SMTT(30) DEF Mailed, Moved, CountTypes
    <3>3. QED
      BY <3>1, <3>2
  <2>4. ListenTypes'
    BY <2>1, <2>3, <1>1 DEF ListenTypes, Listener!TypeOK, Listener!handleBadStream, Listener!sendFailure, Listener!HeardByUnknown, Listener!sockVars, Listener!unknownVars, Listener!proxyVars
  <2>5. ASSUME NEW d \in Conns, d # c PROVE ConnInv(d)'
    <3>1. \A kind \in Kinds : Count(l_events', kind, d) = Count(l_events, kind, d)
      BY <2>1, <2>2, <2>5 DEF Mailed, Kinds
    <3>2. SameFor(d)
      BY <2>1, <2>5, <3>1, <1>1 DEF SameFor, ListenTypes, Listener!TypeOK, Listener!handleBadStream, Listener!sendFailure, Listener!HeardByUnknown, Listener!sockVars, Listener!unknownVars, Listener!proxyVars
    <3>3. QED
      BY <3>2, SameKept DEF ListenerInv
  <2>6. ConnInv(c)'
    <3>1. ArrivalInv(c) /\ UnknownInv(c) /\ OutcomeInv(c) /\ ProxyInv(c)
      BY DEF ListenerInv, ConnInv
    <3>2. ArrivalInv(c)'
      BY <2>1, <2>3, <3>1, <1>1 DEF Moved, CountTypes, ArrivalInv, Arrivals, Fresh, UnknownInv, ProxyInv, ListenInv,
        ListenTypes, Listener!TypeOK, Listener!handleBadStream, Listener!sendFailure, Listener!HeardByUnknown, Listener!sockVars, Listener!unknownVars, Listener!proxyVars
    <3>3. UnknownInv(c)'
      BY <2>1, <2>3, <3>1, <1>1 DEF Moved, CountTypes, ArrivalInv, Arrivals, Fresh, UnknownInv, OutcomeInv, ProxyInv, ListenInv,
        ListenTypes, Listener!TypeOK, Listener!handleBadStream, Listener!sendFailure, Listener!HeardByUnknown, Listener!sockVars, Listener!unknownVars, Listener!proxyVars
    <3>4. OutcomeInv(c)'
      BY <2>1, <2>3, <3>1, <1>1 DEF Moved, CountTypes, ArrivalInv, Arrivals, Fresh, UnknownInv, OutcomeInv, ProxyInv, ListenInv,
        ListenTypes, Listener!TypeOK, Listener!handleBadStream, Listener!sendFailure, Listener!HeardByUnknown, Listener!sockVars, Listener!unknownVars, Listener!proxyVars
    <3>5. ProxyInv(c)'
      BY <2>1, <2>3, <3>1, <1>1 DEF Moved, CountTypes, ArrivalInv, Arrivals, Fresh, UnknownInv, OutcomeInv, ProxyInv, ListenInv,
        ListenTypes, Listener!TypeOK, Listener!handleBadStream, Listener!sendFailure, Listener!HeardByUnknown, Listener!sockVars, Listener!unknownVars, Listener!proxyVars
    <3>6. QED
      BY <3>2, <3>3, <3>4, <3>5 DEF ConnInv
  <2>7. WaitingInv'
    <3>1. waitingClients' = waitingClients /\ stopped' = stopped
      BY <1>1 DEF Listener!handleBadStream, Listener!sendFailure, Listener!HeardByUnknown, Listener!sockVars, Listener!unknownVars, Listener!proxyVars
    <3>2. \A d \in Conns : l_owner'[d] = "listener" <=> l_owner[d] = "listener"
      BY <2>1, <1>1 DEF ListenerInv, ConnInv, UnknownInv, ListenTypes, Listener!TypeOK, Listener!handleBadStream, Listener!sendFailure, Listener!HeardByUnknown, Listener!sockVars, Listener!unknownVars, Listener!proxyVars
    <3>3. Len(waitingClients) \in Nat
      BY <2>1, Members DEF ListenTypes, Listener!TypeOK
    <3>4. /\ Count(l_events, "Handover", NoConn) \in Nat /\ Count(l_events', "Handover", NoConn) \in Nat
          /\ Count(l_events, "Handover", NoConn) <= Count(l_events', "Handover", NoConn)
      BY <2>3 DEF Moved, CountTypes
    <3>5. QED
      BY <2>1, <3>1, <3>2, <3>3, <3>4, WaitingSame
  <2>8. ListenInv'
    BY <2>1, <2>3, <1>1 DEF Moved, CountTypes, ListenInv, Listener!handleBadStream, Listener!sendFailure, Listener!HeardByUnknown, Listener!sockVars, Listener!unknownVars, Listener!proxyVars
  <2>9. QED
    BY <2>1, <2>4, <2>5, <2>6, <2>7, <2>8 DEF ListenerInv
<1>2. CASE Listener!Takes("Gone", c)
  <2>1. ListenTypes /\ WaitingInv /\ ListenInv /\ NoConn \notin Conns
    BY DEF ListenerInv, Listener!ListenerAssumption
  <2>2. Mailed("Gone", c, "Failure", c)
    BY <2>1, <1>2, MailStep, EvTyped DEF Listener!handleBadStream, Listener!sendFailure, Listener!HeardByUnknown, Listener!SocketEvents, Listener!StreamEvents, Listener!OtherEvents
  <2>3. l_events' \in Seq(Listener!Event) /\ CountTypes(c) /\ Moved(c, 0, 0, 0, 0, 1, 0, 0) /\ Count(l_events, "Gone", c) > 0
    <3>1. l_events' \in Seq(Listener!Event) /\ CountTypes(c) /\ Count(l_events, "Gone", c) > 0
      BY ONLY <2>2 DEF Mailed, CountTypes
    <3>2. Moved(c, 0, 0, 0, 0, 1, 0, 0)
      BY ONLY <2>1, <2>2, <3>1, SMTT(30) DEF Mailed, Moved, CountTypes
    <3>3. QED
      BY <3>1, <3>2
  <2>4. ListenTypes'
    BY <2>1, <2>3, <1>2 DEF ListenTypes, Listener!TypeOK, Listener!handleBadStream, Listener!sendFailure, Listener!HeardByUnknown, Listener!sockVars, Listener!unknownVars, Listener!proxyVars
  <2>5. ASSUME NEW d \in Conns, d # c PROVE ConnInv(d)'
    <3>1. \A kind \in Kinds : Count(l_events', kind, d) = Count(l_events, kind, d)
      BY <2>1, <2>2, <2>5 DEF Mailed, Kinds
    <3>2. SameFor(d)
      BY <2>1, <2>5, <3>1, <1>2 DEF SameFor, ListenTypes, Listener!TypeOK, Listener!handleBadStream, Listener!sendFailure, Listener!HeardByUnknown, Listener!sockVars, Listener!unknownVars, Listener!proxyVars
    <3>3. QED
      BY <3>2, SameKept DEF ListenerInv
  <2>6. ConnInv(c)'
    <3>1. ArrivalInv(c) /\ UnknownInv(c) /\ OutcomeInv(c) /\ ProxyInv(c)
      BY DEF ListenerInv, ConnInv
    <3>2. ArrivalInv(c)'
      BY <2>1, <2>3, <3>1, <1>2 DEF Moved, CountTypes, ArrivalInv, Arrivals, Fresh, UnknownInv, ProxyInv, ListenInv,
        ListenTypes, Listener!TypeOK, Listener!handleBadStream, Listener!sendFailure, Listener!HeardByUnknown, Listener!sockVars, Listener!unknownVars, Listener!proxyVars
    <3>3. UnknownInv(c)'
      BY <2>1, <2>3, <3>1, <1>2 DEF Moved, CountTypes, ArrivalInv, Arrivals, Fresh, UnknownInv, OutcomeInv, ProxyInv, ListenInv,
        ListenTypes, Listener!TypeOK, Listener!handleBadStream, Listener!sendFailure, Listener!HeardByUnknown, Listener!sockVars, Listener!unknownVars, Listener!proxyVars
    <3>4. OutcomeInv(c)'
      BY <2>1, <2>3, <3>1, <1>2 DEF Moved, CountTypes, ArrivalInv, Arrivals, Fresh, UnknownInv, OutcomeInv, ProxyInv, ListenInv,
        ListenTypes, Listener!TypeOK, Listener!handleBadStream, Listener!sendFailure, Listener!HeardByUnknown, Listener!sockVars, Listener!unknownVars, Listener!proxyVars
    <3>5. ProxyInv(c)'
      BY <2>1, <2>3, <3>1, <1>2 DEF Moved, CountTypes, ArrivalInv, Arrivals, Fresh, UnknownInv, OutcomeInv, ProxyInv, ListenInv,
        ListenTypes, Listener!TypeOK, Listener!handleBadStream, Listener!sendFailure, Listener!HeardByUnknown, Listener!sockVars, Listener!unknownVars, Listener!proxyVars
    <3>6. QED
      BY <3>2, <3>3, <3>4, <3>5 DEF ConnInv
  <2>7. WaitingInv'
    <3>1. waitingClients' = waitingClients /\ stopped' = stopped
      BY <1>2 DEF Listener!handleBadStream, Listener!sendFailure, Listener!HeardByUnknown, Listener!sockVars, Listener!unknownVars, Listener!proxyVars
    <3>2. \A d \in Conns : l_owner'[d] = "listener" <=> l_owner[d] = "listener"
      BY <2>1, <1>2 DEF ListenerInv, ConnInv, UnknownInv, ListenTypes, Listener!TypeOK, Listener!handleBadStream, Listener!sendFailure, Listener!HeardByUnknown, Listener!sockVars, Listener!unknownVars, Listener!proxyVars
    <3>3. Len(waitingClients) \in Nat
      BY <2>1, Members DEF ListenTypes, Listener!TypeOK
    <3>4. /\ Count(l_events, "Handover", NoConn) \in Nat /\ Count(l_events', "Handover", NoConn) \in Nat
          /\ Count(l_events, "Handover", NoConn) <= Count(l_events', "Handover", NoConn)
      BY <2>3 DEF Moved, CountTypes
    <3>5. QED
      BY <2>1, <3>1, <3>2, <3>3, <3>4, WaitingSame
  <2>8. ListenInv'
    BY <2>1, <2>3, <1>2 DEF Moved, CountTypes, ListenInv, Listener!handleBadStream, Listener!sendFailure, Listener!HeardByUnknown, Listener!sockVars, Listener!unknownVars, Listener!proxyVars
  <2>9. QED
    BY <2>1, <2>4, <2>5, <2>6, <2>7, <2>8 DEF ListenerInv
<1>3. QED
  BY <1>1, <1>2 DEF Listener!handleBadStream

LEMMA ListenInformed ==
    ASSUME Listener!ListenerAssumption, ListenerInv, NEW c \in Conns, Listener!proxyInformed(c)
    PROVE  ListenerInv'
<1>1. CASE proxy[c] = "handshake"
  <2>1. ListenTypes /\ WaitingInv /\ ListenInv /\ NoConn \notin Conns
    BY DEF ListenerInv, Listener!ListenerAssumption
  <2>2. Mailed("Info", c, "Ready", c)
    BY <2>1, <1>1, MailStep, EvTyped DEF Listener!proxyInformed, Listener!HeardByProxy, Listener!SocketEvents, Listener!StreamEvents, Listener!OtherEvents
  <2>3. l_events' \in Seq(Listener!Event) /\ CountTypes(c) /\ Moved(c, 0, 0, 1, 0, 0, 0, 0) /\ Count(l_events, "Info", c) > 0
    <3>1. l_events' \in Seq(Listener!Event) /\ CountTypes(c) /\ Count(l_events, "Info", c) > 0
      BY ONLY <2>2 DEF Mailed, CountTypes
    <3>2. Moved(c, 0, 0, 1, 0, 0, 0, 0)
      BY ONLY <2>1, <2>2, <3>1, SMTT(30) DEF Mailed, Moved, CountTypes
    <3>3. QED
      BY <3>1, <3>2
  <2>4. ListenTypes'
    BY <2>1, <2>3, <1>1 DEF ListenTypes, Listener!TypeOK, Listener!proxyInformed, Listener!HeardByProxy, Listener!sockVars, Listener!unknownVars, Listener!proxyVars
  <2>5. ASSUME NEW d \in Conns, d # c PROVE ConnInv(d)'
    <3>1. \A kind \in Kinds : Count(l_events', kind, d) = Count(l_events, kind, d)
      BY <2>1, <2>2, <2>5 DEF Mailed, Kinds
    <3>2. SameFor(d)
      BY <2>1, <2>5, <3>1, <1>1 DEF SameFor, ListenTypes, Listener!TypeOK, Listener!proxyInformed, Listener!HeardByProxy, Listener!sockVars, Listener!unknownVars, Listener!proxyVars
    <3>3. QED
      BY <3>2, SameKept DEF ListenerInv
  <2>6. ConnInv(c)'
    <3>1. ArrivalInv(c) /\ UnknownInv(c) /\ OutcomeInv(c) /\ ProxyInv(c)
      BY DEF ListenerInv, ConnInv
    <3>2. ArrivalInv(c)'
      BY <2>1, <2>3, <3>1, <1>1 DEF Moved, CountTypes, ArrivalInv, Arrivals, Fresh, UnknownInv, ProxyInv, ListenInv,
        ListenTypes, Listener!TypeOK, Listener!proxyInformed, Listener!HeardByProxy, Listener!sockVars, Listener!unknownVars, Listener!proxyVars
    <3>3. UnknownInv(c)'
      BY <2>1, <2>3, <3>1, <1>1 DEF Moved, CountTypes, ArrivalInv, Arrivals, Fresh, UnknownInv, OutcomeInv, ProxyInv, ListenInv,
        ListenTypes, Listener!TypeOK, Listener!proxyInformed, Listener!HeardByProxy, Listener!sockVars, Listener!unknownVars, Listener!proxyVars
    <3>4. OutcomeInv(c)'
      BY <2>1, <2>3, <3>1, <1>1 DEF Moved, CountTypes, ArrivalInv, Arrivals, Fresh, UnknownInv, OutcomeInv, ProxyInv, ListenInv,
        ListenTypes, Listener!TypeOK, Listener!proxyInformed, Listener!HeardByProxy, Listener!sockVars, Listener!unknownVars, Listener!proxyVars
    <3>5. ProxyInv(c)'
      BY <2>1, <2>3, <3>1, <1>1 DEF Moved, CountTypes, ArrivalInv, Arrivals, Fresh, UnknownInv, OutcomeInv, ProxyInv, ListenInv,
        ListenTypes, Listener!TypeOK, Listener!proxyInformed, Listener!HeardByProxy, Listener!sockVars, Listener!unknownVars, Listener!proxyVars
    <3>6. QED
      BY <3>2, <3>3, <3>4, <3>5 DEF ConnInv
  <2>7. WaitingInv'
    <3>1. waitingClients' = waitingClients /\ stopped' = stopped
      BY <1>1 DEF Listener!proxyInformed, Listener!HeardByProxy, Listener!sockVars, Listener!unknownVars, Listener!proxyVars
    <3>2. \A d \in Conns : l_owner'[d] = "listener" <=> l_owner[d] = "listener"
      BY <2>1, <1>1 DEF ListenerInv, ConnInv, UnknownInv, ListenTypes, Listener!TypeOK, Listener!proxyInformed, Listener!HeardByProxy, Listener!sockVars, Listener!unknownVars, Listener!proxyVars
    <3>3. Len(waitingClients) \in Nat
      BY <2>1, Members DEF ListenTypes, Listener!TypeOK
    <3>4. /\ Count(l_events, "Handover", NoConn) \in Nat /\ Count(l_events', "Handover", NoConn) \in Nat
          /\ Count(l_events, "Handover", NoConn) <= Count(l_events', "Handover", NoConn)
      BY <2>3 DEF Moved, CountTypes
    <3>5. QED
      BY <2>1, <3>1, <3>2, <3>3, <3>4, WaitingSame
  <2>8. ListenInv'
    BY <2>1, <2>3, <1>1 DEF Moved, CountTypes, ListenInv, Listener!proxyInformed, Listener!HeardByProxy, Listener!sockVars, Listener!unknownVars, Listener!proxyVars
  <2>9. QED
    BY <2>1, <2>4, <2>5, <2>6, <2>7, <2>8 DEF ListenerInv
<1>2. CASE proxy[c] # "handshake"
  <2>1. ListenTypes /\ WaitingInv /\ ListenInv /\ NoConn \notin Conns
    BY DEF ListenerInv, Listener!ListenerAssumption
  <2>2. Mailed("Info", c, "none", NoConn)
    BY <2>1, <1>2, MailStep, EvTyped DEF Listener!proxyInformed, Listener!HeardByProxy, Listener!SocketEvents, Listener!StreamEvents, Listener!OtherEvents
  <2>3. l_events' \in Seq(Listener!Event) /\ CountTypes(c) /\ Moved(c, 0, 0, 0, 0, 0, 0, 0) /\ Count(l_events, "Info", c) > 0
    <3>1. l_events' \in Seq(Listener!Event) /\ CountTypes(c) /\ Count(l_events, "Info", c) > 0
      BY ONLY <2>2 DEF Mailed, CountTypes
    <3>2. Moved(c, 0, 0, 0, 0, 0, 0, 0)
      BY ONLY <2>1, <2>2, <3>1, SMTT(30) DEF Mailed, Moved, CountTypes
    <3>3. QED
      BY <3>1, <3>2
  <2>4. ListenTypes'
    BY <2>1, <2>3, <1>2 DEF ListenTypes, Listener!TypeOK, Listener!proxyInformed, Listener!HeardByProxy, Listener!sockVars, Listener!unknownVars, Listener!proxyVars
  <2>5. ASSUME NEW d \in Conns, d # c PROVE ConnInv(d)'
    <3>1. \A kind \in Kinds : Count(l_events', kind, d) = Count(l_events, kind, d)
      BY <2>1, <2>2, <2>5 DEF Mailed, Kinds
    <3>2. SameFor(d)
      BY <2>1, <2>5, <3>1, <1>2 DEF SameFor, ListenTypes, Listener!TypeOK, Listener!proxyInformed, Listener!HeardByProxy, Listener!sockVars, Listener!unknownVars, Listener!proxyVars
    <3>3. QED
      BY <3>2, SameKept DEF ListenerInv
  <2>6. ConnInv(c)'
    <3>1. ArrivalInv(c) /\ UnknownInv(c) /\ OutcomeInv(c) /\ ProxyInv(c)
      BY DEF ListenerInv, ConnInv
    <3>2. ArrivalInv(c)'
      BY <2>1, <2>3, <3>1, <1>2 DEF Moved, CountTypes, ArrivalInv, Arrivals, Fresh, UnknownInv, ProxyInv, ListenInv,
        ListenTypes, Listener!TypeOK, Listener!proxyInformed, Listener!HeardByProxy, Listener!sockVars, Listener!unknownVars, Listener!proxyVars
    <3>3. UnknownInv(c)'
      BY <2>1, <2>3, <3>1, <1>2 DEF Moved, CountTypes, ArrivalInv, Arrivals, Fresh, UnknownInv, OutcomeInv, ProxyInv, ListenInv,
        ListenTypes, Listener!TypeOK, Listener!proxyInformed, Listener!HeardByProxy, Listener!sockVars, Listener!unknownVars, Listener!proxyVars
    <3>4. OutcomeInv(c)'
      BY <2>1, <2>3, <3>1, <1>2 DEF Moved, CountTypes, ArrivalInv, Arrivals, Fresh, UnknownInv, OutcomeInv, ProxyInv, ListenInv,
        ListenTypes, Listener!TypeOK, Listener!proxyInformed, Listener!HeardByProxy, Listener!sockVars, Listener!unknownVars, Listener!proxyVars
    <3>5. ProxyInv(c)'
      BY <2>1, <2>3, <3>1, <1>2 DEF Moved, CountTypes, ArrivalInv, Arrivals, Fresh, UnknownInv, OutcomeInv, ProxyInv, ListenInv,
        ListenTypes, Listener!TypeOK, Listener!proxyInformed, Listener!HeardByProxy, Listener!sockVars, Listener!unknownVars, Listener!proxyVars
    <3>6. QED
      BY <3>2, <3>3, <3>4, <3>5 DEF ConnInv
  <2>7. WaitingInv'
    <3>1. waitingClients' = waitingClients /\ stopped' = stopped
      BY <1>2 DEF Listener!proxyInformed, Listener!HeardByProxy, Listener!sockVars, Listener!unknownVars, Listener!proxyVars
    <3>2. \A d \in Conns : l_owner'[d] = "listener" <=> l_owner[d] = "listener"
      BY <2>1, <1>2 DEF ListenerInv, ConnInv, UnknownInv, ListenTypes, Listener!TypeOK, Listener!proxyInformed, Listener!HeardByProxy, Listener!sockVars, Listener!unknownVars, Listener!proxyVars
    <3>3. Len(waitingClients) \in Nat
      BY <2>1, Members DEF ListenTypes, Listener!TypeOK
    <3>4. /\ Count(l_events, "Handover", NoConn) \in Nat /\ Count(l_events', "Handover", NoConn) \in Nat
          /\ Count(l_events, "Handover", NoConn) <= Count(l_events', "Handover", NoConn)
      BY <2>3 DEF Moved, CountTypes
    <3>5. QED
      BY <2>1, <3>1, <3>2, <3>3, <3>4, WaitingSame
  <2>8. ListenInv'
    BY <2>1, <2>3, <1>2 DEF Moved, CountTypes, ListenInv, Listener!proxyInformed, Listener!HeardByProxy, Listener!sockVars, Listener!unknownVars, Listener!proxyVars
  <2>9. QED
    BY <2>1, <2>4, <2>5, <2>6, <2>7, <2>8 DEF ListenerInv
<1>3. QED
  BY <1>1, <1>2 DEF Listener!proxyInformed, Listener!HeardByProxy

LEMMA ListenIgnores ==
    ASSUME Listener!ListenerAssumption, ListenerInv, NEW c \in Conns, Listener!unheard(c)
    PROVE  ListenerInv'
<1>1. CASE Listener!Takes("HelloBack", c)
  <2>1. ListenTypes /\ WaitingInv /\ ListenInv /\ NoConn \notin Conns
    BY DEF ListenerInv, Listener!ListenerAssumption
  <2>2. Mailed("HelloBack", c, "none", NoConn)
    BY <2>1, <1>1, MailStep, EvTyped DEF Listener!unheard, Listener!SocketEvents, Listener!StreamEvents, Listener!OtherEvents
  <2>3. l_events' \in Seq(Listener!Event) /\ CountTypes(c) /\ Moved(c, 0, 0, 0, 0, 0, 0, 0) /\ Count(l_events, "HelloBack", c) > 0
    <3>1. l_events' \in Seq(Listener!Event) /\ CountTypes(c) /\ Count(l_events, "HelloBack", c) > 0
      BY ONLY <2>2 DEF Mailed, CountTypes
    <3>2. Moved(c, 0, 0, 0, 0, 0, 0, 0)
      BY ONLY <2>1, <2>2, <3>1, SMTT(30) DEF Mailed, Moved, CountTypes
    <3>3. QED
      BY <3>1, <3>2
  <2>4. ListenTypes'
    BY <2>1, <2>3, <1>1 DEF ListenTypes, Listener!TypeOK, Listener!unheard, Listener!sockVars, Listener!unknownVars, Listener!proxyVars
  <2>5. ASSUME NEW d \in Conns, d # c PROVE ConnInv(d)'
    <3>1. \A kind \in Kinds : Count(l_events', kind, d) = Count(l_events, kind, d)
      BY <2>1, <2>2, <2>5 DEF Mailed, Kinds
    <3>2. SameFor(d)
      BY <2>1, <2>5, <3>1, <1>1 DEF SameFor, ListenTypes, Listener!TypeOK, Listener!unheard, Listener!sockVars, Listener!unknownVars, Listener!proxyVars
    <3>3. QED
      BY <3>2, SameKept DEF ListenerInv
  <2>6. ConnInv(c)'
    <3>1. ArrivalInv(c) /\ UnknownInv(c) /\ OutcomeInv(c) /\ ProxyInv(c)
      BY DEF ListenerInv, ConnInv
    <3>2. ArrivalInv(c)'
      BY <2>1, <2>3, <3>1, <1>1 DEF Moved, CountTypes, ArrivalInv, Arrivals, Fresh, UnknownInv, ProxyInv, ListenInv,
        ListenTypes, Listener!TypeOK, Listener!unheard, Listener!sockVars, Listener!unknownVars, Listener!proxyVars
    <3>3. UnknownInv(c)'
      BY <2>1, <2>3, <3>1, <1>1 DEF Moved, CountTypes, ArrivalInv, Arrivals, Fresh, UnknownInv, OutcomeInv, ProxyInv, ListenInv,
        ListenTypes, Listener!TypeOK, Listener!unheard, Listener!sockVars, Listener!unknownVars, Listener!proxyVars
    <3>4. OutcomeInv(c)'
      BY <2>1, <2>3, <3>1, <1>1 DEF Moved, CountTypes, ArrivalInv, Arrivals, Fresh, UnknownInv, OutcomeInv, ProxyInv, ListenInv,
        ListenTypes, Listener!TypeOK, Listener!unheard, Listener!sockVars, Listener!unknownVars, Listener!proxyVars
    <3>5. ProxyInv(c)'
      BY <2>1, <2>3, <3>1, <1>1 DEF Moved, CountTypes, ArrivalInv, Arrivals, Fresh, UnknownInv, OutcomeInv, ProxyInv, ListenInv,
        ListenTypes, Listener!TypeOK, Listener!unheard, Listener!sockVars, Listener!unknownVars, Listener!proxyVars
    <3>6. QED
      BY <3>2, <3>3, <3>4, <3>5 DEF ConnInv
  <2>7. WaitingInv'
    <3>1. waitingClients' = waitingClients /\ stopped' = stopped
      BY <1>1 DEF Listener!unheard, Listener!sockVars, Listener!unknownVars, Listener!proxyVars
    <3>2. \A d \in Conns : l_owner'[d] = "listener" <=> l_owner[d] = "listener"
      BY <2>1, <1>1 DEF ListenerInv, ConnInv, UnknownInv, ListenTypes, Listener!TypeOK, Listener!unheard, Listener!sockVars, Listener!unknownVars, Listener!proxyVars
    <3>3. Len(waitingClients) \in Nat
      BY <2>1, Members DEF ListenTypes, Listener!TypeOK
    <3>4. /\ Count(l_events, "Handover", NoConn) \in Nat /\ Count(l_events', "Handover", NoConn) \in Nat
          /\ Count(l_events, "Handover", NoConn) <= Count(l_events', "Handover", NoConn)
      BY <2>3 DEF Moved, CountTypes
    <3>5. QED
      BY <2>1, <3>1, <3>2, <3>3, <3>4, WaitingSame
  <2>8. ListenInv'
    BY <2>1, <2>3, <1>1 DEF Moved, CountTypes, ListenInv, Listener!unheard, Listener!sockVars, Listener!unknownVars, Listener!proxyVars
  <2>9. QED
    BY <2>1, <2>4, <2>5, <2>6, <2>7, <2>8 DEF ListenerInv
<1>2. CASE Listener!Takes("BadHello", c)
  <2>1. ListenTypes /\ WaitingInv /\ ListenInv /\ NoConn \notin Conns
    BY DEF ListenerInv, Listener!ListenerAssumption
  <2>2. Mailed("BadHello", c, "none", NoConn)
    BY <2>1, <1>2, MailStep, EvTyped DEF Listener!unheard, Listener!SocketEvents, Listener!StreamEvents, Listener!OtherEvents
  <2>3. l_events' \in Seq(Listener!Event) /\ CountTypes(c) /\ Moved(c, 0, 0, 0, 0, 0, 0, 0) /\ Count(l_events, "BadHello", c) > 0
    <3>1. l_events' \in Seq(Listener!Event) /\ CountTypes(c) /\ Count(l_events, "BadHello", c) > 0
      BY ONLY <2>2 DEF Mailed, CountTypes
    <3>2. Moved(c, 0, 0, 0, 0, 0, 0, 0)
      BY ONLY <2>1, <2>2, <3>1, SMTT(30) DEF Mailed, Moved, CountTypes
    <3>3. QED
      BY <3>1, <3>2
  <2>4. ListenTypes'
    BY <2>1, <2>3, <1>2 DEF ListenTypes, Listener!TypeOK, Listener!unheard, Listener!sockVars, Listener!unknownVars, Listener!proxyVars
  <2>5. ASSUME NEW d \in Conns, d # c PROVE ConnInv(d)'
    <3>1. \A kind \in Kinds : Count(l_events', kind, d) = Count(l_events, kind, d)
      BY <2>1, <2>2, <2>5 DEF Mailed, Kinds
    <3>2. SameFor(d)
      BY <2>1, <2>5, <3>1, <1>2 DEF SameFor, ListenTypes, Listener!TypeOK, Listener!unheard, Listener!sockVars, Listener!unknownVars, Listener!proxyVars
    <3>3. QED
      BY <3>2, SameKept DEF ListenerInv
  <2>6. ConnInv(c)'
    <3>1. ArrivalInv(c) /\ UnknownInv(c) /\ OutcomeInv(c) /\ ProxyInv(c)
      BY DEF ListenerInv, ConnInv
    <3>2. ArrivalInv(c)'
      BY <2>1, <2>3, <3>1, <1>2 DEF Moved, CountTypes, ArrivalInv, Arrivals, Fresh, UnknownInv, ProxyInv, ListenInv,
        ListenTypes, Listener!TypeOK, Listener!unheard, Listener!sockVars, Listener!unknownVars, Listener!proxyVars
    <3>3. UnknownInv(c)'
      BY <2>1, <2>3, <3>1, <1>2 DEF Moved, CountTypes, ArrivalInv, Arrivals, Fresh, UnknownInv, OutcomeInv, ProxyInv, ListenInv,
        ListenTypes, Listener!TypeOK, Listener!unheard, Listener!sockVars, Listener!unknownVars, Listener!proxyVars
    <3>4. OutcomeInv(c)'
      BY <2>1, <2>3, <3>1, <1>2 DEF Moved, CountTypes, ArrivalInv, Arrivals, Fresh, UnknownInv, OutcomeInv, ProxyInv, ListenInv,
        ListenTypes, Listener!TypeOK, Listener!unheard, Listener!sockVars, Listener!unknownVars, Listener!proxyVars
    <3>5. ProxyInv(c)'
      BY <2>1, <2>3, <3>1, <1>2 DEF Moved, CountTypes, ArrivalInv, Arrivals, Fresh, UnknownInv, OutcomeInv, ProxyInv, ListenInv,
        ListenTypes, Listener!TypeOK, Listener!unheard, Listener!sockVars, Listener!unknownVars, Listener!proxyVars
    <3>6. QED
      BY <3>2, <3>3, <3>4, <3>5 DEF ConnInv
  <2>7. WaitingInv'
    <3>1. waitingClients' = waitingClients /\ stopped' = stopped
      BY <1>2 DEF Listener!unheard, Listener!sockVars, Listener!unknownVars, Listener!proxyVars
    <3>2. \A d \in Conns : l_owner'[d] = "listener" <=> l_owner[d] = "listener"
      BY <2>1, <1>2 DEF ListenerInv, ConnInv, UnknownInv, ListenTypes, Listener!TypeOK, Listener!unheard, Listener!sockVars, Listener!unknownVars, Listener!proxyVars
    <3>3. Len(waitingClients) \in Nat
      BY <2>1, Members DEF ListenTypes, Listener!TypeOK
    <3>4. /\ Count(l_events, "Handover", NoConn) \in Nat /\ Count(l_events', "Handover", NoConn) \in Nat
          /\ Count(l_events, "Handover", NoConn) <= Count(l_events', "Handover", NoConn)
      BY <2>3 DEF Moved, CountTypes
    <3>5. QED
      BY <2>1, <3>1, <3>2, <3>3, <3>4, WaitingSame
  <2>8. ListenInv'
    BY <2>1, <2>3, <1>2 DEF Moved, CountTypes, ListenInv, Listener!unheard, Listener!sockVars, Listener!unknownVars, Listener!proxyVars
  <2>9. QED
    BY <2>1, <2>4, <2>5, <2>6, <2>7, <2>8 DEF ListenerInv
<1>3. CASE Listener!Takes("Info", c)
  <2>1. ListenTypes /\ WaitingInv /\ ListenInv /\ NoConn \notin Conns
    BY DEF ListenerInv, Listener!ListenerAssumption
  <2>2. Mailed("Info", c, "none", NoConn)
    BY <2>1, <1>3, MailStep, EvTyped DEF Listener!unheard, Listener!SocketEvents, Listener!StreamEvents, Listener!OtherEvents
  <2>3. l_events' \in Seq(Listener!Event) /\ CountTypes(c) /\ Moved(c, 0, 0, 0, 0, 0, 0, 0) /\ Count(l_events, "Info", c) > 0
    <3>1. l_events' \in Seq(Listener!Event) /\ CountTypes(c) /\ Count(l_events, "Info", c) > 0
      BY ONLY <2>2 DEF Mailed, CountTypes
    <3>2. Moved(c, 0, 0, 0, 0, 0, 0, 0)
      BY ONLY <2>1, <2>2, <3>1, SMTT(30) DEF Mailed, Moved, CountTypes
    <3>3. QED
      BY <3>1, <3>2
  <2>4. ListenTypes'
    BY <2>1, <2>3, <1>3 DEF ListenTypes, Listener!TypeOK, Listener!unheard, Listener!sockVars, Listener!unknownVars, Listener!proxyVars
  <2>5. ASSUME NEW d \in Conns, d # c PROVE ConnInv(d)'
    <3>1. \A kind \in Kinds : Count(l_events', kind, d) = Count(l_events, kind, d)
      BY <2>1, <2>2, <2>5 DEF Mailed, Kinds
    <3>2. SameFor(d)
      BY <2>1, <2>5, <3>1, <1>3 DEF SameFor, ListenTypes, Listener!TypeOK, Listener!unheard, Listener!sockVars, Listener!unknownVars, Listener!proxyVars
    <3>3. QED
      BY <3>2, SameKept DEF ListenerInv
  <2>6. ConnInv(c)'
    <3>1. ArrivalInv(c) /\ UnknownInv(c) /\ OutcomeInv(c) /\ ProxyInv(c)
      BY DEF ListenerInv, ConnInv
    <3>2. ArrivalInv(c)'
      BY <2>1, <2>3, <3>1, <1>3 DEF Moved, CountTypes, ArrivalInv, Arrivals, Fresh, UnknownInv, ProxyInv, ListenInv,
        ListenTypes, Listener!TypeOK, Listener!unheard, Listener!sockVars, Listener!unknownVars, Listener!proxyVars
    <3>3. UnknownInv(c)'
      BY <2>1, <2>3, <3>1, <1>3 DEF Moved, CountTypes, ArrivalInv, Arrivals, Fresh, UnknownInv, OutcomeInv, ProxyInv, ListenInv,
        ListenTypes, Listener!TypeOK, Listener!unheard, Listener!sockVars, Listener!unknownVars, Listener!proxyVars
    <3>4. OutcomeInv(c)'
      BY <2>1, <2>3, <3>1, <1>3 DEF Moved, CountTypes, ArrivalInv, Arrivals, Fresh, UnknownInv, OutcomeInv, ProxyInv, ListenInv,
        ListenTypes, Listener!TypeOK, Listener!unheard, Listener!sockVars, Listener!unknownVars, Listener!proxyVars
    <3>5. ProxyInv(c)'
      BY <2>1, <2>3, <3>1, <1>3 DEF Moved, CountTypes, ArrivalInv, Arrivals, Fresh, UnknownInv, OutcomeInv, ProxyInv, ListenInv,
        ListenTypes, Listener!TypeOK, Listener!unheard, Listener!sockVars, Listener!unknownVars, Listener!proxyVars
    <3>6. QED
      BY <3>2, <3>3, <3>4, <3>5 DEF ConnInv
  <2>7. WaitingInv'
    <3>1. waitingClients' = waitingClients /\ stopped' = stopped
      BY <1>3 DEF Listener!unheard, Listener!sockVars, Listener!unknownVars, Listener!proxyVars
    <3>2. \A d \in Conns : l_owner'[d] = "listener" <=> l_owner[d] = "listener"
      BY <2>1, <1>3 DEF ListenerInv, ConnInv, UnknownInv, ListenTypes, Listener!TypeOK, Listener!unheard, Listener!sockVars, Listener!unknownVars, Listener!proxyVars
    <3>3. Len(waitingClients) \in Nat
      BY <2>1, Members DEF ListenTypes, Listener!TypeOK
    <3>4. /\ Count(l_events, "Handover", NoConn) \in Nat /\ Count(l_events', "Handover", NoConn) \in Nat
          /\ Count(l_events, "Handover", NoConn) <= Count(l_events', "Handover", NoConn)
      BY <2>3 DEF Moved, CountTypes
    <3>5. QED
      BY <2>1, <3>1, <3>2, <3>3, <3>4, WaitingSame
  <2>8. ListenInv'
    BY <2>1, <2>3, <1>3 DEF Moved, CountTypes, ListenInv, Listener!unheard, Listener!sockVars, Listener!unknownVars, Listener!proxyVars
  <2>9. QED
    BY <2>1, <2>4, <2>5, <2>6, <2>7, <2>8 DEF ListenerInv
<1>4. CASE Listener!Takes("Gone", c)
  <2>1. ListenTypes /\ WaitingInv /\ ListenInv /\ NoConn \notin Conns
    BY DEF ListenerInv, Listener!ListenerAssumption
  <2>2. Mailed("Gone", c, "none", NoConn)
    BY <2>1, <1>4, MailStep, EvTyped DEF Listener!unheard, Listener!SocketEvents, Listener!StreamEvents, Listener!OtherEvents
  <2>3. l_events' \in Seq(Listener!Event) /\ CountTypes(c) /\ Moved(c, 0, 0, 0, 0, 0, 0, 0) /\ Count(l_events, "Gone", c) > 0
    <3>1. l_events' \in Seq(Listener!Event) /\ CountTypes(c) /\ Count(l_events, "Gone", c) > 0
      BY ONLY <2>2 DEF Mailed, CountTypes
    <3>2. Moved(c, 0, 0, 0, 0, 0, 0, 0)
      BY ONLY <2>1, <2>2, <3>1, SMTT(30) DEF Mailed, Moved, CountTypes
    <3>3. QED
      BY <3>1, <3>2
  <2>4. ListenTypes'
    BY <2>1, <2>3, <1>4 DEF ListenTypes, Listener!TypeOK, Listener!unheard, Listener!sockVars, Listener!unknownVars, Listener!proxyVars
  <2>5. ASSUME NEW d \in Conns, d # c PROVE ConnInv(d)'
    <3>1. \A kind \in Kinds : Count(l_events', kind, d) = Count(l_events, kind, d)
      BY <2>1, <2>2, <2>5 DEF Mailed, Kinds
    <3>2. SameFor(d)
      BY <2>1, <2>5, <3>1, <1>4 DEF SameFor, ListenTypes, Listener!TypeOK, Listener!unheard, Listener!sockVars, Listener!unknownVars, Listener!proxyVars
    <3>3. QED
      BY <3>2, SameKept DEF ListenerInv
  <2>6. ConnInv(c)'
    <3>1. ArrivalInv(c) /\ UnknownInv(c) /\ OutcomeInv(c) /\ ProxyInv(c)
      BY DEF ListenerInv, ConnInv
    <3>2. ArrivalInv(c)'
      BY <2>1, <2>3, <3>1, <1>4 DEF Moved, CountTypes, ArrivalInv, Arrivals, Fresh, UnknownInv, ProxyInv, ListenInv,
        ListenTypes, Listener!TypeOK, Listener!unheard, Listener!sockVars, Listener!unknownVars, Listener!proxyVars
    <3>3. UnknownInv(c)'
      BY <2>1, <2>3, <3>1, <1>4 DEF Moved, CountTypes, ArrivalInv, Arrivals, Fresh, UnknownInv, OutcomeInv, ProxyInv, ListenInv,
        ListenTypes, Listener!TypeOK, Listener!unheard, Listener!sockVars, Listener!unknownVars, Listener!proxyVars
    <3>4. OutcomeInv(c)'
      BY <2>1, <2>3, <3>1, <1>4 DEF Moved, CountTypes, ArrivalInv, Arrivals, Fresh, UnknownInv, OutcomeInv, ProxyInv, ListenInv,
        ListenTypes, Listener!TypeOK, Listener!unheard, Listener!sockVars, Listener!unknownVars, Listener!proxyVars
    <3>5. ProxyInv(c)'
      BY <2>1, <2>3, <3>1, <1>4 DEF Moved, CountTypes, ArrivalInv, Arrivals, Fresh, UnknownInv, OutcomeInv, ProxyInv, ListenInv,
        ListenTypes, Listener!TypeOK, Listener!unheard, Listener!sockVars, Listener!unknownVars, Listener!proxyVars
    <3>6. QED
      BY <3>2, <3>3, <3>4, <3>5 DEF ConnInv
  <2>7. WaitingInv'
    <3>1. waitingClients' = waitingClients /\ stopped' = stopped
      BY <1>4 DEF Listener!unheard, Listener!sockVars, Listener!unknownVars, Listener!proxyVars
    <3>2. \A d \in Conns : l_owner'[d] = "listener" <=> l_owner[d] = "listener"
      BY <2>1, <1>4 DEF ListenerInv, ConnInv, UnknownInv, ListenTypes, Listener!TypeOK, Listener!unheard, Listener!sockVars, Listener!unknownVars, Listener!proxyVars
    <3>3. Len(waitingClients) \in Nat
      BY <2>1, Members DEF ListenTypes, Listener!TypeOK
    <3>4. /\ Count(l_events, "Handover", NoConn) \in Nat /\ Count(l_events', "Handover", NoConn) \in Nat
          /\ Count(l_events, "Handover", NoConn) <= Count(l_events', "Handover", NoConn)
      BY <2>3 DEF Moved, CountTypes
    <3>5. QED
      BY <2>1, <3>1, <3>2, <3>3, <3>4, WaitingSame
  <2>8. ListenInv'
    BY <2>1, <2>3, <1>4 DEF Moved, CountTypes, ListenInv, Listener!unheard, Listener!sockVars, Listener!unknownVars, Listener!proxyVars
  <2>9. QED
    BY <2>1, <2>4, <2>5, <2>6, <2>7, <2>8 DEF ListenerInv
<1>5. QED
  BY <1>1, <1>2, <1>3, <1>4 DEF Listener!unheard, Listener!StreamEvents

LEMMA ListenReady ==
    ASSUME Listener!ListenerAssumption, ListenerInv, NEW c \in Conns, Listener!handleReady(c)
    PROVE  ListenerInv'
<1>1. CASE c \in newClients
  <2>1. ListenTypes /\ WaitingInv /\ ListenInv /\ NoConn \notin Conns
    BY DEF ListenerInv, Listener!ListenerAssumption
  <2>2. Mailed("Ready", c, "Success", c)
    BY <2>1, <1>1, MailStep, EvTyped DEF Listener!handleReady, Listener!SocketEvents, Listener!StreamEvents, Listener!OtherEvents
  <2>3. l_events' \in Seq(Listener!Event) /\ CountTypes(c) /\ Moved(c, 0, 0, 0 - 1, 1, 0, 0, 0) /\ Count(l_events, "Ready", c) > 0
    <3>1. l_events' \in Seq(Listener!Event) /\ CountTypes(c) /\ Count(l_events, "Ready", c) > 0
      BY ONLY <2>2 DEF Mailed, CountTypes
    <3>2. Moved(c, 0, 0, 0 - 1, 1, 0, 0, 0)
      BY ONLY <2>1, <2>2, <3>1, SMTT(30) DEF Mailed, Moved, CountTypes
    <3>3. QED
      BY <3>1, <3>2
  <2>4. ListenTypes'
    BY <2>1, <2>3, <1>1 DEF ListenTypes, Listener!TypeOK, Listener!handleReady, Listener!sockVars, Listener!unknownVars, Listener!proxyVars
  <2>5. ASSUME NEW d \in Conns, d # c PROVE ConnInv(d)'
    <3>1. \A kind \in Kinds : Count(l_events', kind, d) = Count(l_events, kind, d)
      BY <2>1, <2>2, <2>5 DEF Mailed, Kinds
    <3>2. SameFor(d)
      BY <2>1, <2>5, <3>1, <1>1 DEF SameFor, ListenTypes, Listener!TypeOK, Listener!handleReady, Listener!sockVars, Listener!unknownVars, Listener!proxyVars
    <3>3. QED
      BY <3>2, SameKept DEF ListenerInv
  <2>6. ConnInv(c)'
    <3>1. ArrivalInv(c) /\ UnknownInv(c) /\ OutcomeInv(c) /\ ProxyInv(c)
      BY DEF ListenerInv, ConnInv
    <3>2. ArrivalInv(c)'
      BY <2>1, <2>3, <3>1, <1>1 DEF Moved, CountTypes, ArrivalInv, Arrivals, Fresh, UnknownInv, ProxyInv, ListenInv,
        ListenTypes, Listener!TypeOK, Listener!handleReady, Listener!sockVars, Listener!unknownVars, Listener!proxyVars
    <3>3. UnknownInv(c)'
      BY <2>1, <2>3, <3>1, <1>1 DEF Moved, CountTypes, ArrivalInv, Arrivals, Fresh, UnknownInv, OutcomeInv, ProxyInv, ListenInv,
        ListenTypes, Listener!TypeOK, Listener!handleReady, Listener!sockVars, Listener!unknownVars, Listener!proxyVars
    <3>4. OutcomeInv(c)'
      BY <2>1, <2>3, <3>1, <1>1 DEF Moved, CountTypes, ArrivalInv, Arrivals, Fresh, UnknownInv, OutcomeInv, ProxyInv, ListenInv,
        ListenTypes, Listener!TypeOK, Listener!handleReady, Listener!sockVars, Listener!unknownVars, Listener!proxyVars
    <3>5. ProxyInv(c)'
      BY <2>1, <2>3, <3>1, <1>1 DEF Moved, CountTypes, ArrivalInv, Arrivals, Fresh, UnknownInv, OutcomeInv, ProxyInv, ListenInv,
        ListenTypes, Listener!TypeOK, Listener!handleReady, Listener!sockVars, Listener!unknownVars, Listener!proxyVars
    <3>6. QED
      BY <3>2, <3>3, <3>4, <3>5 DEF ConnInv
  <2>7. WaitingInv'
    <3>1. waitingClients' = waitingClients /\ stopped' = stopped
      BY <1>1 DEF Listener!handleReady, Listener!sockVars, Listener!unknownVars, Listener!proxyVars
    <3>2. \A d \in Conns : l_owner'[d] = "listener" <=> l_owner[d] = "listener"
      BY <2>1, <1>1 DEF ListenerInv, ConnInv, UnknownInv, ListenTypes, Listener!TypeOK, Listener!handleReady, Listener!sockVars, Listener!unknownVars, Listener!proxyVars
    <3>3. Len(waitingClients) \in Nat
      BY <2>1, Members DEF ListenTypes, Listener!TypeOK
    <3>4. /\ Count(l_events, "Handover", NoConn) \in Nat /\ Count(l_events', "Handover", NoConn) \in Nat
          /\ Count(l_events, "Handover", NoConn) <= Count(l_events', "Handover", NoConn)
      BY <2>3 DEF Moved, CountTypes
    <3>5. QED
      BY <2>1, <3>1, <3>2, <3>3, <3>4, WaitingSame
  <2>8. ListenInv'
    BY <2>1, <2>3, <1>1 DEF Moved, CountTypes, ListenInv, Listener!handleReady, Listener!sockVars, Listener!unknownVars, Listener!proxyVars
  <2>9. QED
    BY <2>1, <2>4, <2>5, <2>6, <2>7, <2>8 DEF ListenerInv
<1>2. CASE c \notin newClients
  <2>1. ListenTypes /\ WaitingInv /\ ListenInv /\ NoConn \notin Conns
    BY DEF ListenerInv, Listener!ListenerAssumption
  <2>2. Mailed("Ready", c, "none", NoConn)
    BY <2>1, <1>2, MailStep, EvTyped DEF Listener!handleReady, Listener!SocketEvents, Listener!StreamEvents, Listener!OtherEvents
  <2>3. l_events' \in Seq(Listener!Event) /\ CountTypes(c) /\ Moved(c, 0, 0, 0 - 1, 0, 0, 0, 0) /\ Count(l_events, "Ready", c) > 0
    <3>1. l_events' \in Seq(Listener!Event) /\ CountTypes(c) /\ Count(l_events, "Ready", c) > 0
      BY ONLY <2>2 DEF Mailed, CountTypes
    <3>2. Moved(c, 0, 0, 0 - 1, 0, 0, 0, 0)
      BY ONLY <2>1, <2>2, <3>1, SMTT(30) DEF Mailed, Moved, CountTypes
    <3>3. QED
      BY <3>1, <3>2
  <2>4. ListenTypes'
    BY <2>1, <2>3, <1>2 DEF ListenTypes, Listener!TypeOK, Listener!handleReady, Listener!sockVars, Listener!unknownVars, Listener!proxyVars
  <2>5. ASSUME NEW d \in Conns, d # c PROVE ConnInv(d)'
    <3>1. \A kind \in Kinds : Count(l_events', kind, d) = Count(l_events, kind, d)
      BY <2>1, <2>2, <2>5 DEF Mailed, Kinds
    <3>2. SameFor(d)
      BY <2>1, <2>5, <3>1, <1>2 DEF SameFor, ListenTypes, Listener!TypeOK, Listener!handleReady, Listener!sockVars, Listener!unknownVars, Listener!proxyVars
    <3>3. QED
      BY <3>2, SameKept DEF ListenerInv
  <2>6. ConnInv(c)'
    <3>1. ArrivalInv(c) /\ UnknownInv(c) /\ OutcomeInv(c) /\ ProxyInv(c)
      BY DEF ListenerInv, ConnInv
    <3>2. ArrivalInv(c)'
      BY <2>1, <2>3, <3>1, <1>2 DEF Moved, CountTypes, ArrivalInv, Arrivals, Fresh, UnknownInv, ProxyInv, ListenInv,
        ListenTypes, Listener!TypeOK, Listener!handleReady, Listener!sockVars, Listener!unknownVars, Listener!proxyVars
    <3>3. UnknownInv(c)'
      BY <2>1, <2>3, <3>1, <1>2 DEF Moved, CountTypes, ArrivalInv, Arrivals, Fresh, UnknownInv, OutcomeInv, ProxyInv, ListenInv,
        ListenTypes, Listener!TypeOK, Listener!handleReady, Listener!sockVars, Listener!unknownVars, Listener!proxyVars
    <3>4. OutcomeInv(c)'
      BY <2>1, <2>3, <3>1, <1>2 DEF Moved, CountTypes, ArrivalInv, Arrivals, Fresh, UnknownInv, OutcomeInv, ProxyInv, ListenInv,
        ListenTypes, Listener!TypeOK, Listener!handleReady, Listener!sockVars, Listener!unknownVars, Listener!proxyVars
    <3>5. ProxyInv(c)'
      BY <2>1, <2>3, <3>1, <1>2 DEF Moved, CountTypes, ArrivalInv, Arrivals, Fresh, UnknownInv, OutcomeInv, ProxyInv, ListenInv,
        ListenTypes, Listener!TypeOK, Listener!handleReady, Listener!sockVars, Listener!unknownVars, Listener!proxyVars
    <3>6. QED
      BY <3>2, <3>3, <3>4, <3>5 DEF ConnInv
  <2>7. WaitingInv'
    <3>1. waitingClients' = waitingClients /\ stopped' = stopped
      BY <1>2 DEF Listener!handleReady, Listener!sockVars, Listener!unknownVars, Listener!proxyVars
    <3>2. \A d \in Conns : l_owner'[d] = "listener" <=> l_owner[d] = "listener"
      BY <2>1, <1>2 DEF ListenerInv, ConnInv, UnknownInv, ListenTypes, Listener!TypeOK, Listener!handleReady, Listener!sockVars, Listener!unknownVars, Listener!proxyVars
    <3>3. Len(waitingClients) \in Nat
      BY <2>1, Members DEF ListenTypes, Listener!TypeOK
    <3>4. /\ Count(l_events, "Handover", NoConn) \in Nat /\ Count(l_events', "Handover", NoConn) \in Nat
          /\ Count(l_events, "Handover", NoConn) <= Count(l_events', "Handover", NoConn)
      BY <2>3 DEF Moved, CountTypes
    <3>5. QED
      BY <2>1, <3>1, <3>2, <3>3, <3>4, WaitingSame
  <2>8. ListenInv'
    BY <2>1, <2>3, <1>2 DEF Moved, CountTypes, ListenInv, Listener!handleReady, Listener!sockVars, Listener!unknownVars, Listener!proxyVars
  <2>9. QED
    BY <2>1, <2>4, <2>5, <2>6, <2>7, <2>8 DEF ListenerInv
<1>3. QED
  BY <1>1, <1>2 DEF Listener!handleReady

\* What is left of a sequence when one place is taken out.
LEMMA Removed ==
    ASSUME NEW S, NEW q \in Seq(S), NEW k \in 1 .. Len(q)
    PROVE  /\ Listener!RemoveAt(q, k) \in Seq(S) /\ Len(Listener!RemoveAt(q, k)) = Len(q) - 1
           /\ \A i \in 1 .. Len(q) - 1 :
                 Listener!RemoveAt(q, k)[i] = (IF i < k THEN q[i] ELSE q[i + 1])
<1> DEFINE low == SubSeq(q, 1, k - 1)
           high == SubSeq(q, k + 1, Len(q))
<1>1. Len(q) \in Nat /\ \A i \in 1 .. Len(q) : q[i] \in S
  BY Members
<1>2. /\ low \in Seq(S) /\ Len(low) = k - 1
      /\ \A i \in 1 .. k - 1 : low[i] = q[i]
  <2>1. /\ k - 1 \in Int /\ \A i \in 1 .. k - 1 : q[i] \in S
        /\ (IF 1 <= k - 1 THEN (k - 1) - 1 + 1 ELSE 0) = k - 1 /\ 1 \in Int
        /\ \A i \in 1 .. k - 1 : 1 + i - 1 = i /\ i \in 1 .. (k - 1) - 1 + 1
    BY <1>1
  <2>2. QED
    BY <2>1, SubSeqProperties
<1>3. /\ high \in Seq(S) /\ Len(high) = Len(q) - k
      /\ \A i \in 1 .. Len(q) - k : high[i] = q[k + i]
  <2>1. /\ k + 1 \in Int /\ Len(q) \in Int /\ \A i \in k + 1 .. Len(q) : q[i] \in S
        /\ (IF k + 1 <= Len(q) THEN Len(q) - (k + 1) + 1 ELSE 0) = Len(q) - k
        /\ \A i \in 1 .. Len(q) - k : (k + 1) + i - 1 = k + i /\ i \in 1 .. Len(q) - (k + 1) + 1
    BY <1>1
  <2>2. QED
    BY <2>1, SubSeqProperties
<1>4. Listener!RemoveAt(q, k) = low \o high
  BY DEF Listener!RemoveAt
<1> HIDE DEF low, high
<1>5. /\ low \o high \in Seq(S) /\ Len(low \o high) = Len(low) + Len(high)
      /\ \A i \in 1 .. Len(low) + Len(high) :
            (low \o high)[i] = IF i <= Len(low) THEN low[i] ELSE high[i - Len(low)]
  BY <1>2, <1>3, ConcatProperties
<1>6. Len(low) + Len(high) = Len(q) - 1
  BY <1>1, <1>2, <1>3
<1>7. ASSUME NEW i \in 1 .. Len(q) - 1
      PROVE  (low \o high)[i] = (IF i < k THEN q[i] ELSE q[i + 1])
  <2>1. CASE i < k
    <3>1. i \in 1 .. k - 1 /\ i <= Len(low) /\ i \in 1 .. Len(low) + Len(high)
      BY <1>1, <1>2, <1>6, <2>1
    <3>2. QED
      BY <1>2, <1>5, <2>1, <3>1
  <2>2. CASE ~(i < k)
    <3>1. /\ ~(i <= Len(low)) /\ i \in 1 .. Len(low) + Len(high)
          /\ i - Len(low) \in 1 .. Len(q) - k /\ k + (i - Len(low)) = i + 1
      BY <1>1, <1>2, <1>6, <2>2
    <3>2. QED
      BY <1>3, <1>5, <2>2, <3>1
  <2>3. QED
    BY <2>1, <2>2
<1>8. QED
  BY <1>4, <1>5, <1>6, <1>7

\* One more client waits, and is announced.
LEMMA WaitingMore ==
    ASSUME WaitingInv, waitingClients \in Seq(Conns), NEW c \in Conns, l_owner[c] # "listener",
           waitingClients' = Append(waitingClients, c), stopped' = stopped,
           l_owner'[c] = "listener", \A d \in Conns : d # c => l_owner'[d] = l_owner[d],
           Count(l_events, "Handover", NoConn) \in Nat,
           Count(l_events', "Handover", NoConn) = Count(l_events, "Handover", NoConn) + 1
    PROVE  WaitingInv'
<1> DEFINE n == Len(waitingClients)
<1>1. /\ n \in Nat /\ Len(waitingClients') = n + 1 /\ waitingClients'[n + 1] = c
      /\ \A i \in 1 .. n : waitingClients'[i] = waitingClients[i]
  BY Appended, Members
<1>2. \A i \in 1 .. n + 1 : i \in 1 .. n \/ i = n + 1
  BY <1>1
<1>3. \A i \in 1 .. n : waitingClients[i] # c
  BY DEF WaitingInv
<1>4. \A i \in 1 .. n : i \in 1 .. n + 1
  BY <1>1
<1>5. n + 1 \in 1 .. n + 1
  BY <1>1
<1> HIDE DEF n
<1>6. \A i, j \in 1 .. n + 1 : waitingClients'[i] = waitingClients'[j] => i = j
  BY <1>1, <1>2, <1>3 DEF WaitingInv, n
<1>7. ASSUME NEW d \in Conns PROVE l_owner'[d] = "listener" <=> \E i \in 1 .. n + 1 : waitingClients'[i] = d
  <2>1. CASE d = c
    BY <1>1, <1>5, <2>1
  <2>2. CASE d # c
    <3>1. l_owner[d] = "listener" <=> \E i \in 1 .. n : waitingClients[i] = d
      BY DEF WaitingInv, n
    <3>2. QED
      BY <1>1, <1>2, <1>4, <2>2, <3>1
  <2>3. QED
    BY <2>1, <2>2
<1>8. stopped' \/ n + 1 <= Count(l_events', "Handover", NoConn)
  BY <1>1 DEF WaitingInv, n
<1>9. QED
  BY <1>1, <1>6, <1>7, <1>8 DEF WaitingInv

\* One place is left out: that of a client the listener does not own any more.
LEMMA WaitingLess ==
    ASSUME WaitingInv, waitingClients \in Seq(Conns), NEW k \in 1 .. Len(waitingClients), NEW r \in Seq(Conns),
           Len(r) = Len(waitingClients) - 1,
           \A i \in 1 .. Len(waitingClients) - 1 :
               r[i] = (IF i < k THEN waitingClients[i] ELSE waitingClients[i + 1]),
           waitingClients' = r, stopped' = stopped,
           l_owner'[waitingClients[k]] # "listener",
           \A d \in Conns : d # waitingClients[k] => l_owner'[d] = l_owner[d],
           Count(l_events, "Handover", NoConn) \in Nat, Count(l_events', "Handover", NoConn) \in Nat,
           Count(l_events', "Handover", NoConn) + 1 >= Count(l_events, "Handover", NoConn)
    PROVE  WaitingInv'
<1> DEFINE n == Len(waitingClients)
           w == waitingClients
           p[i \in 1 .. n - 1] == IF i < k THEN i ELSE i + 1
<1>1. n \in Nat /\ k \in 1 .. n
  BY Members
<1>2. \A i \in 1 .. n - 1 : /\ p[i] \in 1 .. n /\ p[i] # k /\ i \in Nat
                            /\ p[i] = (IF i < k THEN i ELSE i + 1)
  BY <1>1
<1>3. \A i \in 1 .. n - 1 : r[i] = w[p[i]]
  BY <1>2
<1>4. \A i, j \in 1 .. n - 1 : p[i] = p[j] => i = j
  BY <1>1, <1>2
<1>5. \A j \in 1 .. n : j # k => \E i \in 1 .. n - 1 : p[i] = j
  <2> TAKE j \in 1 .. n
  <2>1. CASE j < k
    <3>1. j \in 1 .. n - 1
      BY <1>1, <2>1
    <3>2. QED
      BY <1>2, <2>1, <3>1
  <2>2. CASE j > k
    <3>1. j - 1 \in 1 .. n - 1 /\ ~(j - 1 < k) /\ (j - 1) + 1 = j
      BY <1>1, <2>2
    <3>2. p[j - 1] = j
      BY <1>2, <3>1
    <3>3. QED
      BY <3>1, <3>2
  <2>3. QED
    BY <1>1, <2>1, <2>2
<1>6. Len(r) = n - 1
  OBVIOUS
<1>7. /\ \A i, j \in 1 .. n : w[i] = w[j] => i = j
      /\ \A d \in Conns : l_owner[d] = "listener" <=> \E i \in 1 .. n : w[i] = d
  BY DEF WaitingInv
<1>8. \A i \in 1 .. n : w[i] \in Conns
  BY Members
<1> HIDE DEF p
<1>9. \A i, j \in 1 .. n - 1 : r[i] = r[j] => i = j
  BY <1>2, <1>3, <1>4, <1>7
<1>10. ASSUME NEW d \in Conns PROVE l_owner'[d] = "listener" <=> \E i \in 1 .. n - 1 : r[i] = d
  <2>1. CASE d = w[k]
    <3>1. \A i \in 1 .. n - 1 : r[i] # d
      BY <1>1, <1>2, <1>3, <1>7, <2>1
    <3>2. QED
      BY <2>1, <3>1
  <2>2. CASE d # w[k]
    <3>1. ASSUME NEW j \in 1 .. n, w[j] = d PROVE \E i \in 1 .. n - 1 : r[i] = d
      <4>1. PICK i \in 1 .. n - 1 : p[i] = j
        BY <1>5, <2>2, <3>1
      <4>2. QED
        BY <1>3, <3>1, <4>1
    <3>2. ASSUME NEW i \in 1 .. n - 1, r[i] = d PROVE \E j \in 1 .. n : w[j] = d
      BY <1>2, <1>3, <3>2
    <3>3. l_owner'[d] = l_owner[d]
      BY <2>2
    <3>4. QED
      BY <1>7, <3>1, <3>2, <3>3
  <2>3. QED
    BY <2>1, <2>2
<1>11. stopped' \/ n - 1 <= Count(l_events', "Handover", NoConn)
  BY <1>1 DEF WaitingInv
<1>12. QED
  BY <1>6, <1>9, <1>10, <1>11 DEF WaitingInv

LEMMA ListenConnecting ==
    ASSUME Listener!ListenerAssumption, ListenerInv, Listener!handleClientConnecting
    PROVE  ListenerInv'
<1>1. CASE stopped
  <2>1. ListenTypes /\ WaitingInv /\ ListenInv /\ NoConn \notin Conns
    BY DEF ListenerInv, Listener!ListenerAssumption
  <2>2. Mailed("Connecting", NoConn, "none", NoConn)
    BY <2>1, <1>1, MailStep, EvTyped DEF Listener!handleClientConnecting, Listener!accepts, Listener!setListeningJob, Listener!acceptFails, Listener!SocketEvents, Listener!StreamEvents, Listener!OtherEvents
  <2>3. l_events' \in Seq(Listener!Event) /\ CountTypes(NoConn) /\ Moved(NoConn, 0, 0, 0, 0, 0, 0, 0 - 1) /\ Count(l_events, "Connecting", NoConn) > 0
    <3>1. l_events' \in Seq(Listener!Event) /\ CountTypes(NoConn) /\ Count(l_events, "Connecting", NoConn) > 0
      BY ONLY <2>2 DEF Mailed, CountTypes
    <3>2. Moved(NoConn, 0, 0, 0, 0, 0, 0, 0 - 1)
      BY ONLY <2>1, <2>2, <3>1, SMTT(30) DEF Mailed, Moved, CountTypes
    <3>3. QED
      BY <3>1, <3>2
  <2>4. ListenTypes'
    BY <2>1, <2>3, <1>1 DEF ListenTypes, Listener!TypeOK, Listener!handleClientConnecting, Listener!accepts, Listener!setListeningJob, Listener!acceptFails, Listener!sockVars, Listener!unknownVars, Listener!proxyVars
  <2>5. ASSUME NEW d \in Conns PROVE ConnInv(d)'
    <3>1. \A kind \in Kinds : Count(l_events', kind, d) = Count(l_events, kind, d)
      BY <2>1, <2>2, <2>5 DEF Mailed, Kinds
    <3>2. SameFor(d)
      BY <2>1, <2>5, <3>1, <1>1 DEF SameFor, ListenTypes, Listener!TypeOK, Listener!handleClientConnecting, Listener!accepts, Listener!setListeningJob, Listener!acceptFails, Listener!sockVars, Listener!unknownVars, Listener!proxyVars
    <3>3. QED
      BY <3>2, SameKept DEF ListenerInv
  <2>6. TRUE
    OBVIOUS
  <2>7. WaitingInv'
    <3>1. waitingClients' = waitingClients /\ stopped' = stopped
      BY <1>1 DEF Listener!handleClientConnecting, Listener!accepts, Listener!setListeningJob, Listener!acceptFails, Listener!sockVars, Listener!unknownVars, Listener!proxyVars
    <3>2. \A d \in Conns : l_owner'[d] = "listener" <=> l_owner[d] = "listener"
      BY <2>1, <1>1 DEF ListenerInv, ConnInv, UnknownInv, ListenTypes, Listener!TypeOK, Listener!handleClientConnecting, Listener!accepts, Listener!setListeningJob, Listener!acceptFails, Listener!sockVars, Listener!unknownVars, Listener!proxyVars
    <3>3. Len(waitingClients) \in Nat
      BY <2>1, Members DEF ListenTypes, Listener!TypeOK
    <3>4. /\ Count(l_events, "Handover", NoConn) \in Nat /\ Count(l_events', "Handover", NoConn) \in Nat
          /\ Count(l_events, "Handover", NoConn) <= Count(l_events', "Handover", NoConn)
      BY <2>3 DEF Moved, CountTypes
    <3>5. QED
      BY <2>1, <3>1, <3>2, <3>3, <3>4, WaitingSame
  <2>8. ListenInv'
    BY <2>1, <2>3, <1>1 DEF Moved, CountTypes, ListenInv, Listener!handleClientConnecting, Listener!accepts, Listener!setListeningJob, Listener!acceptFails, Listener!sockVars, Listener!unknownVars, Listener!proxyVars
  <2>9. QED
    BY <2>1, <2>4, <2>5, <2>6, <2>7, <2>8 DEF ListenerInv
<1>2. ASSUME NEW c \in Conns, ~stopped, socket[c] = "backlog", Listener!accepts(c), Listener!setListeningJob, l_tls
      PROVE  ListenerInv'
  <2>1. ListenTypes /\ WaitingInv /\ ListenInv /\ NoConn \notin Conns
    BY DEF ListenerInv, Listener!ListenerAssumption
  <2>2. Mailed("Connecting", NoConn, "none", NoConn)
    BY <2>1, <1>2, MailStep, EvTyped DEF Listener!handleClientConnecting, Listener!accepts, Listener!setListeningJob, Listener!acceptFails, Listener!SocketEvents, Listener!StreamEvents, Listener!OtherEvents
  <2>3. l_events' \in Seq(Listener!Event) /\ CountTypes(c) /\ Moved(c, 0, 0, 0, 0, 0, 0, 0 - 1) /\ Count(l_events, "Connecting", NoConn) > 0
    <3>1. l_events' \in Seq(Listener!Event) /\ CountTypes(c) /\ Count(l_events, "Connecting", NoConn) > 0
      BY ONLY <2>2 DEF Mailed, CountTypes
    <3>2. Moved(c, 0, 0, 0, 0, 0, 0, 0 - 1)
      BY ONLY <2>1, <2>2, <3>1, SMTT(30) DEF Mailed, Moved, CountTypes
    <3>3. QED
      BY <3>1, <3>2
  <2>4. ListenTypes'
    BY <2>1, <2>3, <1>2 DEF ListenTypes, Listener!TypeOK, Listener!handleClientConnecting, Listener!accepts, Listener!setListeningJob, Listener!acceptFails, Listener!sockVars, Listener!unknownVars, Listener!proxyVars
  <2>5. ASSUME NEW d \in Conns, d # c PROVE ConnInv(d)'
    <3>1. \A kind \in Kinds : Count(l_events', kind, d) = Count(l_events, kind, d)
      BY <2>1, <2>2, <2>5 DEF Mailed, Kinds
    <3>2. SameFor(d)
      BY <2>1, <2>5, <3>1, <1>2 DEF SameFor, ListenTypes, Listener!TypeOK, Listener!handleClientConnecting, Listener!accepts, Listener!setListeningJob, Listener!acceptFails, Listener!sockVars, Listener!unknownVars, Listener!proxyVars
    <3>3. QED
      BY <3>2, SameKept DEF ListenerInv
  <2>6. ConnInv(c)'
    <3>1. ArrivalInv(c) /\ UnknownInv(c) /\ OutcomeInv(c) /\ ProxyInv(c)
      BY DEF ListenerInv, ConnInv
    <3>2. ArrivalInv(c)'
      BY <2>1, <2>3, <3>1, <1>2 DEF Moved, CountTypes, ArrivalInv, Arrivals, Fresh, UnknownInv, ProxyInv, ListenInv,
        ListenTypes, Listener!TypeOK, Listener!handleClientConnecting, Listener!accepts, Listener!setListeningJob, Listener!acceptFails, Listener!sockVars, Listener!unknownVars, Listener!proxyVars
    <3>3. UnknownInv(c)'
      BY <2>1, <2>3, <3>1, <1>2 DEF Moved, CountTypes, ArrivalInv, Arrivals, Fresh, UnknownInv, OutcomeInv, ProxyInv, ListenInv,
        ListenTypes, Listener!TypeOK, Listener!handleClientConnecting, Listener!accepts, Listener!setListeningJob, Listener!acceptFails, Listener!sockVars, Listener!unknownVars, Listener!proxyVars
    <3>4. OutcomeInv(c)'
      BY <2>1, <2>3, <3>1, <1>2 DEF Moved, CountTypes, ArrivalInv, Arrivals, Fresh, UnknownInv, OutcomeInv, ProxyInv, ListenInv,
        ListenTypes, Listener!TypeOK, Listener!handleClientConnecting, Listener!accepts, Listener!setListeningJob, Listener!acceptFails, Listener!sockVars, Listener!unknownVars, Listener!proxyVars
    <3>5. ProxyInv(c)'
      BY <2>1, <2>3, <3>1, <1>2 DEF Moved, CountTypes, ArrivalInv, Arrivals, Fresh, UnknownInv, OutcomeInv, ProxyInv, ListenInv,
        ListenTypes, Listener!TypeOK, Listener!handleClientConnecting, Listener!accepts, Listener!setListeningJob, Listener!acceptFails, Listener!sockVars, Listener!unknownVars, Listener!proxyVars
    <3>6. QED
      BY <3>2, <3>3, <3>4, <3>5 DEF ConnInv
  <2>7. WaitingInv'
    <3>1. waitingClients' = waitingClients /\ stopped' = stopped
      BY <1>2 DEF Listener!handleClientConnecting, Listener!accepts, Listener!setListeningJob, Listener!acceptFails, Listener!sockVars, Listener!unknownVars, Listener!proxyVars
    <3>2. \A d \in Conns : l_owner'[d] = "listener" <=> l_owner[d] = "listener"
      BY <2>1, <1>2 DEF ListenerInv, ConnInv, UnknownInv, ListenTypes, Listener!TypeOK, Listener!handleClientConnecting, Listener!accepts, Listener!setListeningJob, Listener!acceptFails, Listener!sockVars, Listener!unknownVars, Listener!proxyVars
    <3>3. Len(waitingClients) \in Nat
      BY <2>1, Members DEF ListenTypes, Listener!TypeOK
    <3>4. /\ Count(l_events, "Handover", NoConn) \in Nat /\ Count(l_events', "Handover", NoConn) \in Nat
          /\ Count(l_events, "Handover", NoConn) <= Count(l_events', "Handover", NoConn)
      BY <2>3 DEF Moved, CountTypes
    <3>5. QED
      BY <2>1, <3>1, <3>2, <3>3, <3>4, WaitingSame
  <2>8. ListenInv'
    BY <2>1, <2>3, <1>2 DEF Moved, CountTypes, ListenInv, Listener!handleClientConnecting, Listener!accepts, Listener!setListeningJob, Listener!acceptFails, Listener!sockVars, Listener!unknownVars, Listener!proxyVars
  <2>9. QED
    BY <2>1, <2>4, <2>5, <2>6, <2>7, <2>8 DEF ListenerInv
<1>3. ASSUME NEW c \in Conns, ~stopped, socket[c] = "backlog", Listener!accepts(c), Listener!setListeningJob, ~l_tls
      PROVE  ListenerInv'
  <2>1. ListenTypes /\ WaitingInv /\ ListenInv /\ NoConn \notin Conns
    BY DEF ListenerInv, Listener!ListenerAssumption
  <2>2. Mailed("Connecting", NoConn, "Accepted", c)
    BY <2>1, <1>3, MailStep, EvTyped DEF Listener!handleClientConnecting, Listener!accepts, Listener!setListeningJob, Listener!acceptFails, Listener!SocketEvents, Listener!StreamEvents, Listener!OtherEvents
  <2>3. l_events' \in Seq(Listener!Event) /\ CountTypes(c) /\ Moved(c, 1, 0, 0, 0, 0, 0, 0 - 1) /\ Count(l_events, "Connecting", NoConn) > 0
    <3>1. l_events' \in Seq(Listener!Event) /\ CountTypes(c) /\ Count(l_events, "Connecting", NoConn) > 0
      BY ONLY <2>2 DEF Mailed, CountTypes
    <3>2. Moved(c, 1, 0, 0, 0, 0, 0, 0 - 1)
      BY ONLY <2>1, <2>2, <3>1, SMTT(30) DEF Mailed, Moved, CountTypes
    <3>3. QED
      BY <3>1, <3>2
  <2>4. ListenTypes'
    BY <2>1, <2>3, <1>3 DEF ListenTypes, Listener!TypeOK, Listener!handleClientConnecting, Listener!accepts, Listener!setListeningJob, Listener!acceptFails, Listener!sockVars, Listener!unknownVars, Listener!proxyVars
  <2>5. ASSUME NEW d \in Conns, d # c PROVE ConnInv(d)'
    <3>1. \A kind \in Kinds : Count(l_events', kind, d) = Count(l_events, kind, d)
      BY <2>1, <2>2, <2>5 DEF Mailed, Kinds
    <3>2. SameFor(d)
      BY <2>1, <2>5, <3>1, <1>3 DEF SameFor, ListenTypes, Listener!TypeOK, Listener!handleClientConnecting, Listener!accepts, Listener!setListeningJob, Listener!acceptFails, Listener!sockVars, Listener!unknownVars, Listener!proxyVars
    <3>3. QED
      BY <3>2, SameKept DEF ListenerInv
  <2>6. ConnInv(c)'
    <3>1. ArrivalInv(c) /\ UnknownInv(c) /\ OutcomeInv(c) /\ ProxyInv(c)
      BY DEF ListenerInv, ConnInv
    <3>2. ArrivalInv(c)'
      BY <2>1, <2>3, <3>1, <1>3 DEF Moved, CountTypes, ArrivalInv, Arrivals, Fresh, UnknownInv, ProxyInv, ListenInv,
        ListenTypes, Listener!TypeOK, Listener!handleClientConnecting, Listener!accepts, Listener!setListeningJob, Listener!acceptFails, Listener!sockVars, Listener!unknownVars, Listener!proxyVars
    <3>3. UnknownInv(c)'
      BY <2>1, <2>3, <3>1, <1>3 DEF Moved, CountTypes, ArrivalInv, Arrivals, Fresh, UnknownInv, OutcomeInv, ProxyInv, ListenInv,
        ListenTypes, Listener!TypeOK, Listener!handleClientConnecting, Listener!accepts, Listener!setListeningJob, Listener!acceptFails, Listener!sockVars, Listener!unknownVars, Listener!proxyVars
    <3>4. OutcomeInv(c)'
      BY <2>1, <2>3, <3>1, <1>3 DEF Moved, CountTypes, ArrivalInv, Arrivals, Fresh, UnknownInv, OutcomeInv, ProxyInv, ListenInv,
        ListenTypes, Listener!TypeOK, Listener!handleClientConnecting, Listener!accepts, Listener!setListeningJob, Listener!acceptFails, Listener!sockVars, Listener!unknownVars, Listener!proxyVars
    <3>5. ProxyInv(c)'
      BY <2>1, <2>3, <3>1, <1>3 DEF Moved, CountTypes, ArrivalInv, Arrivals, Fresh, UnknownInv, OutcomeInv, ProxyInv, ListenInv,
        ListenTypes, Listener!TypeOK, Listener!handleClientConnecting, Listener!accepts, Listener!setListeningJob, Listener!acceptFails, Listener!sockVars, Listener!unknownVars, Listener!proxyVars
    <3>6. QED
      BY <3>2, <3>3, <3>4, <3>5 DEF ConnInv
  <2>7. WaitingInv'
    <3>1. waitingClients' = waitingClients /\ stopped' = stopped
      BY <1>3 DEF Listener!handleClientConnecting, Listener!accepts, Listener!setListeningJob, Listener!acceptFails, Listener!sockVars, Listener!unknownVars, Listener!proxyVars
    <3>2. \A d \in Conns : l_owner'[d] = "listener" <=> l_owner[d] = "listener"
      BY <2>1, <1>3 DEF ListenerInv, ConnInv, UnknownInv, ListenTypes, Listener!TypeOK, Listener!handleClientConnecting, Listener!accepts, Listener!setListeningJob, Listener!acceptFails, Listener!sockVars, Listener!unknownVars, Listener!proxyVars
    <3>3. Len(waitingClients) \in Nat
      BY <2>1, Members DEF ListenTypes, Listener!TypeOK
    <3>4. /\ Count(l_events, "Handover", NoConn) \in Nat /\ Count(l_events', "Handover", NoConn) \in Nat
          /\ Count(l_events, "Handover", NoConn) <= Count(l_events', "Handover", NoConn)
      BY <2>3 DEF Moved, CountTypes
    <3>5. QED
      BY <2>1, <3>1, <3>2, <3>3, <3>4, WaitingSame
  <2>8. ListenInv'
    BY <2>1, <2>3, <1>3 DEF Moved, CountTypes, ListenInv, Listener!handleClientConnecting, Listener!accepts, Listener!setListeningJob, Listener!acceptFails, Listener!sockVars, Listener!unknownVars, Listener!proxyVars
  <2>9. QED
    BY <2>1, <2>4, <2>5, <2>6, <2>7, <2>8 DEF ListenerInv
<1>4. ASSUME NEW c \in Conns, ~stopped, socket[c] = "backlog", Listener!acceptFails(c)
      PROVE  ListenerInv'
  <2>1. ListenTypes /\ WaitingInv /\ ListenInv /\ NoConn \notin Conns
    BY DEF ListenerInv, Listener!ListenerAssumption
  <2>2. Mailed("Connecting", NoConn, "none", NoConn)
    BY <2>1, <1>4, MailStep, EvTyped DEF Listener!handleClientConnecting, Listener!accepts, Listener!setListeningJob, Listener!acceptFails, Listener!SocketEvents, Listener!StreamEvents, Listener!OtherEvents
  <2>3. l_events' \in Seq(Listener!Event) /\ CountTypes(c) /\ Moved(c, 0, 0, 0, 0, 0, 0, 0 - 1) /\ Count(l_events, "Connecting", NoConn) > 0
    <3>1. l_events' \in Seq(Listener!Event) /\ CountTypes(c) /\ Count(l_events, "Connecting", NoConn) > 0
      BY ONLY <2>2 DEF Mailed, CountTypes
    <3>2. Moved(c, 0, 0, 0, 0, 0, 0, 0 - 1)
      BY ONLY <2>1, <2>2, <3>1, SMTT(30) DEF Mailed, Moved, CountTypes
    <3>3. QED
      BY <3>1, <3>2
  <2>4. ListenTypes'
    BY <2>1, <2>3, <1>4 DEF ListenTypes, Listener!TypeOK, Listener!handleClientConnecting, Listener!accepts, Listener!setListeningJob, Listener!acceptFails, Listener!sockVars, Listener!unknownVars, Listener!proxyVars
  <2>5. ASSUME NEW d \in Conns, d # c PROVE ConnInv(d)'
    <3>1. \A kind \in Kinds : Count(l_events', kind, d) = Count(l_events, kind, d)
      BY <2>1, <2>2, <2>5 DEF Mailed, Kinds
    <3>2. SameFor(d)
      BY <2>1, <2>5, <3>1, <1>4 DEF SameFor, ListenTypes, Listener!TypeOK, Listener!handleClientConnecting, Listener!accepts, Listener!setListeningJob, Listener!acceptFails, Listener!sockVars, Listener!unknownVars, Listener!proxyVars
    <3>3. QED
      BY <3>2, SameKept DEF ListenerInv
  <2>6. ConnInv(c)'
    <3>1. ArrivalInv(c) /\ UnknownInv(c) /\ OutcomeInv(c) /\ ProxyInv(c)
      BY DEF ListenerInv, ConnInv
    <3>2. ArrivalInv(c)'
      BY <2>1, <2>3, <3>1, <1>4 DEF Moved, CountTypes, ArrivalInv, Arrivals, Fresh, UnknownInv, ProxyInv, ListenInv,
        ListenTypes, Listener!TypeOK, Listener!handleClientConnecting, Listener!accepts, Listener!setListeningJob, Listener!acceptFails, Listener!sockVars, Listener!unknownVars, Listener!proxyVars
    <3>3. UnknownInv(c)'
      BY <2>1, <2>3, <3>1, <1>4 DEF Moved, CountTypes, ArrivalInv, Arrivals, Fresh, UnknownInv, OutcomeInv, ProxyInv, ListenInv,
        ListenTypes, Listener!TypeOK, Listener!handleClientConnecting, Listener!accepts, Listener!setListeningJob, Listener!acceptFails, Listener!sockVars, Listener!unknownVars, Listener!proxyVars
    <3>4. OutcomeInv(c)'
      BY <2>1, <2>3, <3>1, <1>4 DEF Moved, CountTypes, ArrivalInv, Arrivals, Fresh, UnknownInv, OutcomeInv, ProxyInv, ListenInv,
        ListenTypes, Listener!TypeOK, Listener!handleClientConnecting, Listener!accepts, Listener!setListeningJob, Listener!acceptFails, Listener!sockVars, Listener!unknownVars, Listener!proxyVars
    <3>5. ProxyInv(c)'
      BY <2>1, <2>3, <3>1, <1>4 DEF Moved, CountTypes, ArrivalInv, Arrivals, Fresh, UnknownInv, OutcomeInv, ProxyInv, ListenInv,
        ListenTypes, Listener!TypeOK, Listener!handleClientConnecting, Listener!accepts, Listener!setListeningJob, Listener!acceptFails, Listener!sockVars, Listener!unknownVars, Listener!proxyVars
    <3>6. QED
      BY <3>2, <3>3, <3>4, <3>5 DEF ConnInv
  <2>7. WaitingInv'
    <3>1. waitingClients' = waitingClients /\ stopped' = stopped
      BY <1>4 DEF Listener!handleClientConnecting, Listener!accepts, Listener!setListeningJob, Listener!acceptFails, Listener!sockVars, Listener!unknownVars, Listener!proxyVars
    <3>2. \A d \in Conns : l_owner'[d] = "listener" <=> l_owner[d] = "listener"
      BY <2>1, <1>4 DEF ListenerInv, ConnInv, UnknownInv, ListenTypes, Listener!TypeOK, Listener!handleClientConnecting, Listener!accepts, Listener!setListeningJob, Listener!acceptFails, Listener!sockVars, Listener!unknownVars, Listener!proxyVars
    <3>3. Len(waitingClients) \in Nat
      BY <2>1, Members DEF ListenTypes, Listener!TypeOK
    <3>4. /\ Count(l_events, "Handover", NoConn) \in Nat /\ Count(l_events', "Handover", NoConn) \in Nat
          /\ Count(l_events, "Handover", NoConn) <= Count(l_events', "Handover", NoConn)
      BY <2>3 DEF Moved, CountTypes
    <3>5. QED
      BY <2>1, <3>1, <3>2, <3>3, <3>4, WaitingSame
  <2>8. ListenInv'
    BY <2>1, <2>3, <1>4 DEF Moved, CountTypes, ListenInv, Listener!handleClientConnecting, Listener!accepts, Listener!setListeningJob, Listener!acceptFails, Listener!sockVars, Listener!unknownVars, Listener!proxyVars
  <2>9. QED
    BY <2>1, <2>4, <2>5, <2>6, <2>7, <2>8 DEF ListenerInv
<1>5. QED
  BY <1>1, <1>2, <1>3, <1>4 DEF Listener!handleClientConnecting

LEMMA ListenKnown ==
    ASSUME Listener!ListenerAssumption, ListenerInv, NEW c \in Conns, Listener!handleUnknownClient(c)
    PROVE  ListenerInv'
<1>1. CASE c \notin newClients
  <2>1. ListenTypes /\ WaitingInv /\ ListenInv /\ NoConn \notin Conns
    BY DEF ListenerInv, Listener!ListenerAssumption
  <2>2. Mailed("Success", c, "none", NoConn)
    BY <2>1, <1>1, MailStep, EvTyped DEF Listener!handleUnknownClient, Listener!orphanClientProxy, Listener!removeUnknownClient, Listener!announce, Listener!SocketEvents, Listener!StreamEvents, Listener!OtherEvents
  <2>3. l_events' \in Seq(Listener!Event) /\ CountTypes(c) /\ Moved(c, 0, 0, 0, 0 - 1, 0, 0, 0) /\ Count(l_events, "Success", c) > 0
    <3>1. l_events' \in Seq(Listener!Event) /\ CountTypes(c) /\ Count(l_events, "Success", c) > 0
      BY ONLY <2>2 DEF Mailed, CountTypes
    <3>2. Moved(c, 0, 0, 0, 0 - 1, 0, 0, 0)
      BY ONLY <2>1, <2>2, <3>1, SMTT(30) DEF Mailed, Moved, CountTypes
    <3>3. QED
      BY <3>1, <3>2
  <2>4. ListenTypes'
    BY <2>1, <2>3, <1>1 DEF ListenTypes, Listener!TypeOK, Listener!handleUnknownClient, Listener!orphanClientProxy, Listener!removeUnknownClient, Listener!announce, Listener!sockVars, Listener!unknownVars, Listener!proxyVars
  <2>5. ASSUME NEW d \in Conns, d # c PROVE ConnInv(d)'
    <3>1. \A kind \in Kinds : Count(l_events', kind, d) = Count(l_events, kind, d)
      BY <2>1, <2>2, <2>5 DEF Mailed, Kinds
    <3>2. SameFor(d)
      BY <2>1, <2>5, <3>1, <1>1 DEF SameFor, ListenTypes, Listener!TypeOK, Listener!handleUnknownClient, Listener!orphanClientProxy, Listener!removeUnknownClient, Listener!announce, Listener!sockVars, Listener!unknownVars, Listener!proxyVars
    <3>3. QED
      BY <3>2, SameKept DEF ListenerInv
  <2>6. ConnInv(c)'
    <3>1. ArrivalInv(c) /\ UnknownInv(c) /\ OutcomeInv(c) /\ ProxyInv(c)
      BY DEF ListenerInv, ConnInv
    <3>2. ArrivalInv(c)'
      BY <2>1, <2>3, <3>1, <1>1 DEF Moved, CountTypes, ArrivalInv, Arrivals, Fresh, UnknownInv, ProxyInv, ListenInv,
        ListenTypes, Listener!TypeOK, Listener!handleUnknownClient, Listener!orphanClientProxy, Listener!removeUnknownClient, Listener!announce, Listener!sockVars, Listener!unknownVars, Listener!proxyVars
    <3>3. UnknownInv(c)'
      BY <2>1, <2>3, <3>1, <1>1 DEF Moved, CountTypes, ArrivalInv, Arrivals, Fresh, UnknownInv, OutcomeInv, ProxyInv, ListenInv,
        ListenTypes, Listener!TypeOK, Listener!handleUnknownClient, Listener!orphanClientProxy, Listener!removeUnknownClient, Listener!announce, Listener!sockVars, Listener!unknownVars, Listener!proxyVars
    <3>4. OutcomeInv(c)'
      BY <2>1, <2>3, <3>1, <1>1 DEF Moved, CountTypes, ArrivalInv, Arrivals, Fresh, UnknownInv, OutcomeInv, ProxyInv, ListenInv,
        ListenTypes, Listener!TypeOK, Listener!handleUnknownClient, Listener!orphanClientProxy, Listener!removeUnknownClient, Listener!announce, Listener!sockVars, Listener!unknownVars, Listener!proxyVars
    <3>5. ProxyInv(c)'
      BY <2>1, <2>3, <3>1, <1>1 DEF Moved, CountTypes, ArrivalInv, Arrivals, Fresh, UnknownInv, OutcomeInv, ProxyInv, ListenInv,
        ListenTypes, Listener!TypeOK, Listener!handleUnknownClient, Listener!orphanClientProxy, Listener!removeUnknownClient, Listener!announce, Listener!sockVars, Listener!unknownVars, Listener!proxyVars
    <3>6. QED
      BY <3>2, <3>3, <3>4, <3>5 DEF ConnInv
  <2>7. WaitingInv'
    <3>1. waitingClients' = waitingClients /\ stopped' = stopped
      BY <1>1 DEF Listener!handleUnknownClient, Listener!orphanClientProxy, Listener!removeUnknownClient, Listener!announce, Listener!sockVars, Listener!unknownVars, Listener!proxyVars
    <3>2. \A d \in Conns : l_owner'[d] = "listener" <=> l_owner[d] = "listener"
      BY <2>1, <1>1 DEF ListenerInv, ConnInv, UnknownInv, ListenTypes, Listener!TypeOK, Listener!handleUnknownClient, Listener!orphanClientProxy, Listener!removeUnknownClient, Listener!announce, Listener!sockVars, Listener!unknownVars, Listener!proxyVars
    <3>3. Len(waitingClients) \in Nat
      BY <2>1, Members DEF ListenTypes, Listener!TypeOK
    <3>4. /\ Count(l_events, "Handover", NoConn) \in Nat /\ Count(l_events', "Handover", NoConn) \in Nat
          /\ Count(l_events, "Handover", NoConn) <= Count(l_events', "Handover", NoConn)
      BY <2>3 DEF Moved, CountTypes
    <3>5. QED
      BY <2>1, <3>1, <3>2, <3>3, <3>4, WaitingSame
  <2>8. ListenInv'
    BY <2>1, <2>3, <1>1 DEF Moved, CountTypes, ListenInv, Listener!handleUnknownClient, Listener!orphanClientProxy, Listener!removeUnknownClient, Listener!announce, Listener!sockVars, Listener!unknownVars, Listener!proxyVars
  <2>9. QED
    BY <2>1, <2>4, <2>5, <2>6, <2>7, <2>8 DEF ListenerInv
<1>2. CASE /\ c \in newClients /\ c \in l_ready /\ l_owner[c] = "unknown"
           /\ Listener!orphanClientProxy(c) /\ waitingClients' = Append(waitingClients, c)
           /\ l_events' = Listener!announce /\ UNCHANGED socket /\ Listener!removeUnknownClient(c)
  <2>1. ListenTypes /\ WaitingInv /\ ListenInv /\ NoConn \notin Conns
    BY DEF ListenerInv, Listener!ListenerAssumption
  <2>2. Mailed("Success", c, "Handover", NoConn)
    BY <2>1, <1>2, MailStep, EvTyped DEF Listener!handleUnknownClient, Listener!orphanClientProxy, Listener!removeUnknownClient, Listener!announce, Listener!SocketEvents, Listener!StreamEvents, Listener!OtherEvents
  <2>3. l_events' \in Seq(Listener!Event) /\ CountTypes(c) /\ Moved(c, 0, 0, 0, 0 - 1, 0, 1, 0) /\ Count(l_events, "Success", c) > 0
    <3>1. l_events' \in Seq(Listener!Event) /\ CountTypes(c) /\ Count(l_events, "Success", c) > 0
      BY ONLY <2>2 DEF Mailed, CountTypes
    <3>2. Moved(c, 0, 0, 0, 0 - 1, 0, 1, 0)
      BY ONLY <2>1, <2>2, <3>1, SMTT(30) DEF Mailed, Moved, CountTypes
    <3>3. QED
      BY <3>1, <3>2
  <2>4. ListenTypes'
    BY <2>1, <2>3, <1>2 DEF ListenTypes, Listener!TypeOK, Listener!handleUnknownClient, Listener!orphanClientProxy, Listener!removeUnknownClient, Listener!announce, Listener!sockVars, Listener!unknownVars, Listener!proxyVars
  <2>5. ASSUME NEW d \in Conns, d # c PROVE ConnInv(d)'
    <3>1. \A kind \in Kinds : Count(l_events', kind, d) = Count(l_events, kind, d)
      BY <2>1, <2>2, <2>5 DEF Mailed, Kinds
    <3>2. SameFor(d)
      BY <2>1, <2>5, <3>1, <1>2 DEF SameFor, ListenTypes, Listener!TypeOK, Listener!handleUnknownClient, Listener!orphanClientProxy, Listener!removeUnknownClient, Listener!announce, Listener!sockVars, Listener!unknownVars, Listener!proxyVars
    <3>3. QED
      BY <3>2, SameKept DEF ListenerInv
  <2>6. ConnInv(c)'
    <3>1. ArrivalInv(c) /\ UnknownInv(c) /\ OutcomeInv(c) /\ ProxyInv(c)
      BY DEF ListenerInv, ConnInv
    <3>2. ArrivalInv(c)'
      BY <2>1, <2>3, <3>1, <1>2 DEF Moved, CountTypes, ArrivalInv, Arrivals, Fresh, UnknownInv, ProxyInv, ListenInv,
        ListenTypes, Listener!TypeOK, Listener!handleUnknownClient, Listener!orphanClientProxy, Listener!removeUnknownClient, Listener!announce, Listener!sockVars, Listener!unknownVars, Listener!proxyVars
    <3>3. UnknownInv(c)'
      BY <2>1, <2>3, <3>1, <1>2 DEF Moved, CountTypes, ArrivalInv, Arrivals, Fresh, UnknownInv, OutcomeInv, ProxyInv, ListenInv,
        ListenTypes, Listener!TypeOK, Listener!handleUnknownClient, Listener!orphanClientProxy, Listener!removeUnknownClient, Listener!announce, Listener!sockVars, Listener!unknownVars, Listener!proxyVars
    <3>4. OutcomeInv(c)'
      BY <2>1, <2>3, <3>1, <1>2 DEF Moved, CountTypes, ArrivalInv, Arrivals, Fresh, UnknownInv, OutcomeInv, ProxyInv, ListenInv,
        ListenTypes, Listener!TypeOK, Listener!handleUnknownClient, Listener!orphanClientProxy, Listener!removeUnknownClient, Listener!announce, Listener!sockVars, Listener!unknownVars, Listener!proxyVars
    <3>5. ProxyInv(c)'
      BY <2>1, <2>3, <3>1, <1>2 DEF Moved, CountTypes, ArrivalInv, Arrivals, Fresh, UnknownInv, OutcomeInv, ProxyInv, ListenInv,
        ListenTypes, Listener!TypeOK, Listener!handleUnknownClient, Listener!orphanClientProxy, Listener!removeUnknownClient, Listener!announce, Listener!sockVars, Listener!unknownVars, Listener!proxyVars
    <3>6. QED
      BY <3>2, <3>3, <3>4, <3>5 DEF ConnInv
  <2>7. WaitingInv'
    <3>1. waitingClients \in Seq(Conns)
      BY <2>1 DEF ListenTypes, Listener!TypeOK
    <3>2. /\ waitingClients' = Append(waitingClients, c) /\ stopped' = stopped
          /\ l_owner'[c] = "listener" /\ l_owner[c] # "listener"
      BY <1>2, <2>1 DEF Listener!handleUnknownClient, Listener!orphanClientProxy, Listener!removeUnknownClient, Listener!announce, ListenTypes, Listener!TypeOK
    <3>3. \A e \in Conns : e # c => l_owner'[e] = l_owner[e]
      BY <1>2, <2>1 DEF Listener!handleUnknownClient, Listener!orphanClientProxy, Listener!removeUnknownClient, Listener!announce, ListenTypes, Listener!TypeOK
    <3>4. /\ Count(l_events, "Handover", NoConn) \in Nat
          /\ Count(l_events', "Handover", NoConn) = Count(l_events, "Handover", NoConn) + 1
      BY <2>3 DEF Moved, CountTypes
    <3>5. QED
      BY <2>1, <3>1, <3>2, <3>3, <3>4, WaitingMore
  <2>8. ListenInv'
    BY <2>1, <2>3, <1>2 DEF Moved, CountTypes, ListenInv, Listener!handleUnknownClient, Listener!orphanClientProxy, Listener!removeUnknownClient, Listener!announce, Listener!sockVars, Listener!unknownVars, Listener!proxyVars
  <2>9. QED
    BY <2>1, <2>4, <2>5, <2>6, <2>7, <2>8 DEF ListenerInv
<1>3. CASE /\ c \in newClients /\ (c \notin l_ready \/ l_owner[c] # "unknown")
           /\ socket' = [socket EXCEPT ![c] = IF c \in stream THEN "closed" ELSE @]
           /\ l_events' = Tail(l_events) /\ UNCHANGED <<waitingClients, l_owner>> /\ Listener!removeUnknownClient(c)
  <2>1. ListenTypes /\ WaitingInv /\ ListenInv /\ NoConn \notin Conns
    BY DEF ListenerInv, Listener!ListenerAssumption
  <2>2. Mailed("Success", c, "none", NoConn)
    BY <2>1, <1>3, MailStep, EvTyped DEF Listener!handleUnknownClient, Listener!orphanClientProxy, Listener!removeUnknownClient, Listener!announce, Listener!SocketEvents, Listener!StreamEvents, Listener!OtherEvents
  <2>3. l_events' \in Seq(Listener!Event) /\ CountTypes(c) /\ Moved(c, 0, 0, 0, 0 - 1, 0, 0, 0) /\ Count(l_events, "Success", c) > 0
    <3>1. l_events' \in Seq(Listener!Event) /\ CountTypes(c) /\ Count(l_events, "Success", c) > 0
      BY ONLY <2>2 DEF Mailed, CountTypes
    <3>2. Moved(c, 0, 0, 0, 0 - 1, 0, 0, 0)
      BY ONLY <2>1, <2>2, <3>1, SMTT(30) DEF Mailed, Moved, CountTypes
    <3>3. QED
      BY <3>1, <3>2
  <2>4. ListenTypes'
    BY <2>1, <2>3, <1>3 DEF ListenTypes, Listener!TypeOK, Listener!handleUnknownClient, Listener!orphanClientProxy, Listener!removeUnknownClient, Listener!announce, Listener!sockVars, Listener!unknownVars, Listener!proxyVars
  <2>5. ASSUME NEW d \in Conns, d # c PROVE ConnInv(d)'
    <3>1. \A kind \in Kinds : Count(l_events', kind, d) = Count(l_events, kind, d)
      BY <2>1, <2>2, <2>5 DEF Mailed, Kinds
    <3>2. SameFor(d)
      BY <2>1, <2>5, <3>1, <1>3 DEF SameFor, ListenTypes, Listener!TypeOK, Listener!handleUnknownClient, Listener!orphanClientProxy, Listener!removeUnknownClient, Listener!announce, Listener!sockVars, Listener!unknownVars, Listener!proxyVars
    <3>3. QED
      BY <3>2, SameKept DEF ListenerInv
  <2>6. ConnInv(c)'
    <3>1. ArrivalInv(c) /\ UnknownInv(c) /\ OutcomeInv(c) /\ ProxyInv(c)
      BY DEF ListenerInv, ConnInv
    <3>2. ArrivalInv(c)'
      BY <2>1, <2>3, <3>1, <1>3 DEF Moved, CountTypes, ArrivalInv, Arrivals, Fresh, UnknownInv, ProxyInv, ListenInv,
        ListenTypes, Listener!TypeOK, Listener!handleUnknownClient, Listener!orphanClientProxy, Listener!removeUnknownClient, Listener!announce, Listener!sockVars, Listener!unknownVars, Listener!proxyVars
    <3>3. UnknownInv(c)'
      BY <2>1, <2>3, <3>1, <1>3 DEF Moved, CountTypes, ArrivalInv, Arrivals, Fresh, UnknownInv, OutcomeInv, ProxyInv, ListenInv,
        ListenTypes, Listener!TypeOK, Listener!handleUnknownClient, Listener!orphanClientProxy, Listener!removeUnknownClient, Listener!announce, Listener!sockVars, Listener!unknownVars, Listener!proxyVars
    <3>4. OutcomeInv(c)'
      BY <2>1, <2>3, <3>1, <1>3 DEF Moved, CountTypes, ArrivalInv, Arrivals, Fresh, UnknownInv, OutcomeInv, ProxyInv, ListenInv,
        ListenTypes, Listener!TypeOK, Listener!handleUnknownClient, Listener!orphanClientProxy, Listener!removeUnknownClient, Listener!announce, Listener!sockVars, Listener!unknownVars, Listener!proxyVars
    <3>5. ProxyInv(c)'
      BY <2>1, <2>3, <3>1, <1>3 DEF Moved, CountTypes, ArrivalInv, Arrivals, Fresh, UnknownInv, OutcomeInv, ProxyInv, ListenInv,
        ListenTypes, Listener!TypeOK, Listener!handleUnknownClient, Listener!orphanClientProxy, Listener!removeUnknownClient, Listener!announce, Listener!sockVars, Listener!unknownVars, Listener!proxyVars
    <3>6. QED
      BY <3>2, <3>3, <3>4, <3>5 DEF ConnInv
  <2>7. WaitingInv'
    <3>1. waitingClients' = waitingClients /\ stopped' = stopped
      BY <1>3 DEF Listener!handleUnknownClient, Listener!orphanClientProxy, Listener!removeUnknownClient, Listener!announce, Listener!sockVars, Listener!unknownVars, Listener!proxyVars
    <3>2. \A d \in Conns : l_owner'[d] = "listener" <=> l_owner[d] = "listener"
      BY <2>1, <1>3 DEF ListenerInv, ConnInv, UnknownInv, ListenTypes, Listener!TypeOK, Listener!handleUnknownClient, Listener!orphanClientProxy, Listener!removeUnknownClient, Listener!announce, Listener!sockVars, Listener!unknownVars, Listener!proxyVars
    <3>3. Len(waitingClients) \in Nat
      BY <2>1, Members DEF ListenTypes, Listener!TypeOK
    <3>4. /\ Count(l_events, "Handover", NoConn) \in Nat /\ Count(l_events', "Handover", NoConn) \in Nat
          /\ Count(l_events, "Handover", NoConn) <= Count(l_events', "Handover", NoConn)
      BY <2>3 DEF Moved, CountTypes
    <3>5. QED
      BY <2>1, <3>1, <3>2, <3>3, <3>4, WaitingSame
  <2>8. ListenInv'
    BY <2>1, <2>3, <1>3 DEF Moved, CountTypes, ListenInv, Listener!handleUnknownClient, Listener!orphanClientProxy, Listener!removeUnknownClient, Listener!announce, Listener!sockVars, Listener!unknownVars, Listener!proxyVars
  <2>9. QED
    BY <2>1, <2>4, <2>5, <2>6, <2>7, <2>8 DEF ListenerInv
<1>4. QED
  BY <1>1, <1>2, <1>3 DEF Listener!handleUnknownClient

LEMMA ListenEnds ==
    ASSUME Listener!ListenerAssumption, ListenerInv, NEW c \in Conns, Listener!handleClientDisconnected(c)
    PROVE  ListenerInv'
<1>1. CASE /\ c \in newClients /\ Listener!sendFailure(c, Tail(l_events)) /\ UNCHANGED <<waitingClients, corrupt>>
  <2>1. ListenTypes /\ WaitingInv /\ ListenInv /\ NoConn \notin Conns
    BY DEF ListenerInv, Listener!ListenerAssumption
  <2>2. Mailed("Disconnected", c, "Failure", c)
    BY <2>1, <1>1, MailStep, EvTyped DEF Listener!handleClientDisconnected, Listener!proxyDeleted, Listener!sendFailure, Listener!SocketEvents, Listener!StreamEvents, Listener!OtherEvents
  <2>3. l_events' \in Seq(Listener!Event) /\ CountTypes(c) /\ Moved(c, 0, 0, 0, 0, 1, 0, 0) /\ Count(l_events, "Disconnected", c) > 0
    <3>1. l_events' \in Seq(Listener!Event) /\ CountTypes(c) /\ Count(l_events, "Disconnected", c) > 0
      BY ONLY <2>2 DEF Mailed, CountTypes
    <3>2. Moved(c, 0, 0, 0, 0, 1, 0, 0)
      BY ONLY <2>1, <2>2, <3>1, SMTT(30) DEF Mailed, Moved, CountTypes
    <3>3. QED
      BY <3>1, <3>2
  <2>4. ListenTypes'
    BY <2>1, <2>3, <1>1 DEF ListenTypes, Listener!TypeOK, Listener!handleClientDisconnected, Listener!proxyDeleted, Listener!sendFailure, Listener!sockVars, Listener!unknownVars, Listener!proxyVars
  <2>5. ASSUME NEW d \in Conns, d # c PROVE ConnInv(d)'
    <3>1. \A kind \in Kinds : Count(l_events', kind, d) = Count(l_events, kind, d)
      BY <2>1, <2>2, <2>5 DEF Mailed, Kinds
    <3>2. SameFor(d)
      BY <2>1, <2>5, <3>1, <1>1 DEF SameFor, ListenTypes, Listener!TypeOK, Listener!handleClientDisconnected, Listener!proxyDeleted, Listener!sendFailure, Listener!sockVars, Listener!unknownVars, Listener!proxyVars
    <3>3. QED
      BY <3>2, SameKept DEF ListenerInv
  <2>6. ConnInv(c)'
    <3>1. ArrivalInv(c) /\ UnknownInv(c) /\ OutcomeInv(c) /\ ProxyInv(c)
      BY DEF ListenerInv, ConnInv
    <3>2. ArrivalInv(c)'
      BY <2>1, <2>3, <3>1, <1>1 DEF Moved, CountTypes, ArrivalInv, Arrivals, Fresh, UnknownInv, ProxyInv, ListenInv,
        ListenTypes, Listener!TypeOK, Listener!handleClientDisconnected, Listener!proxyDeleted, Listener!sendFailure, Listener!sockVars, Listener!unknownVars, Listener!proxyVars
    <3>3. UnknownInv(c)'
      BY <2>1, <2>3, <3>1, <1>1 DEF Moved, CountTypes, ArrivalInv, Arrivals, Fresh, UnknownInv, OutcomeInv, ProxyInv, ListenInv,
        ListenTypes, Listener!TypeOK, Listener!handleClientDisconnected, Listener!proxyDeleted, Listener!sendFailure, Listener!sockVars, Listener!unknownVars, Listener!proxyVars
    <3>4. OutcomeInv(c)'
      BY <2>1, <2>3, <3>1, <1>1 DEF Moved, CountTypes, ArrivalInv, Arrivals, Fresh, UnknownInv, OutcomeInv, ProxyInv, ListenInv,
        ListenTypes, Listener!TypeOK, Listener!handleClientDisconnected, Listener!proxyDeleted, Listener!sendFailure, Listener!sockVars, Listener!unknownVars, Listener!proxyVars
    <3>5. ProxyInv(c)'
      BY <2>1, <2>3, <3>1, <1>1 DEF Moved, CountTypes, ArrivalInv, Arrivals, Fresh, UnknownInv, OutcomeInv, ProxyInv, ListenInv,
        ListenTypes, Listener!TypeOK, Listener!handleClientDisconnected, Listener!proxyDeleted, Listener!sendFailure, Listener!sockVars, Listener!unknownVars, Listener!proxyVars
    <3>6. QED
      BY <3>2, <3>3, <3>4, <3>5 DEF ConnInv
  <2>7. WaitingInv'
    <3>1. waitingClients' = waitingClients /\ stopped' = stopped
      BY <1>1 DEF Listener!handleClientDisconnected, Listener!proxyDeleted, Listener!sendFailure, Listener!sockVars, Listener!unknownVars, Listener!proxyVars
    <3>2. \A d \in Conns : l_owner'[d] = "listener" <=> l_owner[d] = "listener"
      BY <2>1, <1>1 DEF ListenerInv, ConnInv, UnknownInv, ListenTypes, Listener!TypeOK, Listener!handleClientDisconnected, Listener!proxyDeleted, Listener!sendFailure, Listener!sockVars, Listener!unknownVars, Listener!proxyVars
    <3>3. Len(waitingClients) \in Nat
      BY <2>1, Members DEF ListenTypes, Listener!TypeOK
    <3>4. /\ Count(l_events, "Handover", NoConn) \in Nat /\ Count(l_events', "Handover", NoConn) \in Nat
          /\ Count(l_events, "Handover", NoConn) <= Count(l_events', "Handover", NoConn)
      BY <2>3 DEF Moved, CountTypes
    <3>5. QED
      BY <2>1, <3>1, <3>2, <3>3, <3>4, WaitingSame
  <2>8. ListenInv'
    BY <2>1, <2>3, <1>1 DEF Moved, CountTypes, ListenInv, Listener!handleClientDisconnected, Listener!proxyDeleted, Listener!sendFailure, Listener!sockVars, Listener!unknownVars, Listener!proxyVars
  <2>9. QED
    BY <2>1, <2>4, <2>5, <2>6, <2>7, <2>8 DEF ListenerInv
<1>2. CASE /\ l_owner[c] = "listener" /\ Listener!proxyDeleted(c) /\ corrupt' = TRUE /\ l_events' = Tail(l_events)
           /\ \E i \in DOMAIN waitingClients :
                 waitingClients[i] = c /\ waitingClients' = Listener!RemoveAt(waitingClients, i)
           /\ UNCHANGED <<l_ready, l_timer, deafUnknown, strayHandlers>>
  <2>1. ListenTypes /\ WaitingInv /\ ListenInv /\ NoConn \notin Conns
    BY DEF ListenerInv, Listener!ListenerAssumption
  <2>2. Mailed("Disconnected", c, "none", NoConn)
    BY <2>1, <1>2, MailStep, EvTyped DEF Listener!handleClientDisconnected, Listener!proxyDeleted, Listener!sendFailure, Listener!SocketEvents, Listener!StreamEvents, Listener!OtherEvents
  <2>3. l_events' \in Seq(Listener!Event) /\ CountTypes(c) /\ Moved(c, 0, 0, 0, 0, 0, 0, 0) /\ Count(l_events, "Disconnected", c) > 0
    <3>1. l_events' \in Seq(Listener!Event) /\ CountTypes(c) /\ Count(l_events, "Disconnected", c) > 0
      BY ONLY <2>2 DEF Mailed, CountTypes
    <3>2. Moved(c, 0, 0, 0, 0, 0, 0, 0)
      BY ONLY <2>1, <2>2, <3>1, SMTT(30) DEF Mailed, Moved, CountTypes
    <3>3. QED
      BY <3>1, <3>2
  <2>4. ListenTypes'
    <3>1. waitingClients' \in Seq(Conns)
      <4>1. waitingClients \in Seq(Conns)
        BY <2>1 DEF ListenTypes, Listener!TypeOK
      <4>2. DOMAIN waitingClients = 1 .. Len(waitingClients)
        BY <4>1, Members
      <4>3. QED
        BY <1>2, <4>1, <4>2, Removed
    <3>2. QED
      BY <2>1, <2>3, <1>2, <3>1 DEF ListenTypes, Listener!TypeOK, Listener!handleClientDisconnected, Listener!proxyDeleted,
        Listener!sendFailure, Listener!sockVars, Listener!unknownVars, Listener!proxyVars
  <2>5. ASSUME NEW d \in Conns, d # c PROVE ConnInv(d)'
    <3>1. \A kind \in Kinds : Count(l_events', kind, d) = Count(l_events, kind, d)
      BY <2>1, <2>2, <2>5 DEF Mailed, Kinds
    <3>2. SameFor(d)
      BY <2>1, <2>5, <3>1, <1>2 DEF SameFor, ListenTypes, Listener!TypeOK, Listener!handleClientDisconnected, Listener!proxyDeleted, Listener!sendFailure, Listener!sockVars, Listener!unknownVars, Listener!proxyVars
    <3>3. QED
      BY <3>2, SameKept DEF ListenerInv
  <2>6. ConnInv(c)'
    <3>1. ArrivalInv(c) /\ UnknownInv(c) /\ OutcomeInv(c) /\ ProxyInv(c)
      BY DEF ListenerInv, ConnInv
    <3>2. ArrivalInv(c)'
      BY <2>1, <2>3, <3>1, <1>2 DEF Moved, CountTypes, ArrivalInv, Arrivals, Fresh, UnknownInv, ProxyInv, ListenInv,
        ListenTypes, Listener!TypeOK, Listener!handleClientDisconnected, Listener!proxyDeleted, Listener!sendFailure, Listener!sockVars, Listener!unknownVars, Listener!proxyVars
    <3>3. UnknownInv(c)'
      BY <2>1, <2>3, <3>1, <1>2 DEF Moved, CountTypes, ArrivalInv, Arrivals, Fresh, UnknownInv, OutcomeInv, ProxyInv, ListenInv,
        ListenTypes, Listener!TypeOK, Listener!handleClientDisconnected, Listener!proxyDeleted, Listener!sendFailure, Listener!sockVars, Listener!unknownVars, Listener!proxyVars
    <3>4. OutcomeInv(c)'
      BY <2>1, <2>3, <3>1, <1>2 DEF Moved, CountTypes, ArrivalInv, Arrivals, Fresh, UnknownInv, OutcomeInv, ProxyInv, ListenInv,
        ListenTypes, Listener!TypeOK, Listener!handleClientDisconnected, Listener!proxyDeleted, Listener!sendFailure, Listener!sockVars, Listener!unknownVars, Listener!proxyVars
    <3>5. ProxyInv(c)'
      BY <2>1, <2>3, <3>1, <1>2 DEF Moved, CountTypes, ArrivalInv, Arrivals, Fresh, UnknownInv, OutcomeInv, ProxyInv, ListenInv,
        ListenTypes, Listener!TypeOK, Listener!handleClientDisconnected, Listener!proxyDeleted, Listener!sendFailure, Listener!sockVars, Listener!unknownVars, Listener!proxyVars
    <3>6. QED
      BY <3>2, <3>3, <3>4, <3>5 DEF ConnInv
  <2>7. WaitingInv'
    <3>1. waitingClients \in Seq(Conns)
      BY <2>1 DEF ListenTypes, Listener!TypeOK
    <3>2. DOMAIN waitingClients = 1 .. Len(waitingClients)
      BY <3>1, Members
    <3>3. PICK k \in 1 .. Len(waitingClients) :
             waitingClients[k] = c /\ waitingClients' = Listener!RemoveAt(waitingClients, k)
      BY <1>2, <3>2
    <3>4. /\ Listener!RemoveAt(waitingClients, k) \in Seq(Conns)
          /\ Len(Listener!RemoveAt(waitingClients, k)) = Len(waitingClients) - 1
          /\ \A i \in 1 .. Len(waitingClients) - 1 : Listener!RemoveAt(waitingClients, k)[i]
                = (IF i < k THEN waitingClients[i] ELSE waitingClients[i + 1])
      BY <3>1, Removed
    <3>5. l_owner'[c] # "listener" /\ stopped' = stopped
      BY <1>2, <2>1 DEF Listener!handleClientDisconnected, Listener!proxyDeleted, Listener!sendFailure, ListenTypes, Listener!TypeOK
    <3>6. \A e \in Conns : e # c => l_owner'[e] = l_owner[e]
      BY <1>2, <2>1 DEF Listener!handleClientDisconnected, Listener!proxyDeleted, Listener!sendFailure, ListenTypes, Listener!TypeOK
    <3>7. /\ Count(l_events, "Handover", NoConn) \in Nat /\ Count(l_events', "Handover", NoConn) \in Nat
          /\ Count(l_events', "Handover", NoConn) + 1 >= Count(l_events, "Handover", NoConn)
      BY <2>3 DEF Moved, CountTypes
    <3>8. QED
      BY ONLY <2>1, <3>1, <3>3, <3>4, <3>5, <3>6, <3>7, WaitingLess
  <2>8. ListenInv'
    BY <2>1, <2>3, <1>2 DEF Moved, CountTypes, ListenInv, Listener!handleClientDisconnected, Listener!proxyDeleted, Listener!sendFailure, Listener!sockVars, Listener!unknownVars, Listener!proxyVars
  <2>9. QED
    BY <2>1, <2>4, <2>5, <2>6, <2>7, <2>8 DEF ListenerInv
<1>3. CASE /\ l_owner[c] = "server" /\ Listener!proxyDeleted(c) /\ l_events' = Tail(l_events)
           /\ UNCHANGED <<l_ready, l_timer, deafUnknown, strayHandlers, waitingClients, corrupt>>
  <2>1. ListenTypes /\ WaitingInv /\ ListenInv /\ NoConn \notin Conns
    BY DEF ListenerInv, Listener!ListenerAssumption
  <2>2. Mailed("Disconnected", c, "none", NoConn)
    BY <2>1, <1>3, MailStep, EvTyped DEF Listener!handleClientDisconnected, Listener!proxyDeleted, Listener!sendFailure, Listener!SocketEvents, Listener!StreamEvents, Listener!OtherEvents
  <2>3. l_events' \in Seq(Listener!Event) /\ CountTypes(c) /\ Moved(c, 0, 0, 0, 0, 0, 0, 0) /\ Count(l_events, "Disconnected", c) > 0
    <3>1. l_events' \in Seq(Listener!Event) /\ CountTypes(c) /\ Count(l_events, "Disconnected", c) > 0
      BY ONLY <2>2 DEF Mailed, CountTypes
    <3>2. Moved(c, 0, 0, 0, 0, 0, 0, 0)
      BY ONLY <2>1, <2>2, <3>1, SMTT(30) DEF Mailed, Moved, CountTypes
    <3>3. QED
      BY <3>1, <3>2
  <2>4. ListenTypes'
    BY <2>1, <2>3, <1>3 DEF ListenTypes, Listener!TypeOK, Listener!handleClientDisconnected, Listener!proxyDeleted, Listener!sendFailure, Listener!sockVars, Listener!unknownVars, Listener!proxyVars
  <2>5. ASSUME NEW d \in Conns, d # c PROVE ConnInv(d)'
    <3>1. \A kind \in Kinds : Count(l_events', kind, d) = Count(l_events, kind, d)
      BY <2>1, <2>2, <2>5 DEF Mailed, Kinds
    <3>2. SameFor(d)
      BY <2>1, <2>5, <3>1, <1>3 DEF SameFor, ListenTypes, Listener!TypeOK, Listener!handleClientDisconnected, Listener!proxyDeleted, Listener!sendFailure, Listener!sockVars, Listener!unknownVars, Listener!proxyVars
    <3>3. QED
      BY <3>2, SameKept DEF ListenerInv
  <2>6. ConnInv(c)'
    <3>1. ArrivalInv(c) /\ UnknownInv(c) /\ OutcomeInv(c) /\ ProxyInv(c)
      BY DEF ListenerInv, ConnInv
    <3>2. ArrivalInv(c)'
      BY <2>1, <2>3, <3>1, <1>3 DEF Moved, CountTypes, ArrivalInv, Arrivals, Fresh, UnknownInv, ProxyInv, ListenInv,
        ListenTypes, Listener!TypeOK, Listener!handleClientDisconnected, Listener!proxyDeleted, Listener!sendFailure, Listener!sockVars, Listener!unknownVars, Listener!proxyVars
    <3>3. UnknownInv(c)'
      BY <2>1, <2>3, <3>1, <1>3 DEF Moved, CountTypes, ArrivalInv, Arrivals, Fresh, UnknownInv, OutcomeInv, ProxyInv, ListenInv,
        ListenTypes, Listener!TypeOK, Listener!handleClientDisconnected, Listener!proxyDeleted, Listener!sendFailure, Listener!sockVars, Listener!unknownVars, Listener!proxyVars
    <3>4. OutcomeInv(c)'
      BY <2>1, <2>3, <3>1, <1>3 DEF Moved, CountTypes, ArrivalInv, Arrivals, Fresh, UnknownInv, OutcomeInv, ProxyInv, ListenInv,
        ListenTypes, Listener!TypeOK, Listener!handleClientDisconnected, Listener!proxyDeleted, Listener!sendFailure, Listener!sockVars, Listener!unknownVars, Listener!proxyVars
    <3>5. ProxyInv(c)'
      BY <2>1, <2>3, <3>1, <1>3 DEF Moved, CountTypes, ArrivalInv, Arrivals, Fresh, UnknownInv, OutcomeInv, ProxyInv, ListenInv,
        ListenTypes, Listener!TypeOK, Listener!handleClientDisconnected, Listener!proxyDeleted, Listener!sendFailure, Listener!sockVars, Listener!unknownVars, Listener!proxyVars
    <3>6. QED
      BY <3>2, <3>3, <3>4, <3>5 DEF ConnInv
  <2>7. WaitingInv'
    <3>1. waitingClients' = waitingClients /\ stopped' = stopped
      BY <1>3 DEF Listener!handleClientDisconnected, Listener!proxyDeleted, Listener!sendFailure, Listener!sockVars, Listener!unknownVars, Listener!proxyVars
    <3>2. \A d \in Conns : l_owner'[d] = "listener" <=> l_owner[d] = "listener"
      BY <2>1, <1>3 DEF ListenerInv, ConnInv, UnknownInv, ListenTypes, Listener!TypeOK, Listener!handleClientDisconnected, Listener!proxyDeleted, Listener!sendFailure, Listener!sockVars, Listener!unknownVars, Listener!proxyVars
    <3>3. Len(waitingClients) \in Nat
      BY <2>1, Members DEF ListenTypes, Listener!TypeOK
    <3>4. /\ Count(l_events, "Handover", NoConn) \in Nat /\ Count(l_events', "Handover", NoConn) \in Nat
          /\ Count(l_events, "Handover", NoConn) <= Count(l_events', "Handover", NoConn)
      BY <2>3 DEF Moved, CountTypes
    <3>5. QED
      BY <2>1, <3>1, <3>2, <3>3, <3>4, WaitingSame
  <2>8. ListenInv'
    BY <2>1, <2>3, <1>3 DEF Moved, CountTypes, ListenInv, Listener!handleClientDisconnected, Listener!proxyDeleted, Listener!sendFailure, Listener!sockVars, Listener!unknownVars, Listener!proxyVars
  <2>9. QED
    BY <2>1, <2>4, <2>5, <2>6, <2>7, <2>8 DEF ListenerInv
<1>4. CASE /\ l_owner[c] = "nobody" /\ c \notin newClients /\ corrupt' = (c \in strayHandlers) /\ l_events' = Tail(l_events)
           /\ UNCHANGED <<l_ready, l_timer, deafUnknown, strayHandlers, Listener!proxyVars>>
  <2>1. ListenTypes /\ WaitingInv /\ ListenInv /\ NoConn \notin Conns
    BY DEF ListenerInv, Listener!ListenerAssumption
  <2>2. Mailed("Disconnected", c, "none", NoConn)
    BY <2>1, <1>4, MailStep, EvTyped DEF Listener!handleClientDisconnected, Listener!proxyDeleted, Listener!sendFailure, Listener!SocketEvents, Listener!StreamEvents, Listener!OtherEvents
  <2>3. l_events' \in Seq(Listener!Event) /\ CountTypes(c) /\ Moved(c, 0, 0, 0, 0, 0, 0, 0) /\ Count(l_events, "Disconnected", c) > 0
    <3>1. l_events' \in Seq(Listener!Event) /\ CountTypes(c) /\ Count(l_events, "Disconnected", c) > 0
      BY ONLY <2>2 DEF Mailed, CountTypes
    <3>2. Moved(c, 0, 0, 0, 0, 0, 0, 0)
      BY ONLY <2>1, <2>2, <3>1, SMTT(30) DEF Mailed, Moved, CountTypes
    <3>3. QED
      BY <3>1, <3>2
  <2>4. ListenTypes'
    BY <2>1, <2>3, <1>4 DEF ListenTypes, Listener!TypeOK, Listener!handleClientDisconnected, Listener!proxyDeleted, Listener!sendFailure, Listener!sockVars, Listener!unknownVars, Listener!proxyVars
  <2>5. ASSUME NEW d \in Conns, d # c PROVE ConnInv(d)'
    <3>1. \A kind \in Kinds : Count(l_events', kind, d) = Count(l_events, kind, d)
      BY <2>1, <2>2, <2>5 DEF Mailed, Kinds
    <3>2. SameFor(d)
      BY <2>1, <2>5, <3>1, <1>4 DEF SameFor, ListenTypes, Listener!TypeOK, Listener!handleClientDisconnected, Listener!proxyDeleted, Listener!sendFailure, Listener!sockVars, Listener!unknownVars, Listener!proxyVars
    <3>3. QED
      BY <3>2, SameKept DEF ListenerInv
  <2>6. ConnInv(c)'
    <3>1. ArrivalInv(c) /\ UnknownInv(c) /\ OutcomeInv(c) /\ ProxyInv(c)
      BY DEF ListenerInv, ConnInv
    <3>2. ArrivalInv(c)'
      BY <2>1, <2>3, <3>1, <1>4 DEF Moved, CountTypes, ArrivalInv, Arrivals, Fresh, UnknownInv, ProxyInv, ListenInv,
        ListenTypes, Listener!TypeOK, Listener!handleClientDisconnected, Listener!proxyDeleted, Listener!sendFailure, Listener!sockVars, Listener!unknownVars, Listener!proxyVars
    <3>3. UnknownInv(c)'
      BY <2>1, <2>3, <3>1, <1>4 DEF Moved, CountTypes, ArrivalInv, Arrivals, Fresh, UnknownInv, OutcomeInv, ProxyInv, ListenInv,
        ListenTypes, Listener!TypeOK, Listener!handleClientDisconnected, Listener!proxyDeleted, Listener!sendFailure, Listener!sockVars, Listener!unknownVars, Listener!proxyVars
    <3>4. OutcomeInv(c)'
      BY <2>1, <2>3, <3>1, <1>4 DEF Moved, CountTypes, ArrivalInv, Arrivals, Fresh, UnknownInv, OutcomeInv, ProxyInv, ListenInv,
        ListenTypes, Listener!TypeOK, Listener!handleClientDisconnected, Listener!proxyDeleted, Listener!sendFailure, Listener!sockVars, Listener!unknownVars, Listener!proxyVars
    <3>5. ProxyInv(c)'
      BY <2>1, <2>3, <3>1, <1>4 DEF Moved, CountTypes, ArrivalInv, Arrivals, Fresh, UnknownInv, OutcomeInv, ProxyInv, ListenInv,
        ListenTypes, Listener!TypeOK, Listener!handleClientDisconnected, Listener!proxyDeleted, Listener!sendFailure, Listener!sockVars, Listener!unknownVars, Listener!proxyVars
    <3>6. QED
      BY <3>2, <3>3, <3>4, <3>5 DEF ConnInv
  <2>7. WaitingInv'
    <3>1. waitingClients' = waitingClients /\ stopped' = stopped
      BY <1>4 DEF Listener!handleClientDisconnected, Listener!proxyDeleted, Listener!sendFailure, Listener!sockVars, Listener!unknownVars, Listener!proxyVars
    <3>2. \A d \in Conns : l_owner'[d] = "listener" <=> l_owner[d] = "listener"
      BY <2>1, <1>4 DEF ListenerInv, ConnInv, UnknownInv, ListenTypes, Listener!TypeOK, Listener!handleClientDisconnected, Listener!proxyDeleted, Listener!sendFailure, Listener!sockVars, Listener!unknownVars, Listener!proxyVars
    <3>3. Len(waitingClients) \in Nat
      BY <2>1, Members DEF ListenTypes, Listener!TypeOK
    <3>4. /\ Count(l_events, "Handover", NoConn) \in Nat /\ Count(l_events', "Handover", NoConn) \in Nat
          /\ Count(l_events, "Handover", NoConn) <= Count(l_events', "Handover", NoConn)
      BY <2>3 DEF Moved, CountTypes
    <3>5. QED
      BY <2>1, <3>1, <3>2, <3>3, <3>4, WaitingSame
  <2>8. ListenInv'
    BY <2>1, <2>3, <1>4 DEF Moved, CountTypes, ListenInv, Listener!handleClientDisconnected, Listener!proxyDeleted, Listener!sendFailure, Listener!sockVars, Listener!unknownVars, Listener!proxyVars
  <2>9. QED
    BY <2>1, <2>4, <2>5, <2>6, <2>7, <2>8 DEF ListenerInv
<1>5. QED
  BY <1>1, <1>2, <1>3, <1>4 DEF Listener!handleClientDisconnected

LEMMA ListenHandsOver ==
    ASSUME Listener!ListenerAssumption, ListenerInv, Listener!handleClientConnected
    PROVE  ListenerInv'
<1>1. CASE stopped \/ waitingClients = <<>>
  <2>1. ListenTypes /\ WaitingInv /\ ListenInv /\ NoConn \notin Conns
    BY DEF ListenerInv, Listener!ListenerAssumption
  <2>2. Mailed("Handover", NoConn, "none", NoConn)
    BY <2>1, <1>1, MailStep, EvTyped DEF Listener!handleClientConnected, Listener!SocketEvents, Listener!StreamEvents, Listener!OtherEvents
  <2>3. l_events' \in Seq(Listener!Event) /\ CountTypes(NoConn) /\ Moved(NoConn, 0, 0, 0, 0, 0, 0 - 1, 0) /\ Count(l_events, "Handover", NoConn) > 0
    <3>1. l_events' \in Seq(Listener!Event) /\ CountTypes(NoConn) /\ Count(l_events, "Handover", NoConn) > 0
      BY ONLY <2>2 DEF Mailed, CountTypes
    <3>2. Moved(NoConn, 0, 0, 0, 0, 0, 0 - 1, 0)
      BY ONLY <2>1, <2>2, <3>1, SMTT(30) DEF Mailed, Moved, CountTypes
    <3>3. QED
      BY <3>1, <3>2
  <2>4. ListenTypes'
    BY <2>1, <2>3, <1>1 DEF ListenTypes, Listener!TypeOK, Listener!handleClientConnected, Listener!sockVars, Listener!unknownVars, Listener!proxyVars
  <2>5. ASSUME NEW d \in Conns PROVE ConnInv(d)'
    <3>1. \A kind \in Kinds : Count(l_events', kind, d) = Count(l_events, kind, d)
      BY <2>1, <2>2, <2>5 DEF Mailed, Kinds
    <3>2. SameFor(d)
      BY <2>1, <2>5, <3>1, <1>1 DEF SameFor, ListenTypes, Listener!TypeOK, Listener!handleClientConnected, Listener!sockVars, Listener!unknownVars, Listener!proxyVars
    <3>3. QED
      BY <3>2, SameKept DEF ListenerInv
  <2>6. TRUE
    OBVIOUS
  <2>7. WaitingInv'
    <3>1. waitingClients' = waitingClients /\ l_owner' = l_owner /\ stopped' = stopped
      BY <1>1 DEF Listener!handleClientConnected
    <3>2. Len(<<>>) = 0
      OBVIOUS
    <3>3. stopped \/ Len(waitingClients) <= Count(l_events', "Handover", NoConn)
      BY <1>1, <2>3, <3>2 DEF Moved, CountTypes
    <3>4. QED
      BY <2>1, <3>1, <3>3 DEF WaitingInv
  <2>8. ListenInv'
    BY <2>1, <2>3, <1>1 DEF Moved, CountTypes, ListenInv, Listener!handleClientConnected, Listener!sockVars, Listener!unknownVars, Listener!proxyVars
  <2>9. QED
    BY <2>1, <2>4, <2>5, <2>6, <2>7, <2>8 DEF ListenerInv
<1>2. ASSUME NEW c \in Conns, ~stopped, waitingClients # <<>>, c = Head(waitingClients), l_owner[c] = "listener"
      PROVE  ListenerInv'
  <2>1. ListenTypes /\ WaitingInv /\ ListenInv /\ NoConn \notin Conns
    BY DEF ListenerInv, Listener!ListenerAssumption
  <2>2. Mailed("Handover", NoConn, "none", NoConn)
    BY <2>1, <1>2, MailStep, EvTyped DEF Listener!handleClientConnected, Listener!SocketEvents, Listener!StreamEvents, Listener!OtherEvents
  <2>3. l_events' \in Seq(Listener!Event) /\ CountTypes(c) /\ Moved(c, 0, 0, 0, 0, 0, 0 - 1, 0) /\ Count(l_events, "Handover", NoConn) > 0
    <3>1. l_events' \in Seq(Listener!Event) /\ CountTypes(c) /\ Count(l_events, "Handover", NoConn) > 0
      BY ONLY <2>2 DEF Mailed, CountTypes
    <3>2. Moved(c, 0, 0, 0, 0, 0, 0 - 1, 0)
      BY ONLY <2>1, <2>2, <3>1, SMTT(30) DEF Mailed, Moved, CountTypes
    <3>3. QED
      BY <3>1, <3>2
  <2>4. ListenTypes'
    <3>1. waitingClients \in Seq(Conns)
      BY <2>1 DEF ListenTypes, Listener!TypeOK
    <3>2. Tail(waitingClients) \in Seq(Conns)
      BY <1>2, <3>1, Members
    <3>3. QED
      BY <2>1, <2>3, <1>2, <3>2 DEF ListenTypes, Listener!TypeOK, Listener!handleClientConnected, Listener!sockVars, Listener!unknownVars, Listener!proxyVars
  <2>5. ASSUME NEW d \in Conns, d # c PROVE ConnInv(d)'
    <3>1. \A kind \in Kinds : Count(l_events', kind, d) = Count(l_events, kind, d)
      BY <2>1, <2>2, <2>5 DEF Mailed, Kinds
    <3>2. SameFor(d)
      BY <2>1, <2>5, <3>1, <1>2 DEF SameFor, ListenTypes, Listener!TypeOK, Listener!handleClientConnected, Listener!sockVars, Listener!unknownVars, Listener!proxyVars
    <3>3. QED
      BY <3>2, SameKept DEF ListenerInv
  <2>6. ConnInv(c)'
    <3>1. ArrivalInv(c) /\ UnknownInv(c) /\ OutcomeInv(c) /\ ProxyInv(c)
      BY DEF ListenerInv, ConnInv
    <3>2. ArrivalInv(c)'
      BY <2>1, <2>3, <3>1, <1>2 DEF Moved, CountTypes, ArrivalInv, Arrivals, Fresh, UnknownInv, ProxyInv, ListenInv,
        ListenTypes, Listener!TypeOK, Listener!handleClientConnected, Listener!sockVars, Listener!unknownVars, Listener!proxyVars
    <3>3. UnknownInv(c)'
      BY <2>1, <2>3, <3>1, <1>2 DEF Moved, CountTypes, ArrivalInv, Arrivals, Fresh, UnknownInv, OutcomeInv, ProxyInv, ListenInv,
        ListenTypes, Listener!TypeOK, Listener!handleClientConnected, Listener!sockVars, Listener!unknownVars, Listener!proxyVars
    <3>4. OutcomeInv(c)'
      BY <2>1, <2>3, <3>1, <1>2 DEF Moved, CountTypes, ArrivalInv, Arrivals, Fresh, UnknownInv, OutcomeInv, ProxyInv, ListenInv,
        ListenTypes, Listener!TypeOK, Listener!handleClientConnected, Listener!sockVars, Listener!unknownVars, Listener!proxyVars
    <3>5. ProxyInv(c)'
      BY <2>1, <2>3, <3>1, <1>2 DEF Moved, CountTypes, ArrivalInv, Arrivals, Fresh, UnknownInv, OutcomeInv, ProxyInv, ListenInv,
        ListenTypes, Listener!TypeOK, Listener!handleClientConnected, Listener!sockVars, Listener!unknownVars, Listener!proxyVars
    <3>6. QED
      BY <3>2, <3>3, <3>4, <3>5 DEF ConnInv
  <2>7. WaitingInv'
    <3>1. waitingClients \in Seq(Conns)
      BY <2>1 DEF ListenTypes, Listener!TypeOK
    <3>2. Len(waitingClients) \in Nat \ {0} /\ waitingClients[1] = c
      BY <1>2, <3>1, Members
    <3>3. 1 \in 1 .. Len(waitingClients)
      BY <3>2
    <3>4. /\ Tail(waitingClients) \in Seq(Conns) /\ Len(Tail(waitingClients)) = Len(waitingClients) - 1
          /\ \A i \in 1 .. Len(Tail(waitingClients)) : Tail(waitingClients)[i] = waitingClients[i + 1]
      BY <1>2, <3>1, Behind
    <3>5. \A i \in 1 .. Len(waitingClients) - 1 :
             Tail(waitingClients)[i] = (IF i < 1 THEN waitingClients[i] ELSE waitingClients[i + 1])
      BY <3>2, <3>4
    <3>6. waitingClients' = Tail(waitingClients) /\ stopped' = stopped /\ l_owner'[waitingClients[1]] # "listener"
      BY <1>2, <2>1, <3>2 DEF Listener!handleClientConnected, ListenTypes, Listener!TypeOK
    <3>7. \A e \in Conns : e # waitingClients[1] => l_owner'[e] = l_owner[e]
      BY <1>2, <2>1, <3>2 DEF Listener!handleClientConnected, ListenTypes, Listener!TypeOK
    <3>8. /\ Count(l_events, "Handover", NoConn) \in Nat /\ Count(l_events', "Handover", NoConn) \in Nat
          /\ Count(l_events', "Handover", NoConn) + 1 >= Count(l_events, "Handover", NoConn)
      BY <2>3 DEF Mailed, Moved, CountTypes
    <3>9. QED
      BY ONLY <2>1, <3>1, <3>3, <3>4, <3>5, <3>6, <3>7, <3>8, WaitingLess
  <2>8. ListenInv'
    BY <2>1, <2>3, <1>2 DEF Moved, CountTypes, ListenInv, Listener!handleClientConnected, Listener!sockVars, Listener!unknownVars, Listener!proxyVars
  <2>9. QED
    BY <2>1, <2>4, <2>5, <2>6, <2>7, <2>8 DEF ListenerInv
<1>3. CASE ~stopped /\ waitingClients # <<>>
  <2>1. waitingClients \in Seq(Conns)
    BY DEF ListenerInv, ListenTypes, Listener!TypeOK
  <2>2. Len(waitingClients) \in Nat \ {0} /\ Head(waitingClients) = waitingClients[1] /\ Head(waitingClients) \in Conns
    BY <1>3, <2>1, Members
  <2>3. 1 \in 1 .. Len(waitingClients)
    BY <2>2
  <2>4. l_owner[Head(waitingClients)] = "listener"
    BY <2>2, <2>3 DEF ListenerInv, WaitingInv
  <2>5. QED
    BY <1>2, <1>3, <2>2, <2>4
<1>4. QED
  BY <1>1, <1>3

LEMMA ListenStops ==
    ASSUME Listener!ListenerAssumption, ListenerInv, Listener!stop
    PROVE  ListenerInv'
<1>1. ListenTypes /\ WaitingInv /\ ListenInv
  BY DEF ListenerInv
<1>2. l_events' = l_events /\ stopped' = TRUE /\ listenJob' = "lost" /\ waitingClients' = <<>>
  BY DEF Listener!stop
<1>3. \A kind, c : Count(l_events, kind, c) \in Nat
  BY <1>1, PlacesFinite DEF Count, ListenTypes, Listener!TypeOK
<1>4. ListenTypes'
  <2>1. <<>> \in Seq(Conns)
    BY EmptySeq
  <2>2. QED
    BY <1>1, <2>1 DEF ListenTypes, Listener!TypeOK, Listener!stop
<1>5. ASSUME NEW c \in Conns PROVE ConnInv(c)'
  <2>1. ArrivalInv(c) /\ UnknownInv(c) /\ OutcomeInv(c) /\ ProxyInv(c)
    BY DEF ListenerInv, ConnInv
  <2>2. /\ c \notin newClients' /\ c \notin stream' /\ c \notin l_timer' /\ c \notin clientSockets'
        /\ l_owner'[c] = "nobody" /\ proxy'[c] = (IF l_owner[c] = "nobody" THEN proxy[c] ELSE "deleted")
        /\ socket'[c] = (IF c \in clientSockets THEN "deleted" ELSE socket[c])
        /\ l_peer'[c] = l_peer[c] /\ deafUnknown' = deafUnknown
    BY DEF Listener!stop
  <2>3. \A kind : Count(l_events', kind, c) = Count(l_events, kind, c)
    BY <1>2
  <2>4. Arrivals(l_events', c) = Arrivals(l_events, c)
    BY <2>3 DEF Arrivals
  <2>5. ArrivalInv(c)'
    BY <1>2, <2>1, <2>2, <2>4 DEF ArrivalInv, Fresh
  <2>6. UnknownInv(c)'
    BY <2>1, <2>2 DEF UnknownInv, ProxyInv
  <2>7. OutcomeInv(c)'
    BY <2>1, <2>2, <2>3 DEF OutcomeInv
  <2>8. ProxyInv(c)'
    BY <2>1, <2>2 DEF ProxyInv
  <2>9. QED
    BY <2>5, <2>6, <2>7, <2>8 DEF ConnInv
<1>6. WaitingInv'
  <2>1. Len(<<>>) = 0 /\ \A i \in 1 .. 0 : FALSE
    OBVIOUS
  <2>2. \A c \in Conns : l_owner'[c] = "nobody"
    BY DEF Listener!stop
  <2>3. QED
    BY <1>2, <2>1, <2>2 DEF WaitingInv
<1>7. ListenInv'
  BY DEF ListenInv, Listener!stop
<1>8. QED
  BY <1>4, <1>5, <1>6, <1>7 DEF ListenerInv

LEMMA ListenStarts ==
    ASSUME Listener!ListenerAssumption, Listener!Init
    PROVE  ListenerInv
<1>1. /\ l_events = <<>> /\ waitingClients = <<>> /\ stopped = FALSE /\ listenJob = "set"
      /\ newClients = {} /\ stream = {} /\ l_timer = {} /\ clientSockets = {} /\ deafUnknown = {}
      /\ \A c \in Conns : socket[c] = "none" /\ l_peer[c] = "connecting" /\ proxy[c] = "none" /\ l_owner[c] = "nobody"
  BY DEF Listener!Init
<1>2. ListenTypes
  <2>1. <<>> \in Seq(Conns) /\ <<>> \in Seq(Listener!Event)
    BY EmptySeq
  <2>2. QED
    BY <2>1 DEF ListenTypes, Listener!TypeOK, Listener!Init
<1>3. \A kind, c : Count(l_events, kind, c) = 0
  <2>1. \A A : Places(<<>>, A) = {}
    BY DEF Places
  <2>2. QED
    BY <1>1, <2>1, FS_EmptySet DEF Count, Number
<1>4. ASSUME NEW c \in Conns PROVE ConnInv(c)
  <2>1. Arrivals(l_events, c) = 0
    BY <1>3 DEF Arrivals
  <2>2. QED
    BY <1>1, <1>3, <2>1 DEF ConnInv, ArrivalInv, Fresh, UnknownInv, OutcomeInv, ProxyInv
<1>5. WaitingInv
  <2>1. Len(<<>>) = 0 /\ \A i \in 1 .. 0 : FALSE
    OBVIOUS
  <2>2. QED
    BY <1>1, <1>3, <2>1 DEF WaitingInv
<1>6. ListenInv
  BY <1>1 DEF ListenInv
<1>7. QED
  BY <1>2, <1>4, <1>5, <1>6 DEF ListenerInv

LEMMA ListenNext ==
    ASSUME Listener!ListenerAssumption, ListenerInv, [Listener!Next]_(Listener!vars)
    PROVE  ListenerInv'
<1>1. CASE UNCHANGED Listener!vars
  <2>1. /\ l_events' = l_events /\ stopped' = stopped /\ waitingClients' = waitingClients /\ listenJob' = listenJob
        /\ l_owner' = l_owner /\ socket' = socket /\ l_peer' = l_peer /\ proxy' = proxy /\ newClients' = newClients
        /\ clientSockets' = clientSockets /\ stream' = stream /\ l_ready' = l_ready /\ l_timer' = l_timer
        /\ deafUnknown' = deafUnknown /\ l_tls' = l_tls /\ corrupt' = corrupt /\ strayHandlers' = strayHandlers
    BY <1>1 DEF Listener!vars, Listener!sockVars, Listener!unknownVars, Listener!proxyVars
  <2>2. ListenTypes'
    BY <2>1 DEF ListenerInv, ListenTypes, Listener!TypeOK
  <2>3. ASSUME NEW c \in Conns PROVE ConnInv(c)'
    <3>1. SameFor(c)
      BY <2>1 DEF SameFor
    <3>2. QED
      BY <3>1, SameKept DEF ListenerInv
  <2>4. WaitingInv' /\ ListenInv'
    BY <2>1 DEF ListenerInv, WaitingInv, ListenInv
  <2>5. QED
    BY <2>2, <2>3, <2>4 DEF ListenerInv
<1>2. CASE Listener!Handle
  BY <1>2, ListenConnecting, ListenHandsOver, ListenAccepted, ListenRefuses, ListenGreets, ListenBad,
    ListenInformed, ListenHangsUp, ListenIgnores, ListenReady, ListenKnown, ListenFails, ListenEnds
    DEF Listener!Handle
<1>3. CASE Listener!Network
  BY <1>3, ListenServes, ListenConnects, ListenSecures, ListenReplies, ListenInforms, ListenLeaves
    DEF Listener!Network
<1>4. QED
  BY <1>1, <1>2, <1>3, ListenStops, ListenTimesOut, ListenDeletes DEF Listener!Next

\* A kind of event is in the queue for a connection just when its number is not zero.
LEMMA HowQueued ==
    ASSUME ListenTypes, NEW kinds, NEW c
    PROVE  /\ \A kind \in kinds : Count(l_events, kind, c) # 0 => Listener!Queued(kinds, c)
           /\ Listener!Queued(kinds, c) => \E kind \in kinds : Count(l_events, kind, c) # 0
<1>1. /\ l_events \in Seq(Listener!Event) /\ DOMAIN l_events = 1 .. Len(l_events)
      /\ \A i \in 1 .. Len(l_events) : l_events[i] \in Listener!Event
  <2>1. l_events \in Seq(Listener!Event)
    BY DEF ListenTypes, Listener!TypeOK
  <2>2. QED
    BY <2>1, Members
<1>2. \A e \in Listener!Event : e = Listener!Ev(e.kind, e.conn)
  BY DEF Listener!Event, Listener!Ev
<1>3. ASSUME NEW kind \in kinds, Count(l_events, kind, c) # 0
      PROVE  Listener!Queued(kinds, c)
  <2>1. Places(l_events, {Listener!Ev(kind, c)}) # {}
    BY <1>3, FS_EmptySet DEF Count, Number
  <2>2. PICK i \in DOMAIN l_events : l_events[i] = Listener!Ev(kind, c)
    BY <2>1 DEF Places
  <2>3. l_events[i].kind = kind /\ l_events[i].conn = c
    BY <2>2 DEF Listener!Ev
  <2>4. QED
    BY <2>2, <2>3 DEF Listener!Queued
<1>4. ASSUME Listener!Queued(kinds, c)
      PROVE  \E kind \in kinds : Count(l_events, kind, c) # 0
  <2>1. PICK i \in DOMAIN l_events : l_events[i].kind \in kinds /\ l_events[i].conn = c
    BY <1>4 DEF Listener!Queued
  <2> DEFINE kind == l_events[i].kind
             there == Places(l_events, {Listener!Ev(kind, c)})
  <2>2. l_events[i] = Listener!Ev(kind, c)
    BY <1>1, <1>2, <2>1
  <2>3. i \in there
    BY <2>2 DEF Places
  <2>4. IsFiniteSet(there)
    BY <1>1, PlacesFinite
  <2> HIDE DEF there
  <2>5. Cardinality(there) # 0
    BY <2>3, <2>4, FS_EmptySet
  <2>6. Count(l_events, kind, c) # 0
    BY <2>5 DEF Count, Number, there
  <2>7. QED
    BY <2>1, <2>6
<1>5. QED
  BY <1>3, <1>4

\* Whatever clients come, answer, fall silent and leave, and whichever event is handled between
\* which: a proxy has one owner which knows it, a client that waits is announced, one that failed
\* has its end in the queue, somebody is about to accept, and a socket is not left open to a
\* stranger (ClientListener, ClientProxyUnknown).
THEOREM ClientsAlways ==
    ASSUME Listener!ListenerAssumption
    PROVE  Listener!Spec => []ClientsAccountedFor
<1>1. ListenerInv => ClientsAccountedFor
  <2> SUFFICES ASSUME ListenerInv PROVE ClientsAccountedFor
    OBVIOUS
  <2>1. /\ ListenTypes /\ WaitingInv /\ ListenInv /\ Listener!TypeOK
        /\ \A c \in Conns : ArrivalInv(c) /\ UnknownInv(c) /\ OutcomeInv(c) /\ ProxyInv(c)
    BY DEF ListenerInv, ConnInv, ListenTypes
  <2>2. \A kind, c : Count(l_events, kind, c) \in Nat
    BY <2>1, PlacesFinite DEF Count, Listener!TypeOK
  <2>3. Listener!OneOwner
    <3>1. waitingClients \in Seq(Conns)
      BY <2>1 DEF Listener!TypeOK
    <3>2. DOMAIN waitingClients = 1 .. Len(waitingClients)
      BY <3>1, Members
    <3>3. \A c : c \in Listener!ToSet(waitingClients) <=> \E i \in 1 .. Len(waitingClients) : waitingClients[i] = c
      BY <3>2 DEF Listener!ToSet
    <3>4. ASSUME NEW c \in Conns
          PROVE  /\ l_owner[c] = "nobody" <=> proxy[c] \in {"none", "deleted"}
                 /\ l_owner[c] = "unknown" => c \in newClients /\ c \notin stream
                 /\ l_owner[c] = "listener" <=> c \in Listener!ToSet(waitingClients)
                 /\ l_owner[c] # "nobody" => c \in clientSockets
      <4>1. l_owner[c] = "listener" <=> \E i \in 1 .. Len(waitingClients) : waitingClients[i] = c
        BY <2>1 DEF WaitingInv
      <4>2. ProxyInv(c)
        BY <2>1
      <4>3. QED
        BY <3>3, <4>1, <4>2 DEF ProxyInv
    <3>5. QED
      BY <3>4 DEF Listener!OneOwner
  <2>4. Listener!WaitingAnnounced
    <3>1. {i \in DOMAIN l_events : l_events[i].kind = "Handover"} = Places(l_events, {Listener!Ev("Handover", NoConn)})
      <4>1. /\ l_events \in Seq(Listener!Event) /\ DOMAIN l_events = 1 .. Len(l_events)
            /\ \A i \in 1 .. Len(l_events) : l_events[i] \in Listener!Event
        <5>1. l_events \in Seq(Listener!Event)
          BY <2>1 DEF Listener!TypeOK
        <5>2. QED
          BY <5>1, Members
      <4>2. \A e \in Listener!Event : e.kind = "Handover" <=> e = Listener!Ev("Handover", NoConn)
        BY DEF Listener!Event, Listener!Ev, Listener!SocketEvents, Listener!StreamEvents, Listener!OtherEvents
      <4>3. QED
        BY <4>1, <4>2 DEF Places
    <3>2. Listener!Cardinality({i \in DOMAIN l_events : l_events[i].kind = "Handover"})
             = Count(l_events, "Handover", NoConn)
      BY <3>1 DEF Count, Number, Cardinality, Listener!Cardinality
    <3>3. QED
      BY <2>1, <3>2 DEF WaitingInv, Listener!WaitingAnnounced
  <2>5. Listener!OutcomeQueued
    <3>1. ASSUME NEW c \in newClients \ l_timer PROVE Listener!Queued({"Success", "Failure"}, c)
      <4>1. c \in Conns
        BY <2>1 DEF Listener!TypeOK
      <4>2. Count(l_events, "Success", c) + Count(l_events, "Failure", c) > 0
        BY <2>1, <3>1, <4>1 DEF OutcomeInv
      <4>3. Count(l_events, "Success", c) # 0 \/ Count(l_events, "Failure", c) # 0
        BY <2>2, <4>2
      <4>4. QED
        BY <2>1, <4>3, HowQueued
    <3>2. QED
      BY <3>1 DEF Listener!OutcomeQueued
  <2>6. Listener!SomebodyAccepts
    <3>1. listenJob = "taken" => Count(l_events, "Connecting", NoConn) # 0
      BY <2>1, <2>2 DEF ListenInv
    <3>2. QED
      BY <2>1, <3>1, HowQueued DEF Listener!SomebodyAccepts
  <2>7. Listener!StrangersDropped
    <3>1. ASSUME NEW c \in clientSockets, socket[c] = "open", l_peer[c] # "connecting", c \notin newClients,
                 ~Listener!Queued(Listener!SocketEvents, c)
          PROVE  proxy[c] # "none"
      <4>1. c \in Conns
        BY <2>1 DEF Listener!TypeOK
      <4>2. Count(l_events, "Accepted", c) = 0 /\ Count(l_events, "DisconnectedOnAccept", c) = 0
        BY <2>1, <3>1, HowQueued DEF Listener!SocketEvents
      <4>3. Arrivals(l_events, c) = 0
        BY <4>2 DEF Arrivals
      <4>4. QED
        BY <2>1, <3>1, <4>1, <4>3 DEF ProxyInv
    <3>2. QED
      BY <3>1 DEF Listener!StrangersDropped
  <2>8. QED
    BY <2>1, <2>3, <2>4, <2>5, <2>6, <2>7 DEF ClientsAccountedFor
<1>2. Listener!Init => ListenerInv
  BY ListenStarts
<1>3. ListenerInv /\ [Listener!Next]_(Listener!vars) => ListenerInv'
  BY ListenNext
<1>4. QED
  BY <1>1, <1>2, <1>3, PTL DEF Listener!Spec
=============================================================================
