------------------------- MODULE ConnectionsProofs -------------------------
(***************************************************************************)
(* Proofs about the other parts of a connection, for any values of their     *)
(* constants: the socket, its packets, the session of a client, the daemon   *)
(* with its watchdog, the service with its worker, and the thread that       *)
(* serves the sockets.                                                       *)
(***************************************************************************)
EXTENDS ListenerProofs, TCPSocketProofs

------------------------------------------------------------------------------
\* The service thread polls a socket for what its flags and buffers ask for, plain or with
\* TLS, however much is written and however much arrives (TCPSocket::newJob,
\* SecureSocket::newJob).
THEOREM SocketAlways == Spec => []SocketServed
  BY TypeCorrect, SocketPolls, InputIsAnnounced, PTL DEF SocketServed

------------------------------------------------------------------------------
(* The table of jobs.  SocketMultiplexerProofs shows that the multiplexer keeps it.   *)

LEMMA TableStarts == Init => Table!Init
  BY ConnectionsAssumption DEF Init, Table!Init, tableJob, tableServed

\* Both threads leave the table alone.
TableSame == job' = job /\ (service = "idle" <=> service' = "idle")

LEMMA TableKept == ASSUME TableSame PROVE UNCHANGED <<tableJob, tableServed>>
  BY DEF TableSame, tableJob, tableServed

LEMMA TableSteps ==
    ASSUME TypeOK, [Next]_vars PROVE [Table!Next]_<<tableJob, tableServed>>
<1> USE DEF roleVars, flagVars, tlsVars, serviceVars, ownerVars, netVars
<1>1. ASSUME NEW j \in Job \cup {NoJob}, setJob(j), UNCHANGED service PROVE Table!SetJob(sock, j)
  BY <1>1 DEF setJob, Table!SetJob, tableJob, tableServed
<1>2. ASSUME NEW j \in Job \cup {NoJob}, setJob(j), UNCHANGED service PROVE Table!Next
  BY <1>1, <1>2 DEF Table!Next
<1>3. CASE giveJob \/ freeSSL \/ removeJob
  <2>1. pending \in Job \cup {NoJob}
    BY DEF TypeOK
  <2>2. QED
    BY <1>2, <1>3, <2>1 DEF giveJob, freeSSL, removeJob
<1>4. CASE askJob \/ build \/ secureAccept \/ read \/ flushReturns \/ closeSocket
  <2>1. TableSame
    BY <1>4 DEF askJob, build, secureAccept, read, flushReturns, closeSocket, TableSame
  <2>2. QED
    BY <2>1, TableKept
<1>5. CASE connect \/ handleEvent \/ write \/ flush \/ close
  <2>1. TableSame
    BY <1>5 DEF connect, handleEvent, write, flush, close, TableSame
  <2>2. QED
    BY <2>1, TableKept
<1>6. CASE pick
  <2>1. tableServed = NoSocket /\ tableServed' = sock /\ tableJob' = tableJob /\ tableJob[sock] # NoJob
    BY <1>6 DEF pick, tableJob, tableServed
  <2>2. QED
    BY <2>1 DEF Table!Serve, Table!Next
<1>7. CASE serviceConnecting \/ serviceHandshake \/ serviceConnected \/ serviceReads
  <2>1. TableSame
    BY <1>7 DEF serviceConnecting, serviceHandshake, serviceConnected, serviceReads, TableSame
  <2>2. QED
    BY <2>1, TableKept
<1>8. CASE finish
  <2>1. returned \in Job \cup {NoJob}
    BY DEF TypeOK
  <2>2. tableServed = sock /\ tableServed' = NoSocket /\ tableJob' = [tableJob EXCEPT ![sock] = returned]
    BY <1>8 DEF finish, tableJob, tableServed
  <2>3. Table!Finish(returned)
    BY <2>2, ConnectionsAssumption DEF Table!Finish
  <2>4. QED
    BY <2>1, <2>3 DEF Table!Next
<1>9. CASE peerAnswers \/ peerSends \/ peerReads \/ peerLeaves \/ UNCHANGED vars
  <2>1. TableSame
    BY <1>9 DEF peerAnswers, peerSends, peerReads, peerLeaves, vars, TableSame
  <2>2. QED
    BY <2>1, TableKept
<1>10. QED
  BY <1>3, <1>4, <1>5, <1>6, <1>7, <1>8, <1>9 DEF Next, OwnerStep, OwnerGoesOn, ServiceStep

\* However much is written and arrives, owner and service thread use the table of jobs as the
\* multiplexer allows: a socket implements JobTable for its own job (TCPSocket::setJob,
\* TCPSocket::serviceConnected).
THEOREM TableAlways == Spec => TableUsed
<1>1. TypeOK /\ [Next]_vars => [Table!Next]_<<tableJob, tableServed>>
  BY TableSteps
<1>2. QED
  BY <1>1, TableStarts, TypeCorrect, PTL DEF Spec, TableUsed, Table!Spec

------------------------------------------------------------------------------
(* The packets that come over a socket.                                        *)

FilterEvents == {"InputReady", "InputShutdown", "UpShutdown", "UpFormatError"}
UpEvents == {"UpShutdown", "UpFormatError"}

FilterStates == [size : {0, Body, Filter!Oversize}, buffer : Nat, packets : Nat, read : Nat, up : Seq(UpEvents)]

\* Every unit that came is in a buffer or was taken as part of a packet, and only the last
\* packet whose header was taken is not read: the one too large, if it claimed to be.
Counted(s, units) ==
    /\ units = s.buffer + s.packets * Header + s.read * Body
    /\ s.packets = s.read + (IF s.size = 0 THEN 0 ELSE 1)
    /\ s.size = Filter!Oversize => s.packets = badPacket

\* A header that is there was taken.
HeaderTaken(s) == s.size = 0 => s.buffer < Header

Rests(q, kind) == \E i \in 1..Len(q) : q[i] = kind

\* What came is announced before the end is.
Ahead(q) == \E i \in 1..Len(q) : q[i] = "InputReady" /\ \A j \in 1..(i - 1) : q[j] # "InputShutdown"

AmountInv ==
    /\ Counted(Filter!State, arrived - socketInput) /\ HeaderTaken(Filter!State)
    /\ socketInput > unannounced => Ahead(queue)
    /\ inputShutdown => ended /\ socketInput <= unannounced
    /\ Rests(queue, "UpShutdown") =>
        inputShutdown /\ packetsRead >= Filter!Good(Filter!Complete(arrived - unannounced))

FilterInv ==
    /\ Filter!TypeOK /\ Filter!EndAfterData
    /\ f_heard = "shutdown" => reader = "closed"
    /\ Rests(queue, "InputShutdown") => ended
    /\ unannounced > 0 => f_tls /\ ended
    /\ reader # "closed" => AmountInv

LEMMA Quotient ==
    ASSUME NEW n \in Nat, NEW k \in Nat \ {0}, NEW x \in 0..(k - 1), NEW a, a = n * k + x
    PROVE  a \div k = n
  OBVIOUS

\* readPacketSize counts what it takes.
LEMMA SizeRead ==
    ASSUME Filter!FilterAssumption, NEW s \in FilterStates, NEW units \in Nat, Counted(s, units),
           badPacket \in Nat,
           NEW t, t = Filter!readPacketSize(s)
    PROVE  /\ t \in FilterStates /\ Counted(t, units) /\ HeaderTaken(t) /\ t.read = s.read
           /\ s.size # 0 => t = s
           /\ Rests(t.up, "UpShutdown") => Rests(s.up, "UpShutdown")
<1> Filter!Oversize \in Nat /\ Header \in Nat \ {0} /\ Body \in Nat \ {0} /\ Filter!Oversize # 0 /\ Body # Filter!Oversize
  BY DEF Filter!Oversize, Filter!FilterAssumption
<1>1. CASE s.size # 0 \/ s.buffer < Header
  BY <1>1 DEF Filter!readPacketSize, HeaderTaken
<1>2. CASE s.size = 0 /\ s.buffer >= Header
  <2> DEFINE bad == s.packets + 1 = badPacket
  <2>0. s.buffer \in Nat /\ s.packets \in Nat /\ s.read \in Nat /\ s.up \in Seq(UpEvents)
    BY DEF FilterStates
  <2>1. t = [s EXCEPT !.buffer = @ - Header, !.packets = @ + 1, !.size = IF bad THEN Filter!Oversize ELSE Body,
                       !.up = IF bad THEN Append(@, "UpFormatError") ELSE @]
    BY <1>2, <2>0 DEF Filter!readPacketSize
  <2>2. /\ t.buffer = s.buffer - Header /\ t.packets = s.packets + 1 /\ t.read = s.read
        /\ t.size = IF bad THEN Filter!Oversize ELSE Body
        /\ t.up = IF bad THEN Append(s.up, "UpFormatError") ELSE s.up
    BY <2>1 DEF FilterStates
  <2>3. t.up \in Seq(UpEvents)
    BY <2>0, <2>2 DEF UpEvents
  <2>4. t \in FilterStates
    <3>1. t.buffer \in Nat /\ t.packets \in Nat /\ t.read \in Nat /\ t.size \in {0, Body, Filter!Oversize}
      BY <1>2, <2>0, <2>2
    <3>2. t = [size |-> t.size, buffer |-> t.buffer, packets |-> t.packets, read |-> t.read, up |-> t.up]
      BY <2>1 DEF FilterStates
    <3>3. QED
      BY ONLY <2>3, <3>1, <3>2 DEF FilterStates
  <2>5. (s.packets + 1) * Header = s.packets * Header + Header
    BY <2>0
  <2>6. Counted(t, units)
    BY <1>2, <2>0, <2>2, <2>5 DEF Counted
  <2>7. Rests(t.up, "UpShutdown") => Rests(s.up, "UpShutdown")
    BY <2>0, <2>2 DEF Rests
  <2>8. QED
    BY <1>2, <2>2, <2>4, <2>6, <2>7 DEF HeaderTaken
<1>3. QED
  BY <1>1, <1>2 DEF FilterStates

\* readPacket counts the packet as read.
LEMMA OneRead ==
    ASSUME Filter!FilterAssumption, NEW s \in FilterStates, NEW units \in 0..MaxUnits, Counted(s,
           units), badPacket \in Nat,
           inputShutdown \in BOOLEAN, Filter!isReady(s.size, s.buffer), NEW t, t = Filter!readPacket(s)
    PROVE  /\ t \in FilterStates /\ Counted(t, units) /\ HeaderTaken(t) /\ t.read = s.read + 1
           /\ Rests(t.up, "UpShutdown") => Rests(s.up, "UpShutdown") \/ (inputShutdown /\ t.size = 0)
<1> DEFINE r == [s EXCEPT !.buffer = @ - s.size, !.size = 0, !.read = @ + 1]
           h == Filter!readPacketSize(r)
<1>0. Filter!Oversize \in Nat /\ Filter!Oversize > MaxUnits /\ Header \in Nat \ {0} /\ Body \in Nat \ {0} /\ MaxUnits \in Nat
  BY DEF Filter!Oversize, Filter!FilterAssumption
<1>1. s.buffer \in Nat /\ s.packets \in Nat /\ s.read \in Nat /\ s.up \in Seq(UpEvents) /\ s.size \in {0, Body, Filter!Oversize}
  BY DEF FilterStates
<1>2. s.packets * Header \in Nat /\ s.read * Body \in Nat
  BY <1>0, <1>1
<1>3. s.buffer <= units
  BY <1>1, <1>2 DEF Counted
<1>4. s.size = Body /\ s.buffer >= Body
  BY <1>0, <1>1, <1>3 DEF Filter!isReady
<1>5. r.buffer = s.buffer - Body /\ r.size = 0 /\ r.read = s.read + 1 /\ r.packets = s.packets /\ r.up = s.up
  BY <1>4 DEF FilterStates
<1> r \in FilterStates
  <2>1. s.buffer - s.size \in Nat /\ s.read + 1 \in Nat /\ 0 \in Nat
    BY <1>0, <1>1, <1>4
  <2>2. QED
    BY <2>1 DEF FilterStates
<1>6. (s.read + 1) * Body = s.read * Body + Body
  BY <1>0, <1>1
<1>7. Counted(r, units)
  <2> HIDE DEF r
  <2>1. s.packets = s.read + 1
    BY <1>0, <1>4 DEF Counted
  <2>2. r.packets * Header = s.packets * Header /\ r.read * Body = s.read * Body + Body
    BY <1>5, <1>6
  <2>3. r.buffer + r.packets * Header + r.read * Body = s.buffer + s.packets * Header + s.read * Body
    BY <1>0, <1>1, <1>2, <1>4, <1>5, <2>2
  <2>4. r.size = 0 /\ r.packets = r.read + 0 /\ r.size # Filter!Oversize
    BY <1>0, <1>1, <1>5, <2>1
  <2>5. QED
    BY <2>3, <2>4 DEF Counted
<1>8. /\ h \in FilterStates /\ Counted(h, units) /\ HeaderTaken(h) /\ h.read = s.read + 1
      /\ (Rests(h.up, "UpShutdown") => Rests(s.up, "UpShutdown"))
  <2>1. units \in Nat
    BY <1>0
  <2> HIDE DEF r
  <2>2. QED
    BY <1>5, <1>7, <2>1, SizeRead
<1>9. t = IF inputShutdown /\ h.size = 0 THEN [h EXCEPT !.up = Append(@, "UpShutdown")] ELSE h
  BY DEF Filter!readPacket
<1> HIDE DEF r, h
<1>10. CASE inputShutdown /\ h.size = 0
  <2>1. Append(h.up, "UpShutdown") \in Seq(UpEvents)
    BY <1>8 DEF FilterStates, UpEvents
  <2>2. /\ t.size = h.size /\ t.buffer = h.buffer /\ t.packets = h.packets /\ t.read = h.read
        /\ t \in FilterStates
    BY <1>8, <1>9, <1>10, <2>1 DEF FilterStates
  <2>3. Counted(t, units) /\ HeaderTaken(t)
    BY <1>8, <2>2 DEF Counted, HeaderTaken
  <2>4. QED
    BY <1>8, <1>10, <2>2, <2>3
<1>11. CASE ~(inputShutdown /\ h.size = 0)
  <2>1. t = h
    BY <1>9, <1>11
  <2>2. QED
    BY <1>8, <2>1
<1>12. QED
  BY <1>10, <1>11

\* A part holds no more whole packets than all of it.
LEMMA Monotone ==
    ASSUME NEW k \in Nat \ {0}, NEW b \in Nat, NEW a \in 0..b
    PROVE  a \div k \in Nat /\ b \div k \in Nat /\ a \div k <= b \div k
<1> DEFINE m == a \div k
           n == b \div k
<1>1. m \in Nat /\ n \in Nat /\ a = k * m + (a % k) /\ b = k * n + (b % k) /\ a % k \in 0..(k - 1) /\ b % k \in 0..(k - 1)
  OBVIOUS
<1> HIDE DEF m, n
<1>2. SUFFICES ASSUME n < m PROVE FALSE
  BY <1>1 DEF m, n
<1>3. k * m >= k * (n + 1)
  BY <1>1, <1>2
<1>4. k * (n + 1) = k * n + k
  BY <1>1
<1>5. k * m \in Nat /\ k * n \in Nat
  BY <1>1
<1>6. QED
  BY <1>1, <1>3, <1>4, <1>5

\* Of the units that were taken every whole packet is read, when none is ready any more.
LEMMA AllRead ==
    ASSUME Filter!FilterAssumption, badPacket \in Nat, NEW s \in FilterStates,
           NEW units \in 0..MaxUnits, Counted(s, units), HeaderTaken(s),
           ~Filter!isReady(s.size, s.buffer), NEW announced \in 0..units
    PROVE  s.read >= Filter!Good(Filter!Complete(announced))
<1> DEFINE whole == s.read * (Header + Body)
<1>0. /\ Filter!Oversize \in Nat /\ Filter!Oversize > MaxUnits /\ Header \in Nat \ {0} /\ Body \in Nat \ {0} /\ MaxUnits \in Nat
      /\ Filter!Oversize # 0 /\ Filter!Oversize # Body
  BY DEF Filter!Oversize, Filter!FilterAssumption
<1>1. /\ s.buffer \in Nat /\ s.packets \in Nat /\ s.read \in Nat /\ badPacket \in Nat /\ units \in Nat /\ announced \in Nat
      /\ s.size \in {0, Body, Filter!Oversize}
  BY <1>0 DEF FilterStates
<1>2. /\ units = s.buffer + s.packets * Header + s.read * Body
      /\ s.packets = s.read + (IF s.size = 0 THEN 0 ELSE 1)
      /\ s.size = Filter!Oversize => s.packets = badPacket
      /\ s.size = 0 => s.buffer < Header
      /\ s.size # 0 => s.buffer < s.size
  BY <1>0, <1>1 DEF Counted, HeaderTaken, Filter!isReady
<1>3. whole = s.read * Header + s.read * Body /\ (s.read + 1) * Header = s.read * Header + Header
  BY <1>0, <1>1
<1>4. s.read * Header \in Nat /\ s.read * Body \in Nat
  BY <1>0, <1>1
<1>5. CASE s.size # Filter!Oversize
  <2>1. units = whole + (IF s.size = 0 THEN s.buffer ELSE Header + s.buffer)
    <3>1. CASE s.size = 0
      BY <1>0, <1>1, <1>2, <1>3, <1>4, <3>1
    <3>2. CASE s.size # 0
      <4>1. s.packets * Header = s.read * Header + Header
        BY <1>1, <1>2, <1>3, <3>2
      <4> HIDE DEF whole
      <4>2. QED
        BY <1>0, <1>1, <1>2, <1>3, <1>4, <3>2, <4>1
    <3>3. QED
      BY <3>1, <3>2
  <2> DEFINE rest == IF s.size = 0 THEN s.buffer ELSE Header + s.buffer
             unit == Header + Body
  <2>2. units = s.read * unit + rest /\ s.read \in Nat
    BY <1>1, <2>1
  <2>3. rest \in 0..(unit - 1) /\ unit \in Nat \ {0}
    BY <1>0, <1>1, <1>2, <1>5
  <2> HIDE DEF rest, unit
  <2>4. units \div unit = s.read
    BY <2>2, <2>3, Quotient
  <2>5. announced \div unit <= s.read /\ announced \div unit \in Nat
    BY <1>1, <2>3, <2>4, Monotone
  <2>6. QED
    BY <1>1, <2>5 DEF Filter!Complete, Filter!Good, unit
<1>6. CASE s.size = Filter!Oversize
  <2>1. badPacket = s.read + 1
    BY <1>0, <1>1, <1>2, <1>6
  <2>2. Filter!Complete(announced) \in Int
    BY <1>0, <1>1 DEF Filter!Complete
  <2>3. QED
    BY <1>1, <2>1, <2>2 DEF Filter!Good
<1>7. QED
  BY <1>5, <1>6

LEMMA FilterStarts ==
    ASSUME Filter!FilterAssumption, Filter!Init
    PROVE  FilterInv
<1> USE DEF Filter!Init
<1>1. Header \in Nat \ {0} /\ Body \in Nat \ {0} /\ MaxUnits \in Nat
  BY DEF Filter!FilterAssumption
<1>2. Filter!TypeOK
  <2>1. early \in BOOLEAN /\ reader \in {"one", "all", "reading", "closed"}
    OBVIOUS
  <2>2. queue \in Seq({"InputReady", "InputShutdown", "UpShutdown", "UpFormatError"})
    OBVIOUS
  <2>3. arrived \in 0..total /\ 0 \in 0..MaxUnits /\ packetsRead \in 0..packets
    BY <1>1
  <2>4. QED
    BY <1>1, <2>1, <2>2, <2>3 DEF Filter!TypeOK
<1>3. Filter!EndAfterData
  BY DEF Filter!EndAfterData
<1>4. Counted(Filter!State, arrived - socketInput) /\ HeaderTaken(Filter!State)
  BY <1>1 DEF Counted, HeaderTaken, Filter!State, Filter!Oversize
<1>5. QED
  BY <1>2, <1>3, <1>4 DEF FilterInv, AmountInv, Rests

\* What stands in a queue after an event is added, after the first is taken and after more follow.
LEMMA RestsAdded ==
    ASSUME NEW q \in Seq(FilterEvents), NEW e \in FilterEvents
    PROVE  /\ Append(q, e) \in Seq(FilterEvents)
           /\ \A k : Rests(Append(q, e), k) <=> Rests(q, k) \/ k = e
           /\ Ahead(q) => Ahead(Append(q, e))
           /\ e = "InputReady" /\ ~Rests(q, "InputShutdown") => Ahead(Append(q, e))
<1> DEFINE p == Append(q, e)
<1>1. p \in Seq(FilterEvents) /\ Len(p) = Len(q) + 1 /\ Len(q) \in Nat /\ p[Len(p)] = e /\ \A i \in 1..Len(q) : p[i] = q[i]
  OBVIOUS
<1> HIDE DEF p
<1>2. \A k : Rests(p, k) <=> Rests(q, k) \/ k = e
  BY <1>1 DEF Rests
<1>3. Ahead(q) => Ahead(p)
  <2>1. SUFFICES ASSUME NEW i \in 1..Len(q), q[i] = "InputReady", \A j \in 1..(i - 1) : q[j] # "InputShutdown" PROVE Ahead(p)
    BY DEF Ahead
  <2>2. i \in 1..Len(p) /\ p[i] = "InputReady" /\ \A j \in 1..(i - 1) : p[j] # "InputShutdown"
    BY <1>1, <2>1
  <2>3. QED
    BY <2>2 DEF Ahead
<1>4. e = "InputReady" /\ ~Rests(q, "InputShutdown") => Ahead(p)
  <2>1. SUFFICES ASSUME e = "InputReady", ~Rests(q, "InputShutdown") PROVE Ahead(p)
    OBVIOUS
  <2>2. Len(p) \in 1..Len(p) /\ \A j \in 1..(Len(p) - 1) : p[j] # "InputShutdown"
    BY <1>1, <2>1 DEF Rests
  <2>3. QED
    BY <1>1, <2>1, <2>2 DEF Ahead
<1>5. QED
  BY <1>1, <1>2, <1>3, <1>4 DEF p

LEMMA RestsTaken ==
    ASSUME NEW q \in Seq(FilterEvents), q # <<>>
    PROVE  /\ Tail(q) \in Seq(FilterEvents)
           /\ \A k : Rests(Tail(q), k) => Rests(q, k)
           /\ Rests(q, Head(q))
           /\ Head(q) = "InputShutdown" => ~Ahead(q)
           /\ Ahead(q) /\ Head(q) # "InputReady" => Ahead(Tail(q))
<1> DEFINE p == Tail(q)
<1>1. /\ p \in Seq(FilterEvents) /\ Len(p) = Len(q) - 1 /\ Len(q) \in Nat \ {0} /\ Head(q) = q[1]
      /\ \A i \in 1..Len(p) : p[i] = q[i + 1]
  OBVIOUS
<1> HIDE DEF p
<1>2. \A k : Rests(p, k) => Rests(q, k)
  BY <1>1 DEF Rests
<1>3. Rests(q, Head(q))
  BY <1>1 DEF Rests
<1>4. Head(q) = "InputShutdown" => ~Ahead(q)
  BY <1>1 DEF Ahead
<1>5. Ahead(q) /\ Head(q) # "InputReady" => Ahead(p)
  <2>1. SUFFICES ASSUME NEW i \in 1..Len(q), q[i] = "InputReady", \A j \in 1..(i - 1) : q[j] # "InputShutdown", q[1] # "InputReady"
                 PROVE Ahead(p)
    BY <1>1 DEF Ahead
  <2>2. i - 1 \in 1..Len(p) /\ p[i - 1] = "InputReady" /\ \A j \in 1..(i - 1 - 1) : p[j] # "InputShutdown"
    BY <1>1, <2>1
  <2>3. QED
    BY <2>2 DEF Ahead
<1>6. QED
  BY <1>1, <1>2, <1>3, <1>4, <1>5 DEF p

LEMMA RestsJoined ==
    ASSUME NEW q \in Seq(FilterEvents), NEW u \in Seq(UpEvents)
    PROVE  /\ q \o u \in Seq(FilterEvents)
           /\ \A k : Rests(q \o u, k) => Rests(q, k) \/ Rests(u, k)
           /\ ~Rests(u, "InputShutdown")
           /\ Ahead(q) => Ahead(q \o u)
<1> DEFINE p == q \o u
<1>1. u \in Seq(FilterEvents)
  BY DEF UpEvents, FilterEvents
<1>2. /\ p \in Seq(FilterEvents) /\ Len(p) = Len(q) + Len(u) /\ Len(q) \in Nat /\ Len(u) \in Nat
      /\ \A i \in 1..Len(p) : p[i] = IF i <= Len(q) THEN q[i] ELSE u[i - Len(q)]
  BY <1>1
<1> HIDE DEF p
<1>3. \A k : Rests(p, k) => Rests(q, k) \/ Rests(u, k)
  <2>1. SUFFICES ASSUME NEW k, NEW i \in 1..Len(p), p[i] = k PROVE Rests(q, k) \/ Rests(u, k)
    BY DEF Rests
  <2>2. CASE i <= Len(q)
    BY <1>2, <2>1, <2>2 DEF Rests
  <2>3. CASE ~(i <= Len(q))
    <3>1. i - Len(q) \in 1..Len(u) /\ u[i - Len(q)] = k
      BY <1>2, <2>1, <2>3
    <3>2. QED
      BY <3>1 DEF Rests
  <2>4. QED
    BY <2>2, <2>3
<1>4. ~Rests(u, "InputShutdown")
  BY DEF Rests, UpEvents
<1>5. Ahead(q) => Ahead(p)
  <2>1. SUFFICES ASSUME NEW i \in 1..Len(q), q[i] = "InputReady", \A j \in 1..(i - 1) : q[j] # "InputShutdown" PROVE Ahead(p)
    BY DEF Ahead
  <2>2. i \in 1..Len(p) /\ p[i] = "InputReady" /\ \A j \in 1..(i - 1) : p[j] # "InputShutdown"
    BY <1>2, <2>1
  <2>3. QED
    BY <2>2 DEF Ahead
<1>6. QED
  BY <1>2, <1>3, <1>4, <1>5 DEF p

\* The constants, and the types of what the filter counts.
LEMMA FilterNumbers ==
    ASSUME Filter!FilterAssumption, Filter!TypeOK
    PROVE  /\ Header \in Nat \ {0} /\ Body \in Nat \ {0} /\ MaxUnits \in Nat /\ badPacket \in Nat
           /\ arrived \in 0..MaxUnits /\ socketInput \in Nat /\ queue \in Seq(FilterEvents)
           /\ unannounced \in 0..arrived
           /\ Filter!State \in FilterStates
           /\ Filter!State.size = size /\ Filter!State.buffer = buffer /\ Filter!State.up = <<>>
<1>1. Header \in Nat \ {0} /\ Body \in Nat \ {0} /\ MaxUnits \in Nat /\ badPacket \in Nat
  BY DEF Filter!FilterAssumption, Filter!TypeOK, Filter!Oversize
<1>2. arrived \in 0..MaxUnits /\ socketInput \in Nat /\ queue \in Seq(FilterEvents) /\ unannounced \in 0..arrived
  BY <1>1 DEF Filter!TypeOK, FilterEvents
<1>3. size \in {0, Body, Filter!Oversize} /\ buffer \in Nat /\ packets \in Nat /\ packetsRead \in Nat /\ <<>> \in Seq(UpEvents)
  BY <1>1 DEF Filter!TypeOK
<1>4. Filter!State \in FilterStates
  BY <1>3 DEF Filter!State, FilterStates
<1>5. QED
  BY <1>1, <1>2, <1>4 DEF Filter!State

\* The state of the filter after a step.
NextState == [size |-> size', buffer |-> buffer', packets |-> packets', read |-> packetsRead', up |-> <<>>]

\* A state of the filter that is counted becomes one.
LEMMA BecomesCounted ==
    ASSUME Filter!FilterAssumption, NEW t \in FilterStates, NEW units \in 0..MaxUnits, Counted(t,
           units), HeaderTaken(t),
           Filter!Becomes(t), UNCHANGED badPacket
    PROVE  /\ Counted(NextState, units) /\ HeaderTaken(NextState)
           /\ size' \in {0, Body, Filter!Oversize} /\ buffer' \in 0..MaxUnits
           /\ packets' \in Nat /\ packetsRead' \in 0..packets'
<1>1. size' = t.size /\ buffer' = t.buffer /\ packets' = t.packets /\ packetsRead' = t.read
  BY DEF Filter!Becomes
<1>2. /\ Header \in Nat /\ Body \in Nat /\ MaxUnits \in Nat
      /\ t.size \in {0, Body, Filter!Oversize} /\ t.buffer \in Nat /\ t.packets \in Nat /\ t.read \in Nat
  BY DEF FilterStates, Filter!FilterAssumption
<1>3. t.packets * Header \in Nat /\ t.read * Body \in Nat
  BY <1>2
<1>4. t.buffer <= units /\ t.read <= t.packets
  BY <1>2, <1>3 DEF Counted
<1>5. Counted(NextState, units) /\ HeaderTaken(NextState)
  BY <1>1 DEF Counted, HeaderTaken, NextState
<1>6. QED
  BY <1>1, <1>2, <1>4, <1>5

\* Data comes, with the end of the stream or without: what it does to the numbers.
LEMMA MoreComes ==
    ASSUME Filter!FilterAssumption, Filter!TypeOK, AmountInv, NEW n \in Filter!Coming,
           arrived' = arrived + n, socketInput' = socketInput + n,
           UNCHANGED <<total, badPacket, buffer, size, packets, packetsRead>>
    PROVE  /\ total \in 0..MaxUnits /\ arrived' \in 0..total /\ socketInput' \in 0..MaxUnits
           /\ n \in 1..arrived'
           /\ (Counted(Filter!State, arrived - socketInput) /\ HeaderTaken(Filter!State))'
<1> USE FilterNumbers
<1>2. n \in 1..(total - arrived)
  BY DEF Filter!Coming
<1>3. buffer \in Nat /\ packets * Header \in Nat /\ packetsRead * Body \in Nat
  BY DEF Filter!TypeOK
<1>4. socketInput <= arrived
  BY <1>3 DEF AmountInv, Counted, Filter!State
<1>6. total \in 0..MaxUnits /\ arrived' \in 0..total /\ socketInput' \in 0..MaxUnits /\ n \in 1..arrived'
  BY <1>2, <1>4 DEF Filter!TypeOK
<1>8. arrived' - socketInput' = arrived - socketInput
  BY <1>2
<1>9. (Counted(Filter!State, arrived - socketInput) /\ HeaderTaken(Filter!State))'
  BY <1>8 DEF AmountInv, Counted, HeaderTaken, Filter!State, Filter!Oversize
<1>10. QED
  BY <1>6, <1>9

LEMMA ArrivesKeeps ==
    ASSUME Filter!FilterAssumption, FilterInv, Filter!arrives
    PROVE  FilterInv'
<1>1. /\ reader # "closed" /\ ~ended /\ AmountInv /\ Filter!TypeOK /\ f_heard # "shutdown" /\ ~Rests(queue, "InputShutdown")
      /\ UNCHANGED <<f_tls, total, early, badPacket, ended, unannounced, buffer, size, inputShutdown,
                     reader, packets, packetsRead, f_heard>>
      /\ queue' = IF socketInput = 0 THEN Append(queue, "InputReady") ELSE queue
      /\ unannounced = 0
  BY FilterNumbers DEF Filter!arrives, FilterInv, Filter!peerVars
<1>2. PICK n \in Filter!Coming : arrived' = arrived + n /\ socketInput' = socketInput + n
  BY DEF Filter!arrives
<1> USE FilterNumbers, <1>1
<1>5. queue' \in Seq(FilterEvents) /\ Ahead(queue)' /\ \A k : Rests(queue, k)' => Rests(queue, k) \/ k = "InputReady"
  <2>1. CASE socketInput = 0
    BY <2>1, RestsAdded DEF FilterEvents
  <2>2. CASE socketInput # 0
    BY <2>2 DEF AmountInv
  <2>3. QED
    BY <2>1, <2>2
<1>6. /\ total \in 0..MaxUnits /\ arrived' \in 0..total /\ socketInput' \in 0..MaxUnits
      /\ (Counted(Filter!State, arrived - socketInput) /\ HeaderTaken(Filter!State))'
  BY <1>2, MoreComes
<1>7. Filter!TypeOK'
  BY <1>5, <1>6 DEF Filter!TypeOK, FilterEvents, Filter!Complete, Filter!Oversize
<1>8. ~Rests(queue', "UpShutdown") /\ ~inputShutdown'
  BY <1>5 DEF AmountInv
<1>10. AmountInv'
  BY <1>5, <1>6, <1>8 DEF AmountInv
<1>11. QED
  BY <1>5, <1>7, <1>10 DEF FilterInv, Filter!EndAfterData

LEMMA EndsKeeps ==
    ASSUME Filter!FilterAssumption, FilterInv, Filter!ends
    PROVE  FilterInv'
<1>1. /\ reader # "closed" /\ ~ended /\ ended' /\ ended' \in BOOLEAN /\ AmountInv /\ Filter!TypeOK /\ f_heard # "shutdown"
      /\ UNCHANGED <<f_tls, total, early, badPacket, arrived, unannounced, socketInput, buffer, size,
                     inputShutdown, reader, packets, packetsRead, f_heard>>
      /\ queue' = Append(queue, "InputShutdown")
      /\ unannounced = 0
  BY FilterNumbers DEF Filter!ends, FilterInv, Filter!peerVars
<1> USE FilterNumbers, <1>1
<1>2. queue' \in Seq(FilterEvents) /\ (Ahead(queue) => Ahead(queue)') /\ (Rests(queue, "UpShutdown")' => Rests(queue, "UpShutdown"))
  BY RestsAdded DEF FilterEvents
<1>3. Filter!TypeOK'
  BY <1>2 DEF Filter!TypeOK, FilterEvents, Filter!Complete, Filter!Oversize
<1>4. AmountInv'
  BY <1>2 DEF AmountInv, Counted, HeaderTaken, Filter!State, Filter!Oversize
<1>5. QED
  BY <1>3, <1>4 DEF FilterInv, Filter!EndAfterData

LEMMA EndsAtOnceKeeps ==
    ASSUME Filter!FilterAssumption, FilterInv, Filter!endsAtOnce
    PROVE  FilterInv'
<1>1. /\ reader # "closed" /\ ~ended /\ ended' /\ ended' \in BOOLEAN /\ AmountInv /\ Filter!TypeOK /\ f_heard # "shutdown"
      /\ UNCHANGED <<f_tls, total, early, badPacket, buffer, size, inputShutdown, reader, packets,
                     packetsRead, f_heard>>
      /\ queue' = Append(queue, "InputShutdown")
      /\ f_tls /\ unannounced = 0
  BY FilterNumbers DEF Filter!endsAtOnce, FilterInv, Filter!peerVars
<1>2. PICK n \in Filter!Coming : /\ arrived' = arrived + n /\ socketInput' = socketInput + n
                                 /\ unannounced' = IF socketInput = 0 THEN n ELSE 0
  BY DEF Filter!endsAtOnce
<1> USE FilterNumbers, <1>1
<1>3. queue' \in Seq(FilterEvents) /\ (Ahead(queue) => Ahead(queue)') /\ (Rests(queue, "UpShutdown")' => Rests(queue, "UpShutdown"))
  BY RestsAdded DEF FilterEvents
<1>4. /\ total \in 0..MaxUnits /\ arrived' \in 0..total /\ socketInput' \in 0..MaxUnits /\ n \in 1..arrived'
      /\ (Counted(Filter!State, arrived - socketInput) /\ HeaderTaken(Filter!State))'
  BY <1>2, MoreComes
<1>5. unannounced' \in 0..arrived'
  BY <1>2, <1>4
<1>6. Filter!TypeOK'
  BY <1>3, <1>4, <1>5 DEF Filter!TypeOK, FilterEvents, Filter!Complete, Filter!Oversize
<1>7. socketInput' > unannounced' => Ahead(queue)'
  <2>1. CASE socketInput = 0
    BY <1>2, <1>4, <2>1
  <2>2. CASE socketInput # 0
    <3>1. Ahead(queue)
      BY <2>2 DEF AmountInv
    <3>2. QED
      BY <1>3, <3>1
  <2>3. QED
    BY <2>1, <2>2
<1>8. ~Rests(queue', "UpShutdown") /\ ~inputShutdown'
  BY <1>3 DEF AmountInv
<1>9. AmountInv'
  BY <1>4, <1>7, <1>8 DEF AmountInv
<1>10. QED
  BY <1>6, <1>9 DEF FilterInv, Filter!EndAfterData

\* A step of a reader: what it reads is counted, and what the filter sends is in the queue.
LEMMA ReaderKeeps ==
    ASSUME Filter!FilterAssumption, FilterInv, reader # "closed", reader' # "closed",
           reader' \in {"one", "all", "reading"},
           NEW t \in FilterStates, Filter!Becomes(t), HeaderTaken(t),
           Counted(t, arrived - socketInput'), socketInput' \in 0..socketInput,
           NEW q \in Seq(FilterEvents), queue' = q \o t.up,
           \A k : Rests(q, k) => Rests(queue, k),
           Ahead(q) \/ socketInput' <= unannounced, t.read >= packetsRead,
           Rests(t.up, "UpShutdown") => inputShutdown /\ t.size = 0,
           UNCHANGED <<f_tls, total, early, badPacket, arrived, ended, unannounced, inputShutdown, f_heard>>
    PROVE  FilterInv'
<1>1. AmountInv /\ Filter!TypeOK /\ f_heard # "shutdown"
  BY DEF FilterInv
<1> USE FilterNumbers, <1>1
<1> DEFINE units == arrived - socketInput'
<1>2. buffer \in Nat /\ packets * Header \in Nat /\ packetsRead * Body \in Nat
  BY DEF Filter!TypeOK
<1>3. socketInput <= arrived
  BY <1>2 DEF AmountInv, Counted, Filter!State
<1>4. units \in 0..MaxUnits /\ socketInput' \in 0..MaxUnits
  BY <1>3
<1>5. /\ Counted(NextState, units) /\ HeaderTaken(NextState)
      /\ size' \in {0, Body, Filter!Oversize} /\ buffer' \in 0..MaxUnits
      /\ packets' \in Nat /\ packetsRead' \in 0..packets'
  <2>1. Counted(t, units)
    OBVIOUS
  <2> HIDE DEF units
  <2>2. /\ Counted(NextState, units) /\ HeaderTaken(NextState)
        /\ size' \in {0, Body, Filter!Oversize} /\ buffer' \in 0..MaxUnits
        /\ packets' \in Nat /\ packetsRead' \in 0..packets'
    BY <1>4, <2>1, BecomesCounted
  <2>3. QED
    BY <2>2
<1>6. size' = t.size /\ t.up \in Seq(UpEvents)
  BY DEF Filter!Becomes, FilterStates
<1>7. /\ queue' \in Seq(FilterEvents)
      /\ \A k : Rests(queue', k) => Rests(q, k) \/ Rests(t.up, k)
      /\ ~Rests(t.up, "InputShutdown") /\ (Ahead(q) => Ahead(queue'))
  BY <1>6, RestsJoined
<1>8. Filter!TypeOK'
  BY <1>4, <1>5, <1>7 DEF Filter!TypeOK, FilterEvents, Filter!Complete, Filter!Oversize
<1>9. socketInput' > unannounced' => Ahead(queue')
  BY <1>4, <1>7
<1>11. inputShutdown' => ended' /\ socketInput' <= unannounced'
  BY DEF AmountInv
<1>15. Filter!Good(Filter!Complete(arrived - unannounced)) \in Int
  BY DEF Filter!Good, Filter!Complete
<1>10. Rests(queue', "UpShutdown") => inputShutdown' /\ packetsRead' >= Filter!Good(Filter!Complete(arrived - unannounced))
  <2>1. packetsRead' = t.read /\ packetsRead \in Nat /\ t.read \in Nat
    BY DEF Filter!Becomes, FilterStates, Filter!TypeOK
  <2>2. CASE Rests(q, "UpShutdown")
    BY <1>15, <2>1, <2>2 DEF AmountInv
  <2>3. CASE Rests(t.up, "UpShutdown")
    <3>1. inputShutdown /\ t.size = 0 /\ socketInput <= unannounced
      BY <2>3 DEF AmountInv
    <3>2. arrived - unannounced \in 0..units /\ ~Filter!isReady(t.size, t.buffer)
      BY <3>1 DEF Filter!isReady
    <3>3. Counted(t, units)
      OBVIOUS
    <3> HIDE DEF units
    <3>4. t.read >= Filter!Good(Filter!Complete(arrived - unannounced))
      BY <1>4, <3>2, <3>3, AllRead
    <3>5. QED
      BY <2>1, <3>1, <3>4
  <2>4. QED
    BY <1>7, <2>2, <2>3
<1>12. AmountInv'
  <2>1. (Counted(Filter!State, arrived - socketInput) /\ HeaderTaken(Filter!State))'
    BY <1>5 DEF NextState, Counted, HeaderTaken, Filter!State, Filter!Oversize
  <2>2. (Filter!Good(Filter!Complete(arrived - unannounced)))' = Filter!Good(Filter!Complete(arrived - unannounced))
    BY DEF Filter!Good, Filter!Complete
  <2>3. QED
    BY <1>9, <1>10, <1>11, <2>1, <2>2 DEF AmountInv
<1>13. Rests(queue', "InputShutdown") => ended'
  BY <1>7 DEF FilterInv
<1>14. QED
  BY <1>8, <1>12, <1>13 DEF FilterInv, Filter!EndAfterData

LEMMA ReadNextKeeps ==
    ASSUME Filter!FilterAssumption, FilterInv, Filter!readNext
    PROVE  FilterInv'
<1>1. /\ reader = "reading" /\ AmountInv /\ Filter!TypeOK
      /\ UNCHANGED <<f_tls, total, early, badPacket, arrived, ended, unannounced, socketInput, inputShutdown, f_heard>>
  BY DEF Filter!readNext, FilterInv, Filter!peerVars, Filter!arrivalVars
<1> USE FilterNumbers, <1>1
<1>2. /\ buffer \in Nat /\ packets * Header \in Nat /\ packetsRead * Body \in Nat
      /\ inputShutdown \in BOOLEAN /\ 0 \notin {Body, Filter!Oversize}
  BY DEF Filter!TypeOK, Filter!Oversize
<1>3. Counted(Filter!State, arrived - socketInput) /\ HeaderTaken(Filter!State)
  BY DEF AmountInv
<1>4. arrived - socketInput \in 0..MaxUnits
  BY <1>2, <1>3 DEF Counted, Filter!State
<1>5. CASE Filter!isReady(size, buffer)
  <2> DEFINE t == Filter!readPacket(Filter!State)
  <2>1. Filter!Becomes(t) /\ queue' = queue \o t.up /\ reader' = reader
    BY <1>5 DEF Filter!readNext
  <2>2. Filter!isReady(Filter!State.size, Filter!State.buffer)
    BY <1>5
  <2> HIDE DEF t
  <2>3. /\ t \in FilterStates /\ Counted(t, arrived - socketInput) /\ HeaderTaken(t)
        /\ t.read = Filter!State.read + 1
        /\ Rests(t.up, "UpShutdown") => Rests(Filter!State.up, "UpShutdown") \/ (inputShutdown /\ t.size = 0)
    BY <1>2, <1>3, <1>4, <2>2, OneRead DEF t
  <2>4. ~Rests(Filter!State.up, "UpShutdown")
    BY DEF Rests
  <2>5. t.read >= packetsRead
    BY <2>3 DEF Filter!State, Filter!TypeOK
  <2>6. Ahead(queue) \/ socketInput' <= unannounced
    BY DEF AmountInv
  <2>7. Counted(t, arrived - socketInput') /\ socketInput' \in 0..socketInput
    BY <2>3
  <2>8. QED
    BY <2>1, <2>3, <2>4, <2>5, <2>6, <2>7, ReaderKeeps
<1>6. CASE ~Filter!isReady(size, buffer)
  <2> DEFINE t == Filter!State
  <2>1. Filter!Becomes(t) /\ reader' = "all" /\ queue' = queue
    BY <1>6 DEF Filter!readNext, Filter!Becomes, Filter!State
  <2>2. queue' = queue \o t.up /\ ~Rests(t.up, "UpShutdown")
    BY <2>1 DEF Rests
  <2>3. t.read >= packetsRead
    BY DEF Filter!State, Filter!TypeOK
  <2>4. Ahead(queue) \/ socketInput' <= unannounced
    BY DEF AmountInv
  <2>5. Counted(t, arrived - socketInput') /\ socketInput' \in 0..socketInput /\ HeaderTaken(t) /\ t \in FilterStates
    BY <1>3
  <2> HIDE DEF t
  <2>6. QED
    BY <2>1, <2>2, <2>3, <2>4, <2>5, ReaderKeeps
<1>7. QED
  BY <1>5, <1>6

\* The input that is taken is counted; a reader is called for a packet that has become whole.
LEMMA InputReadyKeeps ==
    ASSUME Filter!FilterAssumption, FilterInv, Filter!inputReady
    PROVE  FilterInv'
<1> DEFINE s0 == [Filter!State EXCEPT !.buffer = @ + Filter!taken]
           s == Filter!readPacketSize(s0)
           q == Tail(queue)
           became == Filter!isReady(s.size, s.buffer) # Filter!isReady(size, buffer)
<1>1. /\ reader \in {"one", "all"} /\ AmountInv /\ Filter!TypeOK /\ queue # <<>>
      /\ UNCHANGED <<f_tls, total, early, badPacket, arrived, ended, unannounced, inputShutdown, f_heard>>
  BY DEF Filter!inputReady, FilterInv, Filter!Takes, Filter!peerVars, Filter!arrivalVars
<1>2. /\ became => Filter!handleData(s)
      /\ ~became => Filter!Becomes(s) /\ queue' = q \o s.up /\ UNCHANGED reader
  BY DEF Filter!inputReady
<1> USE FilterNumbers, <1>1
<1>3. socketInput' = 0
  BY DEF Filter!inputReady, Filter!taken
<1>4. /\ buffer \in Nat /\ packets * Header \in Nat /\ packetsRead * Body \in Nat /\ inputShutdown \in BOOLEAN
      /\ size \in {0, Body, Filter!Oversize} /\ 0 \notin {Body, Filter!Oversize}
  BY DEF Filter!TypeOK, Filter!Oversize
<1>5. /\ s0.size = size /\ s0.buffer = buffer + socketInput /\ s0.up = <<>>
      /\ s0.packets = packets /\ s0.read = packetsRead
      /\ s0 \in FilterStates
  <2>1. s0 = [size |-> size, buffer |-> buffer + socketInput, packets |-> packets, read |-> packetsRead, up |-> <<>>]
    BY DEF Filter!State, Filter!taken
  <2>2. packets \in Nat /\ packetsRead \in Nat /\ <<>> \in Seq(UpEvents) /\ buffer + socketInput \in Nat
    BY <1>4 DEF Filter!TypeOK
  <2> HIDE DEF s0
  <2>3. QED
    BY <1>4, <2>1, <2>2 DEF FilterStates
<1> HIDE DEF s0
<1>6. Counted(s0, arrived)
  <2>1. /\ arrived - socketInput = buffer + packets * Header + packetsRead * Body
        /\ packets = packetsRead + (IF size = 0 THEN 0 ELSE 1)
        /\ size = Filter!Oversize => packets = badPacket
    BY DEF AmountInv, Counted, Filter!State
  <2> DEFINE headers == packets * Header
             bodies == packetsRead * Body
  <2>2. arrived - socketInput = buffer + headers + bodies /\ headers \in Nat /\ bodies \in Nat
    BY <1>4, <2>1
  <2>3. arrived = buffer + socketInput + headers + bodies
    <3>1. arrived \in Nat /\ socketInput \in Nat /\ buffer \in Nat
      BY <1>4
    <3> HIDE DEF headers, bodies
    <3>2. QED
      BY ONLY <2>2, <3>1
  <2>4. QED
    BY <1>5, <2>1, <2>3 DEF Counted
<1>7. /\ s \in FilterStates /\ Counted(s, arrived) /\ HeaderTaken(s) /\ s.read = packetsRead
      /\ s0.size # 0 => s = s0
      /\ Rests(s.up, "UpShutdown") => Rests(s0.up, "UpShutdown")
  BY <1>5, <1>6, SizeRead
<1>8. ~Rests(s.up, "UpShutdown")
  BY <1>5, <1>7 DEF Rests
<1>9. /\ q \in Seq(FilterEvents) /\ \A k : Rests(q, k) => Rests(queue, k)
  BY RestsTaken
<1> HIDE DEF s, q
<1>11. /\ arrived - socketInput' = arrived /\ socketInput' \in 0..socketInput
       /\ socketInput' <= unannounced /\ packetsRead \in Nat
  BY <1>3 DEF Filter!TypeOK
<1>12. CASE ~became
  <2>1. Filter!Becomes(s) /\ queue' = q \o s.up /\ reader' = reader
    BY <1>2, <1>12
  <2>3. s.read >= packetsRead /\ Counted(s, arrived - socketInput')
    BY <1>7, <1>11
  <2>2. QED
    BY <1>7, <1>8, <1>9, <1>11, <2>1, <2>3, ReaderKeeps
<1>13. CASE became
  <2>1. Filter!isReady(s.size, s.buffer) \/ (Filter!isReady(size, buffer) /\ ~Filter!isReady(s.size, s.buffer))
    BY <1>13 DEF Filter!isReady
  <2>2. Filter!isReady(s.size, s.buffer)
    <3>1. Filter!isReady(size, buffer) => s = s0
      BY <1>5, <1>7 DEF Filter!isReady
    <3>2. CASE Filter!isReady(size, buffer)
      BY <1>4, <1>5, <3>1, <3>2 DEF Filter!isReady
    <3>3. QED
      BY <2>1, <3>2
  <2> DEFINE t == IF reader = "one" THEN Filter!readPacket(s) ELSE s
  <2>3. Filter!Becomes(t) /\ queue' = q \o t.up /\ reader' \in {"all", "reading"}
    BY <1>2, <1>13 DEF Filter!handleData, q
  <2>4. /\ t \in FilterStates /\ Counted(t, arrived) /\ HeaderTaken(t) /\ t.read >= packetsRead
        /\ Rests(t.up, "UpShutdown") => inputShutdown /\ t.size = 0
    BY <1>4, <1>7, <1>8, <1>11, <2>2, OneRead
  <2> HIDE DEF t
  <2>5. QED
    BY <1>9, <1>11, <1>13, <2>3, <2>4, ReaderKeeps
<1>14. QED
  BY <1>12, <1>13

\* What the filter has taken is read when nothing is ready, and that is all that was announced.
LEMMA StateRead ==
    ASSUME Filter!FilterAssumption, Filter!TypeOK, AmountInv, socketInput <= unannounced,
           ~Filter!isReady(size, buffer)
    PROVE  packetsRead >= Filter!Good(Filter!Complete(arrived - unannounced))
<1> USE FilterNumbers
<1>1. buffer \in Nat /\ packets * Header \in Nat /\ packetsRead * Body \in Nat
  BY DEF Filter!TypeOK
<1>2. Counted(Filter!State, arrived - socketInput) /\ HeaderTaken(Filter!State)
  BY DEF AmountInv
<1>3. arrived - socketInput \in 0..MaxUnits /\ arrived - unannounced \in 0..(arrived - socketInput)
  BY <1>1, <1>2 DEF Counted, Filter!State
<1>4. Filter!State.read >= Filter!Good(Filter!Complete(arrived - unannounced))
  BY <1>2, <1>3, AllRead
<1>5. QED
  BY <1>4 DEF Filter!State

\* A step that brings nothing keeps the reader's claim.
LEMMA NothingElse ==
    ASSUME Filter!FilterAssumption, Filter!TypeOK, unannounced > 0 => f_tls,
           f_heard' = "shutdown" => packetsRead >= Filter!Good(Filter!Complete(arrived - unannounced)),
           UNCHANGED <<f_tls, badPacket, arrived, unannounced, packetsRead>>
    PROVE  Filter!EndAfterData'
<1>1. Filter!Announced = arrived - unannounced
  BY FilterNumbers DEF Filter!Announced
<1>2. QED
  BY <1>1 DEF Filter!EndAfterData, Filter!Good, Filter!Complete, Filter!Announced

\* The end that is passed on comes after the last packet that was announced.
LEMMA InputShutdownKeeps ==
    ASSUME Filter!FilterAssumption, FilterInv, Filter!inputShutdowns
    PROVE  FilterInv'
<1>1. /\ reader \in {"one", "all"} /\ AmountInv /\ Filter!TypeOK /\ queue # <<>> /\ Head(queue) = "InputShutdown"
      /\ inputShutdown' = TRUE
      /\ UNCHANGED <<f_tls, total, early, badPacket, arrived, ended, unannounced, packets, packetsRead>>
  BY DEF Filter!inputShutdowns, FilterInv, Filter!Takes, Filter!peerVars, Filter!arrivalVars
<1> USE FilterNumbers, <1>1
<1>2. /\ Tail(queue) \in Seq(FilterEvents) /\ \A k : Rests(Tail(queue), k) => Rests(queue, k)
      /\ Rests(queue, "InputShutdown") /\ ~Ahead(queue)
  BY RestsTaken
<1>3. ended /\ socketInput <= unannounced
  BY <1>2 DEF FilterInv, AmountInv
<1>4. 0 \notin {Body, Filter!Oversize}
  BY DEF Filter!Oversize
<1>5. CASE Filter!isReady(size, buffer)
  <2>1. queue' = Tail(queue) /\ UNCHANGED <<size, buffer, socketInput, reader, f_heard>>
    BY <1>5 DEF Filter!inputShutdowns, Filter!shutdownKeptBack
  <2>2. Filter!TypeOK'
    BY <1>2, <2>1 DEF Filter!TypeOK, FilterEvents, Filter!Complete, Filter!Oversize
  <2>3. (Filter!Good(Filter!Complete(arrived - unannounced)))' = Filter!Good(Filter!Complete(arrived - unannounced))
    BY DEF Filter!Good, Filter!Complete
  <2>4. AmountInv'
    BY <1>2, <1>3, <2>1, <2>3 DEF AmountInv, Counted, HeaderTaken, Filter!State, Filter!Oversize
  <2>5. QED
    BY <1>3, <2>1, <2>2, <2>4 DEF FilterInv, Filter!EndAfterData
<1>6. CASE ~Filter!isReady(size, buffer)
  <2>1. /\ f_heard' = "shutdown" /\ reader' = "closed" /\ size' = 0 /\ buffer' = 0 /\ socketInput' = 0
        /\ queue' = IF size # 0 THEN Append(Tail(queue), "UpFormatError") ELSE Tail(queue)
    BY <1>6 DEF Filter!inputShutdowns, Filter!shutdownKeptBack, Filter!readerCloses
  <2>2. queue' \in Seq(FilterEvents)
    BY <1>2, <2>1, RestsAdded DEF FilterEvents
  <2>3. Filter!TypeOK'
    BY <2>1, <2>2 DEF Filter!TypeOK, FilterEvents, Filter!Complete, Filter!Oversize
  <2>4. packetsRead >= Filter!Good(Filter!Complete(arrived - unannounced))
    BY <1>3, <1>6, StateRead
  <2>6. Filter!EndAfterData'
    BY <2>1, <2>4, NothingElse DEF FilterInv
  <2>7. QED
    BY <1>3, <2>1, <2>3, <2>6 DEF FilterInv
<1>7. QED
  BY <1>5, <1>6

LEMMA OwnEventKeeps ==
    ASSUME Filter!FilterAssumption, FilterInv, Filter!ownEvent
    PROVE  FilterInv'
<1>1. /\ reader \in {"one", "all"} /\ AmountInv /\ Filter!TypeOK /\ queue # <<>> /\ queue' = Tail(queue)
      /\ UNCHANGED <<f_tls, total, early, badPacket, arrived, ended, unannounced, inputShutdown, packets, packetsRead>>
      /\ reader' = "closed" /\ size' = 0 /\ buffer' = 0 /\ socketInput' = 0
      /\ \/ Head(queue) = "UpShutdown" /\ f_heard' = "shutdown"
         \/ f_heard' = "formatError"
  BY DEF Filter!ownEvent, FilterInv, Filter!Takes, Filter!readerCloses, Filter!peerVars, Filter!arrivalVars
<1> USE FilterNumbers, <1>1
<1>2. /\ Tail(queue) \in Seq(FilterEvents) /\ \A k : Rests(Tail(queue), k) => Rests(queue, k)
      /\ Rests(queue, Head(queue))
  BY RestsTaken
<1>3. Filter!TypeOK'
  BY <1>2 DEF Filter!TypeOK, FilterEvents, Filter!Complete, Filter!Oversize
<1>4. f_heard' = "shutdown" => packetsRead >= Filter!Good(Filter!Complete(arrived - unannounced))
  BY <1>2 DEF AmountInv
<1>5. Filter!EndAfterData'
  BY <1>4, NothingElse DEF FilterInv
<1>6. QED
  BY <1>2, <1>3, <1>5 DEF FilterInv

LEMMA UnheardKeeps ==
    ASSUME Filter!FilterAssumption, FilterInv, Filter!unheard
    PROVE  FilterInv'
<1>1. /\ reader = "closed" /\ Filter!TypeOK /\ queue # <<>> /\ queue' = Tail(queue)
      /\ UNCHANGED <<f_tls, total, early, badPacket, arrived, ended, unannounced, socketInput, buffer,
                     size, inputShutdown, reader, packets, packetsRead, f_heard>>
  BY DEF Filter!unheard, FilterInv, Filter!peerVars, Filter!arrivalVars
<1> USE FilterNumbers, <1>1
<1>2. Tail(queue) \in Seq(FilterEvents) /\ \A k : Rests(Tail(queue), k) => Rests(queue, k)
  BY RestsTaken
<1>3. Filter!TypeOK'
  BY <1>2 DEF Filter!TypeOK, FilterEvents, Filter!Complete, Filter!Oversize
<1>4. QED
  BY <1>2, <1>3 DEF FilterInv, Filter!EndAfterData, Filter!Good, Filter!Complete, Filter!Announced

\* The reader of a connection is not told of the end before it has read every complete packet
\* that was announced, whatever came in whichever pieces, and on a plain socket that is every
\* one that came; over TLS all but what came in one reading with the end
\* (PacketStreamFilter::filterEvent, readPacketSize, readMore; SecureSocket::doRead).
THEOREM FilterAlways ==
    ASSUME Filter!FilterAssumption
    PROVE  Filter!Spec => []EndAfterData
<1>1. Filter!Init => FilterInv
  BY FilterStarts
<1>2. FilterInv /\ [Filter!Next]_(Filter!vars) => FilterInv'
  <2>1. SUFFICES ASSUME FilterInv, [Filter!Next]_(Filter!vars) PROVE FilterInv'
    OBVIOUS
  <2>2. ASSUME UNCHANGED Filter!vars PROVE FilterInv'
    BY <2>1, <2>2 DEF Filter!vars, Filter!peerVars, Filter!arrivalVars, FilterInv, AmountInv,
        Filter!TypeOK, Filter!EndAfterData, Filter!Good, Filter!Complete, Filter!Announced,
        Counted, HeaderTaken, Filter!State, Filter!Oversize
  <2>3. QED
    BY <2>1, <2>2, ArrivesKeeps, EndsKeeps, EndsAtOnceKeeps, InputReadyKeeps, ReadNextKeeps, InputShutdownKeeps,
        OwnEventKeeps, UnheardKeeps
        DEF Filter!Next, Filter!Handle
<1>3. FilterInv => EndAfterData
  BY DEF FilterInv, EndAfterData
<1>4. QED
  BY <1>1, <1>2, <1>3, PTL DEF Filter!Spec

------------------------------------------------------------------------------
(* The session of a client.                                                    *)

ClientEvents == {"Connected", "Failed", "Refused", "Disconnected"}
Lost == ClientEvents \ {"Connected"}

\* A timer runs, a request waits and the server is silent only while there is a connection
\* they are about; what a sleeping computer keeps is not connected.
LinkInv ==
    /\ Session!TimerWhileConnecting /\ Session!AsleepIdle
    /\ requested # "nothing" \/ silent => phase \in {"handshake", "ready"}
    /\ connectOnResume => suspended

\* The attempts under way: the timers that will start the client, the events that will set one,
\* the connection, and the one put off until the computer wakes.
Attempts(n, q, p, later) ==
    n + Number(q, Lost) + (IF p # "none" THEN 1 ELSE 0) + (IF later THEN 1 ELSE 0)

\* There is always one, and only going to sleep adds one.
AttemptsInv ==
    /\ 1 <= Attempts(restarts, c_events, phase, connectOnResume)
    /\ Attempts(restarts, c_events, phase, connectOnResume) <= 1 + suspends

SessionInv == Session!TypeOK /\ LinkInv /\ AttemptsInv

\* What an event in the queue is worth.
LEMMA SessionSends ==
    ASSUME Session!TypeOK, NEW e \in ClientEvents, Session!send(e)
    PROVE  /\ c_events' \in Seq(ClientEvents)
           /\ Number(c_events', Lost) = Number(c_events, Lost) + (IF e \in Lost THEN 1 ELSE 0)
           /\ Number(c_events, Lost) \in Nat
<1>1. c_events \in Seq(ClientEvents)
  BY DEF Session!TypeOK, ClientEvents
<1>2. c_events' = Append(c_events, e)
  BY DEF Session!send
<1>3. QED
  BY <1>1, <1>2, Appended, PlacesAppend, PlacesFinite

LEMMA SessionTakes ==
    ASSUME Session!TypeOK, NEW e, Session!Takes(e)
    PROVE  /\ c_events' \in Seq(ClientEvents) /\ e \in ClientEvents
           /\ Number(c_events', Lost) = Number(c_events, Lost) - (IF e \in Lost THEN 1 ELSE 0)
           /\ Number(c_events, Lost) \in Nat
<1>1. c_events \in Seq(ClientEvents)
  BY DEF Session!TypeOK, ClientEvents
<1>2. c_events # <<>> /\ Head(c_events) = e /\ c_events' = Tail(c_events)
  BY DEF Session!Takes
<1>3. QED
  BY <1>1, <1>2, Members, PlacesTail, PlacesFinite

LEMMA SessionNumbers ==
    ASSUME Session!TypeOK
    PROVE  /\ c_events \in Seq(ClientEvents) /\ Number(c_events, Lost) \in Nat
           /\ restarts \in Nat /\ suspends \in Nat
<1>1. c_events \in Seq(ClientEvents) /\ restarts \in Nat
  BY DEF Session!TypeOK, ClientEvents
<1>2. suspends \in Nat
  BY DEF Session!TypeOK
<1>3. QED
  BY <1>1, <1>2, PlacesFinite

\* The servers and their addresses.
LEMMA SessionServers ==
    ASSUME Session!SessionAssumption
    PROVE  /\ 1 \in Session!Servers /\ Session!Servers = 1 .. Len(Addresses) /\ Len(Addresses) \in Nat
           /\ \A s \in Session!Servers : Addresses[s] \in Nat
           /\ <<1, 0>> \in Session!Pairs
<1>1. Addresses \in Seq(Nat) /\ Addresses # <<>>
  BY DEF Session!SessionAssumption
<1>2. /\ Len(Addresses) \in Nat \ {0} /\ DOMAIN Addresses = 1 .. Len(Addresses)
      /\ \A s \in 1 .. Len(Addresses) : Addresses[s] \in Nat
  BY <1>1, Members
<1>3. 1 \in Session!Servers
  BY <1>2 DEF Session!Servers
<1>4. QED
  BY <1>2, <1>3 DEF Session!Servers, Session!Pairs

\* The address a name is looked up for is one it has.
LEMMA SessionPair ==
    ASSUME NEW i \in Nat, NEW n \in Nat, n > 0, NEW s \in Session!Servers, Addresses[s] = n
    PROVE  <<s, Session!Min({i, n - 1})>> \in Session!Pairs
<1>1. PICK m \in {i, n - 1} : \A k \in {i, n - 1} : m <= k
  <2>1. CASE i <= n - 1
    BY <2>1
  <2>2. CASE ~(i <= n - 1)
    BY <2>2
  <2>3. QED
    BY <2>1, <2>2
<1>2. /\ Session!Min({i, n - 1}) \in {i, n - 1}
      /\ \A k \in {i, n - 1} : Session!Min({i, n - 1}) <= k
  BY <1>1 DEF Session!Min
<1>3. Session!Min({i, n - 1}) \in Nat /\ Session!Min({i, n - 1}) < n
  BY <1>2
<1>4. QED
  BY <1>3 DEF Session!Pairs

LEMMA SessionInit == Session!SessionAssumption /\ Session!Init => SessionInv
<1> SUFFICES ASSUME Session!SessionAssumption, Session!Init PROVE SessionInv
  OBVIOUS
<1>1. <<>> \in Seq(ClientEvents) /\ c_events = <<>> /\ Places(c_events, Lost) = {}
  BY Members, EmptySeq DEF Session!Init, Places
<1>2. MaxLosses \in Nat /\ MaxSuspends \in Nat
  BY DEF Session!SessionAssumption
<1>3. Session!TypeOK
  <2>1. losses \in 0 .. MaxLosses /\ suspends \in 0 .. MaxSuspends
    BY <1>2 DEF Session!Init
  <2>2. using \in Session!Pairs /\ server \in Session!Servers
    BY SessionServers DEF Session!Init
  <2>3. QED
    BY <1>1, <2>1, <2>2 DEF Session!Init, Session!TypeOK, ClientEvents, Session!Requests
<1>4. LinkInv
  BY DEF Session!Init, LinkInv, Session!TimerWhileConnecting, Session!AsleepIdle
<1>5. Number(c_events, Lost) = 0
  BY <1>1, FS_EmptySet DEF Number
<1>6. AttemptsInv
  BY <1>5 DEF Session!Init, AttemptsInv, Attempts
<1>7. QED
  BY <1>3, <1>4, <1>6 DEF SessionInv

LEMMA SessionConnects ==
    ASSUME Session!SessionAssumption, SessionInv, Session!handleConnected
    PROVE  SessionInv'
<1>1. Session!TypeOK /\ LinkInv /\ AttemptsInv
  BY DEF SessionInv
<1>2. /\ c_events' \in Seq(ClientEvents) /\ Number(c_events', Lost) = Number(c_events, Lost)
      /\ Number(c_events, Lost) \in Nat /\ restarts \in Nat /\ suspends \in Nat
  <2>1. c_events' = c_events
    BY DEF Session!handleConnected, Session!vars
  <2>2. QED
    BY <1>1, <2>1, SessionNumbers
<1>3. Session!TypeOK'
  <2>1. losses' \in 0 .. MaxLosses /\ suspends' \in 0 .. MaxSuspends
    BY <1>1 DEF Session!TypeOK, Session!SessionAssumption,
      Session!handleConnected,
      Session!linkVars, Session!sleepVars, Session!addressVars, Session!appVars
  <2>2. QED
    BY <1>1, <1>2, <2>1, SessionServers DEF Session!TypeOK, ClientEvents, Session!Requests, LinkInv,
      Session!handleConnected,
      Session!linkVars, Session!sleepVars, Session!addressVars, Session!appVars
<1>4. LinkInv'
  BY <1>1 DEF LinkInv, Session!TimerWhileConnecting, Session!AsleepIdle, Session!TypeOK,
      Session!handleConnected,
      Session!linkVars, Session!sleepVars, Session!addressVars, Session!appVars
<1>5. AttemptsInv'
  BY <1>1, <1>2 DEF AttemptsInv, Attempts, LinkInv, Session!TimerWhileConnecting, Session!TypeOK,
      Session!AsleepIdle, Session!handleConnected,
      Session!linkVars, Session!sleepVars, Session!addressVars, Session!appVars
<1>6. QED
  BY <1>3, <1>4, <1>5 DEF SessionInv

LEMMA SessionFails ==
    ASSUME Session!SessionAssumption, SessionInv, Session!handleConnectionFailed
    PROVE  SessionInv'
<1>1. Session!TypeOK /\ LinkInv /\ AttemptsInv
  BY DEF SessionInv
<1>2. /\ c_events' \in Seq(ClientEvents)
      /\ Number(c_events', Lost) = Number(c_events, Lost) + 1
      /\ Number(c_events, Lost) \in Nat /\ restarts \in Nat /\ suspends \in Nat
  <2>1. Session!send("Failed")
    BY DEF Session!handleConnectionFailed
  <2>2. "Failed" \in ClientEvents /\ "Failed" \in Lost
    BY DEF ClientEvents, Lost
  <2>3. QED
    BY <1>1, <2>1, <2>2, SessionSends, SessionNumbers
<1>3. Session!TypeOK'
  <2>1. losses' \in 0 .. MaxLosses /\ suspends' \in 0 .. MaxSuspends
    BY <1>1 DEF Session!TypeOK, Session!SessionAssumption,
      Session!handleConnectionFailed, Session!Fails, Session!MayFail, Session!Hangup,
      Session!linkVars, Session!sleepVars, Session!addressVars, Session!appVars
  <2>2. QED
    BY <1>1, <1>2, <2>1, SessionServers DEF Session!TypeOK, ClientEvents, Session!Requests, LinkInv,
      Session!handleConnectionFailed, Session!Fails, Session!MayFail, Session!Hangup,
      Session!linkVars, Session!sleepVars, Session!addressVars, Session!appVars
<1>4. LinkInv'
  BY <1>1 DEF LinkInv, Session!TimerWhileConnecting, Session!AsleepIdle, Session!TypeOK,
      Session!handleConnectionFailed, Session!Fails, Session!MayFail, Session!Hangup,
      Session!linkVars, Session!sleepVars, Session!addressVars, Session!appVars
<1>5. AttemptsInv'
  BY <1>1, <1>2 DEF AttemptsInv, Attempts, LinkInv, Session!TimerWhileConnecting, Session!TypeOK,
      Session!AsleepIdle, Session!handleConnectionFailed, Session!Fails, Session!MayFail, Session!Hangup,
      Session!linkVars, Session!sleepVars, Session!addressVars, Session!appVars
<1>6. QED
  BY <1>3, <1>4, <1>5 DEF SessionInv

LEMMA SessionTimesOut ==
    ASSUME Session!SessionAssumption, SessionInv, Session!handleConnectTimeout
    PROVE  SessionInv'
<1>1. Session!TypeOK /\ LinkInv /\ AttemptsInv
  BY DEF SessionInv
<1>2. /\ c_events' \in Seq(ClientEvents)
      /\ Number(c_events', Lost) = Number(c_events, Lost) + 1
      /\ Number(c_events, Lost) \in Nat /\ restarts \in Nat /\ suspends \in Nat
  <2>1. Session!send("Failed")
    BY DEF Session!handleConnectTimeout
  <2>2. "Failed" \in ClientEvents /\ "Failed" \in Lost
    BY DEF ClientEvents, Lost
  <2>3. QED
    BY <1>1, <2>1, <2>2, SessionSends, SessionNumbers
<1>3. Session!TypeOK'
  <2>1. losses' \in 0 .. MaxLosses /\ suspends' \in 0 .. MaxSuspends
    BY <1>1 DEF Session!TypeOK, Session!SessionAssumption,
      Session!handleConnectTimeout, Session!Fails, Session!MayFail, Session!Hangup,
      Session!linkVars, Session!sleepVars, Session!addressVars, Session!appVars
  <2>2. QED
    BY <1>1, <1>2, <2>1, SessionServers DEF Session!TypeOK, ClientEvents, Session!Requests, LinkInv,
      Session!handleConnectTimeout, Session!Fails, Session!MayFail, Session!Hangup,
      Session!linkVars, Session!sleepVars, Session!addressVars, Session!appVars
<1>4. LinkInv'
  BY <1>1 DEF LinkInv, Session!TimerWhileConnecting, Session!AsleepIdle, Session!TypeOK,
      Session!handleConnectTimeout, Session!Fails, Session!MayFail, Session!Hangup,
      Session!linkVars, Session!sleepVars, Session!addressVars, Session!appVars
<1>5. AttemptsInv'
  BY <1>1, <1>2 DEF AttemptsInv, Attempts, LinkInv, Session!TimerWhileConnecting, Session!TypeOK,
      Session!AsleepIdle, Session!handleConnectTimeout, Session!Fails, Session!MayFail, Session!Hangup,
      Session!linkVars, Session!sleepVars, Session!addressVars, Session!appVars
<1>6. QED
  BY <1>3, <1>4, <1>5 DEF SessionInv

LEMMA SessionShakes ==
    ASSUME Session!SessionAssumption, SessionInv, Session!handshakeComplete
    PROVE  SessionInv'
<1>1. Session!TypeOK /\ LinkInv /\ AttemptsInv
  BY DEF SessionInv
<1>2. /\ c_events' \in Seq(ClientEvents)
      /\ Number(c_events', Lost) = Number(c_events, Lost)
      /\ Number(c_events, Lost) \in Nat /\ restarts \in Nat /\ suspends \in Nat
  <2>1. Session!send("Connected")
    BY DEF Session!handshakeComplete
  <2>2. "Connected" \in ClientEvents /\ "Connected" \notin Lost
    BY DEF ClientEvents, Lost
  <2>3. QED
    BY <1>1, <2>1, <2>2, SessionSends, SessionNumbers
<1>3. Session!TypeOK'
  <2>1. losses' \in 0 .. MaxLosses /\ suspends' \in 0 .. MaxSuspends
    BY <1>1 DEF Session!TypeOK, Session!SessionAssumption,
      Session!handshakeComplete,
      Session!linkVars, Session!sleepVars, Session!addressVars, Session!appVars
  <2>2. QED
    BY <1>1, <1>2, <2>1, SessionServers DEF Session!TypeOK, ClientEvents, Session!Requests, LinkInv,
      Session!handshakeComplete,
      Session!linkVars, Session!sleepVars, Session!addressVars, Session!appVars
<1>4. LinkInv'
  BY <1>1 DEF LinkInv, Session!TimerWhileConnecting, Session!AsleepIdle, Session!TypeOK,
      Session!handshakeComplete,
      Session!linkVars, Session!sleepVars, Session!addressVars, Session!appVars
<1>5. AttemptsInv'
  BY <1>1, <1>2 DEF AttemptsInv, Attempts, LinkInv, Session!TimerWhileConnecting, Session!TypeOK,
      Session!AsleepIdle, Session!handshakeComplete,
      Session!linkVars, Session!sleepVars, Session!addressVars, Session!appVars
<1>6. QED
  BY <1>3, <1>4, <1>5 DEF SessionInv

LEMMA SessionRequests ==
    ASSUME Session!SessionAssumption, SessionInv, Session!requestDisconnect
    PROVE  SessionInv'
<1>1. Session!TypeOK /\ LinkInv /\ AttemptsInv
  BY DEF SessionInv
<1>2. /\ c_events' \in Seq(ClientEvents) /\ Number(c_events', Lost) = Number(c_events, Lost)
      /\ Number(c_events, Lost) \in Nat /\ restarts \in Nat /\ suspends \in Nat
  <2>1. c_events' = c_events
    BY DEF Session!requestDisconnect, Session!vars
  <2>2. QED
    BY <1>1, <2>1, SessionNumbers
<1>3. Session!TypeOK'
  <2>1. losses' \in 0 .. MaxLosses /\ suspends' \in 0 .. MaxSuspends
    BY <1>1 DEF Session!TypeOK, Session!SessionAssumption,
      Session!requestDisconnect, Session!Fails, Session!MayFail,
      Session!linkVars, Session!sleepVars, Session!addressVars, Session!appVars
  <2>2. QED
    BY <1>1, <1>2, <2>1, SessionServers DEF Session!TypeOK, ClientEvents, Session!Requests, LinkInv,
      Session!requestDisconnect, Session!Fails, Session!MayFail,
      Session!linkVars, Session!sleepVars, Session!addressVars, Session!appVars
<1>4. LinkInv'
  BY <1>1 DEF LinkInv, Session!TimerWhileConnecting, Session!AsleepIdle, Session!TypeOK,
      Session!requestDisconnect, Session!Fails, Session!MayFail,
      Session!linkVars, Session!sleepVars, Session!addressVars, Session!appVars
<1>5. AttemptsInv'
  BY <1>1, <1>2 DEF AttemptsInv, Attempts, LinkInv, Session!TimerWhileConnecting, Session!TypeOK,
      Session!AsleepIdle, Session!requestDisconnect, Session!Fails, Session!MayFail,
      Session!linkVars, Session!sleepVars, Session!addressVars, Session!appVars
<1>6. QED
  BY <1>3, <1>4, <1>5 DEF SessionInv

LEMMA SessionDrops ==
    ASSUME Session!SessionAssumption, SessionInv, Session!handleDisconnected
    PROVE  SessionInv'
<1>1. Session!TypeOK /\ LinkInv /\ AttemptsInv
  BY DEF SessionInv
<1>2. /\ c_events' \in Seq(ClientEvents)
      /\ Number(c_events', Lost) = Number(c_events, Lost) + 1
      /\ Number(c_events, Lost) \in Nat /\ restarts \in Nat /\ suspends \in Nat
  <2>1. Session!send("Disconnected")
    BY DEF Session!handleDisconnected
  <2>2. "Disconnected" \in ClientEvents /\ "Disconnected" \in Lost
    BY DEF ClientEvents, Lost
  <2>3. QED
    BY <1>1, <2>1, <2>2, SessionSends, SessionNumbers
<1>3. Session!TypeOK'
  <2>1. losses' \in 0 .. MaxLosses /\ suspends' \in 0 .. MaxSuspends
    BY <1>1 DEF Session!TypeOK, Session!SessionAssumption,
      Session!handleDisconnected, Session!Fails, Session!MayFail, Session!Hangup,
      Session!linkVars, Session!sleepVars, Session!addressVars, Session!appVars
  <2>2. QED
    BY <1>1, <1>2, <2>1, SessionServers DEF Session!TypeOK, ClientEvents, Session!Requests, LinkInv,
      Session!handleDisconnected, Session!Fails, Session!MayFail, Session!Hangup,
      Session!linkVars, Session!sleepVars, Session!addressVars, Session!appVars
<1>4. LinkInv'
  BY <1>1 DEF LinkInv, Session!TimerWhileConnecting, Session!AsleepIdle, Session!TypeOK,
      Session!handleDisconnected, Session!Fails, Session!MayFail, Session!Hangup,
      Session!linkVars, Session!sleepVars, Session!addressVars, Session!appVars
<1>5. AttemptsInv'
  BY <1>1, <1>2 DEF AttemptsInv, Attempts, LinkInv, Session!TimerWhileConnecting, Session!TypeOK,
      Session!AsleepIdle, Session!handleDisconnected, Session!Fails, Session!MayFail, Session!Hangup,
      Session!linkVars, Session!sleepVars, Session!addressVars, Session!appVars
<1>6. QED
  BY <1>3, <1>4, <1>5 DEF SessionInv

LEMMA SessionSilent ==
    ASSUME Session!SessionAssumption, SessionInv, Session!serverGoesSilent
    PROVE  SessionInv'
<1>1. Session!TypeOK /\ LinkInv /\ AttemptsInv
  BY DEF SessionInv
<1>2. /\ c_events' \in Seq(ClientEvents) /\ Number(c_events', Lost) = Number(c_events, Lost)
      /\ Number(c_events, Lost) \in Nat /\ restarts \in Nat /\ suspends \in Nat
  <2>1. c_events' = c_events
    BY DEF Session!serverGoesSilent, Session!vars
  <2>2. QED
    BY <1>1, <2>1, SessionNumbers
<1>3. Session!TypeOK'
  <2>1. losses' \in 0 .. MaxLosses /\ suspends' \in 0 .. MaxSuspends
    BY <1>1 DEF Session!TypeOK, Session!SessionAssumption,
      Session!serverGoesSilent, Session!Fails, Session!MayFail,
      Session!linkVars, Session!sleepVars, Session!addressVars, Session!appVars
  <2>2. QED
    BY <1>1, <1>2, <2>1, SessionServers DEF Session!TypeOK, ClientEvents, Session!Requests, LinkInv,
      Session!serverGoesSilent, Session!Fails, Session!MayFail,
      Session!linkVars, Session!sleepVars, Session!addressVars, Session!appVars
<1>4. LinkInv'
  BY <1>1 DEF LinkInv, Session!TimerWhileConnecting, Session!AsleepIdle, Session!TypeOK,
      Session!serverGoesSilent, Session!Fails, Session!MayFail,
      Session!linkVars, Session!sleepVars, Session!addressVars, Session!appVars
<1>5. AttemptsInv'
  BY <1>1, <1>2 DEF AttemptsInv, Attempts, LinkInv, Session!TimerWhileConnecting, Session!TypeOK,
      Session!AsleepIdle, Session!serverGoesSilent, Session!Fails, Session!MayFail,
      Session!linkVars, Session!sleepVars, Session!addressVars, Session!appVars
<1>6. QED
  BY <1>3, <1>4, <1>5 DEF SessionInv

LEMMA SessionAlarm ==
    ASSUME Session!SessionAssumption, SessionInv, Session!handleKeepAliveAlarm
    PROVE  SessionInv'
<1>1. Session!TypeOK /\ LinkInv /\ AttemptsInv
  BY DEF SessionInv
<1>2. /\ c_events' \in Seq(ClientEvents)
      /\ Number(c_events', Lost) = Number(c_events, Lost) + 1
      /\ Number(c_events, Lost) \in Nat /\ restarts \in Nat /\ suspends \in Nat
  <2>1. Session!send("Failed")
    BY DEF Session!handleKeepAliveAlarm
  <2>2. "Failed" \in ClientEvents /\ "Failed" \in Lost
    BY DEF ClientEvents, Lost
  <2>3. QED
    BY <1>1, <2>1, <2>2, SessionSends, SessionNumbers
<1>3. Session!TypeOK'
  <2>1. losses' \in 0 .. MaxLosses /\ suspends' \in 0 .. MaxSuspends
    BY <1>1 DEF Session!TypeOK, Session!SessionAssumption,
      Session!handleKeepAliveAlarm, Session!cleanup, Session!Hangup,
      Session!linkVars, Session!sleepVars, Session!addressVars, Session!appVars
  <2>2. QED
    BY <1>1, <1>2, <2>1, SessionServers DEF Session!TypeOK, ClientEvents, Session!Requests, LinkInv,
      Session!handleKeepAliveAlarm, Session!cleanup, Session!Hangup,
      Session!linkVars, Session!sleepVars, Session!addressVars, Session!appVars
<1>4. LinkInv'
  BY <1>1 DEF LinkInv, Session!TimerWhileConnecting, Session!AsleepIdle, Session!TypeOK,
      Session!handleKeepAliveAlarm, Session!cleanup, Session!Hangup,
      Session!linkVars, Session!sleepVars, Session!addressVars, Session!appVars
<1>5. AttemptsInv'
  BY <1>1, <1>2 DEF AttemptsInv, Attempts, LinkInv, Session!TimerWhileConnecting, Session!TypeOK,
      Session!AsleepIdle, Session!handleKeepAliveAlarm, Session!cleanup, Session!Hangup,
      Session!linkVars, Session!sleepVars, Session!addressVars, Session!appVars
<1>6. QED
  BY <1>3, <1>4, <1>5 DEF SessionInv

LEMMA SessionSuspends ==
    ASSUME Session!SessionAssumption, SessionInv, Session!handleSuspend
    PROVE  SessionInv'
<1>1. Session!TypeOK /\ LinkInv /\ AttemptsInv
  BY DEF SessionInv
<1>2. /\ c_events' \in Seq(ClientEvents)
      /\ Number(c_events', Lost) = Number(c_events, Lost) + 1
      /\ Number(c_events, Lost) \in Nat /\ restarts \in Nat /\ suspends \in Nat
  <2>1. Session!send("Disconnected")
    BY DEF Session!handleSuspend
  <2>2. "Disconnected" \in ClientEvents /\ "Disconnected" \in Lost
    BY DEF ClientEvents, Lost
  <2>3. QED
    BY <1>1, <2>1, <2>2, SessionSends, SessionNumbers
<1>3. Session!TypeOK'
  <2>1. losses' \in 0 .. MaxLosses /\ suspends' \in 0 .. MaxSuspends
    BY <1>1 DEF Session!TypeOK, Session!SessionAssumption,
      Session!handleSuspend, Session!Hangup,
      Session!linkVars, Session!sleepVars, Session!addressVars, Session!appVars
  <2>2. connectOnResume' \in BOOLEAN
    BY DEF Session!handleSuspend
  <2>3. /\ phase' = "none" /\ c_timer' = FALSE /\ using' = using /\ silent' = FALSE
        /\ requested' = "nothing" /\ suspended' = TRUE
        /\ resolved' = resolved /\ serverAddress' = serverAddress
        /\ restarts' = restarts /\ server' = server /\ address' = address
    BY DEF Session!handleSuspend, Session!Hangup, Session!addressVars, Session!appVars
  <2>4. QED
    BY <1>1, <1>2, <2>1, <2>2, <2>3 DEF Session!TypeOK, ClientEvents
<1>4. LinkInv'
  BY <1>1 DEF LinkInv, Session!TimerWhileConnecting, Session!AsleepIdle, Session!TypeOK,
      Session!handleSuspend, Session!Hangup,
      Session!linkVars, Session!sleepVars, Session!addressVars, Session!appVars
<1>5. AttemptsInv'
  BY <1>1, <1>2 DEF AttemptsInv, Attempts, LinkInv, Session!TimerWhileConnecting, Session!TypeOK,
      Session!AsleepIdle, Session!handleSuspend, Session!Hangup,
      Session!linkVars, Session!sleepVars, Session!addressVars, Session!appVars
<1>6. QED
  BY <1>3, <1>4, <1>5 DEF SessionInv

LEMMA SessionConnected ==
    ASSUME Session!SessionAssumption, SessionInv, Session!handleClientConnected
    PROVE  SessionInv'
<1>1. Session!TypeOK /\ LinkInv /\ AttemptsInv
  BY DEF SessionInv
<1>2. /\ c_events' \in Seq(ClientEvents)
      /\ Number(c_events', Lost) = Number(c_events, Lost)
      /\ Number(c_events, Lost) \in Nat /\ restarts \in Nat /\ suspends \in Nat
  <2>1. Session!Takes("Connected")
    BY DEF Session!handleClientConnected
  <2>2. "Connected" \in ClientEvents /\ "Connected" \notin Lost
    BY DEF ClientEvents, Lost
  <2>3. QED
    BY <1>1, <2>1, <2>2, SessionTakes, SessionNumbers
<1>3. Session!TypeOK'
  <2>1. losses' \in 0 .. MaxLosses /\ suspends' \in 0 .. MaxSuspends
    BY <1>1 DEF Session!TypeOK, Session!SessionAssumption,
      Session!handleClientConnected,
      Session!linkVars, Session!sleepVars, Session!addressVars, Session!appVars
  <2>2. QED
    BY <1>1, <1>2, <2>1, SessionServers DEF Session!TypeOK, ClientEvents, Session!Requests, LinkInv,
      Session!handleClientConnected,
      Session!linkVars, Session!sleepVars, Session!addressVars, Session!appVars
<1>4. LinkInv'
  BY <1>1 DEF LinkInv, Session!TimerWhileConnecting, Session!AsleepIdle, Session!TypeOK,
      Session!handleClientConnected,
      Session!linkVars, Session!sleepVars, Session!addressVars, Session!appVars
<1>5. AttemptsInv'
  BY <1>1, <1>2 DEF AttemptsInv, Attempts, LinkInv, Session!TimerWhileConnecting, Session!TypeOK,
      Session!AsleepIdle, Session!handleClientConnected,
      Session!linkVars, Session!sleepVars, Session!addressVars, Session!appVars
<1>6. QED
  BY <1>3, <1>4, <1>5 DEF SessionInv

LEMMA SessionRefused ==
    ASSUME Session!SessionAssumption, SessionInv, Session!handleClientRefused
    PROVE  SessionInv'
<1>1. Session!TypeOK /\ LinkInv /\ AttemptsInv
  BY DEF SessionInv
<1>2. /\ c_events' \in Seq(ClientEvents)
      /\ Number(c_events', Lost) = Number(c_events, Lost) - 1
      /\ Number(c_events, Lost) \in Nat /\ restarts \in Nat /\ suspends \in Nat
  <2>1. Session!Takes("Refused")
    BY DEF Session!handleClientRefused
  <2>2. "Refused" \in ClientEvents /\ "Refused" \in Lost
    BY DEF ClientEvents, Lost
  <2>3. QED
    BY <1>1, <2>1, <2>2, SessionTakes, SessionNumbers
<1>3. Session!TypeOK'
  <2>1. losses' \in 0 .. MaxLosses /\ suspends' \in 0 .. MaxSuspends
    BY <1>1 DEF Session!TypeOK, Session!SessionAssumption,
      Session!handleClientRefused, Session!scheduleClientRestart,
      Session!linkVars, Session!sleepVars, Session!addressVars, Session!appVars
  <2>2. QED
    BY <1>1, <1>2, <2>1, SessionServers DEF Session!TypeOK, ClientEvents, Session!Requests, LinkInv,
      Session!handleClientRefused, Session!scheduleClientRestart,
      Session!linkVars, Session!sleepVars, Session!addressVars, Session!appVars
<1>4. LinkInv'
  BY <1>1 DEF LinkInv, Session!TimerWhileConnecting, Session!AsleepIdle, Session!TypeOK,
      Session!handleClientRefused, Session!scheduleClientRestart,
      Session!linkVars, Session!sleepVars, Session!addressVars, Session!appVars
<1>5. AttemptsInv'
  BY <1>1, <1>2 DEF AttemptsInv, Attempts, LinkInv, Session!TimerWhileConnecting, Session!TypeOK,
      Session!AsleepIdle, Session!handleClientRefused, Session!scheduleClientRestart,
      Session!linkVars, Session!sleepVars, Session!addressVars, Session!appVars
<1>6. QED
  BY <1>3, <1>4, <1>5 DEF SessionInv

LEMMA SessionDisconnected ==
    ASSUME Session!SessionAssumption, SessionInv, Session!handleClientDisconnected
    PROVE  SessionInv'
<1>1. Session!TypeOK /\ LinkInv /\ AttemptsInv
  BY DEF SessionInv
<1>2. /\ c_events' \in Seq(ClientEvents)
      /\ Number(c_events', Lost) = Number(c_events, Lost) - 1
      /\ Number(c_events, Lost) \in Nat /\ restarts \in Nat /\ suspends \in Nat
  <2>1. Session!Takes("Disconnected")
    BY DEF Session!handleClientDisconnected
  <2>2. "Disconnected" \in ClientEvents /\ "Disconnected" \in Lost
    BY DEF ClientEvents, Lost
  <2>3. QED
    BY <1>1, <2>1, <2>2, SessionTakes, SessionNumbers
<1>3. Session!TypeOK'
  <2>1. losses' \in 0 .. MaxLosses /\ suspends' \in 0 .. MaxSuspends
    BY <1>1 DEF Session!TypeOK, Session!SessionAssumption,
      Session!handleClientDisconnected, Session!scheduleClientRestart,
      Session!linkVars, Session!sleepVars, Session!addressVars, Session!appVars
  <2>2. QED
    BY <1>1, <1>2, <2>1, SessionServers DEF Session!TypeOK, ClientEvents, Session!Requests, LinkInv,
      Session!handleClientDisconnected, Session!scheduleClientRestart,
      Session!linkVars, Session!sleepVars, Session!addressVars, Session!appVars
<1>4. LinkInv'
  BY <1>1 DEF LinkInv, Session!TimerWhileConnecting, Session!AsleepIdle, Session!TypeOK,
      Session!handleClientDisconnected, Session!scheduleClientRestart,
      Session!linkVars, Session!sleepVars, Session!addressVars, Session!appVars
<1>5. AttemptsInv'
  BY <1>1, <1>2 DEF AttemptsInv, Attempts, LinkInv, Session!TimerWhileConnecting, Session!TypeOK,
      Session!AsleepIdle, Session!handleClientDisconnected, Session!scheduleClientRestart,
      Session!linkVars, Session!sleepVars, Session!addressVars, Session!appVars
<1>6. QED
  BY <1>3, <1>4, <1>5 DEF SessionInv

LEMMA SessionFailed ==
    ASSUME Session!SessionAssumption, SessionInv, Session!handleClientFailed
    PROVE  SessionInv'
<1>1. Session!TypeOK /\ LinkInv /\ AttemptsInv
  BY DEF SessionInv
<1>2. /\ c_events' \in Seq(ClientEvents)
      /\ Number(c_events', Lost) = Number(c_events, Lost) - 1
      /\ Number(c_events, Lost) \in Nat /\ restarts \in Nat /\ suspends \in Nat
  <2>1. Session!Takes("Failed")
    BY DEF Session!handleClientFailed
  <2>2. "Failed" \in ClientEvents /\ "Failed" \in Lost
    BY DEF ClientEvents, Lost
  <2>3. QED
    BY <1>1, <2>1, <2>2, SessionTakes, SessionNumbers
<1>3. Session!TypeOK'
  <2>1. losses' \in 0 .. MaxLosses /\ suspends' \in 0 .. MaxSuspends
    BY <1>1 DEF Session!TypeOK, Session!SessionAssumption,
      Session!handleClientFailed, Session!scheduleClientRestart, Session!tryNextServer,
      Session!linkVars, Session!sleepVars, Session!addressVars, Session!appVars
  <2>2. QED
    BY <1>1, <1>2, <2>1, SessionServers DEF Session!TypeOK, ClientEvents, Session!Requests, LinkInv,
      Session!handleClientFailed, Session!scheduleClientRestart, Session!tryNextServer,
      Session!linkVars, Session!sleepVars, Session!addressVars, Session!appVars
<1>4. LinkInv'
  BY <1>1 DEF LinkInv, Session!TimerWhileConnecting, Session!AsleepIdle, Session!TypeOK,
      Session!handleClientFailed, Session!scheduleClientRestart, Session!tryNextServer,
      Session!linkVars, Session!sleepVars, Session!addressVars, Session!appVars
<1>5. AttemptsInv'
  BY <1>1, <1>2 DEF AttemptsInv, Attempts, LinkInv, Session!TimerWhileConnecting, Session!TypeOK,
      Session!AsleepIdle, Session!handleClientFailed, Session!scheduleClientRestart, Session!tryNextServer,
      Session!linkVars, Session!sleepVars, Session!addressVars, Session!appVars
<1>6. QED
  BY <1>3, <1>4, <1>5 DEF SessionInv

\* The hello is answered, or it is not one of ours.
LEMMA SessionHello ==
    ASSUME Session!SessionAssumption, SessionInv, Session!handleHello
    PROVE  SessionInv'
<1>1. Session!TypeOK /\ LinkInv /\ AttemptsInv
  BY DEF SessionInv
<1>2. Number(c_events, Lost) \in Nat /\ restarts \in Nat /\ suspends \in Nat
  BY <1>1, SessionNumbers
<1>3. CASE phase' = "handshake" /\ c_timer' = FALSE /\ UNCHANGED <<using, silent, requested, c_events, losses>>
  <2>1. Session!TypeOK'
    BY <1>1, <1>3 DEF Session!TypeOK, Session!handleHello, Session!sleepVars, Session!addressVars, Session!appVars
  <2>2. LinkInv'
    BY <1>1, <1>3 DEF LinkInv, Session!TimerWhileConnecting, Session!AsleepIdle, Session!TypeOK,
      Session!handleHello, Session!sleepVars, Session!addressVars, Session!appVars
  <2>3. AttemptsInv'
    BY <1>1, <1>2, <1>3 DEF AttemptsInv, Attempts, Session!handleHello, Session!sleepVars, Session!addressVars, Session!appVars
  <2>4. QED
    BY <2>1, <2>2, <2>3 DEF SessionInv
<1>4. CASE Session!Fails /\ Session!Hangup /\ Session!send("Failed")
  <2>1. "Failed" \in ClientEvents /\ "Failed" \in Lost
    BY DEF ClientEvents, Lost
  <2>2. /\ c_events' \in Seq(ClientEvents)
        /\ Number(c_events', Lost) = Number(c_events, Lost) + 1
    BY <1>1, <1>4, <2>1, SessionSends
  <2>3. losses' \in 0 .. MaxLosses /\ suspends' \in 0 .. MaxSuspends
    BY <1>1, <1>4 DEF Session!TypeOK, Session!SessionAssumption, Session!handleHello,
      Session!Fails, Session!MayFail, Session!sleepVars
  <2>4. Session!TypeOK'
    BY <1>1, <1>4, <2>2, <2>3 DEF Session!TypeOK, ClientEvents, Session!handleHello,
      Session!Hangup, Session!sleepVars, Session!addressVars, Session!appVars
  <2>5. LinkInv'
    BY <1>1, <1>4 DEF LinkInv, Session!TimerWhileConnecting, Session!AsleepIdle, Session!TypeOK,
      Session!handleHello, Session!Hangup, Session!sleepVars
  <2>6. AttemptsInv'
    BY <1>1, <1>2, <1>4, <2>2 DEF AttemptsInv, Attempts, Session!handleHello, Session!Hangup,
      Session!sleepVars, Session!addressVars, Session!appVars
  <2>7. QED
    BY <2>4, <2>5, <2>6 DEF SessionInv
<1>5. \/ phase' = "handshake" /\ c_timer' = FALSE /\ UNCHANGED <<using, silent, requested, c_events, losses>>
      \/ Session!Fails /\ Session!Hangup /\ Session!send("Failed")
  BY Zenon DEF Session!handleHello
<1>6. QED
  BY <1>3, <1>4, <1>5, Zenon

LEMMA SessionAsked ==
    ASSUME Session!SessionAssumption, SessionInv, Session!handleDisconnectRequested
    PROVE  SessionInv'
<1>1. Session!TypeOK /\ LinkInv /\ AttemptsInv
  BY DEF SessionInv
<1>2. PICK e \in ClientEvents : e \in Lost /\ Session!send(e)
  <2>1. requested \in {"close", "message", "refuse"}
    BY <1>1 DEF Session!TypeOK, Session!Requests, Session!handleDisconnectRequested
  <2>2. {"Disconnected", "Failed", "Refused"} \subseteq ClientEvents \cap Lost
    BY DEF ClientEvents, Lost
  <2>3. Session!send("Disconnected") \/ Session!send("Failed") \/ Session!send("Refused")
    BY <2>1 DEF Session!handleDisconnectRequested
  <2>4. QED
    BY <2>2, <2>3
<1>3. /\ c_events' \in Seq(ClientEvents)
      /\ Number(c_events', Lost) = Number(c_events, Lost) + 1
      /\ Number(c_events, Lost) \in Nat /\ restarts \in Nat /\ suspends \in Nat
  BY <1>1, <1>2, SessionSends, SessionNumbers
<1>4. /\ requested # "nothing" /\ Session!cleanup
      /\ UNCHANGED <<suspended, suspends, Session!addressVars, Session!appVars, losses>>
  BY DEF Session!handleDisconnectRequested
<1>5. Session!TypeOK'
  BY <1>1, <1>3, <1>4 DEF Session!TypeOK, ClientEvents, Session!cleanup, Session!Hangup, Session!addressVars, Session!appVars
<1>6. LinkInv'
  BY <1>1, <1>4 DEF LinkInv, Session!TimerWhileConnecting, Session!AsleepIdle, Session!TypeOK,
    Session!cleanup, Session!Hangup
<1>7. AttemptsInv'
  BY <1>1, <1>3, <1>4 DEF AttemptsInv, Attempts, LinkInv, Session!AsleepIdle, Session!TypeOK,
    Session!cleanup, Session!Hangup, Session!addressVars, Session!appVars
<1>8. QED
  BY <1>5, <1>6, <1>7 DEF SessionInv

\* A connection is begun, fails at once, or nothing is done: there is one, or the computer sleeps.
LEMMA SessionTries ==
    ASSUME Session!SessionAssumption, SessionInv, NEW s \in Session!Servers, NEW index \in Nat,
           NEW asleep \in BOOLEAN, Session!connect(s, asleep, index)
    PROVE  /\ resolved' \in Nat /\ using' \in Session!Pairs /\ losses' \in 0 .. MaxLosses
           /\ c_events' \in Seq(ClientEvents) /\ UNCHANGED <<silent, requested>>
           /\ \/ /\ phase # "none" \/ asleep
                 /\ UNCHANGED <<phase, c_timer>> /\ Number(c_events', Lost) = Number(c_events, Lost)
              \/ /\ phase = "none" /\ ~asleep
                 /\ UNCHANGED <<phase, c_timer>> /\ Number(c_events', Lost) = Number(c_events, Lost) + 1
              \/ /\ phase = "none" /\ ~asleep
                 /\ phase' = "connecting" /\ c_timer' = TRUE
                 /\ Number(c_events', Lost) = Number(c_events, Lost)
<1>1. /\ Session!TypeOK /\ c_events \in Seq(ClientEvents)
      /\ Addresses[s] \in Nat /\ MaxLosses \in Nat /\ losses \in 0 .. MaxLosses
      /\ resolved \in Nat /\ using \in Session!Pairs
  BY SessionServers DEF SessionInv, Session!TypeOK, Session!SessionAssumption, ClientEvents
<1>2. "Failed" \in ClientEvents /\ "Failed" \in Lost
  BY DEF ClientEvents, Lost
<1>3. Session!send("Failed") =>
        c_events' \in Seq(ClientEvents) /\ Number(c_events', Lost) = Number(c_events, Lost) + 1
  BY <1>1, <1>2, SessionSends
<1>4. UNCHANGED c_events =>
        c_events' \in Seq(ClientEvents) /\ Number(c_events', Lost) = Number(c_events, Lost)
  BY <1>1
<1>5. CASE (phase # "none" \/ asleep) /\ UNCHANGED <<Session!linkVars, resolved, c_events, losses>>
  BY <1>1, <1>4, <1>5 DEF Session!linkVars
<1>6. CASE /\ phase = "none" /\ ~asleep /\ Session!send("Failed")
           /\ UNCHANGED <<Session!linkVars, resolved, losses>>
  BY <1>1, <1>3, <1>6 DEF Session!linkVars
<1>7. CASE /\ phase = "none" /\ ~asleep /\ Addresses[s] > 0
           /\ resolved' = Addresses[s]
           /\ using' = <<s, Session!Min({index, Addresses[s] - 1})>>
           /\ \/ phase' = "connecting" /\ c_timer' = TRUE /\ UNCHANGED <<c_events, losses>>
              \/ /\ losses < MaxLosses /\ losses' = losses + 1
                 /\ Session!send("Failed")
                 /\ UNCHANGED <<phase, c_timer>>
           /\ UNCHANGED <<silent, requested>>
  <2>1. resolved' \in Nat /\ using' \in Session!Pairs
    BY <1>1, <1>7, SessionPair
  <2>2. losses' \in 0 .. MaxLosses
    BY <1>1, <1>7
  <2>3. QED
    BY <1>3, <1>4, <1>7, <2>1, <2>2
<1>8. QED
  BY <1>5, <1>6, <1>7 DEF Session!connect

\* The computer wakes: a connection that was put off is made, or fails at once.
LEMMA SessionResumes ==
    ASSUME Session!SessionAssumption, SessionInv, Session!handleResume
    PROVE  SessionInv'
<1>1. Session!TypeOK /\ LinkInv /\ AttemptsInv
  BY DEF SessionInv
<1>2. /\ Number(c_events, Lost) \in Nat /\ restarts \in Nat /\ suspends \in Nat
      /\ c_events \in Seq(ClientEvents)
  BY <1>1, SessionNumbers
<1>3. /\ suspended /\ suspended' = FALSE /\ connectOnResume' = FALSE /\ phase = "none" /\ c_timer = FALSE
      /\ UNCHANGED <<serverAddress, suspends, restarts, server, address>>
      /\ requested = "nothing" /\ silent = FALSE
  BY <1>1 DEF Session!handleResume, LinkInv, Session!AsleepIdle, Session!TypeOK,
    Session!TimerWhileConnecting, Session!appVars
<1>4. CASE ~connectOnResume
  <2>1. UNCHANGED <<Session!linkVars, resolved, c_events, losses>>
    BY <1>4 DEF Session!handleResume
  <2>2. Session!TypeOK'
    BY <1>1, <1>3, <2>1 DEF Session!TypeOK, Session!linkVars
  <2>3. LinkInv'
    BY <1>1, <1>3, <1>4, <2>1 DEF LinkInv, Session!TimerWhileConnecting, Session!AsleepIdle, Session!linkVars
  <2>4. AttemptsInv'
    BY <1>1, <1>3, <1>4, <2>1 DEF AttemptsInv, Attempts, Session!linkVars
  <2>5. QED
    BY <2>2, <2>3, <2>4 DEF SessionInv
<1>5. CASE connectOnResume
  <2>1. Session!connect(serverAddress, FALSE, 0) /\ serverAddress \in Session!Servers /\ 0 \in Nat
    BY <1>1, <1>5 DEF Session!handleResume, Session!TypeOK
  <2>2. /\ resolved' \in Nat /\ using' \in Session!Pairs /\ losses' \in 0 .. MaxLosses
        /\ c_events' \in Seq(ClientEvents) /\ UNCHANGED <<silent, requested>>
        /\ \/ UNCHANGED <<phase, c_timer>> /\ Number(c_events', Lost) = Number(c_events, Lost) + 1
           \/ /\ phase' = "connecting" /\ c_timer' = TRUE
              /\ Number(c_events', Lost) = Number(c_events, Lost)
    BY <1>3, <2>1, SessionTries
  <2>3. Session!TypeOK'
    BY <1>1, <1>3, <2>2 DEF Session!TypeOK, ClientEvents
  <2>4. LinkInv'
    BY <1>1, <1>3, <2>2 DEF LinkInv, Session!TimerWhileConnecting, Session!AsleepIdle
  <2>5. AttemptsInv'
    BY <1>1, <1>2, <1>3, <1>5, <2>2 DEF AttemptsInv, Attempts
  <2>6. QED
    BY <2>3, <2>4, <2>5 DEF SessionInv
<1>7. QED
  BY <1>1, <1>4, <1>5 DEF Session!TypeOK

\* A restart timer ends: the client is started, unless it is connected, or asleep.
LEMMA SessionRestarts ==
    ASSUME Session!SessionAssumption, SessionInv, Session!handleClientRestart
    PROVE  SessionInv'
<1>1. Session!TypeOK /\ LinkInv /\ AttemptsInv
  BY DEF SessionInv
<1>2. /\ Number(c_events, Lost) \in Nat /\ restarts \in Nat /\ suspends \in Nat
      /\ c_events \in Seq(ClientEvents)
  BY <1>1, SessionNumbers
<1>3. /\ restarts > 0 /\ restarts' = restarts - 1 /\ Session!connect(server, suspended, address)
      /\ serverAddress' = server
      /\ connectOnResume' = (connectOnResume \/ (phase = "none" /\ suspended))
      /\ UNCHANGED <<suspended, suspends, server, address>>
  BY DEF Session!handleClientRestart
<1>4. address \in Nat /\ server \in Session!Servers /\ suspended \in BOOLEAN /\ connectOnResume \in BOOLEAN
  BY <1>1 DEF Session!TypeOK
<1>5. /\ resolved' \in Nat /\ using' \in Session!Pairs /\ losses' \in 0 .. MaxLosses
      /\ c_events' \in Seq(ClientEvents) /\ UNCHANGED <<silent, requested>>
      /\ \/ /\ phase # "none" \/ suspended
            /\ UNCHANGED <<phase, c_timer>> /\ Number(c_events', Lost) = Number(c_events, Lost)
         \/ /\ phase = "none" /\ ~suspended
            /\ UNCHANGED <<phase, c_timer>> /\ Number(c_events', Lost) = Number(c_events, Lost) + 1
         \/ /\ phase = "none" /\ ~suspended
            /\ phase' = "connecting" /\ c_timer' = TRUE
            /\ Number(c_events', Lost) = Number(c_events, Lost)
  BY <1>3, <1>4, SessionTries
<1>6. restarts' \in Nat /\ connectOnResume' \in BOOLEAN
  BY <1>2, <1>3, <1>4
<1>7. CASE /\ phase # "none" \/ suspended
           /\ UNCHANGED <<phase, c_timer>> /\ Number(c_events', Lost) = Number(c_events, Lost)
  <2>1. Session!TypeOK'
    BY <1>1, <1>2, <1>3, <1>4, <1>5, <1>6, <1>7 DEF Session!TypeOK, ClientEvents
  <2>2. LinkInv'
    BY <1>1, <1>3, <1>5, <1>7 DEF LinkInv, Session!TimerWhileConnecting, Session!AsleepIdle
  <2>3. AttemptsInv'
    BY <1>1, <1>2, <1>3, <1>4, <1>6, <1>7 DEF AttemptsInv, Attempts
  <2>4. QED
    BY <2>1, <2>2, <2>3 DEF SessionInv
<1>8. CASE /\ phase = "none" /\ ~suspended
           /\ UNCHANGED <<phase, c_timer>> /\ Number(c_events', Lost) = Number(c_events, Lost) + 1
  <2>1. Session!TypeOK'
    BY <1>1, <1>2, <1>3, <1>4, <1>5, <1>6, <1>8 DEF Session!TypeOK, ClientEvents
  <2>2. LinkInv'
    BY <1>1, <1>3, <1>5, <1>8 DEF LinkInv, Session!TimerWhileConnecting, Session!AsleepIdle
  <2>3. AttemptsInv'
    BY <1>1, <1>2, <1>3, <1>4, <1>6, <1>8 DEF AttemptsInv, Attempts
  <2>4. QED
    BY <2>1, <2>2, <2>3 DEF SessionInv
<1>9. CASE /\ phase = "none" /\ ~suspended
           /\ phase' = "connecting" /\ c_timer' = TRUE
           /\ Number(c_events', Lost) = Number(c_events, Lost)
  <2>1. Session!TypeOK'
    BY <1>1, <1>2, <1>3, <1>4, <1>5, <1>6, <1>9 DEF Session!TypeOK, ClientEvents
  <2>2. LinkInv'
    BY <1>1, <1>3, <1>5, <1>9 DEF LinkInv, Session!TimerWhileConnecting, Session!AsleepIdle
  <2>3. AttemptsInv'
    BY <1>1, <1>2, <1>3, <1>4, <1>6, <1>9 DEF AttemptsInv, Attempts
  <2>4. QED
    BY <2>1, <2>2, <2>3 DEF SessionInv
<1>10. QED
  BY <1>5, <1>7, <1>8, <1>9

LEMMA SessionNext == Session!SessionAssumption /\ SessionInv /\ [Session!Next]_sessionVars => SessionInv'
<1> SUFFICES ASSUME Session!SessionAssumption, SessionInv, [Session!Next]_sessionVars PROVE SessionInv'
  OBVIOUS
<1>1. CASE UNCHANGED sessionVars
  BY <1>1 DEF sessionVars, SessionInv, Session!TypeOK, LinkInv, Session!TimerWhileConnecting,
    Session!AsleepIdle, AttemptsInv, Attempts, Number, Places
<1>2. CASE Session!App
  BY <1>2, SessionConnected, SessionFailed, SessionRefused, SessionDisconnected DEF Session!App
<1>3. CASE Session!Progress
  BY <1>3, SessionConnects, SessionHello, SessionShakes, SessionAsked, SessionAlarm DEF Session!Progress
<1>4. QED
  BY <1>1, <1>2, <1>3, SessionRestarts, SessionFails, SessionTimesOut, SessionRequests, SessionDrops,
    SessionSilent, SessionSuspends, SessionResumes DEF Session!Next

\* The session of a client is kept, whatever the servers, their addresses and who answers:
\* it will try again, with one attempt at a time and one more for every sleep, a timer only
\* while it connects, and nothing while the computer sleeps (Client, ClientApp).
THEOREM SessionAlways ==
    ASSUME Session!SessionAssumption
    PROVE  Session!Spec => []SessionKept
<1>1. SessionInv => SessionKept
  <2> SUFFICES ASSUME SessionInv PROVE SessionKept
    OBVIOUS
  <2>1. Session!TypeOK /\ LinkInv /\ AttemptsInv
    BY DEF SessionInv
  <2>2. Session!Endings = Places(c_events, Lost)
    BY <2>1, Members DEF Session!Endings, Places, Lost, Session!TypeOK, ClientEvents
  <2>3. Session!Cardinality(Session!Endings) = Number(c_events, Lost)
    BY <2>2 DEF Number, Cardinality, Session!Cardinality
  <2>4. Number(c_events, Lost) \in Nat /\ restarts \in Nat /\ suspends \in Nat
    BY <2>1, SessionNumbers
  <2>5. Session!OneAttempt
    BY <2>1, <2>3, <2>4 DEF Session!OneAttempt, AttemptsInv, Attempts
  <2>6. Session!SomebodyRetries
    <3> SUFFICES ASSUME phase = "none", ~connectOnResume, restarts = 0, Session!Endings = {} PROVE FALSE
      BY <2>1, <2>4 DEF Session!SomebodyRetries, Session!Retrying, LinkInv
    <3>1. Number(c_events, Lost) = 0
      BY <2>2, FS_EmptySet DEF Number
    <3>2. QED
      BY <2>1, <3>1 DEF AttemptsInv, Attempts
  <2>7. QED
    BY <2>1, <2>5, <2>6 DEF SessionKept, LinkInv
<1>2. [Session!Next]_(Session!vars) => [Session!Next]_sessionVars
  BY DEF Session!vars, Session!linkVars, Session!sleepVars, Session!addressVars, Session!appVars, sessionVars
<1>3. QED
  BY <1>1, <1>2, SessionInit, SessionNext, PTL DEF Session!Spec

------------------------------------------------------------------------------
(* The daemon and its watchdog.                                                *)

DogFlags ==
    /\ configFile \in BOOLEAN /\ command \in BOOLEAN /\ running \in BOOLEAN
    /\ hasty \in BOOLEAN /\ d_resumed \in BOOLEAN /\ gaveUp \in BOOLEAN
DogKinds ==
    /\ d_service \in {"starting", "running", "pausing", "paused", "continuing", "stopping", "stopped"}
    /\ daemon \in {"waiting", "entering", "looping", "leaving", "gone"}
    /\ state \in {"Idle", "StartScheduled", "StartPending", "Running", "StopPending"}
    /\ dog \in {"none", "cleaning", "free", "finishing", "starting", "checking", "stopping"}
    /\ process \in {"null", "blank", "held"}
    /\ core \in {"none", "up", "stuck"} /\ stray \in {"none", "up", "stuck"}
    /\ coreIn \in DogSessions /\ console \in DogSessions /\ seen \in DogSessions
    /\ asked \in {"run", "pause", "stop"}
DogCounts ==
    /\ d_failures \in 0 .. 2
    /\ quits \in 0 .. controls /\ controls \in 0 .. MaxControls /\ commands \in 0 .. MaxCommands
    /\ d_faults \in 0 .. DogFaults /\ d_switches \in 0 .. DogSwitches
DogTypes == DogFlags /\ DogKinds /\ DogCounts

\* A core that an earlier daemon left is gone before the watchdog does anything else; a command
\* waits while the thread starts or stops a core; a thread that has ended left no core behind,
\* and one that was waited for has ended.
DogInv ==
    /\ Dog!OneCore /\ Dog!CommandKept
    /\ dog \notin {"none", "cleaning"} => stray = "none"
    /\ dog = "stopping" => state = "StopPending"
    /\ dog \in {"starting", "checking"} => state = "StartPending"
    /\ dog = "none" /\ ~gaveUp => core = "none"
    /\ daemon \in {"waiting", "gone"} /\ ~gaveUp => dog = "none"
    /\ d_service = "stopped" => daemon = "gone"

DogBoth == DogTypes /\ DogInv

LEMMA DogInit == Dog!WatchdogAssumption /\ Dog!Init => DogBoth
<1> SUFFICES ASSUME Dog!WatchdogAssumption, Dog!Init PROVE DogBoth
  OBVIOUS
<1>1. Lobby \in DogSessions /\ {MaxControls, MaxCommands, DogFaults, DogSwitches} \subseteq Nat
  BY DEF Dog!WatchdogAssumption
<1>2. DogFlags
  BY DEF Dog!Init, DogFlags
<1>3. DogKinds
  BY <1>1 DEF Dog!Init, DogKinds
<1>4. DogCounts
  BY <1>1 DEF Dog!Init, DogCounts
<1>5. DogInv
  BY DEF Dog!Init, DogInv, Dog!OneCore, Dog!CommandKept
<1>6. QED
  BY <1>2, <1>3, <1>4, <1>5 DEF DogBoth, DogTypes

LEMMA DogControls ==
    ASSUME Dog!WatchdogAssumption, DogBoth, NEW ctrl \in {"pause", "run", "stop"}, Dog!serviceHandler(ctrl)
    PROVE  DogBoth'
<1>1. DogFlags /\ DogKinds /\ DogCounts /\ DogInv
  BY DEF DogBoth, DogTypes
<1>2. DogFlags'
  BY <1>1 DEF DogFlags, Dog!serviceHandler, Dog!dogVars
<1>3. DogKinds'
  BY <1>1 DEF DogKinds, Dog!WatchdogAssumption, Dog!serviceHandler, Dog!dogVars
<1>4. DogCounts'
  BY <1>1 DEF DogCounts, Dog!WatchdogAssumption, Dog!serviceHandler, Dog!dogVars
<1>5. DogInv'
  BY <1>1 DEF DogFlags, DogKinds, DogInv, Dog!OneCore, Dog!CommandKept, Dog!serviceHandler, Dog!dogVars
<1>6. QED
  BY <1>2, <1>3, <1>4, <1>5 DEF DogBoth, DogTypes

LEMMA DogRuns ==
    ASSUME Dog!WatchdogAssumption, DogBoth, Dog!doRunDaemon
    PROVE  DogBoth'
<1>1. DogFlags /\ DogKinds /\ DogCounts /\ DogInv
  BY DEF DogBoth, DogTypes
<1>2. DogFlags'
  BY <1>1 DEF DogFlags, Dog!doRunDaemon, Dog!isRunState, Dog!dogVars, Dog!boundVars
<1>3. DogKinds'
  BY <1>1 DEF DogKinds, Dog!WatchdogAssumption, Dog!doRunDaemon, Dog!isRunState, Dog!dogVars, Dog!boundVars
<1>4. DogCounts'
  BY <1>1 DEF DogCounts, Dog!WatchdogAssumption, Dog!doRunDaemon, Dog!isRunState, Dog!dogVars, Dog!boundVars
<1>5. DogInv'
  BY <1>1 DEF DogFlags, DogKinds, DogInv, Dog!OneCore, Dog!CommandKept, Dog!doRunDaemon, Dog!isRunState, Dog!dogVars, Dog!boundVars
<1>6. QED
  BY <1>2, <1>3, <1>4, <1>5 DEF DogBoth, DogTypes

LEMMA DogEnters ==
    ASSUME Dog!WatchdogAssumption, DogBoth, Dog!enterLoop
    PROVE  DogBoth'
<1>1. DogFlags /\ DogKinds /\ DogCounts /\ DogInv
  BY DEF DogBoth, DogTypes
<1>2. DogFlags'
  BY <1>1 DEF DogFlags, Dog!enterLoop, Dog!boundVars
<1>3. DogKinds'
  BY <1>1 DEF DogKinds, Dog!WatchdogAssumption, Dog!enterLoop, Dog!boundVars
<1>4. DogCounts'
  BY <1>1 DEF DogCounts, Dog!WatchdogAssumption, Dog!enterLoop, Dog!boundVars
<1>5. DogInv'
  BY <1>1 DEF DogFlags, DogKinds, DogInv, Dog!OneCore, Dog!CommandKept, Dog!enterLoop, Dog!boundVars
<1>6. QED
  BY <1>2, <1>3, <1>4, <1>5 DEF DogBoth, DogTypes

LEMMA DogLeaves ==
    ASSUME Dog!WatchdogAssumption, DogBoth, Dog!leaveLoop
    PROVE  DogBoth'
<1>1. DogFlags /\ DogKinds /\ DogCounts /\ DogInv
  BY DEF DogBoth, DogTypes
<1>2. DogFlags'
  BY <1>1 DEF DogFlags, Dog!leaveLoop, Dog!boundVars
<1>3. DogKinds'
  BY <1>1 DEF DogKinds, Dog!WatchdogAssumption, Dog!leaveLoop, Dog!boundVars
<1>4. DogCounts'
  BY <1>1 DEF DogCounts, Dog!WatchdogAssumption, Dog!leaveLoop, Dog!boundVars
<1>5. DogInv'
  BY <1>1 DEF DogFlags, DogKinds, DogInv, Dog!OneCore, Dog!CommandKept, Dog!leaveLoop, Dog!boundVars
<1>6. QED
  BY <1>2, <1>3, <1>4, <1>5 DEF DogBoth, DogTypes

LEMMA DogStops ==
    ASSUME Dog!WatchdogAssumption, DogBoth, Dog!stopped
    PROVE  DogBoth'
<1>1. DogFlags /\ DogKinds /\ DogCounts /\ DogInv
  BY DEF DogBoth, DogTypes
<1>2. DogFlags'
  BY <1>1 DEF DogFlags, Dog!stopped, Dog!boundVars
<1>3. DogKinds'
  BY <1>1 DEF DogKinds, Dog!WatchdogAssumption, Dog!stopped, Dog!boundVars
<1>4. DogCounts'
  BY <1>1 DEF DogCounts, Dog!WatchdogAssumption, Dog!stopped, Dog!boundVars
<1>5. DogInv'
  BY <1>1 DEF DogFlags, DogKinds, DogInv, Dog!OneCore, Dog!CommandKept, Dog!stopped, Dog!boundVars
<1>6. QED
  BY <1>2, <1>3, <1>4, <1>5 DEF DogBoth, DogTypes

LEMMA DogRestarts ==
    ASSUME Dog!WatchdogAssumption, DogBoth, Dog!restart
    PROVE  DogBoth'
<1>1. DogFlags /\ DogKinds /\ DogCounts /\ DogInv
  BY DEF DogBoth, DogTypes
<1>2. DogFlags'
  BY <1>1 DEF DogFlags, Dog!restart, Dog!Started
<1>3. DogKinds'
  BY <1>1 DEF DogKinds, Dog!WatchdogAssumption, Dog!restart, Dog!Started
<1>4. DogCounts'
  BY <1>1 DEF DogCounts, Dog!WatchdogAssumption, Dog!restart, Dog!Started
<1>5. DogInv'
  BY <1>1 DEF DogFlags, DogKinds, DogInv, Dog!OneCore, Dog!CommandKept, Dog!restart, Dog!Started
<1>6. QED
  BY <1>2, <1>3, <1>4, <1>5 DEF DogBoth, DogTypes

LEMMA DogNamed ==
    ASSUME Dog!WatchdogAssumption, DogBoth, Dog!setConfigFile
    PROVE  DogBoth'
<1>1. DogFlags /\ DogKinds /\ DogCounts /\ DogInv
  BY DEF DogBoth, DogTypes
<1>2. DogFlags'
  BY <1>1 DEF DogFlags, Dog!setConfigFile, Dog!Commanded, Dog!serviceVars, Dog!dogVars
<1>3. DogKinds'
  BY <1>1 DEF DogKinds, Dog!WatchdogAssumption, Dog!setConfigFile, Dog!Commanded, Dog!serviceVars, Dog!dogVars
<1>4. DogCounts'
  BY <1>1 DEF DogCounts, Dog!WatchdogAssumption, Dog!setConfigFile, Dog!Commanded, Dog!serviceVars, Dog!dogVars
<1>5. DogInv'
  BY <1>1 DEF DogFlags, DogKinds, DogInv, Dog!OneCore, Dog!CommandKept, Dog!setConfigFile, Dog!Commanded, Dog!serviceVars, Dog!dogVars
<1>6. QED
  BY <1>2, <1>3, <1>4, <1>5 DEF DogBoth, DogTypes

LEMMA DogApplies ==
    ASSUME Dog!WatchdogAssumption, DogBoth, Dog!applyWatchdogCommand
    PROVE  DogBoth'
<1>1. DogFlags /\ DogKinds /\ DogCounts /\ DogInv
  BY DEF DogBoth, DogTypes
<1>2. DogFlags'
  BY <1>1 DEF DogFlags, Dog!applyWatchdogCommand, Dog!Commanded, Dog!setProcessConfig, Dog!Busy, Dog!serviceVars
<1>3. DogKinds'
  BY <1>1 DEF DogKinds, Dog!WatchdogAssumption, Dog!applyWatchdogCommand, Dog!Commanded, Dog!setProcessConfig, Dog!Busy, Dog!serviceVars
<1>4. DogCounts'
  BY <1>1 DEF DogCounts, Dog!WatchdogAssumption, Dog!applyWatchdogCommand, Dog!Commanded, Dog!setProcessConfig, Dog!Busy, Dog!serviceVars
<1>5. DogInv'
  BY <1>1 DEF DogFlags, DogKinds, DogInv, Dog!OneCore, Dog!CommandKept, Dog!applyWatchdogCommand, Dog!Commanded, Dog!setProcessConfig, Dog!Busy, Dog!serviceVars
<1>6. QED
  BY <1>2, <1>3, <1>4, <1>5 DEF DogBoth, DogTypes

LEMMA DogClears ==
    ASSUME Dog!WatchdogAssumption, DogBoth, Dog!clearWatchdogCommand
    PROVE  DogBoth'
<1>1. DogFlags /\ DogKinds /\ DogCounts /\ DogInv
  BY DEF DogBoth, DogTypes
<1>2. DogFlags'
  BY <1>1 DEF DogFlags, Dog!clearWatchdogCommand, Dog!Commanded, Dog!setProcessConfig, Dog!Busy, Dog!serviceVars
<1>3. DogKinds'
  BY <1>1 DEF DogKinds, Dog!WatchdogAssumption, Dog!clearWatchdogCommand, Dog!Commanded, Dog!setProcessConfig, Dog!Busy, Dog!serviceVars
<1>4. DogCounts'
  BY <1>1 DEF DogCounts, Dog!WatchdogAssumption, Dog!clearWatchdogCommand, Dog!Commanded, Dog!setProcessConfig, Dog!Busy, Dog!serviceVars
<1>5. DogInv'
  BY <1>1 DEF DogFlags, DogKinds, DogInv, Dog!OneCore, Dog!CommandKept, Dog!clearWatchdogCommand, Dog!Commanded, Dog!setProcessConfig, Dog!Busy, Dog!serviceVars
<1>6. QED
  BY <1>2, <1>3, <1>4, <1>5 DEF DogBoth, DogTypes

LEMMA DogForgets ==
    ASSUME Dog!WatchdogAssumption, DogBoth, Dog!clearSettings
    PROVE  DogBoth'
<1>1. DogFlags /\ DogKinds /\ DogCounts /\ DogInv
  BY DEF DogBoth, DogTypes
<1>2. DogFlags'
  BY <1>1 DEF DogFlags, Dog!clearSettings, Dog!Commanded, Dog!serviceVars, Dog!dogVars
<1>3. DogKinds'
  BY <1>1 DEF DogKinds, Dog!WatchdogAssumption, Dog!clearSettings, Dog!Commanded, Dog!serviceVars, Dog!dogVars
<1>4. DogCounts'
  BY <1>1 DEF DogCounts, Dog!WatchdogAssumption, Dog!clearSettings, Dog!Commanded, Dog!serviceVars, Dog!dogVars
<1>5. DogInv'
  BY <1>1 DEF DogFlags, DogKinds, DogInv, Dog!OneCore, Dog!CommandKept, Dog!clearSettings, Dog!Commanded, Dog!serviceVars, Dog!dogVars
<1>6. QED
  BY <1>2, <1>3, <1>4, <1>5 DEF DogBoth, DogTypes

LEMMA DogCleans ==
    ASSUME Dog!WatchdogAssumption, DogBoth, Dog!shutdownExistingProcesses
    PROVE  DogBoth'
<1>1. DogFlags /\ DogKinds /\ DogCounts /\ DogInv
  BY DEF DogBoth, DogTypes
<1>2. DogFlags'
  BY <1>1 DEF DogFlags, Dog!shutdownExistingProcesses, Dog!DogStep, Dog!serviceVars, Dog!boundVars
<1>3. DogKinds'
  BY <1>1 DEF DogKinds, Dog!WatchdogAssumption, Dog!shutdownExistingProcesses, Dog!DogStep, Dog!serviceVars, Dog!boundVars
<1>4. DogCounts'
  BY <1>1 DEF DogCounts, Dog!WatchdogAssumption, Dog!shutdownExistingProcesses, Dog!DogStep, Dog!serviceVars, Dog!boundVars
<1>5. DogInv'
  BY <1>1 DEF DogFlags, DogKinds, DogInv, Dog!OneCore, Dog!CommandKept, Dog!shutdownExistingProcesses, Dog!DogStep, Dog!serviceVars, Dog!boundVars
<1>6. QED
  BY <1>2, <1>3, <1>4, <1>5 DEF DogBoth, DogTypes

LEMMA DogTurns ==
    ASSUME Dog!WatchdogAssumption, DogBoth, Dog!turn
    PROVE  DogBoth'
<1>1. DogFlags /\ DogKinds /\ DogCounts /\ DogInv
  BY DEF DogBoth, DogTypes
<1>2. DogFlags'
  BY <1>1 DEF DogFlags, Dog!turn, Dog!hasChanged, Dog!isProcessRunning, Dog!DogStep, Dog!serviceVars, Dog!boundVars
<1>3. DogKinds'
  BY <1>1 DEF DogKinds, Dog!WatchdogAssumption, Dog!turn, Dog!hasChanged, Dog!isProcessRunning, Dog!DogStep, Dog!serviceVars, Dog!boundVars
<1>4. DogCounts'
  BY <1>1 DEF DogCounts, Dog!WatchdogAssumption, Dog!turn, Dog!hasChanged, Dog!isProcessRunning, Dog!DogStep, Dog!serviceVars, Dog!boundVars
<1>5. DogInv'
  BY <1>1 DEF DogFlags, DogKinds, DogInv, Dog!OneCore, Dog!CommandKept, Dog!turn, Dog!hasChanged, Dog!isProcessRunning, Dog!DogStep, Dog!serviceVars, Dog!boundVars
<1>6. QED
  BY <1>2, <1>3, <1>4, <1>5 DEF DogBoth, DogTypes

LEMMA DogStarts ==
    ASSUME Dog!WatchdogAssumption, DogBoth, Dog!startProcess
    PROVE  DogBoth'
<1>1. DogFlags /\ DogKinds /\ DogCounts /\ DogInv
  BY DEF DogBoth, DogTypes
<1>2. DogFlags'
  BY <1>1 DEF DogFlags, Dog!startProcess, Dog!handleStartError, Dog!serviceVars
<1>3. DogKinds'
  BY <1>1 DEF DogKinds, Dog!WatchdogAssumption, Dog!startProcess, Dog!handleStartError, Dog!serviceVars
<1>4. DogCounts'
  BY <1>1 DEF DogCounts, Dog!WatchdogAssumption, Dog!startProcess, Dog!handleStartError, Dog!serviceVars
<1>5. DogInv'
  BY <1>1 DEF DogFlags, DogKinds, DogInv, Dog!OneCore, Dog!CommandKept, Dog!startProcess, Dog!handleStartError, Dog!serviceVars
<1>6. QED
  BY <1>2, <1>3, <1>4, <1>5 DEF DogBoth, DogTypes

LEMMA DogChecks ==
    ASSUME Dog!WatchdogAssumption, DogBoth, Dog!checkStarted
    PROVE  DogBoth'
<1>1. DogFlags /\ DogKinds /\ DogCounts /\ DogInv
  BY DEF DogBoth, DogTypes
<1>2. DogFlags'
  BY <1>1 DEF DogFlags, Dog!checkStarted, Dog!handleStartError, Dog!isProcessRunning, Dog!DogStep, Dog!serviceVars, Dog!boundVars
<1>3. DogKinds'
  BY <1>1 DEF DogKinds, Dog!WatchdogAssumption, Dog!checkStarted, Dog!handleStartError, Dog!isProcessRunning, Dog!DogStep, Dog!serviceVars, Dog!boundVars
<1>4. DogCounts'
  BY <1>1 DEF DogCounts, Dog!WatchdogAssumption, Dog!checkStarted, Dog!handleStartError, Dog!isProcessRunning, Dog!DogStep, Dog!serviceVars, Dog!boundVars
<1>5. DogInv'
  BY <1>1 DEF DogFlags, DogKinds, DogInv, Dog!OneCore, Dog!CommandKept, Dog!checkStarted, Dog!handleStartError, Dog!isProcessRunning, Dog!DogStep, Dog!serviceVars, Dog!boundVars
<1>6. QED
  BY <1>2, <1>3, <1>4, <1>5 DEF DogBoth, DogTypes

LEMMA DogShuts ==
    ASSUME Dog!WatchdogAssumption, DogBoth, Dog!stopProcess
    PROVE  DogBoth'
<1>1. DogFlags /\ DogKinds /\ DogCounts /\ DogInv
  BY DEF DogBoth, DogTypes
<1>2. DogFlags'
  BY <1>1 DEF DogFlags, Dog!stopProcess, Dog!DogStep, Dog!serviceVars, Dog!boundVars
<1>3. DogKinds'
  BY <1>1 DEF DogKinds, Dog!WatchdogAssumption, Dog!stopProcess, Dog!DogStep, Dog!serviceVars, Dog!boundVars
<1>4. DogCounts'
  BY <1>1 DEF DogCounts, Dog!WatchdogAssumption, Dog!stopProcess, Dog!DogStep, Dog!serviceVars, Dog!boundVars
<1>5. DogInv'
  BY <1>1 DEF DogFlags, DogKinds, DogInv, Dog!OneCore, Dog!CommandKept, Dog!stopProcess, Dog!DogStep, Dog!serviceVars, Dog!boundVars
<1>6. QED
  BY <1>2, <1>3, <1>4, <1>5 DEF DogBoth, DogTypes

LEMMA DogFinishes ==
    ASSUME Dog!WatchdogAssumption, DogBoth, Dog!finish
    PROVE  DogBoth'
<1>1. DogFlags /\ DogKinds /\ DogCounts /\ DogInv
  BY DEF DogBoth, DogTypes
<1>2. DogFlags'
  BY <1>1 DEF DogFlags, Dog!finish, Dog!DogStep, Dog!serviceVars, Dog!boundVars
<1>3. DogKinds'
  BY <1>1 DEF DogKinds, Dog!WatchdogAssumption, Dog!finish, Dog!DogStep, Dog!serviceVars, Dog!boundVars
<1>4. DogCounts'
  BY <1>1 DEF DogCounts, Dog!WatchdogAssumption, Dog!finish, Dog!DogStep, Dog!serviceVars, Dog!boundVars
<1>5. DogInv'
  BY <1>1 DEF DogFlags, DogKinds, DogInv, Dog!OneCore, Dog!CommandKept, Dog!finish, Dog!DogStep, Dog!serviceVars, Dog!boundVars
<1>6. QED
  BY <1>2, <1>3, <1>4, <1>5 DEF DogBoth, DogTypes

LEMMA DogCore ==
    ASSUME Dog!WatchdogAssumption, DogBoth, Dog!coreFails
    PROVE  DogBoth'
<1>1. DogFlags /\ DogKinds /\ DogCounts /\ DogInv
  BY DEF DogBoth, DogTypes
<1>2. DogFlags'
  BY <1>1 DEF DogFlags, Dog!coreFails, Dog!serviceVars
<1>3. DogKinds'
  BY <1>1 DEF DogKinds, Dog!WatchdogAssumption, Dog!coreFails, Dog!serviceVars
<1>4. DogCounts'
  BY <1>1 DEF DogCounts, Dog!WatchdogAssumption, Dog!coreFails, Dog!serviceVars
<1>5. DogInv'
  BY <1>1 DEF DogFlags, DogKinds, DogInv, Dog!OneCore, Dog!CommandKept, Dog!coreFails, Dog!serviceVars
<1>6. QED
  BY <1>2, <1>3, <1>4, <1>5 DEF DogBoth, DogTypes

LEMMA DogUsers ==
    ASSUME Dog!WatchdogAssumption, DogBoth, NEW s \in DogSessions, Dog!switchUser(s)
    PROVE  DogBoth'
<1>1. DogFlags /\ DogKinds /\ DogCounts /\ DogInv
  BY DEF DogBoth, DogTypes
<1>2. DogFlags'
  BY <1>1 DEF DogFlags, Dog!switchUser, Dog!serviceVars, Dog!dogVars
<1>3. DogKinds'
  BY <1>1 DEF DogKinds, Dog!WatchdogAssumption, Dog!switchUser, Dog!serviceVars, Dog!dogVars
<1>4. DogCounts'
  BY <1>1 DEF DogCounts, Dog!WatchdogAssumption, Dog!switchUser, Dog!serviceVars, Dog!dogVars
<1>5. DogInv'
  BY <1>1 DEF DogFlags, DogKinds, DogInv, Dog!OneCore, Dog!CommandKept, Dog!switchUser, Dog!serviceVars, Dog!dogVars
<1>6. QED
  BY <1>2, <1>3, <1>4, <1>5 DEF DogBoth, DogTypes

LEMMA DogNext == Dog!WatchdogAssumption /\ DogBoth /\ [Dog!Next]_watchdogVars => DogBoth'
<1> SUFFICES ASSUME Dog!WatchdogAssumption, DogBoth, [Dog!Next]_watchdogVars PROVE DogBoth'
  OBVIOUS
<1>1. CASE UNCHANGED watchdogVars
  BY <1>1 DEF watchdogVars, DogBoth, DogTypes, DogFlags, DogKinds, DogCounts, DogInv, Dog!OneCore,
    Dog!CommandKept
<1>2. CASE Dog!Service
  BY <1>2, DogRuns, DogEnters, DogLeaves, DogStops DEF Dog!Service
<1>3. CASE Dog!Watch
  BY <1>3, DogCleans, DogTurns, DogStarts, DogChecks, DogShuts, DogFinishes DEF Dog!Watch
<1>4. QED
  BY <1>1, <1>2, <1>3, DogControls, DogRestarts, DogNamed, DogApplies, DogClears, DogForgets, DogCore,
    DogUsers DEF Dog!Next

LEMMA DogGoes ==
    ASSUME Dog!WatchdogAssumption
    PROVE  Dog!Spec => []DogBoth
<1>1. [Dog!Next]_(Dog!vars) => [Dog!Next]_watchdogVars
  BY DEF Dog!vars, watchdogVars
<1>2. QED
  BY <1>1, DogInit, DogNext, PTL DEF Dog!Spec

LEMMA DogKept ==
    ASSUME Dog!WatchdogAssumption, DogBoth
    PROVE  Dog!TypeOK /\ Dog!OneCore /\ Dog!CommandKept /\ Dog!NothingLeft
<1>1. DogFlags /\ DogKinds /\ DogCounts /\ DogInv
  BY DEF DogBoth, DogTypes
<1>2. {configFile, command, running, hasty, d_resumed, gaveUp} \subseteq BOOLEAN
  BY <1>1 DEF DogFlags
<1>3. {coreIn, console, seen} \subseteq DogSessions /\ {core, stray} \subseteq {"none"} \cup Dog!Alive
  BY <1>1 DEF DogKinds, Dog!Alive
<1>4. /\ quits \in 0 .. MaxControls /\ d_failures \in 0 .. 2
      /\ controls \in 0 .. MaxControls /\ commands \in 0 .. MaxCommands
      /\ d_faults \in 0 .. DogFaults /\ d_switches \in 0 .. DogSwitches
  BY <1>1 DEF DogCounts, Dog!WatchdogAssumption
<1>5. Dog!TypeOK
  BY <1>1, <1>2, <1>3, <1>4 DEF Dog!TypeOK, DogKinds, Dog!Busy
<1>6. Dog!NothingLeft
  BY <1>1 DEF DogInv, Dog!NothingLeft
<1>7. QED
  BY <1>1, <1>5, <1>6 DEF DogInv

------------------------------------------------------------------------------
(* The service and its worker.                                                 *)

WorkerFlags ==
    /\ w_stopped \in BOOLEAN /\ changed \in BOOLEAN /\ w_resumed \in BOOLEAN /\ hung \in BOOLEAN
    /\ w_input \in BOOLEAN /\ w_told \in BOOLEAN /\ beaten \in BOOLEAN /\ wronged \in BOOLEAN
WorkerKinds ==
    /\ pc \in {"choosing", "waiting", "starting", "watching", "ending", "delaying", "stopped"}
    /\ active \in WorkerSessions \cup {NoSession} /\ session \in WorkerSessions \cup {NoSession}
    /\ life \in {"none", "booting", "quitting", "exited", "discovering", "running"}
WorkerCounts ==
    /\ notices \in 0 .. w_switches /\ w_switches \in 0 .. WorkerSwitches /\ w_faults \in 0 .. WorkerFaults
    /\ beats \in 0 .. 1 /\ w_silent \in 0 .. Silence + 1 /\ grace \in 0 .. Grace
    /\ wait \in Nat /\ uptime \in 0 .. LongRun /\ w_failures \in 0 .. Len(Delays)
WorkerTypes == WorkerFlags /\ WorkerKinds /\ WorkerCounts

\* A worker is there while it is watched and ended, and is new then.  One that is not stuck has
\* been silent for a tick at most when the service looks, since it writes a record in every tick
\* and a record that was not read keeps the time from passing; one that heard the command to stop
\* keeps the time from passing too.  A change of the session is kept from the choice of a session on.
WorkerInv ==
    /\ pc \notin {"watching", "ending"} =>
          life = "none" /\ ~hung /\ ~w_input /\ ~w_told /\ beats = 0 /\ ~beaten
    /\ pc \in {"watching", "ending"} => life # "none"
    /\ life = "booting" => ~beaten /\ beats = 0
    /\ w_told => pc = "ending"
    /\ pc = "watching" /\ beaten /\ beats = 0 => w_silent = 0
    /\ pc = "watching" /\ ~hung /\ life # "exited" => w_silent <= 1
    /\ pc = "ending" /\ w_told /\ ~hung => wait = StopWait
    /\ ~wronged
    /\ pc \in {"starting", "watching"} /\ active # session => changed \/ notices > 0
    /\ Worker!DelayFits

WorkerBoth == WorkerTypes /\ WorkerInv

LEMMA WorkerNumbers ==
    ASSUME Worker!WorkerAssumption
    PROVE  /\ Grace \in Nat \ {0} /\ Silence \in Nat \ {0} /\ StopWait \in Nat \ {0}
           /\ Patience \in Nat \ {0} /\ LongRun \in Nat \ {0}
           /\ WorkerSwitches \in Nat \ {0} /\ WorkerFaults \in Nat \ {0}
           /\ Len(Delays) \in Nat \ {0} /\ \A i \in 1 .. Len(Delays) : Delays[i] \in Nat \ {0}
<1>1. Delays \in Seq(Nat \ {0}) /\ Delays # <<>>
  BY DEF Worker!WorkerAssumption
<1>2. Len(Delays) \in Nat \ {0} /\ \A i \in 1 .. Len(Delays) : Delays[i] \in Nat \ {0}
  BY <1>1, Members
<1>3. {Grace, Silence, StopWait, Patience, LongRun, WorkerSwitches, WorkerFaults} \subseteq Nat \ {0}
  BY DEF Worker!WorkerAssumption
<1>4. QED
  BY <1>2, <1>3

LEMMA WorkerInit == Worker!WorkerAssumption /\ Worker!Init => WorkerBoth
<1> SUFFICES ASSUME Worker!WorkerAssumption, Worker!Init PROVE WorkerBoth
  OBVIOUS
<1>1. WorkerFlags
  BY DEF Worker!Init, WorkerFlags
<1>2. WorkerKinds
  BY DEF Worker!Init, WorkerKinds
<1>3. WorkerCounts
  BY WorkerNumbers DEF Worker!Init, WorkerCounts
<1>4. WorkerInv
  BY WorkerNumbers DEF Worker!Init, WorkerInv, Worker!DelayFits
<1>5. QED
  BY <1>1, <1>2, <1>3, <1>4 DEF WorkerBoth, WorkerTypes

\* After a failure the worker is gone, and the delay is one of the list.
LEMMA WorkerFails ==
    ASSUME Worker!WorkerAssumption, WorkerBoth, Worker!Failed
    PROVE  /\ pc' = "delaying" /\ life' = "none" /\ hung' = FALSE /\ w_input' = FALSE /\ w_told' = FALSE
           /\ beats' = 0 /\ beaten' = FALSE
           /\ w_failures' \in 1 .. Len(Delays) /\ wait' = Delays[w_failures'] /\ wait' \in Nat
<1>1. w_failures \in 0 .. Len(Delays)
  BY DEF WorkerBoth, WorkerTypes, WorkerCounts
<1>2. PICK before \in 0 .. Len(Delays) :
        /\ wait' = Delays[IF before < Len(Delays) THEN before + 1 ELSE before]
        /\ w_failures' = IF before < Len(Delays) THEN before + 1 ELSE before
  <2>1. 0 \in 0 .. Len(Delays)
    BY WorkerNumbers
  <2>2. QED
    BY <1>1, <2>1 DEF Worker!Failed
<1>3. w_failures' \in 1 .. Len(Delays) /\ wait' = Delays[w_failures']
  BY <1>2, WorkerNumbers
<1>4. wait' \in Nat
  BY <1>3, WorkerNumbers
<1>5. QED
  BY <1>3, <1>4 DEF Worker!Failed, Worker!NoWorker

LEMMA WorkerChooses ==
    ASSUME Worker!WorkerAssumption, WorkerBoth, Worker!choose
    PROVE  WorkerBoth'
<1>1. WorkerFlags /\ WorkerKinds /\ WorkerCounts /\ WorkerInv
  BY DEF WorkerBoth, WorkerTypes
<1>2. WorkerFlags'
  BY <1>1 DEF WorkerFlags, Worker!choose, Worker!workerVars, Worker!eventVars
<1>3. WorkerKinds'
  BY <1>1 DEF WorkerKinds, Worker!choose, Worker!workerVars, Worker!eventVars
<1>4. WorkerCounts'
  BY <1>1, WorkerNumbers DEF WorkerCounts, Worker!choose, Worker!workerVars, Worker!eventVars
<1>5. WorkerInv'
  BY <1>1, WorkerNumbers DEF WorkerFlags, WorkerKinds, WorkerCounts, WorkerInv, Worker!DelayFits,
    Worker!choose, Worker!workerVars, Worker!eventVars
<1>6. QED
  BY <1>2, <1>3, <1>4, <1>5 DEF WorkerBoth, WorkerTypes

LEMMA WorkerWaits ==
    ASSUME Worker!WorkerAssumption, WorkerBoth, Worker!waitForSession
    PROVE  WorkerBoth'
<1>1. WorkerFlags /\ WorkerKinds /\ WorkerCounts /\ WorkerInv
  BY DEF WorkerBoth, WorkerTypes
<1>2. WorkerFlags'
  BY <1>1 DEF WorkerFlags, Worker!waitForSession, Worker!workerVars, Worker!eventVars
<1>3. WorkerKinds'
  BY <1>1 DEF WorkerKinds, Worker!waitForSession, Worker!workerVars, Worker!eventVars
<1>4. WorkerCounts'
  BY <1>1, WorkerNumbers DEF WorkerCounts, Worker!waitForSession, Worker!workerVars, Worker!eventVars
<1>5. WorkerInv'
  BY <1>1, WorkerNumbers DEF WorkerFlags, WorkerKinds, WorkerCounts, WorkerInv, Worker!DelayFits,
    Worker!waitForSession, Worker!workerVars, Worker!eventVars
<1>6. QED
  BY <1>2, <1>3, <1>4, <1>5 DEF WorkerBoth, WorkerTypes

LEMMA WorkerEnds ==
    ASSUME Worker!WorkerAssumption, WorkerBoth, Worker!end
    PROVE  WorkerBoth'
<1>1. WorkerFlags /\ WorkerKinds /\ WorkerCounts /\ WorkerInv
  BY DEF WorkerBoth, WorkerTypes
<1>2. WorkerFlags'
  BY <1>1 DEF WorkerFlags, Worker!end, Worker!NoWorker, Worker!workerVars, Worker!eventVars
<1>3. WorkerKinds'
  BY <1>1 DEF WorkerKinds, Worker!end, Worker!NoWorker, Worker!workerVars, Worker!eventVars
<1>4. WorkerCounts'
  BY <1>1, WorkerNumbers DEF WorkerCounts, Worker!end, Worker!NoWorker, Worker!workerVars, Worker!eventVars
<1>5. WorkerInv'
  BY <1>1, WorkerNumbers DEF WorkerFlags, WorkerKinds, WorkerCounts, WorkerInv, Worker!DelayFits,
    Worker!end, Worker!NoWorker, Worker!workerVars, Worker!eventVars
<1>6. QED
  BY <1>2, <1>3, <1>4, <1>5 DEF WorkerBoth, WorkerTypes

LEMMA WorkerDelayed ==
    ASSUME Worker!WorkerAssumption, WorkerBoth, Worker!delayed
    PROVE  WorkerBoth'
<1>1. WorkerFlags /\ WorkerKinds /\ WorkerCounts /\ WorkerInv
  BY DEF WorkerBoth, WorkerTypes
<1>2. WorkerFlags'
  BY <1>1 DEF WorkerFlags, Worker!delayed, Worker!workerVars, Worker!eventVars
<1>3. WorkerKinds'
  BY <1>1 DEF WorkerKinds, Worker!delayed, Worker!workerVars, Worker!eventVars
<1>4. WorkerCounts'
  BY <1>1, WorkerNumbers DEF WorkerCounts, Worker!delayed, Worker!workerVars, Worker!eventVars
<1>5. WorkerInv'
  BY <1>1, WorkerNumbers DEF WorkerFlags, WorkerKinds, WorkerCounts, WorkerInv, Worker!DelayFits,
    Worker!delayed, Worker!workerVars, Worker!eventVars
<1>6. QED
  BY <1>2, <1>3, <1>4, <1>5 DEF WorkerBoth, WorkerTypes

LEMMA WorkerSwitched ==
    ASSUME Worker!WorkerAssumption, WorkerBoth, NEW s \in WorkerSessions \cup {NoSession}, Worker!switchSession(s)
    PROVE  WorkerBoth'
<1>1. WorkerFlags /\ WorkerKinds /\ WorkerCounts /\ WorkerInv
  BY DEF WorkerBoth, WorkerTypes
<1>2. WorkerFlags'
  BY <1>1 DEF WorkerFlags, Worker!switchSession, Worker!workerVars, Worker!eventVars
<1>3. WorkerKinds'
  BY <1>1 DEF WorkerKinds, Worker!switchSession, Worker!workerVars, Worker!eventVars
<1>4. WorkerCounts'
  BY <1>1, WorkerNumbers DEF WorkerCounts, Worker!switchSession, Worker!workerVars, Worker!eventVars
<1>5. WorkerInv'
  BY <1>1, WorkerNumbers DEF WorkerFlags, WorkerKinds, WorkerCounts, WorkerInv, Worker!DelayFits,
    Worker!switchSession, Worker!workerVars, Worker!eventVars
<1>6. QED
  BY <1>2, <1>3, <1>4, <1>5 DEF WorkerBoth, WorkerTypes

LEMMA WorkerStops ==
    ASSUME Worker!WorkerAssumption, WorkerBoth, Worker!stop
    PROVE  WorkerBoth'
<1>1. WorkerFlags /\ WorkerKinds /\ WorkerCounts /\ WorkerInv
  BY DEF WorkerBoth, WorkerTypes
<1>2. WorkerFlags'
  BY <1>1 DEF WorkerFlags, Worker!stop, Worker!Control, Worker!workerVars, Worker!eventVars
<1>3. WorkerKinds'
  BY <1>1 DEF WorkerKinds, Worker!stop, Worker!Control, Worker!workerVars, Worker!eventVars
<1>4. WorkerCounts'
  BY <1>1, WorkerNumbers DEF WorkerCounts, Worker!stop, Worker!Control, Worker!workerVars, Worker!eventVars
<1>5. WorkerInv'
  BY <1>1, WorkerNumbers DEF WorkerFlags, WorkerKinds, WorkerCounts, WorkerInv, Worker!DelayFits,
    Worker!stop, Worker!Control, Worker!workerVars, Worker!eventVars
<1>6. QED
  BY <1>2, <1>3, <1>4, <1>5 DEF WorkerBoth, WorkerTypes

LEMMA WorkerHears ==
    ASSUME Worker!WorkerAssumption, WorkerBoth, Worker!changeTold
    PROVE  WorkerBoth'
<1>1. WorkerFlags /\ WorkerKinds /\ WorkerCounts /\ WorkerInv
  BY DEF WorkerBoth, WorkerTypes
<1>2. WorkerFlags'
  BY <1>1 DEF WorkerFlags, Worker!changeTold, Worker!Control, Worker!workerVars, Worker!eventVars
<1>3. WorkerKinds'
  BY <1>1 DEF WorkerKinds, Worker!changeTold, Worker!Control, Worker!workerVars, Worker!eventVars
<1>4. WorkerCounts'
  BY <1>1, WorkerNumbers DEF WorkerCounts, Worker!changeTold, Worker!Control, Worker!workerVars, Worker!eventVars
<1>5. WorkerInv'
  BY <1>1, WorkerNumbers DEF WorkerFlags, WorkerKinds, WorkerCounts, WorkerInv, Worker!DelayFits,
    Worker!changeTold, Worker!Control, Worker!workerVars, Worker!eventVars
<1>6. QED
  BY <1>2, <1>3, <1>4, <1>5 DEF WorkerBoth, WorkerTypes

LEMMA WorkerWakes ==
    ASSUME Worker!WorkerAssumption, WorkerBoth, Worker!wokenUp
    PROVE  WorkerBoth'
<1>1. WorkerFlags /\ WorkerKinds /\ WorkerCounts /\ WorkerInv
  BY DEF WorkerBoth, WorkerTypes
<1>2. WorkerFlags'
  BY <1>1 DEF WorkerFlags, Worker!wokenUp, Worker!Control, Worker!workerVars, Worker!eventVars
<1>3. WorkerKinds'
  BY <1>1 DEF WorkerKinds, Worker!wokenUp, Worker!Control, Worker!workerVars, Worker!eventVars
<1>4. WorkerCounts'
  BY <1>1, WorkerNumbers DEF WorkerCounts, Worker!wokenUp, Worker!Control, Worker!workerVars, Worker!eventVars
<1>5. WorkerInv'
  BY <1>1, WorkerNumbers DEF WorkerFlags, WorkerKinds, WorkerCounts, WorkerInv, Worker!DelayFits,
    Worker!wokenUp, Worker!Control, Worker!workerVars, Worker!eventVars
<1>6. QED
  BY <1>2, <1>3, <1>4, <1>5 DEF WorkerBoth, WorkerTypes

LEMMA WorkerConnects ==
    ASSUME Worker!WorkerAssumption, WorkerBoth, Worker!connectPipes
    PROVE  WorkerBoth'
<1>1. WorkerFlags /\ WorkerKinds /\ WorkerCounts /\ WorkerInv
  BY DEF WorkerBoth, WorkerTypes
<1>2. WorkerFlags'
  BY <1>1 DEF WorkerFlags, Worker!connectPipes, Worker!WorkerStep, Worker!eventVars
<1>3. WorkerKinds'
  BY <1>1 DEF WorkerKinds, Worker!connectPipes, Worker!WorkerStep, Worker!eventVars
<1>4. WorkerCounts'
  BY <1>1, WorkerNumbers DEF WorkerCounts, Worker!connectPipes, Worker!WorkerStep, Worker!eventVars
<1>5. WorkerInv'
  BY <1>1, WorkerNumbers DEF WorkerFlags, WorkerKinds, WorkerCounts, WorkerInv, Worker!DelayFits,
    Worker!connectPipes, Worker!WorkerStep, Worker!eventVars
<1>6. QED
  BY <1>2, <1>3, <1>4, <1>5 DEF WorkerBoth, WorkerTypes

LEMMA WorkerBegins ==
    ASSUME Worker!WorkerAssumption, WorkerBoth, Worker!main
    PROVE  WorkerBoth'
<1>1. WorkerFlags /\ WorkerKinds /\ WorkerCounts /\ WorkerInv
  BY DEF WorkerBoth, WorkerTypes
<1>2. WorkerFlags'
  BY <1>1 DEF WorkerFlags, Worker!main, Worker!Running, Worker!WorkerStep, Worker!eventVars
<1>3. WorkerKinds'
  BY <1>1 DEF WorkerKinds, Worker!main, Worker!Running, Worker!WorkerStep, Worker!eventVars
<1>4. WorkerCounts'
  BY <1>1, WorkerNumbers DEF WorkerCounts, Worker!main, Worker!Running, Worker!WorkerStep, Worker!eventVars
<1>5. WorkerInv'
  BY <1>1, WorkerNumbers DEF WorkerFlags, WorkerKinds, WorkerCounts, WorkerInv, Worker!DelayFits,
    Worker!main, Worker!Running, Worker!WorkerStep, Worker!eventVars
<1>6. QED
  BY <1>2, <1>3, <1>4, <1>5 DEF WorkerBoth, WorkerTypes

LEMMA WorkerFinds ==
    ASSUME Worker!WorkerAssumption, WorkerBoth, Worker!discovered
    PROVE  WorkerBoth'
<1>1. WorkerFlags /\ WorkerKinds /\ WorkerCounts /\ WorkerInv
  BY DEF WorkerBoth, WorkerTypes
<1>2. WorkerFlags'
  BY <1>1 DEF WorkerFlags, Worker!discovered, Worker!WorkerStep, Worker!eventVars
<1>3. WorkerKinds'
  BY <1>1 DEF WorkerKinds, Worker!discovered, Worker!WorkerStep, Worker!eventVars
<1>4. WorkerCounts'
  BY <1>1, WorkerNumbers DEF WorkerCounts, Worker!discovered, Worker!WorkerStep, Worker!eventVars
<1>5. WorkerInv'
  BY <1>1, WorkerNumbers DEF WorkerFlags, WorkerKinds, WorkerCounts, WorkerInv, Worker!DelayFits,
    Worker!discovered, Worker!WorkerStep, Worker!eventVars
<1>6. QED
  BY <1>2, <1>3, <1>4, <1>5 DEF WorkerBoth, WorkerTypes

LEMMA WorkerBeats ==
    ASSUME Worker!WorkerAssumption, WorkerBoth, Worker!heartbeat
    PROVE  WorkerBoth'
<1>1. WorkerFlags /\ WorkerKinds /\ WorkerCounts /\ WorkerInv
  BY DEF WorkerBoth, WorkerTypes
<1>2. WorkerFlags'
  BY <1>1 DEF WorkerFlags, Worker!heartbeat, Worker!Running, Worker!WorkerStep, Worker!eventVars
<1>3. WorkerKinds'
  BY <1>1 DEF WorkerKinds, Worker!heartbeat, Worker!Running, Worker!WorkerStep, Worker!eventVars
<1>4. WorkerCounts'
  BY <1>1, WorkerNumbers DEF WorkerCounts, Worker!heartbeat, Worker!Running, Worker!WorkerStep, Worker!eventVars
<1>5. WorkerInv'
  BY <1>1, WorkerNumbers DEF WorkerFlags, WorkerKinds, WorkerCounts, WorkerInv, Worker!DelayFits,
    Worker!heartbeat, Worker!Running, Worker!WorkerStep, Worker!eventVars
<1>6. QED
  BY <1>2, <1>3, <1>4, <1>5 DEF WorkerBoth, WorkerTypes

LEMMA WorkerQuits ==
    ASSUME Worker!WorkerAssumption, WorkerBoth, Worker!stopCommand
    PROVE  WorkerBoth'
<1>1. WorkerFlags /\ WorkerKinds /\ WorkerCounts /\ WorkerInv
  BY DEF WorkerBoth, WorkerTypes
<1>2. WorkerFlags'
  BY <1>1 DEF WorkerFlags, Worker!stopCommand, Worker!Running, Worker!WorkerStep, Worker!eventVars
<1>3. WorkerKinds'
  BY <1>1 DEF WorkerKinds, Worker!stopCommand, Worker!Running, Worker!WorkerStep, Worker!eventVars
<1>4. WorkerCounts'
  BY <1>1, WorkerNumbers DEF WorkerCounts, Worker!stopCommand, Worker!Running, Worker!WorkerStep, Worker!eventVars
<1>5. WorkerInv'
  BY <1>1, WorkerNumbers DEF WorkerFlags, WorkerKinds, WorkerCounts, WorkerInv, Worker!DelayFits,
    Worker!stopCommand, Worker!Running, Worker!WorkerStep, Worker!eventVars
<1>6. QED
  BY <1>2, <1>3, <1>4, <1>5 DEF WorkerBoth, WorkerTypes

LEMMA WorkerFinished ==
    ASSUME Worker!WorkerAssumption, WorkerBoth, Worker!coreFinished
    PROVE  WorkerBoth'
<1>1. WorkerFlags /\ WorkerKinds /\ WorkerCounts /\ WorkerInv
  BY DEF WorkerBoth, WorkerTypes
<1>2. WorkerFlags'
  BY <1>1 DEF WorkerFlags, Worker!coreFinished, Worker!WorkerStep, Worker!eventVars
<1>3. WorkerKinds'
  BY <1>1 DEF WorkerKinds, Worker!coreFinished, Worker!WorkerStep, Worker!eventVars
<1>4. WorkerCounts'
  BY <1>1, WorkerNumbers DEF WorkerCounts, Worker!coreFinished, Worker!WorkerStep, Worker!eventVars
<1>5. WorkerInv'
  BY <1>1, WorkerNumbers DEF WorkerFlags, WorkerKinds, WorkerCounts, WorkerInv, Worker!DelayFits,
    Worker!coreFinished, Worker!WorkerStep, Worker!eventVars
<1>6. QED
  BY <1>2, <1>3, <1>4, <1>5 DEF WorkerBoth, WorkerTypes

LEMMA WorkerFaulty ==
    ASSUME Worker!WorkerAssumption, WorkerBoth, Worker!fault
    PROVE  WorkerBoth'
<1>1. WorkerFlags /\ WorkerKinds /\ WorkerCounts /\ WorkerInv
  BY DEF WorkerBoth, WorkerTypes
<1>2. WorkerFlags'
  BY <1>1 DEF WorkerFlags, Worker!fault, Worker!Running, Worker!WorkerStep, Worker!eventVars
<1>3. WorkerKinds'
  BY <1>1 DEF WorkerKinds, Worker!fault, Worker!Running, Worker!WorkerStep, Worker!eventVars
<1>4. WorkerCounts'
  BY <1>1, WorkerNumbers DEF WorkerCounts, Worker!fault, Worker!Running, Worker!WorkerStep, Worker!eventVars
<1>5. WorkerInv'
  BY <1>1, WorkerNumbers DEF WorkerFlags, WorkerKinds, WorkerCounts, WorkerInv, Worker!DelayFits,
    Worker!fault, Worker!Running, Worker!WorkerStep, Worker!eventVars
<1>6. QED
  BY <1>2, <1>3, <1>4, <1>5 DEF WorkerBoth, WorkerTypes

\* A tick passes only when nothing is left to handle.
LEMMA WorkerTicks ==
    ASSUME Worker!WorkerAssumption, WorkerBoth, Worker!Tick
    PROVE  WorkerBoth'
<1>1. WorkerFlags /\ WorkerKinds /\ WorkerCounts /\ WorkerInv
  BY DEF WorkerBoth, WorkerTypes
<1>2. /\ pc = "watching" => ~changed /\ life # "exited" /\ ~(beats > 0)
      /\ pc = "ending" => life # "exited"
      /\ pc \in {"watching", "waiting", "ending", "delaying"}
  BY DEF Worker!Tick, Worker!Idle
<1>3. /\ ~hung => beaten \/ life = "none" \/ life = "exited"
      /\ w_told => hung
      /\ beaten' = FALSE
      /\ w_silent' = IF pc = "watching" /\ w_silent <= Silence THEN w_silent + 1 ELSE w_silent
      /\ grace' = IF grace > 0 THEN grace - 1 ELSE 0
      /\ wait' = IF wait > 0 THEN wait - 1 ELSE 0
      /\ uptime' = IF pc = "watching" /\ uptime < LongRun THEN uptime + 1 ELSE uptime
      /\ UNCHANGED <<pc, w_stopped, changed, w_resumed, active, notices, session, life, hung, w_input,
             w_told, beats, w_failures, wronged, w_switches, w_faults>>
  BY DEF Worker!Tick, Worker!InTime, Worker!eventVars
<1>4. WorkerFlags'
  BY <1>1, <1>3 DEF WorkerFlags
<1>5. WorkerKinds'
  BY <1>1, <1>3 DEF WorkerKinds
<1>6. WorkerCounts'
  <2>1. w_silent' \in 0 .. Silence + 1 /\ grace' \in 0 .. Grace
    BY <1>1, <1>3, WorkerNumbers DEF WorkerCounts
  <2>2. wait' \in Nat /\ uptime' \in 0 .. LongRun
    BY <1>1, <1>3, WorkerNumbers DEF WorkerCounts
  <2>3. QED
    BY <1>1, <1>3, <2>1, <2>2 DEF WorkerCounts
<1>7. pc = "watching" /\ ~hung /\ life # "exited" => w_silent' <= 1
  <2> SUFFICES ASSUME pc = "watching", ~hung, life # "exited" PROVE w_silent' <= 1
    OBVIOUS
  <2>1. beaten /\ beats = 0
    BY <1>1, <1>2, <1>3 DEF WorkerInv, WorkerCounts
  <2>2. w_silent = 0
    BY <1>1, <2>1 DEF WorkerInv
  <2>3. QED
    BY <1>3, <2>2, WorkerNumbers
<1>8. pc = "delaying" => w_failures > 0 /\ wait' <= Delays[w_failures]
  <2> SUFFICES ASSUME pc = "delaying" PROVE w_failures > 0 /\ wait' <= Delays[w_failures]
    OBVIOUS
  <2>1. w_failures > 0 /\ wait <= Delays[w_failures] /\ wait \in Nat /\ w_failures \in 0 .. Len(Delays)
    BY <1>1 DEF WorkerInv, WorkerCounts, Worker!DelayFits
  <2>2. Delays[w_failures] \in Nat
    BY <2>1, WorkerNumbers
  <2>3. QED
    BY <1>3, <2>1, <2>2
<1>9. WorkerInv'
  BY <1>1, <1>2, <1>3, <1>7, <1>8 DEF WorkerInv, Worker!DelayFits
<1>10. QED
  BY <1>4, <1>5, <1>6, <1>9 DEF WorkerBoth, WorkerTypes

LEMMA WorkerRuns ==
    ASSUME Worker!WorkerAssumption, WorkerBoth, Worker!runWorker
    PROVE  WorkerBoth'
<1>1. WorkerFlags /\ WorkerKinds /\ WorkerCounts /\ WorkerInv
  BY DEF WorkerBoth, WorkerTypes
<1>2. /\ pc = "starting"
      /\ UNCHANGED <<w_stopped, changed, w_resumed, active, notices, session, wronged, w_switches, uptime>>
  BY DEF Worker!runWorker, Worker!eventVars
<1>3. CASE /\ pc' = "watching" /\ life' = "booting" /\ w_silent' = 0 /\ grace' = Grace
           /\ UNCHANGED <<hung, w_input, w_told, beats, beaten, wait, w_failures, w_faults>>
  <2>1. WorkerFlags'
    BY <1>1, <1>2, <1>3 DEF WorkerFlags
  <2>2. WorkerKinds'
    BY <1>1, <1>2, <1>3 DEF WorkerKinds
  <2>3. WorkerCounts'
    BY <1>1, <1>2, <1>3, WorkerNumbers DEF WorkerCounts
  <2>4. WorkerInv'
    BY <1>1, <1>2, <1>3, WorkerNumbers DEF WorkerInv, Worker!DelayFits
  <2>5. QED
    BY <2>1, <2>2, <2>3, <2>4 DEF WorkerBoth, WorkerTypes
<1>4. CASE /\ w_faults < WorkerFaults /\ w_faults' = w_faults + 1
           /\ Worker!Failed /\ UNCHANGED <<w_silent, grace>>
  <2>1. /\ pc' = "delaying" /\ life' = "none" /\ hung' = FALSE /\ w_input' = FALSE /\ w_told' = FALSE
        /\ beats' = 0 /\ beaten' = FALSE
        /\ w_failures' \in 1 .. Len(Delays) /\ wait' = Delays[w_failures'] /\ wait' \in Nat
    BY <1>4, WorkerFails
  <2>2. WorkerFlags'
    BY <1>1, <1>2, <2>1 DEF WorkerFlags
  <2>3. WorkerKinds'
    BY <1>1, <1>2, <2>1 DEF WorkerKinds
  <2>4. WorkerCounts'
    BY <1>1, <1>2, <1>4, <2>1, WorkerNumbers DEF WorkerCounts
  <2>5. WorkerInv'
    BY <1>1, <1>2, <2>1, WorkerNumbers DEF WorkerInv, Worker!DelayFits
  <2>6. QED
    BY <2>2, <2>3, <2>4, <2>5 DEF WorkerBoth, WorkerTypes
<1>5. QED
  BY <1>3, <1>4 DEF Worker!runWorker

\* What the check of the heartbeat does: nothing, or it ends a worker that does not answer.
LEMMA WorkerChecked ==
    ASSUME Worker!WorkerAssumption, WorkerBoth, pc = "watching",
           NEW s \in 0 .. Silence + 1, NEW g \in 0 .. Grace, s <= w_silent, Worker!Checked(s, g)
    PROVE  \/ UNCHANGED <<pc, wait, w_failures, life, hung, w_input, w_told, beaten, wronged>>
           \/ /\ pc' = "delaying" /\ life' = "none" /\ hung' = FALSE /\ w_input' = FALSE
              /\ w_told' = FALSE /\ beats' = 0 /\ beaten' = FALSE
              /\ w_failures' \in 1 .. Len(Delays) /\ wait' = Delays[w_failures'] /\ wait' \in Nat
              /\ wronged' = FALSE
<1>1. WorkerFlags /\ WorkerKinds /\ WorkerCounts /\ WorkerInv
  BY DEF WorkerBoth, WorkerTypes
<1>2. CASE g = 0 /\ s > Silence
  <2>1. Worker!Failed /\ wronged' = (wronged \/ (life \in Worker!Running /\ ~hung))
    BY <1>2 DEF Worker!Checked
  <2>2. ~(life \in Worker!Running /\ ~hung)
    <3>1. w_silent > 1
      BY <1>1, <1>2, WorkerNumbers DEF WorkerCounts
    <3>2. QED
      BY <1>1, <3>1 DEF WorkerInv, WorkerCounts, Worker!Running
  <2>3. wronged = FALSE
    BY <1>1 DEF WorkerInv, WorkerFlags
  <2>4. wronged' = FALSE
    BY <2>1, <2>2, <2>3
  <2>5. QED
    BY <2>1, <2>4, WorkerFails
<1>3. CASE ~(g = 0 /\ s > Silence)
  BY <1>3 DEF Worker!Checked
<1>4. QED
  BY <1>2, <1>3

LEMMA WorkerWatches ==
    ASSUME Worker!WorkerAssumption, WorkerBoth, Worker!watch
    PROVE  WorkerBoth'
<1>1. WorkerFlags /\ WorkerKinds /\ WorkerCounts /\ WorkerInv
  BY DEF WorkerBoth, WorkerTypes
<1>2. /\ pc = "watching"
      /\ UNCHANGED <<w_stopped, active, notices, session, uptime, w_switches, w_faults>>
  BY DEF Worker!watch
<1>3. /\ 0 \in 0 .. Silence + 1 /\ 0 <= w_silent /\ w_silent <= w_silent /\ Grace \in 0 .. Grace
      /\ w_silent \in 0 .. Silence + 1 /\ grace \in 0 .. Grace
  BY <1>1, WorkerNumbers DEF WorkerCounts
<1> DEFINE Spared == UNCHANGED <<pc, wait, w_failures, life, hung, w_input, w_told, beaten, wronged>>
           Ended ==
              /\ pc' = "delaying" /\ life' = "none" /\ hung' = FALSE /\ w_input' = FALSE
              /\ w_told' = FALSE /\ beats' = 0 /\ beaten' = FALSE
              /\ w_failures' \in 1 .. Len(Delays) /\ wait' = Delays[w_failures'] /\ wait' \in Nat
              /\ wronged' = FALSE
<1>4. \A s \in 0 .. Silence + 1, g \in 0 .. Grace :
        s <= w_silent /\ Worker!Checked(s, g) => Spared \/ Ended
  BY <1>2, WorkerChecked
<1>5. ASSUME Ended, changed' \in BOOLEAN, w_resumed' \in BOOLEAN,
             w_silent' \in 0 .. Silence + 1, grace' \in 0 .. Grace
      PROVE  WorkerBoth'
  <2>1. WorkerFlags'
    BY <1>1, <1>2, <1>5 DEF WorkerFlags
  <2>2. WorkerKinds'
    BY <1>1, <1>2, <1>5 DEF WorkerKinds
  <2>3. WorkerCounts'
    BY <1>1, <1>2, <1>5, WorkerNumbers DEF WorkerCounts
  <2>4. WorkerInv'
    BY <1>1, <1>2, <1>5, WorkerNumbers DEF WorkerInv, Worker!DelayFits
  <2>5. QED
    BY <2>1, <2>2, <2>3, <2>4 DEF WorkerBoth, WorkerTypes
<1>6. ASSUME Worker!ShutDown, changed' \in BOOLEAN, UNCHANGED <<w_resumed, w_silent, grace>>
      PROVE  WorkerBoth'
  <2>1. WorkerFlags'
    BY <1>1, <1>2, <1>6 DEF WorkerFlags, Worker!ShutDown
  <2>2. WorkerKinds'
    BY <1>1, <1>2, <1>6 DEF WorkerKinds, Worker!ShutDown
  <2>3. WorkerCounts'
    BY <1>1, <1>2, <1>6, WorkerNumbers DEF WorkerCounts, Worker!ShutDown
  <2>4. WorkerInv'
    BY <1>1, <1>2, <1>6, WorkerNumbers DEF WorkerInv, WorkerFlags, Worker!DelayFits, Worker!ShutDown
  <2>5. QED
    BY <2>1, <2>2, <2>3, <2>4 DEF WorkerBoth, WorkerTypes
<1>7. CASE w_stopped
  BY <1>1, <1>6, <1>7 DEF Worker!watch, WorkerFlags
<1>8. CASE ~w_stopped /\ changed /\ active # session
  BY <1>6, <1>8 DEF Worker!watch
<1>9. CASE ~w_stopped /\ changed /\ active = session
  <2>1. /\ changed' = FALSE /\ grace' = (IF w_resumed THEN Grace ELSE grace) /\ w_resumed' = FALSE
        /\ UNCHANGED w_silent /\ Worker!Checked(w_silent, grace') /\ (pc' = pc => UNCHANGED beats)
    BY <1>9 DEF Worker!watch
  <2>2. grace' \in 0 .. Grace
    BY <1>3, <2>1
  <2>3. Spared \/ Ended
    BY <1>3, <1>4, <2>1, <2>2
  <2>4. CASE Spared
    <3>1. UNCHANGED beats
      BY <2>1, <2>4
    <3>2. WorkerFlags'
      BY <1>1, <1>2, <2>1, <2>4 DEF WorkerFlags
    <3>3. WorkerKinds'
      BY <1>1, <1>2, <2>4 DEF WorkerKinds
    <3>4. WorkerCounts'
      BY <1>1, <1>2, <2>1, <2>2, <2>4, <3>1 DEF WorkerCounts
    <3>5. WorkerInv'
      BY <1>1, <1>2, <1>9, <2>1, <2>4, <3>1 DEF WorkerInv, Worker!DelayFits
    <3>6. QED
      BY <3>2, <3>3, <3>4, <3>5 DEF WorkerBoth, WorkerTypes
  <2>5. CASE Ended
    BY <1>3, <1>5, <2>1, <2>2, <2>5
  <2>6. QED
    BY <2>3, <2>4, <2>5
<1>10. CASE ~w_stopped /\ ~changed /\ life = "exited"
  <2>1. Worker!Failed /\ UNCHANGED <<changed, w_resumed, w_silent, grace, wronged>>
    BY <1>10 DEF Worker!watch
  <2>2. wronged' = FALSE
    BY <1>1, <2>1 DEF WorkerInv, WorkerFlags
  <2>3. Ended
    BY <2>1, <2>2, WorkerFails
  <2>4. changed' \in BOOLEAN /\ w_resumed' \in BOOLEAN
    BY <1>1, <2>1 DEF WorkerFlags
  <2>5. QED
    BY <1>3, <1>5, <2>1, <2>3, <2>4
<1>11. CASE ~w_stopped /\ ~changed /\ life # "exited" /\ beats > 0
  <2>1. /\ beats' = 0 /\ w_silent' = 0 /\ Worker!Checked(0, grace)
        /\ UNCHANGED <<changed, w_resumed, grace>>
    BY <1>11 DEF Worker!watch
  <2>2. Spared \/ Ended
    BY <1>3, <1>4, <2>1
  <2>3. changed' \in BOOLEAN /\ w_resumed' \in BOOLEAN
    BY <1>1, <2>1 DEF WorkerFlags
  <2>4. CASE Spared
    <3>1. WorkerFlags'
      BY <1>1, <1>2, <2>1, <2>4 DEF WorkerFlags
    <3>2. WorkerKinds'
      BY <1>1, <1>2, <2>4 DEF WorkerKinds
    <3>3. WorkerCounts'
      BY <1>1, <1>2, <1>3, <2>1, <2>4 DEF WorkerCounts
    <3>4. WorkerInv'
      BY <1>1, <1>2, <2>1, <2>4 DEF WorkerInv, Worker!DelayFits
    <3>5. QED
      BY <3>1, <3>2, <3>3, <3>4 DEF WorkerBoth, WorkerTypes
  <2>5. CASE Ended
    BY <1>3, <1>5, <2>1, <2>3, <2>5
  <2>6. QED
    BY <2>2, <2>4, <2>5
<1>12. CASE ~w_stopped /\ ~changed /\ life # "exited" /\ ~(beats > 0)
  <2>1. /\ grace = 0 /\ w_silent > Silence
        /\ Worker!Checked(w_silent, grace) /\ UNCHANGED <<changed, w_resumed, w_silent, grace>>
    BY <1>12 DEF Worker!watch
  <2>2. pc' = "delaying"
    BY <2>1 DEF Worker!Checked, Worker!Failed
  <2>3. Ended
    BY <1>2, <1>3, <1>4, <2>1, <2>2
  <2>4. changed' \in BOOLEAN /\ w_resumed' \in BOOLEAN
    BY <1>1, <2>1 DEF WorkerFlags
  <2>5. QED
    BY <1>3, <1>5, <2>1, <2>3, <2>4
<1>13. QED
  BY <1>7, <1>8, <1>9, <1>10, <1>11, <1>12

LEMMA WorkerNext == Worker!WorkerAssumption /\ WorkerBoth /\ [Worker!Next]_serviceWorkerVars => WorkerBoth'
<1> SUFFICES ASSUME Worker!WorkerAssumption, WorkerBoth, [Worker!Next]_serviceWorkerVars PROVE WorkerBoth'
  OBVIOUS
<1>1. CASE UNCHANGED serviceWorkerVars
  BY <1>1 DEF serviceWorkerVars, WorkerBoth, WorkerTypes, WorkerFlags, WorkerKinds, WorkerCounts,
    WorkerInv, Worker!DelayFits
<1>2. CASE Worker!Serve
  BY <1>2, WorkerChooses, WorkerWaits, WorkerRuns, WorkerWatches, WorkerEnds, WorkerDelayed DEF Worker!Serve
<1>3. CASE Worker!Worker
  BY <1>3, WorkerConnects, WorkerBegins, WorkerFinds, WorkerBeats, WorkerQuits, WorkerFinished
  DEF Worker!Worker
<1>4. CASE Worker!control
  BY <1>4, WorkerStops, WorkerHears, WorkerWakes DEF Worker!control
<1>5. QED
  BY <1>1, <1>2, <1>3, <1>4, WorkerSwitched, WorkerFaulty, WorkerTicks DEF Worker!Next

LEMMA WorkerGoes ==
    ASSUME Worker!WorkerAssumption
    PROVE  Worker!Spec => []WorkerBoth
<1>1. [Worker!Next]_(Worker!vars) => [Worker!Next]_serviceWorkerVars
  BY DEF Worker!vars, serviceWorkerVars
<1>2. QED
  BY <1>1, WorkerInit, WorkerNext, PTL DEF Worker!Spec

LEMMA WorkerKept ==
    ASSUME Worker!WorkerAssumption, WorkerBoth
    PROVE  /\ Worker!TypeOK /\ Worker!ChangeSeen /\ Worker!NoneLeft /\ Worker!AnswersSpared
           /\ Worker!DelayFits
<1>1. WorkerFlags /\ WorkerKinds /\ WorkerCounts /\ WorkerInv
  BY DEF WorkerBoth, WorkerTypes
<1>2. {w_stopped, changed, w_resumed, hung, w_input, w_told, beaten, wronged} \subseteq BOOLEAN
  BY <1>1 DEF WorkerFlags
<1>3. {active, session} \subseteq WorkerSessions \cup {NoSession}
  BY <1>1 DEF WorkerKinds
<1>4. notices \in 0 .. WorkerSwitches
  BY <1>1, WorkerNumbers DEF WorkerCounts
<1>5. Worker!TypeOK
  BY <1>1, <1>2, <1>3, <1>4 DEF Worker!TypeOK, WorkerKinds, WorkerCounts, Worker!Running
<1>6. Worker!ChangeSeen /\ Worker!NoneLeft /\ Worker!AnswersSpared
  BY <1>1 DEF WorkerInv, Worker!ChangeSeen, Worker!NoneLeft, Worker!AnswersSpared
<1>7. QED
  BY <1>1, <1>5, <1>6 DEF WorkerInv

------------------------------------------------------------------------------
(* The life of a thread.                                                       *)


\* A thread that changes the count is where it does so; the mutex is held by the one that
\* raises it.
CountingInv ==
    /\ counting \in [Thread!Actors -> Int] /\ m_refCount \in Int /\ torn \in BOOLEAN /\ freed \in BOOLEAN
    /\ counting["main"] # Thread!None => main \in Thread!Raising \cup Thread!Lowering
    /\ counting["child"] # Thread!None => child \in Thread!Raising \cup Thread!Lowering
    /\ m_threadMutex = "main" => main \in Thread!Raising
    /\ m_threadMutex = "child" => child \in Thread!Raising

\* What each of the two refers to the child for: the lock from its being taken to its being
\* given up or deleted, the pipe from the first poll on.
HoldersInv ==
    /\ locker \in BOOLEAN /\ t_polled \in BOOLEAN
    /\ child \in {"asking", "keeping", "giving", "polling", "unlocked"} => locker
    /\ child \in {"born", "named", "testing", "locking"} => ~locker
    /\ main = "unlocking" => locker
    /\ main \in {"waited", "deleting", "unlocking"} => m_exited
    /\ main = "idle" => ~locker /\ child \in {"none", "exited"}
    /\ m_exited => child \in {"none", "exited"}
    /\ child = "keeping" => pipe = "none"
    /\ pipe = "none" <=> ~t_polled
    /\ child \in {"giving", "polling"} => pipe # "none"

\* The count is exact, unless two changes overlapped.
ExactInv == ~torn => m_refCount = Thread!References /\ (freed <=> Thread!References = 0)

ThreadInv == CountingInv /\ HoldersInv /\ ExactInv

LEMMA ThreadInit == Thread!Init => ThreadInv
<1> SUFFICES ASSUME Thread!Init PROVE ThreadInv
  OBVIOUS
<1>1. CountingInv
  <2>1. Thread!None \in Int
    BY DEF Thread!None
  <2>2. "main" \in Thread!Actors /\ "child" \in Thread!Actors
    BY DEF Thread!Actors
  <2>3. /\ counting \in [Thread!Actors -> Int]
        /\ counting["main"] = Thread!None /\ counting["child"] = Thread!None
    BY <2>1, <2>2 DEF Thread!Init
  <2>4. m_refCount \in Int
    BY DEF Thread!Init
  <2>5. torn \in BOOLEAN /\ freed \in BOOLEAN
    BY Zenon DEF Thread!Init
  <2>6. m_refCount \in Int /\ torn \in BOOLEAN /\ freed \in BOOLEAN
    BY <2>4, <2>5
  <2>7. m_threadMutex # "main" /\ m_threadMutex # "child"
    BY DEF Thread!Init
  <2>8. QED
    BY <2>3, <2>6, <2>7 DEF CountingInv
<1>2. HoldersInv
  BY DEF Thread!Init, HoldersInv
<1>3. Thread!References = 0
  BY DEF Thread!Init, Thread!References
<1>4. QED
  BY <1>1, <1>2, <1>3 DEF Thread!Init, ThreadInv, ExactInv

\* A change of the count that nothing came between.
LEMMA Changed ==
    ASSUME NEW a \in Thread!Actors, NEW n \in Int, CountingInv, Thread!write(a, n)
    PROVE  /\ m_refCount' = n /\ counting'[a] = Thread!None
           /\ counting' \in [Thread!Actors -> Int]
           /\ \A b \in Thread!Actors : b # a => counting'[b] = counting[b]
           /\ torn' \in BOOLEAN
           /\ ~torn' => ~torn /\ counting[a] = m_refCount
<1>1. Thread!None \in Int
  BY DEF Thread!None
<1>2. QED
  BY <1>1 DEF Thread!write, CountingInv

LEMMA Raised ==
    ASSUME NEW a \in Thread!Actors, CountingInv, ExactInv, Thread!refThread(a)
    PROVE  /\ counting'[a] = Thread!None /\ counting' \in [Thread!Actors -> Int] /\ m_refCount' \in Int
           /\ torn' \in BOOLEAN /\ freed' \in BOOLEAN
           /\ \A b \in Thread!Actors : b # a => counting'[b] = counting[b]
           /\ m_threadMutex = a /\ m_threadMutex' = "none"
           /\ ~torn' => ~torn /\ m_refCount' = m_refCount + 1 /\ (freed' <=> freed)
<1>1. counting[a] + 1 \in Int
  BY DEF CountingInv
<1>2. QED
  BY <1>1, Changed DEF Thread!refThread, CountingInv

LEMMA Lowered ==
    ASSUME NEW a \in Thread!Actors, CountingInv, ExactInv, Thread!closeThread(a)
    PROVE  /\ counting'[a] = Thread!None /\ counting' \in [Thread!Actors -> Int] /\ m_refCount' \in Int
           /\ torn' \in BOOLEAN /\ freed' \in BOOLEAN
           /\ \A b \in Thread!Actors : b # a => counting'[b] = counting[b]
           /\ m_threadMutex' = m_threadMutex
           /\ ~torn' => /\ ~torn /\ m_refCount' = m_refCount - 1
                        /\ freed' <=> (freed \/ m_refCount = 1)
<1>1. counting[a] - 1 \in Int
  BY DEF CountingInv
<1>2. QED
  BY <1>1, Changed DEF Thread!closeThread, CountingInv

LEMMA ThreadNext == ThreadInv /\ [Thread!Next]_(Thread!vars) => ThreadInv'
<1> SUFFICES ASSUME CountingInv, HoldersInv, ExactInv, [Thread!Next]_(Thread!vars)
    PROVE CountingInv' /\ HoldersInv' /\ ExactInv'
  BY DEF ThreadInv
<1> "main" \in Thread!Actors /\ "child" \in Thread!Actors
  BY DEF Thread!Actors
<1> USE DEF Thread!countVars, Thread!cancelVars, Thread!pollVars
<1>1. ASSUME NEW a \in Thread!Actors, Thread!count(a) PROVE CountingInv' /\ HoldersInv' /\ ExactInv'
  <2>1. CountingInv'
    BY <1>1 DEF Thread!count, CountingInv, Thread!At, Thread!Actors, Thread!None, Thread!Unlocked
  <2>2. HoldersInv' /\ ExactInv'
    BY <1>1 DEF Thread!count, HoldersInv, ExactInv, Thread!References
  <2>3. QED
    BY <2>1, <2>2
<1>2. CASE Thread!newThread
  <2>1. torn' \in BOOLEAN /\ freed' \in BOOLEAN
    BY <1>2, Zenon DEF Thread!newThread
  <2>2. m_refCount' \in Int
    BY <1>2 DEF Thread!newThread
  <2>3. /\ main = "idle" /\ child = "none" /\ child' = "born"
        /\ counting' = counting /\ m_threadMutex' = m_threadMutex
    BY <1>2 DEF Thread!newThread
  <2>4. CountingInv'
    BY <2>1, <2>3, <2>2 DEF CountingInv, Thread!Raising, Thread!Lowering
  <2>5. HoldersInv'
    BY <1>2 DEF Thread!newThread, HoldersInv
  <2>6. Thread!References' = 2
    BY <1>2 DEF Thread!newThread, HoldersInv, Thread!References
  <2>7. QED
    BY <1>2, <2>4, <2>5, <2>6 DEF Thread!newThread, ExactInv
<1>3. CASE Thread!cancelThread \/ Thread!kill \/ Thread!unblockPollSocket
  BY <1>3 DEF Thread!cancelThread, Thread!kill, Thread!unblockPollSocket, CountingInv, HoldersInv, ExactInv,
              Thread!References, Thread!Raising, Thread!Lowering
<1>4. CASE Thread!wait
  <2>1. CASE main = "waiting" /\ Thread!refThread("main") /\ main' = "watching"
    <3>1. CountingInv'
      BY <1>4, <2>1, Raised DEF Thread!wait, CountingInv, Thread!Actors
    <3>2. HoldersInv' /\ ExactInv'
      BY <1>4, <2>1, Raised DEF Thread!wait, HoldersInv, ExactInv, CountingInv, Thread!References
    <3>3. QED
      BY <3>1, <3>2
  <2>2. CASE main = "watching" /\ Thread!Unlocked /\ m_exited /\ main' = "waited" /\ UNCHANGED Thread!countVars
    BY <1>4, <2>2 DEF Thread!wait, CountingInv, HoldersInv, ExactInv, Thread!References, Thread!Raising, Thread!Lowering
  <2>3. CASE main = "waited" /\ Thread!closeThread("main") /\ main' = "deleting"
    <3>1. CountingInv'
      BY <1>4, <2>3, Lowered DEF Thread!wait, CountingInv, Thread!Actors, Thread!Raising
    <3>2. HoldersInv' /\ ExactInv'
      BY <1>4, <2>3, Lowered DEF Thread!wait, HoldersInv, ExactInv, CountingInv, Thread!References
    <3>3. QED
      BY <3>1, <3>2
  <2>4. QED
    BY <1>4, <2>1, <2>2, <2>3 DEF Thread!wait
<1>5. CASE Thread!deleteThread
  <2>1. CountingInv'
    BY <1>5, Lowered DEF Thread!deleteThread, CountingInv, Thread!Actors, Thread!Raising
  <2>2. HoldersInv'
    BY <1>5 DEF Thread!deleteThread, HoldersInv
  <2>3. /\ t_polled' = t_polled /\ child' = child /\ locker \in BOOLEAN
        /\ main \in {"deleting", "unlocking"} /\ (main = "unlocking" => locker)
    BY <1>5 DEF Thread!deleteThread, HoldersInv
  <2>4. Thread!References' = Thread!References - 1
    <3>1. CASE main = "deleting" /\ locker
      <4>1. main' = "unlocking" /\ locker'
        BY <1>5, <3>1 DEF Thread!deleteThread
      <4>2. QED
        BY <2>3, <3>1, <4>1 DEF Thread!References
    <3>2. CASE main = "deleting" /\ ~locker
      <4>1. main' = "idle" /\ ~locker'
        BY <1>5, <3>2 DEF Thread!deleteThread
      <4>2. QED
        BY <2>3, <3>2, <4>1 DEF Thread!References
    <3>3. CASE main = "unlocking"
      <4>1. main' = "idle" /\ ~locker' /\ locker
        BY <1>5, <2>3, <3>3 DEF Thread!deleteThread
      <4>2. QED
        BY <2>3, <3>3, <4>1 DEF Thread!References
    <3>4. QED
      BY <2>3, <3>1, <3>2, <3>3
  <2>5. Thread!References \in Nat /\ Thread!References >= 1
    BY <1>5 DEF Thread!deleteThread, HoldersInv, Thread!References
  <2>6. ExactInv'
    BY <1>5, <2>4, <2>5, Lowered DEF Thread!deleteThread, ExactInv
  <2>7. QED
    BY <2>1, <2>2, <2>6
<1>6. CASE Thread!threadFunc
  <2>1. CASE child = "born" /\ Thread!refThread("child") /\ child' = "named"
    BY <1>6, <2>1, Raised DEF Thread!threadFunc, CountingInv, HoldersInv, ExactInv, Thread!References, Thread!Actors
  <2>2. CASE child = "named" /\ Thread!closeThread("child") /\ child' = "testing"
    BY <1>6, <2>2, Lowered DEF Thread!threadFunc, CountingInv, HoldersInv, ExactInv, Thread!References, Thread!Actors, Thread!Raising
  <2>3. QED
    BY <1>6, <2>1, <2>2 DEF Thread!threadFunc
<1>7. CASE Thread!serve
  BY <1>7 DEF Thread!serve, Thread!testCancelThread, CountingInv, HoldersInv, ExactInv, Thread!References, Thread!Raising, Thread!Lowering
<1>8. CASE Thread!lockJobList
  <2>1. CASE child = "locking" /\ Thread!refThread("child") /\ locker' = TRUE /\ child' \in {"asking", "unlocked"}
    BY <1>8, <2>1, Raised DEF Thread!lockJobList, CountingInv, HoldersInv, ExactInv, Thread!References, Thread!Actors
  <2>2. CASE child = "unlocked" /\ Thread!closeThread("child") /\ locker' = FALSE /\ child' = "testing"
    <3>1. CountingInv'
      BY <1>8, <2>2, Lowered DEF Thread!lockJobList, CountingInv, Thread!Actors, Thread!Raising
    <3>2. /\ child = "unlocked" /\ locker /\ child' = "testing" /\ ~locker' /\ locker' \in BOOLEAN
          /\ main' = main /\ t_polled' = t_polled /\ pipe' = pipe /\ m_exited' = m_exited
      BY <1>8, <2>2 DEF Thread!lockJobList, HoldersInv
    <3>3. HoldersInv'
      BY <3>2 DEF HoldersInv
    <3>4. Thread!References' = Thread!References - 1
      BY <3>2 DEF Thread!References
    <3>5. HoldersInv' /\ Thread!References' = Thread!References - 1
      BY <3>3, <3>4
    <3>6. Thread!References \in Nat /\ Thread!References >= 1
      BY <2>2 DEF HoldersInv, Thread!References
    <3>7. ExactInv'
      BY <2>2, <3>5, <3>6, Lowered DEF ExactInv
    <3>8. QED
      BY <3>1, <3>5, <3>7
  <2>3. QED
    BY <1>8, <2>1, <2>2 DEF Thread!lockJobList
<1>9. CASE Thread!getUnblockPipe
  <2>1. CASE child = "asking" /\ Thread!refThread("child")
    BY <1>9, <2>1, Raised DEF Thread!getUnblockPipe, CountingInv, HoldersInv, ExactInv, Thread!References, Thread!Actors
  <2>2. CASE child = "keeping" /\ Thread!refThread("child")
    BY <1>9, <2>2, Raised DEF Thread!getUnblockPipe, CountingInv, HoldersInv, ExactInv, Thread!References, Thread!Actors
  <2>3. CASE child = "giving" /\ Thread!closeThread("child")
    <3>1. CountingInv'
      BY <1>9, <2>3, Lowered DEF Thread!getUnblockPipe, CountingInv, Thread!Actors, Thread!Raising
    <3>2. /\ child = "giving" /\ locker /\ child' = "polling" /\ locker' = locker
          /\ main' = main /\ t_polled' = t_polled /\ pipe' = pipe /\ m_exited' = m_exited
      BY <1>9, <2>3 DEF Thread!getUnblockPipe, HoldersInv
    <3>3. HoldersInv'
      BY <3>2 DEF HoldersInv
    <3>4. Thread!References' = Thread!References - 1
      BY <3>2 DEF Thread!References
    <3>5. HoldersInv' /\ Thread!References' = Thread!References - 1
      BY <3>3, <3>4
    <3>6. Thread!References \in Nat /\ Thread!References >= 1
      BY <2>3 DEF HoldersInv, Thread!References
    <3>7. ExactInv'
      BY <2>3, <3>5, <3>6, Lowered DEF ExactInv
    <3>8. QED
      BY <3>1, <3>5, <3>7
  <2>4. QED
    BY <1>9, <2>1, <2>2, <2>3 DEF Thread!getUnblockPipe
<1>10. CASE Thread!pollSocket \/ Thread!socketReady
  BY <1>10 DEF Thread!pollSocket, Thread!socketReady, Thread!testCancelThread, CountingInv, HoldersInv, ExactInv,
               Thread!References, Thread!Raising, Thread!Lowering
<1>11. CASE Thread!doThreadFunc
  <2>1. CASE child = "cancelled"
    BY <1>11, <2>1 DEF Thread!doThreadFunc, CountingInv, HoldersInv, ExactInv, Thread!References, Thread!Raising, Thread!Lowering
  <2>2. CASE child = "exited"
    BY <1>11, <2>2, Lowered DEF Thread!doThreadFunc, CountingInv, HoldersInv, ExactInv, Thread!References, Thread!Actors, Thread!Raising
  <2>3. QED
    BY <1>11, <2>1, <2>2 DEF Thread!doThreadFunc
<1>12. CASE UNCHANGED Thread!vars
  BY <1>12 DEF Thread!vars, CountingInv, HoldersInv, ExactInv, Thread!References
<1>13. QED
  BY <1>1, <1>2, <1>3, <1>4, <1>5, <1>6, <1>7, <1>8, <1>9, <1>10, <1>11, <1>12
     DEF Thread!Next, Thread!Stopping, Thread!Child

\* The last of those that refer to a thread frees it, however often threads are started, but
\* for changes of the count that overlap (closeThread).
THEOREM LastFrees == Thread!Spec => []Thread!FreedByLast
<1>1. ThreadInv => Thread!FreedByLast
  BY DEF ThreadInv, ExactInv, Thread!FreedByLast
<1>2. QED
  BY ThreadInit, ThreadNext, <1>1, PTL DEF Thread!Spec

\* Where the two threads are, and their flags.
ThreadKinds ==
    /\ main \in {"idle", "serving", "killing", "unblocking", "waiting", "watching", "waited",
                 "deleting", "unlocking"}
    /\ child \in {"none", "born", "named", "testing", "locking", "asking", "keeping", "giving",
                  "polling", "unlocked", "cancelled", "exited"}
    /\ m_threadMutex \in {"main", "child", "none"} /\ pipe \in {"none", "empty", "written"}
    /\ starts \in 0 .. MaxStarts
ThreadFlags ==
    /\ m_cancel \in BOOLEAN /\ m_cancelling \in BOOLEAN /\ m_exited \in BOOLEAN
    /\ signalled \in BOOLEAN /\ deaf \in BOOLEAN
ThreadTypes == ThreadKinds /\ ThreadFlags

LEMMA ThreadTyped ==
    ASSUME Thread!ThreadsAssumption
    PROVE  Thread!Spec => []ThreadTypes
<1>1. Thread!Init => ThreadTypes
  <2> SUFFICES ASSUME Thread!Init PROVE ThreadTypes
    OBVIOUS
  <2>1. ThreadKinds
    BY DEF Thread!Init, Thread!ThreadsAssumption, ThreadKinds
  <2>2. ThreadFlags
    BY DEF Thread!Init, ThreadFlags
  <2>3. QED
    BY <2>1, <2>2 DEF ThreadTypes
<1>2. ThreadTypes /\ [Thread!Next]_(Thread!vars) => ThreadTypes'
  <2> SUFFICES ASSUME ThreadKinds, ThreadFlags, [Thread!Next]_(Thread!vars) PROVE ThreadTypes'
    BY DEF ThreadTypes
  <2> USE DEF Thread!cancelVars, Thread!pollVars, Thread!countVars
  <2>1. CASE Thread!count("main")
    <3>1. ThreadKinds'
      BY <2>1 DEF ThreadKinds, Thread!ThreadsAssumption, Thread!count
    <3>2. ThreadFlags'
      BY <2>1 DEF ThreadFlags, Thread!count
    <3>3. QED
      BY <3>1, <3>2 DEF ThreadTypes
  <2>2. CASE Thread!count("child")
    <3>1. ThreadKinds'
      BY <2>2 DEF ThreadKinds, Thread!ThreadsAssumption, Thread!count
    <3>2. ThreadFlags'
      BY <2>2 DEF ThreadFlags, Thread!count
    <3>3. QED
      BY <3>1, <3>2 DEF ThreadTypes
  <2>3. CASE Thread!newThread
    <3>1. ThreadKinds'
      BY <2>3 DEF ThreadKinds, Thread!ThreadsAssumption, Thread!newThread
    <3>2. ThreadFlags'
      BY <2>3 DEF ThreadFlags, Thread!newThread
    <3>3. QED
      BY <3>1, <3>2 DEF ThreadTypes
  <2>4. CASE Thread!cancelThread
    <3>1. ThreadKinds'
      BY <2>4 DEF ThreadKinds, Thread!ThreadsAssumption, Thread!cancelThread
    <3>2. ThreadFlags'
      BY <2>4 DEF ThreadFlags, Thread!cancelThread
    <3>3. QED
      BY <3>1, <3>2 DEF ThreadTypes
  <2>5. CASE Thread!kill
    <3>1. ThreadKinds'
      BY <2>5 DEF ThreadKinds, Thread!ThreadsAssumption, Thread!kill
    <3>2. ThreadFlags'
      BY <2>5 DEF ThreadFlags, Thread!kill
    <3>3. QED
      BY <3>1, <3>2 DEF ThreadTypes
  <2>6. CASE Thread!unblockPollSocket
    <3>1. ThreadKinds'
      BY <2>6 DEF ThreadKinds, Thread!ThreadsAssumption, Thread!unblockPollSocket
    <3>2. ThreadFlags'
      BY <2>6 DEF ThreadFlags, Thread!unblockPollSocket
    <3>3. QED
      BY <3>1, <3>2 DEF ThreadTypes
  <2>7. CASE Thread!wait
    <3>1. ThreadKinds'
      BY <2>7 DEF ThreadKinds, Thread!ThreadsAssumption, Thread!wait, Thread!refThread, Thread!closeThread, Thread!write
    <3>2. ThreadFlags'
      BY <2>7 DEF ThreadFlags, Thread!wait, Thread!refThread, Thread!closeThread, Thread!write
    <3>3. QED
      BY <3>1, <3>2 DEF ThreadTypes
  <2>8. CASE Thread!deleteThread
    <3>1. ThreadKinds'
      BY <2>8 DEF ThreadKinds, Thread!ThreadsAssumption, Thread!deleteThread, Thread!closeThread, Thread!write
    <3>2. ThreadFlags'
      BY <2>8 DEF ThreadFlags, Thread!deleteThread, Thread!closeThread, Thread!write
    <3>3. QED
      BY <3>1, <3>2 DEF ThreadTypes
  <2>9. CASE Thread!threadFunc
    <3>1. ThreadKinds'
      BY <2>9 DEF ThreadKinds, Thread!ThreadsAssumption, Thread!threadFunc, Thread!refThread, Thread!closeThread, Thread!write
    <3>2. ThreadFlags'
      BY <2>9 DEF ThreadFlags, Thread!threadFunc, Thread!refThread, Thread!closeThread, Thread!write
    <3>3. QED
      BY <3>1, <3>2 DEF ThreadTypes
  <2>10. CASE Thread!serve
    <3>1. ThreadKinds'
      BY <2>10 DEF ThreadKinds, Thread!ThreadsAssumption, Thread!serve, Thread!testCancelThread
    <3>2. ThreadFlags'
      BY <2>10 DEF ThreadFlags, Thread!serve, Thread!testCancelThread
    <3>3. QED
      BY <3>1, <3>2 DEF ThreadTypes
  <2>11. CASE Thread!lockJobList
    <3>1. ThreadKinds'
      BY <2>11 DEF ThreadKinds, Thread!ThreadsAssumption, Thread!lockJobList, Thread!refThread, Thread!closeThread, Thread!write
    <3>2. ThreadFlags'
      BY <2>11 DEF ThreadFlags, Thread!lockJobList, Thread!refThread, Thread!closeThread, Thread!write
    <3>3. QED
      BY <3>1, <3>2 DEF ThreadTypes
  <2>12. CASE Thread!getUnblockPipe
    <3>1. ThreadKinds'
      BY <2>12 DEF ThreadKinds, Thread!ThreadsAssumption, Thread!getUnblockPipe, Thread!refThread, Thread!closeThread, Thread!write
    <3>2. ThreadFlags'
      BY <2>12 DEF ThreadFlags, Thread!getUnblockPipe, Thread!refThread, Thread!closeThread, Thread!write
    <3>3. QED
      BY <3>1, <3>2 DEF ThreadTypes
  <2>13. CASE Thread!pollSocket
    <3>1. ThreadKinds'
      BY <2>13 DEF ThreadKinds, Thread!ThreadsAssumption, Thread!pollSocket, Thread!testCancelThread
    <3>2. ThreadFlags'
      BY <2>13 DEF ThreadFlags, Thread!pollSocket, Thread!testCancelThread
    <3>3. QED
      BY <3>1, <3>2 DEF ThreadTypes
  <2>14. CASE Thread!socketReady
    <3>1. ThreadKinds'
      BY <2>14 DEF ThreadKinds, Thread!ThreadsAssumption, Thread!socketReady
    <3>2. ThreadFlags'
      BY <2>14 DEF ThreadFlags, Thread!socketReady
    <3>3. QED
      BY <3>1, <3>2 DEF ThreadTypes
  <2>15. CASE Thread!doThreadFunc
    <3>1. ThreadKinds'
      BY <2>15 DEF ThreadKinds, Thread!ThreadsAssumption, Thread!doThreadFunc, Thread!closeThread, Thread!write
    <3>2. ThreadFlags'
      BY <2>15 DEF ThreadFlags, Thread!doThreadFunc, Thread!closeThread, Thread!write
    <3>3. QED
      BY <3>1, <3>2 DEF ThreadTypes
  <2>16. CASE UNCHANGED Thread!vars
    BY <2>16 DEF Thread!vars, ThreadTypes, ThreadKinds, ThreadFlags
  <2>17. QED
    BY <2>1, <2>2, <2>3, <2>4, <2>5, <2>6, <2>7, <2>8, <2>9, <2>10, <2>11, <2>12, <2>13, <2>14, <2>15, <2>16
    DEF Thread!Next, Thread!Stopping, Thread!Child
<1>3. QED
  BY <1>1, <1>2, PTL DEF Thread!Spec

LEMMA ThreadKept == ThreadTypes /\ ThreadInv => Thread!TypeOK /\ Thread!FreedByLast
<1> SUFFICES ASSUME ThreadKinds, ThreadFlags, CountingInv, HoldersInv, ExactInv
             PROVE  Thread!TypeOK /\ Thread!FreedByLast
  BY DEF ThreadTypes, ThreadInv
<1>1. Thread!TypeOK
  BY DEF Thread!TypeOK, ThreadKinds, ThreadFlags, CountingInv, HoldersInv, Thread!Actors
<1>2. QED
  BY <1>1 DEF ExactInv, Thread!FreedByLast

------------------------------------------------------------------------------
\* One core or worker runs at a time, in the session that is active, as it was asked for last,
\* for any sessions, waits and numbers of faults: what is asked meanwhile is kept, what ends is
\* not left behind, and what answers is not killed (WindowsService, MSWindowsWatchdog, DaemonApp,
\* ArchDaemonWindows).  And the last of those that refer to a thread frees it, however often
\* threads are started, but for changes of the count that overlap (ArchMultithreadPosix).
THEOREM HostAlways ==
    ASSUME Worker!WorkerAssumption, Dog!WatchdogAssumption, Thread!ThreadsAssumption
    PROVE  Worker!Spec /\ Dog!Spec /\ Thread!Spec => []HostKept
<1>1. WorkerBoth /\ DogBoth /\ ThreadTypes /\ ThreadInv => HostKept
  BY WorkerKept, DogKept, ThreadKept DEF HostKept
<1>2. Thread!Spec => []ThreadInv
  BY ThreadInit, ThreadNext, PTL DEF Thread!Spec
<1>3. QED
  BY <1>1, <1>2, WorkerGoes, DogGoes, ThreadTyped, PTL
=============================================================================
