---------------------------- MODULE TCPSocketProofs ----------------------------
(***************************************************************************)
(* Proofs about a data socket, for any numbers of writes and arrivals.      *)
(***************************************************************************)
EXTENDS TCPSocket, TLAPS

\* A job made for any flags is a job.
LEMMA JobType ==
    ASSUME NEW conn \in BOOLEAN, NEW r \in BOOLEAN, NEW w \in BOOLEAN, NEW out \in Nat,
           NEW isOpen \in BOOLEAN
    PROVE  /\ newJob(conn, r, w, out) \in Job \cup {NoJob}
           /\ plainJob(isOpen, conn, r, w, out) \in Job \cup {NoJob}
           /\ Method("handshake", r, w) \in Job
<1>1. \A k \in {"connecting", "connected", "handshake"} : Method(k, r, w) \in Job
  BY DEF Method, Job
<1>2. \A i \in BOOLEAN : plainJob(i, conn, r, w, out) \in Job \cup {NoJob}
  BY DEF plainJob, Method, Job
<1>3. QED
  <2>1. CASE open \in BOOLEAN
    BY <1>1, <1>2, <2>1 DEF newJob
  <2>2. plainJob(open, conn, r, w, out) \in Job \cup {NoJob}
    BY DEF plainJob, Method, Job
  <2>3. QED
    BY <1>1, <1>2, <2>2 DEF newJob

\* The conjuncts of TypeOK, by what they are about.
FlagTypes ==
    /\ tls \in BOOLEAN /\ dialled \in BOOLEAN
    /\ open \in BOOLEAN /\ connected \in BOOLEAN /\ readable \in BOOLEAN
    /\ writable \in BOOLEAN /\ flushed \in BOOLEAN

DataTypes == input \in Nat /\ output \in Nat /\ wire \in Nat /\ toWrite \in Nat /\ toSend \in Nat

TlsTypes ==
    /\ secureReady \in BOOLEAN /\ fatal \in BOOLEAN /\ sslLocked \in BOOLEAN
    /\ ssl \in {"new", "made", "freed"}
    /\ events \subseteq EventKinds

JobTypes ==
    /\ job \in Job \cup {NoJob} /\ returned \in Job \cup {NoJob} /\ pending \in Job \cup {NoJob}
    /\ service \in {"idle", "picked", "reading", "done"}
    /\ polled \in Poll /\ result \in {"Retry", "New", "Break"}

OwnerTypes ==
    /\ owner \in OwnerLabels /\ told \in BOOLEAN /\ heard \in BOOLEAN
    /\ peer \in {"away", "refused", "there", "finished", "broken"} /\ window \in BOOLEAN

LEMMA TypeParts ==
    /\ TypeOK <=> FlagTypes /\ DataTypes /\ TlsTypes /\ JobTypes /\ OwnerTypes
    /\ TypeOK' <=> FlagTypes' /\ DataTypes' /\ TlsTypes' /\ JobTypes' /\ OwnerTypes'
  BY DEF TypeOK, FlagTypes, DataTypes, TlsTypes, JobTypes, OwnerTypes

LEMMA TypeInit == Init => TypeOK
<1> SUFFICES ASSUME Init PROVE TypeOK
  OBVIOUS
<1>1. pending \in Job \cup {NoJob}
  BY DEF Init, plainJob, Method, Job
<1>2. polled \in Poll
  BY DEF Init, Poll
<1>3. QED
  BY <1>1, <1>2, TCPSocketAssumption DEF Init, TypeOK, OwnerLabels, Closing, EventKinds

LEMMA OwnerTypeNext == TypeOK /\ OwnerStep => TypeOK'
<1> SUFFICES ASSUME FlagTypes, DataTypes, TlsTypes, JobTypes, OwnerTypes, OwnerStep PROVE TypeOK'
  BY TypeParts
<1> USE DEF roleVars, flagVars, tlsVars, serviceVars, ownerVars, netVars, OwnerLabels, Closing
<1>1. CASE giveJob
  <2>1. FlagTypes'
    BY <1>1 DEF giveJob, FlagTypes
  <2>2. TlsTypes'
    BY <1>1 DEF giveJob, TlsTypes
  <2>3. JobTypes'
    BY <1>1 DEF giveJob, setJob, JobTypes
  <2>4. OwnerTypes'
    BY <1>1 DEF giveJob, OwnerTypes
  <2>5. DataTypes'
    BY <1>1 DEF giveJob, DataTypes
  <2>6. QED
    BY <2>1, <2>2, <2>3, <2>4, <2>5, TypeParts
<1>2. CASE askJob
  <2>1. FlagTypes'
    BY <1>2 DEF askJob, FlagTypes
  <2>2. TlsTypes'
    BY <1>2 DEF askJob, TlsTypes
  <2>3. JobTypes'
    BY <1>2, JobType DEF askJob, FlagTypes, DataTypes, JobTypes
  <2>4. OwnerTypes'
    BY <1>2 DEF askJob, OwnerTypes
  <2>5. DataTypes'
    BY <1>2 DEF askJob, DataTypes
  <2>6. QED
    BY <2>1, <2>2, <2>3, <2>4, <2>5, TypeParts
<1>3. CASE build
  <2>1. FlagTypes'
    BY <1>3 DEF build, FlagTypes
  <2>2. TlsTypes'
    BY <1>3 DEF build, TlsTypes
  <2>3. JobTypes'
    BY <1>3 DEF build, JobTypes
  <2>4. OwnerTypes'
    BY <1>3 DEF build, OwnerTypes
  <2>5. DataTypes'
    BY <1>3 DEF build, DataTypes
  <2>6. QED
    BY <2>1, <2>2, <2>3, <2>4, <2>5, TypeParts
<1>4. CASE secureAccept
  <2>1. FlagTypes'
    BY <1>4 DEF secureAccept, FlagTypes
  <2>2. TlsTypes'
    BY <1>4 DEF secureAccept, beginClose, FlagTypes, TlsTypes
  <2>3. JobTypes'
    BY <1>4, JobType DEF secureAccept, FlagTypes, JobTypes
  <2>4. OwnerTypes'
    BY <1>4 DEF secureAccept, beginClose, OwnerTypes
  <2>5. DataTypes'
    BY <1>4 DEF secureAccept, DataTypes
  <2>6. QED
    BY <2>1, <2>2, <2>3, <2>4, <2>5, TypeParts
<1>5. CASE connect
  <2>1. FlagTypes'
    BY <1>5 DEF connect, onConnected, FlagTypes
  <2>2. TlsTypes'
    BY <1>5 DEF connect, sendEvents, beginClose, EventKinds, LossEvents, FlagTypes, TlsTypes
  <2>3. JobTypes'
    BY <1>5 DEF connect, JobTypes
  <2>4. OwnerTypes'
    BY <1>5 DEF connect, beginClose, OwnerTypes
  <2>5. DataTypes'
    BY <1>5 DEF connect, DataTypes
  <2>6. QED
    BY <2>1, <2>2, <2>3, <2>4, <2>5, TypeParts
<1>6. CASE handleEvent
  <2>1. FlagTypes'
    BY <1>6 DEF handleEvent, FlagTypes
  <2>2. TlsTypes'
    BY <1>6 DEF handleEvent, TlsTypes
  <2>3. JobTypes'
    BY <1>6, JobType DEF handleEvent, FlagTypes, JobTypes
  <2>4. OwnerTypes'
    BY <1>6 DEF handleEvent, OwnerTypes
  <2>5. DataTypes'
    BY <1>6 DEF handleEvent, DataTypes
  <2>6. QED
    BY <2>1, <2>2, <2>3, <2>4, <2>5, TypeParts
<1>7. CASE read
  <2>1. FlagTypes'
    BY <1>7 DEF read, FlagTypes
  <2>2. TlsTypes'
    BY <1>7 DEF read, sendEvents, EventKinds, LossEvents, TlsTypes
  <2>3. JobTypes'
    BY <1>7 DEF read, JobTypes
  <2>4. OwnerTypes'
    BY <1>7 DEF read, OwnerTypes
  <2>5. DataTypes'
    BY <1>7 DEF read, DataTypes
  <2>6. QED
    BY <2>1, <2>2, <2>3, <2>4, <2>5, TypeParts
<1>8. CASE write
  <2>1. FlagTypes'
    BY <1>8 DEF write, FlagTypes
  <2>2. TlsTypes'
    BY <1>8 DEF write, sendEvents, EventKinds, LossEvents, TlsTypes
  <2>3. JobTypes'
    BY <1>8 DEF write, JobTypes
  <2>4. OwnerTypes'
    BY <1>8 DEF write, OwnerTypes
  <2>5. DataTypes'
    BY <1>8 DEF write, DataTypes
  <2>6. QED
    BY <2>1, <2>2, <2>3, <2>4, <2>5, TypeParts
<1>9. CASE flush
  <2>1. FlagTypes'
    BY <1>9 DEF flush, FlagTypes
  <2>2. TlsTypes'
    BY <1>9 DEF flush, TlsTypes
  <2>3. JobTypes'
    BY <1>9 DEF flush, JobTypes
  <2>4. OwnerTypes'
    BY <1>9 DEF flush, OwnerTypes
  <2>5. DataTypes'
    BY <1>9 DEF flush, DataTypes
  <2>6. QED
    BY <2>1, <2>2, <2>3, <2>4, <2>5, TypeParts
<1>10. CASE flushReturns
  <2>1. FlagTypes'
    BY <1>10 DEF flushReturns, FlagTypes
  <2>2. TlsTypes'
    BY <1>10 DEF flushReturns, TlsTypes
  <2>3. JobTypes'
    BY <1>10 DEF flushReturns, JobTypes
  <2>4. OwnerTypes'
    BY <1>10 DEF flushReturns, OwnerTypes
  <2>5. DataTypes'
    BY <1>10 DEF flushReturns, DataTypes
  <2>6. QED
    BY <2>1, <2>2, <2>3, <2>4, <2>5, TypeParts
<1>11. CASE close
  <2>1. FlagTypes'
    BY <1>11 DEF close, FlagTypes
  <2>2. TlsTypes'
    BY <1>11 DEF close, beginClose, FlagTypes, TlsTypes
  <2>3. JobTypes'
    BY <1>11 DEF close, JobTypes
  <2>4. OwnerTypes'
    BY <1>11 DEF close, beginClose, OwnerTypes
  <2>5. DataTypes'
    BY <1>11 DEF close, DataTypes
  <2>6. QED
    BY <2>1, <2>2, <2>3, <2>4, <2>5, TypeParts
<1>12. CASE freeSSL
  <2>1. FlagTypes'
    BY <1>12 DEF freeSSL, FlagTypes
  <2>2. TlsTypes'
    BY <1>12 DEF freeSSL, TlsTypes
  <2>3. JobTypes'
    BY <1>12 DEF freeSSL, setJob, JobTypes
  <2>4. OwnerTypes'
    BY <1>12 DEF freeSSL, OwnerTypes
  <2>5. DataTypes'
    BY <1>12 DEF freeSSL, DataTypes
  <2>6. QED
    BY <2>1, <2>2, <2>3, <2>4, <2>5, TypeParts
<1>13. CASE removeJob
  <2>1. FlagTypes'
    BY <1>13 DEF removeJob, FlagTypes
  <2>2. TlsTypes'
    BY <1>13 DEF removeJob, TlsTypes
  <2>3. JobTypes'
    BY <1>13 DEF removeJob, setJob, JobTypes
  <2>4. OwnerTypes'
    BY <1>13 DEF removeJob, OwnerTypes
  <2>5. DataTypes'
    BY <1>13 DEF removeJob, DataTypes
  <2>6. QED
    BY <2>1, <2>2, <2>3, <2>4, <2>5, TypeParts
<1>14. CASE closeSocket
  <2>1. FlagTypes'
    BY <1>14 DEF closeSocket, onDisconnected, FlagTypes
  <2>2. TlsTypes'
    BY <1>14 DEF closeSocket, sendEvents, EventKinds, LossEvents, TlsTypes
  <2>3. JobTypes'
    BY <1>14 DEF closeSocket, JobTypes
  <2>4. OwnerTypes'
    BY <1>14 DEF closeSocket, OwnerTypes
  <2>5. DataTypes'
    BY <1>14 DEF closeSocket, onDisconnected, DataTypes
  <2>6. QED
    BY <2>1, <2>2, <2>3, <2>4, <2>5, TypeParts
<1>15. QED
  BY <1>1, <1>2, <1>3, <1>4, <1>5, <1>6, <1>7,
     <1>8, <1>9, <1>10, <1>11, <1>12, <1>13, <1>14 DEF OwnerStep, OwnerGoesOn

\* So has the job newJob() makes after a step that keeps the types of the flags.
LEMMA NewJobType ==
    ASSUME FlagTypes', DataTypes'
    PROVE  newJob(connected', readable', writable', output') \in Job \cup {NoJob}
<1>1. /\ connected' \in BOOLEAN /\ readable' \in BOOLEAN /\ writable' \in BOOLEAN
      /\ output' \in Nat
  BY DEF FlagTypes, DataTypes
<1>2. QED
  BY <1>1, JobType

LEMMA ServiceTypeNext == TypeOK /\ ServiceStep => TypeOK'
<1> SUFFICES ASSUME FlagTypes, DataTypes, TlsTypes, JobTypes, OwnerTypes, ServiceStep PROVE TypeOK'
  BY TypeParts
<1> USE DEF roleVars, flagVars, tlsVars, serviceVars, ownerVars, netVars, OwnerLabels, Closing
<1>1. CASE pick
  <2>1. FlagTypes'
    BY <1>1 DEF pick, FlagTypes
  <2>2. TlsTypes'
    BY <1>1 DEF pick, TlsTypes
  <2>3. JobTypes'
    <3>1. polled' \in Poll
      BY <1>1, ZenonT(30) DEF pick, Poll
    <3>2. QED
      BY <1>1, <3>1 DEF pick, JobTypes
  <2>4. OwnerTypes'
    BY <1>1 DEF pick, OwnerTypes
  <2>5. DataTypes'
    BY <1>1 DEF pick, DataTypes
  <2>6. QED
    BY <2>1, <2>2, <2>3, <2>4, <2>5, TypeParts
<1>2. CASE serviceConnecting
  <2>1. FlagTypes'
    BY <1>2 DEF serviceConnecting, onDisconnected, onConnected, FlagTypes
  <2>2. TlsTypes'
    BY <1>2 DEF serviceConnecting, sendEvents, EventKinds, LossEvents, TlsTypes
  <2>3. DataTypes'
    BY <1>2 DEF serviceConnecting, onDisconnected, onConnected, DataTypes
  <2>4. JobTypes'
    <3>1. returned' = newJob(connected', readable', writable', output') \/ returned' = job
      BY <1>2 DEF serviceConnecting, returnNew
    <3>2. returned' \in Job \cup {NoJob}
      BY <2>1, <2>3, <3>1, NewJobType DEF JobTypes
    <3>3. QED
      BY <1>2, <3>2 DEF serviceConnecting, JobTypes
  <2>5. OwnerTypes'
    BY <1>2 DEF serviceConnecting, OwnerTypes
  <2>6. QED
    BY <2>1, <2>2, <2>4, <2>5, <2>3, TypeParts
<1>3. CASE serviceHandshake
  <2>1. handshakeRetries \/ handshakeDone \/ handshakeFails
    BY <1>3 DEF serviceHandshake
  <2>2. FlagTypes'
    BY <1>3, <2>1 DEF serviceHandshake, handshakeRetries, handshakeDone, handshakeFails, FlagTypes
  <2>3. TlsTypes'
    BY <1>3, <2>1 DEF serviceHandshake, handshakeRetries, handshakeDone, handshakeFails, sendEvents,
                      EventKinds, LossEvents, FlagTypes, TlsTypes
  <2>4. JobTypes'
    <3>1. returned' \in Job \cup {NoJob}
      <4>1. CASE handshakeRetries
        BY <2>2, <4>1, JobType DEF handshakeRetries, FlagTypes, DataTypes
      <4>2. CASE handshakeDone
        BY <4>2, JobType DEF handshakeDone, FlagTypes, DataTypes
      <4>3. CASE handshakeFails
        BY <4>3 DEF handshakeFails
      <4>4. QED
        BY <2>1, <4>1, <4>2, <4>3
    <3>2. QED
      BY <1>3, <3>1 DEF serviceHandshake, JobTypes
  <2>5. OwnerTypes'
    BY <1>3 DEF serviceHandshake, OwnerTypes
  <2>6. DataTypes'
    BY <1>3 DEF serviceHandshake, DataTypes
  <2>7. QED
    BY <2>2, <2>3, <2>4, <2>5, <2>6, TypeParts
<1>4. CASE serviceConnected
  <2>1. \/ polled.error /\ onDisconnected /\ returnNew /\ sendEvents({"Disconnected"})
           /\ UNCHANGED <<result, fatal, window>>
        \/ /\ (result' = "Retry" /\ Untouched) \/ writes \/ tlsFails \/ outputShutDown \/ hungUp
           /\ UNCHANGED returned
    BY <1>4 DEF serviceConnected, doWrite
  <2>2. FlagTypes'
    <3>1. UNCHANGED <<tls, dialled, open>>
      BY <1>4 DEF serviceConnected
    <3>2. writes => flushed' \in BOOLEAN
      BY DEF writes
    <3>3. QED
      BY <2>1, <3>1, <3>2 DEF Untouched, writes, tlsFails, outputShutDown, hungUp, onDisconnected, FlagTypes
  <2>3. DataTypes'
    <3>1. UNCHANGED <<wire, toWrite, toSend>>
      BY <1>4 DEF serviceConnected
    <3>2. writes => output' \in Nat /\ input' = input
      BY DEF writes, DataTypes
    <3>3. QED
      BY <2>1, <3>1, <3>2 DEF Untouched, tlsFails, outputShutDown, hungUp, onDisconnected, DataTypes
  <2>4. TlsTypes'
    BY <1>4, <2>1 DEF serviceConnected, Untouched, writes, tlsFails, outputShutDown, hungUp, sendEvents,
                      EventKinds, LossEvents, TlsTypes
  <2>5. JobTypes'
    <3>1. returned' \in Job \cup {NoJob}
      BY <2>1, <2>2, <2>3, NewJobType DEF returnNew, JobTypes
    <3>2. result' \in {"Retry", "New", "Break"}
      BY <2>1 DEF Untouched, writes, tlsFails, outputShutDown, hungUp, JobTypes
    <3>3. QED
      BY <1>4, <3>1, <3>2 DEF serviceConnected, JobTypes
  <2>6. OwnerTypes'
    BY <1>4, <2>1 DEF serviceConnected, Untouched, writes, tlsFails, outputShutDown, hungUp, OwnerTypes
  <2>7. QED
    BY <2>2, <2>4, <2>5, <2>6, <2>3, TypeParts
<1>5. CASE serviceReads
  <2>1. \/ UNCHANGED <<events, connected, readable, writable, input, output, flushed, wire, fatal>>
        \/ doReadPlain \/ doReadSecure
    BY <1>5 DEF serviceReads
  <2>2. FlagTypes'
    BY <1>5, <2>1 DEF serviceReads, doReadPlain, doReadSecure, inputEnds, onDisconnected, FlagTypes
  <2>3. DataTypes'
    <3>1. UNCHANGED <<toWrite, toSend>>
      BY <1>5 DEF serviceReads
    <3>2. slurp => input' \in Nat /\ wire' \in Nat
      BY DEF slurp, DataTypes
    <3>3. input + wire \in Nat
      BY DEF DataTypes
    <3>4. QED
      BY <2>1, <3>1, <3>2, <3>3 DEF doReadPlain, doReadSecure, inputEnds, onDisconnected, DataTypes
  <2>4. TlsTypes'
    BY <1>5, <2>1 DEF serviceReads, doReadPlain, doReadSecure, slurp, inputEnds, sendEvents,
                      EventKinds, LossEvents, TlsTypes
  <2>5. JobTypes'
    <3>1. \E x \in {"Retry", "New", "Break"} : returns(x)
      BY <1>5 DEF serviceReads, doReadPlain, doReadSecure
    <3>2. returned' \in {NoJob, job, newJob(connected', readable', writable', output')}
      BY <3>1 DEF returns, returnNew
    <3>3. returned' \in Job \cup {NoJob}
      BY <2>2, <2>3, <3>2, NewJobType DEF JobTypes
    <3>4. QED
      BY <1>5, <3>3 DEF serviceReads, JobTypes
  <2>6. OwnerTypes'
    BY <1>5 DEF serviceReads, OwnerTypes
  <2>7. QED
    BY <2>2, <2>4, <2>5, <2>6, <2>3, TypeParts
<1>6. CASE finish
  <2>1. FlagTypes'
    BY <1>6 DEF finish, FlagTypes
  <2>2. TlsTypes'
    BY <1>6 DEF finish, TlsTypes
  <2>3. JobTypes'
    BY <1>6 DEF finish, JobTypes
  <2>4. OwnerTypes'
    BY <1>6 DEF finish, OwnerTypes
  <2>5. DataTypes'
    BY <1>6 DEF finish, DataTypes
  <2>6. QED
    BY <2>1, <2>2, <2>3, <2>4, <2>5, TypeParts
<1>7. QED
  BY <1>1, <1>2, <1>3, <1>4, <1>5, <1>6 DEF ServiceStep

LEMMA TypeNext == TypeOK /\ [Next]_vars => TypeOK'
<1> SUFFICES ASSUME TypeOK, [Next]_vars PROVE TypeOK'
  OBVIOUS
<1> USE DEF roleVars, flagVars, tlsVars, serviceVars, ownerVars, netVars
<1>1. CASE OwnerStep
  BY <1>1, OwnerTypeNext
<1>2. CASE ServiceStep
  BY <1>2, ServiceTypeNext
<1>3. CASE peerAnswers
  BY <1>3 DEF peerAnswers, TypeOK
<1>4. CASE peerReads
  BY <1>4 DEF peerReads, TypeOK
<1>5. CASE peerSends
  BY <1>5 DEF peerSends, TypeOK
<1>6. CASE peerLeaves
  BY <1>6 DEF peerLeaves, TypeOK
<1>7. CASE UNCHANGED vars
  BY <1>7 DEF vars, TypeOK
<1>8. QED
  BY <1>1, <1>2, <1>3, <1>5, <1>6, <1>7, <1>4 DEF Next

\* Every variable of a socket keeps its type (TCPSocket, SecureSocket).
THEOREM TypeCorrect == Spec => []TypeOK
<1>1. QED
  BY TypeInit, TypeNext, PTL DEF Spec

------------------------------------------------------------------------------
(* Closing.  Once the owner has taken the job away nothing puts one back: the   *)
(* owner is past asking for one, and the service thread, which was idle when    *)
(* the job went, finds none to pick.                                            *)

\* The owner took the job away.
JobRemoved == owner \in {"close", "closed"} \/ (tls /\ owner = "remove")

CloseInv ==
    /\ JobRemoved => job = NoJob /\ service = "idle"
    /\ ssl = "freed" => JobRemoved
    /\ owner = "removeSsl" => tls

LEMMA CloseInit == Init => CloseInv
  BY DEF Init, CloseInv, JobRemoved

LEMMA CloseNext == TypeOK /\ CloseInv /\ [Next]_vars => CloseInv'
<1> SUFFICES ASSUME TypeOK, CloseInv, [Next]_vars PROVE CloseInv'
  OBVIOUS
<1> USE DEF roleVars, flagVars, tlsVars, serviceVars, ownerVars, netVars
<1>1. CASE OwnerStep
  <2>1. CASE removeJob
    BY <2>1 DEF removeJob, setJob, CloseInv, JobRemoved
  <2>2. CASE freeSSL
    BY <2>2 DEF freeSSL, setJob, CloseInv, JobRemoved
  <2>3. CASE closeSocket
    BY <2>3 DEF closeSocket, CloseInv, JobRemoved
  <2>4. CASE giveJob \/ askJob \/ build \/ secureAccept
    BY <1>1, <2>4 DEF giveJob, askJob, build, secureAccept, beginClose, CloseInv, JobRemoved
  <2>5. CASE read \/ flushReturns \/ write \/ flush \/ close
    BY <1>1, <2>5 DEF read, flushReturns, write, flush, close, beginClose, CloseInv, JobRemoved
  <2>6. CASE connect
    BY <1>1, <2>6 DEF connect, beginClose, CloseInv, JobRemoved
  <2>7. CASE handleEvent
    BY <1>1, <2>7 DEF handleEvent, CloseInv, JobRemoved
  <2>8. QED
    BY <1>1, <2>1, <2>4, <2>5, <2>6, <2>7, <2>3, <2>2 DEF OwnerStep, OwnerGoesOn
<1>2. CASE ServiceStep
  <2>1. ~JobRemoved /\ ssl # "freed"
    BY <1>2 DEF ServiceStep, pick, serviceConnecting, serviceHandshake, serviceConnected,
               serviceReads, finish, CloseInv
  <2>2. owner' = owner /\ tls' = tls /\ ssl' # "freed"
    BY <1>2, <2>1 DEF ServiceStep, pick, serviceConnecting, serviceHandshake, serviceConnected,
               serviceReads, finish, handshakeRetries, handshakeDone, handshakeFails
  <2>3. QED
    BY <2>1, <2>2 DEF CloseInv, JobRemoved
<1>3. CASE peerAnswers \/ peerSends \/ peerReads \/ peerLeaves
  BY <1>3 DEF peerAnswers, peerSends, peerReads, peerLeaves, CloseInv, JobRemoved
<1>4. CASE UNCHANGED vars
  BY <1>4 DEF vars, CloseInv, JobRemoved
<1>5. QED
  BY <1>1, <1>2, <1>3, <1>4 DEF Next

\* The service thread is never at work on a socket whose TLS state was freed, and a socket that
\* was closed has no job in the multiplexer and none that runs, so that its owner can delete it
\* (SecureSocket::freeSSL, TCPSocket::close).
THEOREM ClosedSockets == Spec => []ClosedSafely
<1>1. CloseInv => ClosedSafely
  BY DEF CloseInv, JobRemoved, ClosedSafely, ClosedLeftAlone, SslUsedAlive
<1>2. QED
  BY <1>1, TypeInit, TypeNext, CloseInit, CloseNext, PTL DEF Spec

------------------------------------------------------------------------------
(* Input.  It is announced when the buffer was empty; the handler reads until   *)
(* it is again.                                                                *)

LEMMA InputNext == TypeOK /\ CloseInv /\ InputAnnounced /\ [Next]_vars => InputAnnounced'
<1> SUFFICES ASSUME TypeOK, InputAnnounced, [Next]_vars PROVE InputAnnounced'
  OBVIOUS
<1> USE DEF roleVars, flagVars, tlsVars, serviceVars, ownerVars, netVars, Closing
<1>1. CASE OwnerStep
  <2>1. CASE read
    BY <2>1 DEF read, sendEvents, InputAnnounced, TypeOK
  <2>2. CASE handleEvent
    BY <2>2 DEF handleEvent, InputAnnounced, TypeOK
  <2>3. CASE closeSocket \/ freeSSL \/ removeJob \/ close \/ write
    BY <2>3 DEF closeSocket, freeSSL, removeJob, close, write, sendEvents, onDisconnected, beginClose,
               InputAnnounced, TypeOK
  <2>4. CASE giveJob \/ askJob \/ build \/ secureAccept \/ flush \/ flushReturns
    BY <2>4 DEF giveJob, askJob, build, secureAccept, flush, flushReturns, beginClose, InputAnnounced, TypeOK
  <2>5. CASE connect
    BY <2>5 DEF connect, sendEvents, beginClose, InputAnnounced, TypeOK
  <2>6. QED
    BY <1>1, <2>1, <2>2, <2>3, <2>4, <2>5 DEF OwnerStep, OwnerGoesOn
<1>2. CASE ServiceStep
  <2>1. owner' = owner /\ tls' = tls /\ events \subseteq events'
    BY <1>2 DEF ServiceStep, pick, serviceConnecting, serviceHandshake, serviceConnected,
               serviceReads, finish, handshakeRetries, handshakeDone, handshakeFails, sendEvents,
               doWrite, Untouched, writes, outputShutDown, hungUp, tlsFails, doReadPlain,
               doReadSecure, slurp, inputEnds
  <2>2. ~tls => input' \in {0, input} \/ "InputReady" \in events' \/ input > 0
    <3>1. CASE serviceReads
      BY <3>1 DEF serviceReads, doReadPlain, slurp, inputEnds, onDisconnected, sendEvents, Secure, TypeOK
    <3>2. CASE serviceConnected
      BY <3>2 DEF serviceConnected, doWrite, Untouched, writes, outputShutDown, hungUp, tlsFails,
                 onDisconnected
    <3>3. CASE pick \/ serviceConnecting \/ serviceHandshake \/ finish
      BY <3>3 DEF pick, serviceConnecting, serviceHandshake, finish, onDisconnected
    <3>4. QED
      BY <1>2, <3>1, <3>2, <3>3 DEF ServiceStep
  <2>3. QED
    BY <2>1, <2>2 DEF InputAnnounced, TypeOK
<1>3. CASE peerAnswers \/ peerSends \/ peerReads \/ peerLeaves
  BY <1>3 DEF peerAnswers, peerSends, peerReads, peerLeaves, InputAnnounced
<1>4. CASE UNCHANGED vars
  BY <1>4 DEF vars, InputAnnounced
<1>5. QED
  BY <1>1, <1>2, <1>3, <1>4 DEF Next

\* Input of a plain socket never lies in its buffer unannounced (TCPSocket::doRead, read).
THEOREM InputIsAnnounced == Spec => []InputAnnounced
<1>1. Init => InputAnnounced
  BY DEF Init, InputAnnounced
<1>2. QED
  BY <1>1, TypeInit, TypeNext, CloseInit, CloseNext, InputNext, PTL DEF Spec

------------------------------------------------------------------------------
(* The jobs.  A connection is dialled or accepted, made secure if it has TLS,   *)
(* and made then for good.  In each of these the job is of another kind, and    *)
(* only one of owner and service thread can change it.  Once it is made the     *)
(* flags only fall, so that a job asked for earlier polls for no less.          *)

\* The job the multiplexer has once the service thread lets it go.
Latest == IF service = "done" THEN returned ELSE job
Is(j, kind) == j # NoJob /\ j.service = kind
Calm(j) == j = NoJob \/ Is(j, "connected")
WritesTo(j) == j # NoJob /\ j.write
Starting == {"setBuilt", "building", "built"}
Free == {"idle", "drain", "flush"} \cup Closing

\* The connection is made, as far as the owner or the queue knows.
Made == told \/ "Secured" \in events \/ (~tls /\ "Connected" \in events)

BasicInv ==
    /\ owner # "closed" => open
    /\ output > 0 => told
    /\ told /\ tls => secureReady
    /\ "Secured" \in events => tls /\ secureReady
    /\ service = "reading" /\ result = "Break" => fatal
    /\ polled.write /\ service \in {"picked", "reading"} => WritesTo(job)
    /\ service \in {"picked", "reading"} => job # NoJob
    /\ service = "reading" => job.service = "connected"
    /\ service = "reading" /\ result # "Retry" => told
    /\ service = "picked" /\ polled.write => peer # "away"
    /\ service = "picked" /\ polled.error => peer \in {"refused", "broken"}
    /\ ~dialled /\ ~connected => ~readable /\ ~writable
    /\ told => "Connected" \notin events
    /\ Is(Latest, "connected") /\ ~connected => ~readable /\ ~writable
    /\ Is(Latest, "connected") /\ tls => secureReady \/ ssl # "made"

\* Before the first job of a client's socket, and while a server's is built.
StartInv ==
    /\ owner \in Starting => tls /\ ~dialled /\ ~Made /\ Calm(Latest) /\ "Connected" \notin events
    /\ owner \in Starting \/ (owner = "set" /\ ~told) => ~secureReady /\ ssl # "made"
    /\ owner = "setBuilt" => Calm(pending)
    /\ owner = "unconnected" \/ (owner = "ask" /\ ~told) =>
          /\ dialled /\ job = NoJob /\ service = "idle" /\ ~told
          /\ "Secured" \notin events /\ ~secureReady /\ ssl # "made"
    /\ owner = "unconnected" => "Connected" \notin events /\ ~connected
    /\ owner = "ask" /\ "Connected" \in events => connected
    /\ owner = "ask" /\ ~told => "Connected" \in events \/ ~connected

\* While it connects, and with TLS until the owner hears that it has.
DialInv ==
    /\ Is(Latest, "connecting") =>
          dialled /\ ~Made /\ "Connected" \notin events /\ owner \in Free /\ ~secureReady /\ ssl # "made"
    /\ owner = "set" /\ Is(pending, "connecting") =>
          /\ dialled /\ ~Made /\ "Connected" \notin events /\ job = NoJob /\ service = "idle"
          /\ ~secureReady /\ ssl # "made"
    /\ "Connected" \in events /\ tls =>
          /\ dialled /\ ~Made /\ Latest = NoJob /\ owner \notin Starting \cup {"unconnected"}
          /\ ~secureReady /\ ssl # "made" /\ (owner = "set" => pending = NoJob)
    /\ owner = "set" /\ Is(pending, "connected") /\ dialled => Made

\* While it is made secure: as long as the peer is there, so is the connection.
ShakeInv ==
    /\ Is(Latest, "handshake") => tls /\ ~Made /\ "Connected" \notin events /\ owner \in Free
    /\ owner = "set" /\ Is(pending, "handshake") => tls /\ ~Made /\ "Connected" \notin events
          /\ Calm(Latest) /\ (dialled => Latest = NoJob)
    /\ peer \in {"away", "there"} /\ ~(connected /\ (readable \/ writable)) =>
          /\ ~Is(Latest, "handshake")
          /\ owner \notin Closing =>
                /\ owner = "set" => ~Is(pending, "handshake")
                /\ tls => "Connected" \notin events
                /\ owner \notin Starting

MadeInv ==
    Made /\ owner \notin Closing =>
        /\ Calm(Latest) /\ (owner = "set" => Calm(pending))
        /\ ~connected => ~readable /\ ~writable
        /\ owner \notin Starting \cup {"unconnected"}

\* What there is to write is polled for by the job to come.
WriteInv ==
    output > 0 /\ connected /\ writable /\ ~fatal /\ owner \notin Closing =>
        /\ owner \notin {"ask", "set"} =>
              /\ service # "reading" => WritesTo(Latest)
              /\ service = "reading" /\ result = "Retry" => WritesTo(job)
        /\ owner = "set" => WritesTo(pending)

\* A job polls for reading, and for writing only what there is; while the owner asks for
\* another, the one that is there does not write.
Polls(j) == Is(j, "connected") => j.read /\ (j.write => output > 0)
Quiet(j) == Is(j, "connected") => ~j.write
SpinInv ==
    connected /\ readable /\ owner \notin Closing =>
        /\ Is(Latest, "connected") => Latest.read
        /\ owner \notin {"ask", "set"} =>
              /\ service # "reading" => Polls(Latest)
              /\ service = "reading" /\ result = "Retry" => Polls(job)
        /\ owner \in {"set", "setBuilt"} => Polls(pending)
        /\ owner \in {"ask", "set"} => Quiet(Latest) /\ (service = "reading" => result = "Retry")

SockInv == BasicInv /\ StartInv /\ DialInv /\ ShakeInv /\ MadeInv /\ WriteInv /\ SpinInv

\* What newJob() makes of the flags.
Fits(j, conn, r, w, out) ==
    /\ j = NoJob \/ Is(j, "connecting") \/ Is(j, "handshake") \/ Is(j, "connected")
    /\ Is(j, "connecting") => ~conn /\ (r \/ w)
    /\ Is(j, "handshake") => tls /\ conn /\ ~secureReady /\ ssl = "made"
    /\ conn /\ (tls => secureReady) => Calm(j) /\ (open /\ w /\ out > 0 => WritesTo(j))
    /\ conn /\ tls /\ ~secureReady /\ ssl # "made" => j = NoJob
    /\ Is(j, "connected") => conn /\ j.read = r /\ (j.write => out > 0)

\* Jobs have the kind and the flags they are made with.
LEMMA JobIs ==
    ASSUME NEW kind \in {"connecting", "connected", "handshake"}, NEW x \in BOOLEAN, NEW y \in BOOLEAN
    PROVE  /\ Method(kind, x, y) # NoJob /\ Method(kind, x, y).service = kind
           /\ Method(kind, x, y).read = x /\ Method(kind, x, y).write = y
<1>1. NoJob \notin Job
  BY TCPSocketAssumption
<1>2. Method(kind, x, y) \in Job
  BY DEF Method, Job
<1>3. QED
  BY <1>1, <1>2 DEF Method

\* The job newJob() makes fits the flags it is given.
LEMMA JobFits ==
    ASSUME NEW conn \in BOOLEAN, NEW r \in BOOLEAN, NEW w \in BOOLEAN, NEW out \in Nat
    PROVE  Fits(newJob(conn, r, w, out), conn, r, w, out)
<1>2. \A kind \in {"connecting", "connected", "handshake"}, x, y \in BOOLEAN :
         /\ Method(kind, x, y) # NoJob /\ Method(kind, x, y).service = kind
         /\ Method(kind, x, y).read = x /\ Method(kind, x, y).write = y
  BY JobIs
<1> DEFINE w1 == w /\ (conn => out > 0)
<1>3. w1 \in BOOLEAN
  OBVIOUS
<1>4. CASE tls /\ conn /\ ~secureReady
  BY <1>2, <1>4 DEF newJob, Fits, Is, Calm, WritesTo
<1>5. CASE ~(tls /\ conn /\ ~secureReady)
  <2>1. newJob(conn, r, w, out) = IF open /\ (r \/ w1) THEN Method(IF conn THEN "connected" ELSE "connecting", r, w1)
                                  ELSE NoJob
    BY <1>5 DEF newJob, plainJob
  <2>2. CASE open /\ (r \/ w1) /\ conn
    <3>1. newJob(conn, r, w, out) = Method("connected", r, w1)
      BY <2>1, <2>2
    <3>2. QED
      <4>1. w1 = (w /\ out > 0)
        BY <2>2
      <4> HIDE DEF w1
      <4>2. /\ Is(newJob(conn, r, w, out), "connected") /\ newJob(conn, r, w, out).read = r
            /\ newJob(conn, r, w, out).write = w1 /\ newJob(conn, r, w, out).service = "connected"
        BY <1>2, <1>3, <3>1 DEF Is
      <4>3. newJob(conn, r, w, out).write => w /\ out > 0
        BY <4>1, <4>2
      <4>4. w /\ out > 0 => newJob(conn, r, w, out).write
        BY <4>1, <4>2
      <4> HIDE DEF newJob
      <4>5. QED
        BY <1>5, <2>2, <4>2, <4>3, <4>4 DEF Fits, Is, Calm, WritesTo
  <2>3. CASE open /\ (r \/ w1) /\ ~conn
    <3>1. newJob(conn, r, w, out) = Method("connecting", r, w1)
      BY <2>1, <2>3
    <3>2. QED
      BY <1>2, <1>3, <1>5, <2>3, <3>1 DEF Fits, Is, Calm, WritesTo
  <2>4. CASE ~(open /\ (r \/ w1))
    BY <1>5, <2>1, <2>4 DEF Fits, Is, Calm, WritesTo
  <2>5. QED
    BY <2>2, <2>3, <2>4
<1>6. QED
  BY <1>4, <1>5

\* So does the job made for the flags a step of the service thread ends in.
LEMMA ReturnedFits ==
    ASSUME TypeOK', returnNew
    PROVE  Fits(returned', connected', readable', writable', output')
<1>1. /\ connected' \in BOOLEAN /\ readable' \in BOOLEAN /\ writable' \in BOOLEAN
      /\ output' \in Nat
  BY DEF TypeOK
<1>2. QED
  BY <1>1, JobFits DEF returnNew

LEMMA GiveKeeps ==
    ASSUME TypeOK, TypeOK', SockInv, giveJob
    PROVE  SockInv'
<1>1. BasicInv /\ StartInv /\ DialInv /\ ShakeInv /\ MadeInv /\ WriteInv /\ SpinInv
  BY DEF SockInv
<1>2. FlagTypes /\ DataTypes
  BY TypeParts
<1>3. BasicInv'
  BY <1>1, <1>2 DEF BasicInv, StartInv, DialInv, ShakeInv, MadeInv, WriteInv, SpinInv, Latest, Is, Calm, WritesTo, Starting, Free, Made, Closing, Polls, Quiet, DataTypes, giveJob, setJob, roleVars, flagVars, tlsVars, serviceVars, ownerVars, netVars
<1>4. StartInv'
  BY <1>1, <1>2 DEF StartInv, BasicInv, DialInv, ShakeInv, MadeInv, WriteInv, SpinInv, Latest, Is, Calm, WritesTo, Starting, Free, Made, Closing, Polls, Quiet, DataTypes, giveJob, setJob, roleVars, flagVars, tlsVars, serviceVars, ownerVars, netVars
<1>5. DialInv'
  BY <1>1, <1>2 DEF DialInv, BasicInv, StartInv, ShakeInv, MadeInv, WriteInv, SpinInv, Latest, Is, Calm, WritesTo, Starting, Free, Made, Closing, Polls, Quiet, DataTypes, giveJob, setJob, roleVars, flagVars, tlsVars, serviceVars, ownerVars, netVars
<1>6. ShakeInv'
  BY <1>1, <1>2 DEF ShakeInv, BasicInv, StartInv, DialInv, MadeInv, WriteInv, SpinInv, Latest, Is, Calm, WritesTo, Starting, Free, Made, Closing, Polls, Quiet, DataTypes, giveJob, setJob, roleVars, flagVars, tlsVars, serviceVars, ownerVars, netVars
<1>7. MadeInv'
  BY <1>1, <1>2 DEF MadeInv, BasicInv, StartInv, DialInv, ShakeInv, WriteInv, SpinInv, Latest, Is, Calm, WritesTo, Starting, Free, Made, Closing, Polls, Quiet, DataTypes, giveJob, setJob, roleVars, flagVars, tlsVars, serviceVars, ownerVars, netVars
<1>8. WriteInv'
  BY <1>1, <1>2 DEF WriteInv, BasicInv, StartInv, DialInv, ShakeInv, MadeInv, SpinInv, Latest, Is, Calm, WritesTo, Starting, Free, Made, Closing, Polls, Quiet, DataTypes, giveJob, setJob, roleVars, flagVars, tlsVars, serviceVars, ownerVars, netVars
<1>9. SpinInv'
  BY <1>1, <1>2 DEF SpinInv, BasicInv, StartInv, DialInv, ShakeInv, MadeInv, WriteInv, Latest, Is, Calm, WritesTo, Starting, Free, Made, Closing, Polls, Quiet, DataTypes, giveJob, setJob, roleVars, flagVars, tlsVars, serviceVars, ownerVars, netVars
<1>10. QED
  BY <1>3, <1>4, <1>5, <1>6, <1>7, <1>8, <1>9 DEF SockInv

LEMMA AskKeeps ==
    ASSUME TypeOK, TypeOK', SockInv, askJob
    PROVE  SockInv'
<1>1. BasicInv /\ StartInv /\ DialInv /\ ShakeInv /\ MadeInv /\ WriteInv /\ SpinInv
  BY DEF SockInv
<1>2. FlagTypes /\ DataTypes
  BY TypeParts
<1>3. Fits(pending', connected, readable, writable, output)
  BY <1>2, JobFits DEF askJob, FlagTypes, DataTypes
<1>4. BasicInv'
  BY <1>1, <1>2, <1>3 DEF BasicInv, StartInv, DialInv, ShakeInv, MadeInv, WriteInv, SpinInv, Latest, Is, Calm, WritesTo, Starting, Free, Made, Closing, Polls, Quiet, DataTypes, askJob, Fits, roleVars, flagVars, tlsVars, serviceVars, ownerVars, netVars
<1>5. StartInv'
  BY <1>1, <1>2, <1>3 DEF StartInv, BasicInv, DialInv, ShakeInv, MadeInv, WriteInv, SpinInv, Latest, Is, Calm, WritesTo, Starting, Free, Made, Closing, Polls, Quiet, DataTypes, askJob, Fits, roleVars, flagVars, tlsVars, serviceVars, ownerVars, netVars
<1>6. DialInv'
  BY <1>1, <1>2, <1>3 DEF DialInv, BasicInv, StartInv, ShakeInv, MadeInv, WriteInv, SpinInv, Latest, Is, Calm, WritesTo, Starting, Free, Made, Closing, Polls, Quiet, DataTypes, askJob, Fits, roleVars, flagVars, tlsVars, serviceVars, ownerVars, netVars
<1>7. ShakeInv'
  BY <1>1, <1>2, <1>3 DEF ShakeInv, BasicInv, StartInv, DialInv, MadeInv, WriteInv, SpinInv, Latest, Is, Calm, WritesTo, Starting, Free, Made, Closing, Polls, Quiet, DataTypes, askJob, Fits, roleVars, flagVars, tlsVars, serviceVars, ownerVars, netVars
<1>8. MadeInv'
  BY <1>1, <1>2, <1>3 DEF MadeInv, BasicInv, StartInv, DialInv, ShakeInv, WriteInv, SpinInv, Latest, Is, Calm, WritesTo, Starting, Free, Made, Closing, Polls, Quiet, DataTypes, askJob, Fits, roleVars, flagVars, tlsVars, serviceVars, ownerVars, netVars
<1>9. WriteInv'
  BY <1>1, <1>2, <1>3 DEF WriteInv, BasicInv, StartInv, DialInv, ShakeInv, MadeInv, SpinInv, Latest, Is, Calm, WritesTo, Starting, Free, Made, Closing, Polls, Quiet, DataTypes, askJob, Fits, roleVars, flagVars, tlsVars, serviceVars, ownerVars, netVars
<1>10. SpinInv'
  BY <1>1, <1>2, <1>3 DEF SpinInv, BasicInv, StartInv, DialInv, ShakeInv, MadeInv, WriteInv, Latest, Is, Calm, WritesTo, Starting, Free, Made, Closing, Polls, Quiet, DataTypes, askJob, Fits, roleVars, flagVars, tlsVars, serviceVars, ownerVars, netVars
<1>11. QED
  BY <1>4, <1>5, <1>6, <1>7, <1>8, <1>9, <1>10 DEF SockInv

LEMMA BuildKeeps ==
    ASSUME TypeOK, TypeOK', SockInv, build
    PROVE  SockInv'
<1>1. BasicInv /\ StartInv /\ DialInv /\ ShakeInv /\ MadeInv /\ WriteInv /\ SpinInv
  BY DEF SockInv
<1>2. FlagTypes /\ DataTypes
  BY TypeParts
<1>3. BasicInv'
  BY <1>1, <1>2 DEF BasicInv, StartInv, DialInv, ShakeInv, MadeInv, WriteInv, SpinInv, Latest, Is, Calm, WritesTo, Starting, Free, Made, Closing, Polls, Quiet, DataTypes, build, roleVars, flagVars, tlsVars, serviceVars, ownerVars, netVars
<1>4. StartInv'
  BY <1>1, <1>2 DEF StartInv, BasicInv, DialInv, ShakeInv, MadeInv, WriteInv, SpinInv, Latest, Is, Calm, WritesTo, Starting, Free, Made, Closing, Polls, Quiet, DataTypes, build, roleVars, flagVars, tlsVars, serviceVars, ownerVars, netVars
<1>5. DialInv'
  BY <1>1, <1>2 DEF DialInv, BasicInv, StartInv, ShakeInv, MadeInv, WriteInv, SpinInv, Latest, Is, Calm, WritesTo, Starting, Free, Made, Closing, Polls, Quiet, DataTypes, build, roleVars, flagVars, tlsVars, serviceVars, ownerVars, netVars
<1>6. ShakeInv'
  BY <1>1, <1>2 DEF ShakeInv, BasicInv, StartInv, DialInv, MadeInv, WriteInv, SpinInv, Latest, Is, Calm, WritesTo, Starting, Free, Made, Closing, Polls, Quiet, DataTypes, build, roleVars, flagVars, tlsVars, serviceVars, ownerVars, netVars
<1>7. MadeInv'
  BY <1>1, <1>2 DEF MadeInv, BasicInv, StartInv, DialInv, ShakeInv, WriteInv, SpinInv, Latest, Is, Calm, WritesTo, Starting, Free, Made, Closing, Polls, Quiet, DataTypes, build, roleVars, flagVars, tlsVars, serviceVars, ownerVars, netVars
<1>8. WriteInv'
  BY <1>1, <1>2 DEF WriteInv, BasicInv, StartInv, DialInv, ShakeInv, MadeInv, SpinInv, Latest, Is, Calm, WritesTo, Starting, Free, Made, Closing, Polls, Quiet, DataTypes, build, roleVars, flagVars, tlsVars, serviceVars, ownerVars, netVars
<1>9. SpinInv'
  BY <1>1, <1>2 DEF SpinInv, BasicInv, StartInv, DialInv, ShakeInv, MadeInv, WriteInv, Latest, Is, Calm, WritesTo, Starting, Free, Made, Closing, Polls, Quiet, DataTypes, build, roleVars, flagVars, tlsVars, serviceVars, ownerVars, netVars
<1>10. QED
  BY <1>3, <1>4, <1>5, <1>6, <1>7, <1>8, <1>9 DEF SockInv

LEMMA AcceptKeeps ==
    ASSUME TypeOK, TypeOK', SockInv, secureAccept
    PROVE  SockInv'
<1>1. BasicInv /\ StartInv /\ DialInv /\ ShakeInv /\ MadeInv /\ WriteInv /\ SpinInv
  BY DEF SockInv
<1>2. FlagTypes /\ DataTypes
  BY TypeParts
<1>3. /\ Method("handshake", readable, writable) # NoJob
      /\ Method("handshake", readable, writable).service = "handshake"
  BY <1>2, JobIs DEF FlagTypes
<1>4. BasicInv'
  BY <1>1, <1>2, <1>3 DEF BasicInv, StartInv, DialInv, ShakeInv, MadeInv, WriteInv, SpinInv, Latest, Is, Calm, WritesTo, Starting, Free, Made, Closing, Polls, Quiet, DataTypes, secureAccept, beginClose, roleVars, flagVars, tlsVars, serviceVars, ownerVars, netVars
<1>5. StartInv'
  BY <1>1, <1>2, <1>3 DEF StartInv, BasicInv, DialInv, ShakeInv, MadeInv, WriteInv, SpinInv, Latest, Is, Calm, WritesTo, Starting, Free, Made, Closing, Polls, Quiet, DataTypes, secureAccept, beginClose, roleVars, flagVars, tlsVars, serviceVars, ownerVars, netVars
<1>6. DialInv'
  BY <1>1, <1>2, <1>3 DEF DialInv, BasicInv, StartInv, ShakeInv, MadeInv, WriteInv, SpinInv, Latest, Is, Calm, WritesTo, Starting, Free, Made, Closing, Polls, Quiet, DataTypes, secureAccept, beginClose, roleVars, flagVars, tlsVars, serviceVars, ownerVars, netVars
<1>7. ShakeInv'
  BY <1>1, <1>2, <1>3 DEF ShakeInv, BasicInv, StartInv, DialInv, MadeInv, WriteInv, SpinInv, Latest, Is, Calm, WritesTo, Starting, Free, Made, Closing, Polls, Quiet, DataTypes, secureAccept, beginClose, roleVars, flagVars, tlsVars, serviceVars, ownerVars, netVars
<1>8. MadeInv'
  BY <1>1, <1>2, <1>3 DEF MadeInv, BasicInv, StartInv, DialInv, ShakeInv, WriteInv, SpinInv, Latest, Is, Calm, WritesTo, Starting, Free, Made, Closing, Polls, Quiet, DataTypes, secureAccept, beginClose, roleVars, flagVars, tlsVars, serviceVars, ownerVars, netVars
<1>9. WriteInv'
  BY <1>1, <1>2, <1>3 DEF WriteInv, BasicInv, StartInv, DialInv, ShakeInv, MadeInv, SpinInv, Latest, Is, Calm, WritesTo, Starting, Free, Made, Closing, Polls, Quiet, DataTypes, secureAccept, beginClose, roleVars, flagVars, tlsVars, serviceVars, ownerVars, netVars
<1>10. SpinInv'
  BY <1>1, <1>2, <1>3 DEF SpinInv, BasicInv, StartInv, DialInv, ShakeInv, MadeInv, WriteInv, Latest, Is, Calm, WritesTo, Starting, Free, Made, Closing, Polls, Quiet, DataTypes, secureAccept, beginClose, roleVars, flagVars, tlsVars, serviceVars, ownerVars, netVars
<1>11. QED
  BY <1>4, <1>5, <1>6, <1>7, <1>8, <1>9, <1>10 DEF SockInv

LEMMA ConnectKeeps ==
    ASSUME TypeOK, TypeOK', SockInv, connect
    PROVE  SockInv'
<1>1. BasicInv /\ StartInv /\ DialInv /\ ShakeInv /\ MadeInv /\ WriteInv /\ SpinInv
  BY DEF SockInv
<1>2. FlagTypes /\ DataTypes
  BY TypeParts
<1>3. BasicInv'
  BY <1>1, <1>2 DEF BasicInv, StartInv, DialInv, ShakeInv, MadeInv, WriteInv, SpinInv, Latest, Is, Calm, WritesTo, Starting, Free, Made, Closing, Polls, Quiet, DataTypes, connect, beginClose, onConnected, sendEvents, roleVars, flagVars, tlsVars, serviceVars, ownerVars, netVars
<1>4. StartInv'
  BY <1>1, <1>2 DEF StartInv, BasicInv, DialInv, ShakeInv, MadeInv, WriteInv, SpinInv, Latest, Is, Calm, WritesTo, Starting, Free, Made, Closing, Polls, Quiet, DataTypes, connect, beginClose, onConnected, sendEvents, roleVars, flagVars, tlsVars, serviceVars, ownerVars, netVars
<1>5. DialInv'
  BY <1>1, <1>2 DEF DialInv, BasicInv, StartInv, ShakeInv, MadeInv, WriteInv, SpinInv, Latest, Is, Calm, WritesTo, Starting, Free, Made, Closing, Polls, Quiet, DataTypes, connect, beginClose, onConnected, sendEvents, roleVars, flagVars, tlsVars, serviceVars, ownerVars, netVars
<1>6. ShakeInv'
  BY <1>1, <1>2 DEF ShakeInv, BasicInv, StartInv, DialInv, MadeInv, WriteInv, SpinInv, Latest, Is, Calm, WritesTo, Starting, Free, Made, Closing, Polls, Quiet, DataTypes, connect, beginClose, onConnected, sendEvents, roleVars, flagVars, tlsVars, serviceVars, ownerVars, netVars
<1>7. MadeInv'
  BY <1>1, <1>2 DEF MadeInv, BasicInv, StartInv, DialInv, ShakeInv, WriteInv, SpinInv, Latest, Is, Calm, WritesTo, Starting, Free, Made, Closing, Polls, Quiet, DataTypes, connect, beginClose, onConnected, sendEvents, roleVars, flagVars, tlsVars, serviceVars, ownerVars, netVars
<1>8. WriteInv'
  BY <1>1, <1>2 DEF WriteInv, BasicInv, StartInv, DialInv, ShakeInv, MadeInv, SpinInv, Latest, Is, Calm, WritesTo, Starting, Free, Made, Closing, Polls, Quiet, DataTypes, connect, beginClose, onConnected, sendEvents, roleVars, flagVars, tlsVars, serviceVars, ownerVars, netVars
<1>9. SpinInv'
  BY <1>1, <1>2 DEF SpinInv, BasicInv, StartInv, DialInv, ShakeInv, MadeInv, WriteInv, Latest, Is, Calm, WritesTo, Starting, Free, Made, Closing, Polls, Quiet, DataTypes, connect, beginClose, onConnected, sendEvents, roleVars, flagVars, tlsVars, serviceVars, ownerVars, netVars
<1>10. QED
  BY <1>3, <1>4, <1>5, <1>6, <1>7, <1>8, <1>9 DEF SockInv

LEMMA HandleKeeps ==
    ASSUME TypeOK, TypeOK', SockInv, handleEvent
    PROVE  SockInv'
<1>1. BasicInv /\ StartInv /\ DialInv /\ ShakeInv /\ MadeInv /\ WriteInv /\ SpinInv
  BY DEF SockInv
<1>2. FlagTypes /\ DataTypes
  BY TypeParts
<1>3. /\ Method("handshake", readable, writable) # NoJob
      /\ Method("handshake", readable, writable).service = "handshake"
  BY <1>2, JobIs DEF FlagTypes
<1>4. BasicInv'
  BY <1>1, <1>2, <1>3 DEF BasicInv, StartInv, DialInv, ShakeInv, MadeInv, WriteInv, SpinInv, Latest, Is, Calm, WritesTo, Starting, Free, Made, Closing, Polls, Quiet, DataTypes, handleEvent, LossEvents, roleVars, flagVars, tlsVars, serviceVars, ownerVars, netVars
<1>5. StartInv'
  BY <1>1, <1>2, <1>3 DEF StartInv, BasicInv, DialInv, ShakeInv, MadeInv, WriteInv, SpinInv, Latest, Is, Calm, WritesTo, Starting, Free, Made, Closing, Polls, Quiet, DataTypes, handleEvent, LossEvents, roleVars, flagVars, tlsVars, serviceVars, ownerVars, netVars
<1>6. DialInv'
  BY <1>1, <1>2, <1>3 DEF DialInv, BasicInv, StartInv, ShakeInv, MadeInv, WriteInv, SpinInv, Latest, Is, Calm, WritesTo, Starting, Free, Made, Closing, Polls, Quiet, DataTypes, handleEvent, LossEvents, roleVars, flagVars, tlsVars, serviceVars, ownerVars, netVars
<1>7. ShakeInv'
  BY <1>1, <1>2, <1>3 DEF ShakeInv, BasicInv, StartInv, DialInv, MadeInv, WriteInv, SpinInv, Latest, Is, Calm, WritesTo, Starting, Free, Made, Closing, Polls, Quiet, DataTypes, handleEvent, LossEvents, roleVars, flagVars, tlsVars, serviceVars, ownerVars, netVars
<1>8. MadeInv'
  BY <1>1, <1>2, <1>3 DEF MadeInv, BasicInv, StartInv, DialInv, ShakeInv, WriteInv, SpinInv, Latest, Is, Calm, WritesTo, Starting, Free, Made, Closing, Polls, Quiet, DataTypes, handleEvent, LossEvents, roleVars, flagVars, tlsVars, serviceVars, ownerVars, netVars
<1>9. WriteInv'
  BY <1>1, <1>2, <1>3 DEF WriteInv, BasicInv, StartInv, DialInv, ShakeInv, MadeInv, SpinInv, Latest, Is, Calm, WritesTo, Starting, Free, Made, Closing, Polls, Quiet, DataTypes, handleEvent, LossEvents, roleVars, flagVars, tlsVars, serviceVars, ownerVars, netVars
<1>10. SpinInv'
  BY <1>1, <1>2, <1>3 DEF SpinInv, BasicInv, StartInv, DialInv, ShakeInv, MadeInv, WriteInv, Latest, Is, Calm, WritesTo, Starting, Free, Made, Closing, Polls, Quiet, DataTypes, handleEvent, LossEvents, roleVars, flagVars, tlsVars, serviceVars, ownerVars, netVars
<1>11. QED
  BY <1>4, <1>5, <1>6, <1>7, <1>8, <1>9, <1>10 DEF SockInv

LEMMA ReadKeeps ==
    ASSUME TypeOK, TypeOK', SockInv, read
    PROVE  SockInv'
<1>1. BasicInv /\ StartInv /\ DialInv /\ ShakeInv /\ MadeInv /\ WriteInv /\ SpinInv
  BY DEF SockInv
<1>2. FlagTypes /\ DataTypes
  BY TypeParts
<1>3. BasicInv'
  BY <1>1, <1>2 DEF BasicInv, StartInv, DialInv, ShakeInv, MadeInv, WriteInv, SpinInv, Latest, Is, Calm, WritesTo, Starting, Free, Made, Closing, Polls, Quiet, DataTypes, read, sendEvents, roleVars, flagVars, tlsVars, serviceVars, ownerVars, netVars
<1>4. StartInv'
  BY <1>1, <1>2 DEF StartInv, BasicInv, DialInv, ShakeInv, MadeInv, WriteInv, SpinInv, Latest, Is, Calm, WritesTo, Starting, Free, Made, Closing, Polls, Quiet, DataTypes, read, sendEvents, roleVars, flagVars, tlsVars, serviceVars, ownerVars, netVars
<1>5. DialInv'
  BY <1>1, <1>2 DEF DialInv, BasicInv, StartInv, ShakeInv, MadeInv, WriteInv, SpinInv, Latest, Is, Calm, WritesTo, Starting, Free, Made, Closing, Polls, Quiet, DataTypes, read, sendEvents, roleVars, flagVars, tlsVars, serviceVars, ownerVars, netVars
<1>6. ShakeInv'
  BY <1>1, <1>2 DEF ShakeInv, BasicInv, StartInv, DialInv, MadeInv, WriteInv, SpinInv, Latest, Is, Calm, WritesTo, Starting, Free, Made, Closing, Polls, Quiet, DataTypes, read, sendEvents, roleVars, flagVars, tlsVars, serviceVars, ownerVars, netVars
<1>7. MadeInv'
  BY <1>1, <1>2 DEF MadeInv, BasicInv, StartInv, DialInv, ShakeInv, WriteInv, SpinInv, Latest, Is, Calm, WritesTo, Starting, Free, Made, Closing, Polls, Quiet, DataTypes, read, sendEvents, roleVars, flagVars, tlsVars, serviceVars, ownerVars, netVars
<1>8. WriteInv'
  BY <1>1, <1>2 DEF WriteInv, BasicInv, StartInv, DialInv, ShakeInv, MadeInv, SpinInv, Latest, Is, Calm, WritesTo, Starting, Free, Made, Closing, Polls, Quiet, DataTypes, read, sendEvents, roleVars, flagVars, tlsVars, serviceVars, ownerVars, netVars
<1>9. SpinInv'
  BY <1>1, <1>2 DEF SpinInv, BasicInv, StartInv, DialInv, ShakeInv, MadeInv, WriteInv, Latest, Is, Calm, WritesTo, Starting, Free, Made, Closing, Polls, Quiet, DataTypes, read, sendEvents, roleVars, flagVars, tlsVars, serviceVars, ownerVars, netVars
<1>10. QED
  BY <1>3, <1>4, <1>5, <1>6, <1>7, <1>8, <1>9 DEF SockInv

LEMMA WriteKeeps ==
    ASSUME TypeOK, TypeOK', SockInv, write
    PROVE  SockInv'
<1>1. BasicInv /\ StartInv /\ DialInv /\ ShakeInv /\ MadeInv /\ WriteInv /\ SpinInv
  BY DEF SockInv
<1>2. FlagTypes /\ DataTypes
  BY TypeParts
<1>3. BasicInv'
  BY <1>1, <1>2 DEF BasicInv, StartInv, DialInv, ShakeInv, MadeInv, WriteInv, SpinInv, Latest, Is, Calm, WritesTo, Starting, Free, Made, Closing, Polls, Quiet, DataTypes, write, Unlocked, sendEvents, roleVars, flagVars, tlsVars, serviceVars, ownerVars, netVars
<1>4. StartInv'
  BY <1>1, <1>2 DEF StartInv, BasicInv, DialInv, ShakeInv, MadeInv, WriteInv, SpinInv, Latest, Is, Calm, WritesTo, Starting, Free, Made, Closing, Polls, Quiet, DataTypes, write, Unlocked, sendEvents, roleVars, flagVars, tlsVars, serviceVars, ownerVars, netVars
<1>5. DialInv'
  BY <1>1, <1>2 DEF DialInv, BasicInv, StartInv, ShakeInv, MadeInv, WriteInv, SpinInv, Latest, Is, Calm, WritesTo, Starting, Free, Made, Closing, Polls, Quiet, DataTypes, write, Unlocked, sendEvents, roleVars, flagVars, tlsVars, serviceVars, ownerVars, netVars
<1>6. ShakeInv'
  BY <1>1, <1>2 DEF ShakeInv, BasicInv, StartInv, DialInv, MadeInv, WriteInv, SpinInv, Latest, Is, Calm, WritesTo, Starting, Free, Made, Closing, Polls, Quiet, DataTypes, write, Unlocked, sendEvents, roleVars, flagVars, tlsVars, serviceVars, ownerVars, netVars
<1>7. MadeInv'
  BY <1>1, <1>2 DEF MadeInv, BasicInv, StartInv, DialInv, ShakeInv, WriteInv, SpinInv, Latest, Is, Calm, WritesTo, Starting, Free, Made, Closing, Polls, Quiet, DataTypes, write, Unlocked, sendEvents, roleVars, flagVars, tlsVars, serviceVars, ownerVars, netVars
<1>8. WriteInv'
  BY <1>1, <1>2 DEF WriteInv, BasicInv, StartInv, DialInv, ShakeInv, MadeInv, SpinInv, Latest, Is, Calm, WritesTo, Starting, Free, Made, Closing, Polls, Quiet, DataTypes, write, Unlocked, sendEvents, roleVars, flagVars, tlsVars, serviceVars, ownerVars, netVars
<1>9. SpinInv'
  BY <1>1, <1>2 DEF SpinInv, BasicInv, StartInv, DialInv, ShakeInv, MadeInv, WriteInv, Latest, Is, Calm, WritesTo, Starting, Free, Made, Closing, Polls, Quiet, DataTypes, write, Unlocked, sendEvents, roleVars, flagVars, tlsVars, serviceVars, ownerVars, netVars
<1>10. QED
  BY <1>3, <1>4, <1>5, <1>6, <1>7, <1>8, <1>9 DEF SockInv

LEMMA FlushKeeps ==
    ASSUME TypeOK, TypeOK', SockInv, flush \/ flushReturns
    PROVE  SockInv'
<1>1. BasicInv /\ StartInv /\ DialInv /\ ShakeInv /\ MadeInv /\ WriteInv /\ SpinInv
  BY DEF SockInv
<1>2. FlagTypes /\ DataTypes
  BY TypeParts
<1>3. BasicInv'
  BY <1>1, <1>2 DEF BasicInv, StartInv, DialInv, ShakeInv, MadeInv, WriteInv, SpinInv, Latest, Is, Calm, WritesTo, Starting, Free, Made, Closing, Polls, Quiet, DataTypes, flush, flushReturns, roleVars, flagVars, tlsVars, serviceVars, ownerVars, netVars
<1>4. StartInv'
  BY <1>1, <1>2 DEF StartInv, BasicInv, DialInv, ShakeInv, MadeInv, WriteInv, SpinInv, Latest, Is, Calm, WritesTo, Starting, Free, Made, Closing, Polls, Quiet, DataTypes, flush, flushReturns, roleVars, flagVars, tlsVars, serviceVars, ownerVars, netVars
<1>5. DialInv'
  BY <1>1, <1>2 DEF DialInv, BasicInv, StartInv, ShakeInv, MadeInv, WriteInv, SpinInv, Latest, Is, Calm, WritesTo, Starting, Free, Made, Closing, Polls, Quiet, DataTypes, flush, flushReturns, roleVars, flagVars, tlsVars, serviceVars, ownerVars, netVars
<1>6. ShakeInv'
  BY <1>1, <1>2 DEF ShakeInv, BasicInv, StartInv, DialInv, MadeInv, WriteInv, SpinInv, Latest, Is, Calm, WritesTo, Starting, Free, Made, Closing, Polls, Quiet, DataTypes, flush, flushReturns, roleVars, flagVars, tlsVars, serviceVars, ownerVars, netVars
<1>7. MadeInv'
  BY <1>1, <1>2 DEF MadeInv, BasicInv, StartInv, DialInv, ShakeInv, WriteInv, SpinInv, Latest, Is, Calm, WritesTo, Starting, Free, Made, Closing, Polls, Quiet, DataTypes, flush, flushReturns, roleVars, flagVars, tlsVars, serviceVars, ownerVars, netVars
<1>8. WriteInv'
  BY <1>1, <1>2 DEF WriteInv, BasicInv, StartInv, DialInv, ShakeInv, MadeInv, SpinInv, Latest, Is, Calm, WritesTo, Starting, Free, Made, Closing, Polls, Quiet, DataTypes, flush, flushReturns, roleVars, flagVars, tlsVars, serviceVars, ownerVars, netVars
<1>9. SpinInv'
  BY <1>1, <1>2 DEF SpinInv, BasicInv, StartInv, DialInv, ShakeInv, MadeInv, WriteInv, Latest, Is, Calm, WritesTo, Starting, Free, Made, Closing, Polls, Quiet, DataTypes, flush, flushReturns, roleVars, flagVars, tlsVars, serviceVars, ownerVars, netVars
<1>10. QED
  BY <1>3, <1>4, <1>5, <1>6, <1>7, <1>8, <1>9 DEF SockInv

LEMMA CloseKeeps ==
    ASSUME TypeOK, TypeOK', SockInv, close
    PROVE  SockInv'
<1>1. BasicInv /\ StartInv /\ DialInv /\ ShakeInv /\ MadeInv /\ WriteInv /\ SpinInv
  BY DEF SockInv
<1>2. FlagTypes /\ DataTypes
  BY TypeParts
<1>3. BasicInv'
  BY <1>1, <1>2 DEF BasicInv, StartInv, DialInv, ShakeInv, MadeInv, WriteInv, SpinInv, Latest, Is, Calm, WritesTo, Starting, Free, Made, Closing, Polls, Quiet, DataTypes, close, beginClose, roleVars, flagVars, tlsVars, serviceVars, ownerVars, netVars
<1>4. StartInv'
  BY <1>1, <1>2 DEF StartInv, BasicInv, DialInv, ShakeInv, MadeInv, WriteInv, SpinInv, Latest, Is, Calm, WritesTo, Starting, Free, Made, Closing, Polls, Quiet, DataTypes, close, beginClose, roleVars, flagVars, tlsVars, serviceVars, ownerVars, netVars
<1>5. DialInv'
  BY <1>1, <1>2 DEF DialInv, BasicInv, StartInv, ShakeInv, MadeInv, WriteInv, SpinInv, Latest, Is, Calm, WritesTo, Starting, Free, Made, Closing, Polls, Quiet, DataTypes, close, beginClose, roleVars, flagVars, tlsVars, serviceVars, ownerVars, netVars
<1>6. ShakeInv'
  BY <1>1, <1>2 DEF ShakeInv, BasicInv, StartInv, DialInv, MadeInv, WriteInv, SpinInv, Latest, Is, Calm, WritesTo, Starting, Free, Made, Closing, Polls, Quiet, DataTypes, close, beginClose, roleVars, flagVars, tlsVars, serviceVars, ownerVars, netVars
<1>7. MadeInv'
  BY <1>1, <1>2 DEF MadeInv, BasicInv, StartInv, DialInv, ShakeInv, WriteInv, SpinInv, Latest, Is, Calm, WritesTo, Starting, Free, Made, Closing, Polls, Quiet, DataTypes, close, beginClose, roleVars, flagVars, tlsVars, serviceVars, ownerVars, netVars
<1>8. WriteInv'
  BY <1>1, <1>2 DEF WriteInv, BasicInv, StartInv, DialInv, ShakeInv, MadeInv, SpinInv, Latest, Is, Calm, WritesTo, Starting, Free, Made, Closing, Polls, Quiet, DataTypes, close, beginClose, roleVars, flagVars, tlsVars, serviceVars, ownerVars, netVars
<1>9. SpinInv'
  BY <1>1, <1>2 DEF SpinInv, BasicInv, StartInv, DialInv, ShakeInv, MadeInv, WriteInv, Latest, Is, Calm, WritesTo, Starting, Free, Made, Closing, Polls, Quiet, DataTypes, close, beginClose, roleVars, flagVars, tlsVars, serviceVars, ownerVars, netVars
<1>10. QED
  BY <1>3, <1>4, <1>5, <1>6, <1>7, <1>8, <1>9 DEF SockInv

LEMMA FreeKeeps ==
    ASSUME TypeOK, TypeOK', SockInv, freeSSL \/ removeJob
    PROVE  SockInv'
<1>1. BasicInv /\ StartInv /\ DialInv /\ ShakeInv /\ MadeInv /\ WriteInv /\ SpinInv
  BY DEF SockInv
<1>2. FlagTypes /\ DataTypes
  BY TypeParts
<1>3. BasicInv'
  BY <1>1, <1>2 DEF BasicInv, StartInv, DialInv, ShakeInv, MadeInv, WriteInv, SpinInv, Latest, Is, Calm, WritesTo, Starting, Free, Made, Closing, Polls, Quiet, DataTypes, freeSSL, removeJob, setJob, roleVars, flagVars, tlsVars, serviceVars, ownerVars, netVars
<1>4. StartInv'
  BY <1>1, <1>2 DEF StartInv, BasicInv, DialInv, ShakeInv, MadeInv, WriteInv, SpinInv, Latest, Is, Calm, WritesTo, Starting, Free, Made, Closing, Polls, Quiet, DataTypes, freeSSL, removeJob, setJob, roleVars, flagVars, tlsVars, serviceVars, ownerVars, netVars
<1>5. DialInv'
  BY <1>1, <1>2 DEF DialInv, BasicInv, StartInv, ShakeInv, MadeInv, WriteInv, SpinInv, Latest, Is, Calm, WritesTo, Starting, Free, Made, Closing, Polls, Quiet, DataTypes, freeSSL, removeJob, setJob, roleVars, flagVars, tlsVars, serviceVars, ownerVars, netVars
<1>6. ShakeInv'
  BY <1>1, <1>2 DEF ShakeInv, BasicInv, StartInv, DialInv, MadeInv, WriteInv, SpinInv, Latest, Is, Calm, WritesTo, Starting, Free, Made, Closing, Polls, Quiet, DataTypes, freeSSL, removeJob, setJob, roleVars, flagVars, tlsVars, serviceVars, ownerVars, netVars
<1>7. MadeInv'
  BY <1>1, <1>2 DEF MadeInv, BasicInv, StartInv, DialInv, ShakeInv, WriteInv, SpinInv, Latest, Is, Calm, WritesTo, Starting, Free, Made, Closing, Polls, Quiet, DataTypes, freeSSL, removeJob, setJob, roleVars, flagVars, tlsVars, serviceVars, ownerVars, netVars
<1>8. WriteInv'
  BY <1>1, <1>2 DEF WriteInv, BasicInv, StartInv, DialInv, ShakeInv, MadeInv, SpinInv, Latest, Is, Calm, WritesTo, Starting, Free, Made, Closing, Polls, Quiet, DataTypes, freeSSL, removeJob, setJob, roleVars, flagVars, tlsVars, serviceVars, ownerVars, netVars
<1>9. SpinInv'
  BY <1>1, <1>2 DEF SpinInv, BasicInv, StartInv, DialInv, ShakeInv, MadeInv, WriteInv, Latest, Is, Calm, WritesTo, Starting, Free, Made, Closing, Polls, Quiet, DataTypes, freeSSL, removeJob, setJob, roleVars, flagVars, tlsVars, serviceVars, ownerVars, netVars
<1>10. QED
  BY <1>3, <1>4, <1>5, <1>6, <1>7, <1>8, <1>9 DEF SockInv

LEMMA ShutKeeps ==
    ASSUME TypeOK, TypeOK', SockInv, CloseInv, closeSocket
    PROVE  SockInv'
<1>1. BasicInv /\ StartInv /\ DialInv /\ ShakeInv /\ MadeInv /\ WriteInv /\ SpinInv
  BY DEF SockInv
<1>2. FlagTypes /\ DataTypes
  BY TypeParts
<1>3. job = NoJob /\ service = "idle"
  BY DEF closeSocket, CloseInv, JobRemoved
<1>4. BasicInv'
  BY <1>1, <1>2, <1>3 DEF BasicInv, StartInv, DialInv, ShakeInv, MadeInv, WriteInv, SpinInv, Latest, Is, Calm, WritesTo, Starting, Free, Made, Closing, Polls, Quiet, DataTypes, closeSocket, sendEvents, onDisconnected, roleVars, flagVars, tlsVars, serviceVars, ownerVars, netVars
<1>5. StartInv'
  BY <1>1, <1>2, <1>3 DEF StartInv, BasicInv, DialInv, ShakeInv, MadeInv, WriteInv, SpinInv, Latest, Is, Calm, WritesTo, Starting, Free, Made, Closing, Polls, Quiet, DataTypes, closeSocket, sendEvents, onDisconnected, roleVars, flagVars, tlsVars, serviceVars, ownerVars, netVars
<1>6. DialInv'
  BY <1>1, <1>2, <1>3 DEF DialInv, BasicInv, StartInv, ShakeInv, MadeInv, WriteInv, SpinInv, Latest, Is, Calm, WritesTo, Starting, Free, Made, Closing, Polls, Quiet, DataTypes, closeSocket, sendEvents, onDisconnected, roleVars, flagVars, tlsVars, serviceVars, ownerVars, netVars
<1>7. ShakeInv'
  BY <1>1, <1>2, <1>3 DEF ShakeInv, BasicInv, StartInv, DialInv, MadeInv, WriteInv, SpinInv, Latest, Is, Calm, WritesTo, Starting, Free, Made, Closing, Polls, Quiet, DataTypes, closeSocket, sendEvents, onDisconnected, roleVars, flagVars, tlsVars, serviceVars, ownerVars, netVars
<1>8. MadeInv'
  BY <1>1, <1>2, <1>3 DEF MadeInv, BasicInv, StartInv, DialInv, ShakeInv, WriteInv, SpinInv, Latest, Is, Calm, WritesTo, Starting, Free, Made, Closing, Polls, Quiet, DataTypes, closeSocket, sendEvents, onDisconnected, roleVars, flagVars, tlsVars, serviceVars, ownerVars, netVars
<1>9. WriteInv'
  BY <1>1, <1>2, <1>3 DEF WriteInv, BasicInv, StartInv, DialInv, ShakeInv, MadeInv, SpinInv, Latest, Is, Calm, WritesTo, Starting, Free, Made, Closing, Polls, Quiet, DataTypes, closeSocket, sendEvents, onDisconnected, roleVars, flagVars, tlsVars, serviceVars, ownerVars, netVars
<1>10. SpinInv'
  BY <1>1, <1>2, <1>3 DEF SpinInv, BasicInv, StartInv, DialInv, ShakeInv, MadeInv, WriteInv, Latest, Is, Calm, WritesTo, Starting, Free, Made, Closing, Polls, Quiet, DataTypes, closeSocket, sendEvents, onDisconnected, roleVars, flagVars, tlsVars, serviceVars, ownerVars, netVars
<1>11. QED
  BY <1>4, <1>5, <1>6, <1>7, <1>8, <1>9, <1>10 DEF SockInv

LEMMA PickKeeps ==
    ASSUME TypeOK, TypeOK', SockInv, pick
    PROVE  SockInv'
<1>1. BasicInv /\ StartInv /\ DialInv /\ ShakeInv /\ MadeInv /\ WriteInv /\ SpinInv
  BY DEF SockInv
<1>2. FlagTypes /\ DataTypes
  BY TypeParts
<1>3. BasicInv'
  BY <1>1, <1>2 DEF BasicInv, StartInv, DialInv, ShakeInv, MadeInv, WriteInv, SpinInv, Latest, Is, Calm, WritesTo, Starting, Free, Made, Closing, Polls, Quiet, DataTypes, pick, roleVars, flagVars, tlsVars, serviceVars, ownerVars, netVars
<1>4. StartInv'
  BY <1>1, <1>2 DEF StartInv, BasicInv, DialInv, ShakeInv, MadeInv, WriteInv, SpinInv, Latest, Is, Calm, WritesTo, Starting, Free, Made, Closing, Polls, Quiet, DataTypes, pick, roleVars, flagVars, tlsVars, serviceVars, ownerVars, netVars
<1>5. DialInv'
  BY <1>1, <1>2 DEF DialInv, BasicInv, StartInv, ShakeInv, MadeInv, WriteInv, SpinInv, Latest, Is, Calm, WritesTo, Starting, Free, Made, Closing, Polls, Quiet, DataTypes, pick, roleVars, flagVars, tlsVars, serviceVars, ownerVars, netVars
<1>6. ShakeInv'
  BY <1>1, <1>2 DEF ShakeInv, BasicInv, StartInv, DialInv, MadeInv, WriteInv, SpinInv, Latest, Is, Calm, WritesTo, Starting, Free, Made, Closing, Polls, Quiet, DataTypes, pick, roleVars, flagVars, tlsVars, serviceVars, ownerVars, netVars
<1>7. MadeInv'
  BY <1>1, <1>2 DEF MadeInv, BasicInv, StartInv, DialInv, ShakeInv, WriteInv, SpinInv, Latest, Is, Calm, WritesTo, Starting, Free, Made, Closing, Polls, Quiet, DataTypes, pick, roleVars, flagVars, tlsVars, serviceVars, ownerVars, netVars
<1>8. WriteInv'
  BY <1>1, <1>2 DEF WriteInv, BasicInv, StartInv, DialInv, ShakeInv, MadeInv, SpinInv, Latest, Is, Calm, WritesTo, Starting, Free, Made, Closing, Polls, Quiet, DataTypes, pick, roleVars, flagVars, tlsVars, serviceVars, ownerVars, netVars
<1>9. SpinInv'
  BY <1>1, <1>2 DEF SpinInv, BasicInv, StartInv, DialInv, ShakeInv, MadeInv, WriteInv, Latest, Is, Calm, WritesTo, Starting, Free, Made, Closing, Polls, Quiet, DataTypes, pick, roleVars, flagVars, tlsVars, serviceVars, ownerVars, netVars
<1>10. QED
  BY <1>3, <1>4, <1>5, <1>6, <1>7, <1>8, <1>9 DEF SockInv

\* The connection fails, is made, or is not there yet.
LEMMA DialKeeps ==
    ASSUME TypeOK, TypeOK', SockInv, serviceConnecting
    PROVE  SockInv'
<1>1. BasicInv /\ StartInv /\ DialInv /\ ShakeInv /\ MadeInv /\ WriteInv /\ SpinInv
  BY DEF SockInv
<1>2. FlagTypes /\ DataTypes
  BY TypeParts
<1>3. /\ Is(Latest, "connecting") /\ Latest = job /\ service = "picked" /\ service' = "done" /\ Latest' = returned'
      /\ tls' = tls /\ dialled' = dialled /\ open' = open /\ job' = job /\ polled' = polled
      /\ result' = result /\ owner' = owner /\ pending' = pending /\ told' = told /\ peer' = peer
      /\ secureReady' = secureReady /\ ssl' = ssl /\ fatal' = fatal
  BY <1>1 DEF serviceConnecting, BasicInv, Latest, Is, roleVars, ownerVars, netVars, tlsVars
<1>4. /\ dialled /\ ~told /\ output = 0 /\ "Secured" \notin events /\ "Connected" \notin events /\ owner \in Free
      /\ ~secureReady /\ ssl # "made"
  BY <1>1, <1>2, <1>3 DEF BasicInv, DialInv, Made, DataTypes
<1>5. CASE /\ peer \in {"refused", "broken"} /\ sendEvents({"ConnectionFailed"}) /\ onDisconnected /\ returnNew
  <2>1. /\ ~connected' /\ ~readable' /\ ~writable' /\ output' = 0 /\ returned' = NoJob
        /\ "Connected" \notin events' /\ "Secured" \notin events'
    BY <1>4, <1>5, ReturnedFits DEF onDisconnected, sendEvents, Fits, Is
  <2>2. BasicInv'
    BY <1>1, <1>2, <1>3, <1>4, <2>1 DEF BasicInv, StartInv, DialInv, ShakeInv, MadeInv, WriteInv, SpinInv, Latest, Is, Calm, WritesTo, Starting, Free, Made, Closing, Polls, Quiet, DataTypes
  <2>3. StartInv'
    BY <1>1, <1>2, <1>3, <1>4, <2>1 DEF StartInv, BasicInv, DialInv, ShakeInv, MadeInv, WriteInv, SpinInv, Latest, Is, Calm, WritesTo, Starting, Free, Made, Closing, Polls, Quiet, DataTypes
  <2>4. DialInv'
    BY <1>1, <1>2, <1>3, <1>4, <2>1 DEF DialInv, BasicInv, StartInv, ShakeInv, MadeInv, WriteInv, SpinInv, Latest, Is, Calm, WritesTo, Starting, Free, Made, Closing, Polls, Quiet, DataTypes
  <2>5. ShakeInv'
    BY <1>1, <1>2, <1>3, <1>4, <2>1 DEF ShakeInv, BasicInv, StartInv, DialInv, MadeInv, WriteInv, SpinInv, Latest, Is, Calm, WritesTo, Starting, Free, Made, Closing, Polls, Quiet, DataTypes
  <2>6. MadeInv'
    BY <1>1, <1>2, <1>3, <1>4, <2>1 DEF MadeInv, BasicInv, StartInv, DialInv, ShakeInv, WriteInv, SpinInv, Latest, Is, Calm, WritesTo, Starting, Free, Made, Closing, Polls, Quiet, DataTypes
  <2>7. WriteInv'
    BY <1>1, <1>2, <1>3, <1>4, <2>1 DEF WriteInv, BasicInv, StartInv, DialInv, ShakeInv, MadeInv, SpinInv, Latest, Is, Calm, WritesTo, Starting, Free, Made, Closing, Polls, Quiet, DataTypes
  <2>8. SpinInv'
    BY <1>1, <1>2, <1>3, <1>4, <2>1 DEF SpinInv, BasicInv, StartInv, DialInv, ShakeInv, MadeInv, WriteInv, Latest, Is, Calm, WritesTo, Starting, Free, Made, Closing, Polls, Quiet, DataTypes
  <2>9. QED
    BY <2>2, <2>3, <2>4, <2>5, <2>6, <2>7, <2>8 DEF SockInv
<1>6. CASE /\ sendEvents({"Connected"}) /\ onConnected /\ returnNew /\ output' = output
  <2>1. /\ connected' /\ readable' /\ writable' /\ output' = 0
        /\ events' = events \cup {"Connected"} /\ Fits(returned', connected', readable', writable', output')
        /\ Calm(returned') /\ (tls => returned' = NoJob)
        /\ (Is(returned', "connected") => returned'.read /\ ~returned'.write)
    <3>1. /\ connected' /\ readable' /\ writable' /\ output' = 0 /\ events' = events \cup {"Connected"}
      BY <1>4, <1>6 DEF onConnected, sendEvents
    <3>2. Fits(returned', connected', readable', writable', output')
      BY <1>6, ReturnedFits
    <3>3. /\ tls => returned' = NoJob
          /\ ~tls => Calm(returned')
          /\ Is(returned', "connected") => returned'.read = readable' /\ (returned'.write => output' > 0)
      BY <1>4, <3>1, <3>2 DEF Fits
    <3>4. ~(output' > 0)
      BY <3>1
    <3>5. QED
      BY <3>1, <3>2, <3>3, <3>4 DEF Calm
  <2>2. BasicInv'
    BY <1>1, <1>2, <1>3, <1>4, <2>1 DEF BasicInv, StartInv, DialInv, ShakeInv, MadeInv, WriteInv, SpinInv, Latest, Is, Calm, WritesTo, Starting, Free, Made, Closing, Polls, Quiet, DataTypes
  <2>3. StartInv'
    BY <1>1, <1>2, <1>3, <1>4, <2>1 DEF StartInv, BasicInv, DialInv, ShakeInv, MadeInv, WriteInv, SpinInv, Latest, Is, Calm, WritesTo, Starting, Free, Made, Closing, Polls, Quiet, DataTypes
  <2>4. DialInv'
    BY <1>1, <1>2, <1>3, <1>4, <2>1 DEF DialInv, BasicInv, StartInv, ShakeInv, MadeInv, WriteInv, SpinInv, Latest, Is, Calm, WritesTo, Starting, Free, Made, Closing, Polls, Quiet, DataTypes
  <2>5. ShakeInv'
    BY <1>1, <1>2, <1>3, <1>4, <2>1 DEF ShakeInv, BasicInv, StartInv, DialInv, MadeInv, WriteInv, SpinInv, Latest, Is, Calm, WritesTo, Starting, Free, Made, Closing, Polls, Quiet, DataTypes
  <2>6. MadeInv'
    BY <1>1, <1>2, <1>3, <1>4, <2>1 DEF MadeInv, BasicInv, StartInv, DialInv, ShakeInv, WriteInv, SpinInv, Latest, Is, Calm, WritesTo, Starting, Free, Made, Closing, Polls, Quiet, DataTypes
  <2>7. WriteInv'
    BY <1>1, <1>2, <1>3, <1>4, <2>1 DEF WriteInv, BasicInv, StartInv, DialInv, ShakeInv, MadeInv, SpinInv, Latest, Is, Calm, WritesTo, Starting, Free, Made, Closing, Polls, Quiet, DataTypes
  <2>8. SpinInv'
    BY <1>1, <1>2, <1>3, <1>4, <2>1 DEF SpinInv, BasicInv, StartInv, DialInv, ShakeInv, MadeInv, WriteInv, Latest, Is, Calm, WritesTo, Starting, Free, Made, Closing, Polls, Quiet, DataTypes
  <2>9. QED
    BY <2>2, <2>3, <2>4, <2>5, <2>6, <2>7, <2>8 DEF SockInv
<1>7. CASE returned' = job /\ UNCHANGED <<events, connected, readable, writable, output>>
  <2>1. /\ Is(returned', "connecting") /\ events' = events /\ connected' = connected /\ readable' = readable
        /\ writable' = writable /\ output' = output
    BY <1>3, <1>7 DEF Is
  <2>2. BasicInv'
    BY <1>1, <1>2, <1>3, <1>4, <2>1 DEF BasicInv, StartInv, DialInv, ShakeInv, MadeInv, WriteInv, SpinInv, Latest, Is, Calm, WritesTo, Starting, Free, Made, Closing, Polls, Quiet, DataTypes
  <2>3. StartInv'
    BY <1>1, <1>2, <1>3, <1>4, <2>1 DEF StartInv, BasicInv, DialInv, ShakeInv, MadeInv, WriteInv, SpinInv, Latest, Is, Calm, WritesTo, Starting, Free, Made, Closing, Polls, Quiet, DataTypes
  <2>4. DialInv'
    BY <1>1, <1>2, <1>3, <1>4, <2>1 DEF DialInv, BasicInv, StartInv, ShakeInv, MadeInv, WriteInv, SpinInv, Latest, Is, Calm, WritesTo, Starting, Free, Made, Closing, Polls, Quiet, DataTypes
  <2>5. ShakeInv'
    BY <1>1, <1>2, <1>3, <1>4, <2>1 DEF ShakeInv, BasicInv, StartInv, DialInv, MadeInv, WriteInv, SpinInv, Latest, Is, Calm, WritesTo, Starting, Free, Made, Closing, Polls, Quiet, DataTypes
  <2>6. MadeInv'
    BY <1>1, <1>2, <1>3, <1>4, <2>1 DEF MadeInv, BasicInv, StartInv, DialInv, ShakeInv, WriteInv, SpinInv, Latest, Is, Calm, WritesTo, Starting, Free, Made, Closing, Polls, Quiet, DataTypes
  <2>7. WriteInv'
    BY <1>1, <1>2, <1>3, <1>4, <2>1 DEF WriteInv, BasicInv, StartInv, DialInv, ShakeInv, MadeInv, SpinInv, Latest, Is, Calm, WritesTo, Starting, Free, Made, Closing, Polls, Quiet, DataTypes
  <2>8. SpinInv'
    BY <1>1, <1>2, <1>3, <1>4, <2>1 DEF SpinInv, BasicInv, StartInv, DialInv, ShakeInv, MadeInv, WriteInv, Latest, Is, Calm, WritesTo, Starting, Free, Made, Closing, Polls, Quiet, DataTypes
  <2>9. QED
    BY <2>2, <2>3, <2>4, <2>5, <2>6, <2>7, <2>8 DEF SockInv
<1>8. QED
  BY <1>5, <1>6, <1>7 DEF serviceConnecting

\* The handshake goes on, is done, or fails.
LEMMA ShakeKeeps ==
    ASSUME TypeOK, TypeOK', SockInv, serviceHandshake
    PROVE  SockInv'
<1>1. BasicInv /\ StartInv /\ DialInv /\ ShakeInv /\ MadeInv /\ WriteInv /\ SpinInv
  BY DEF SockInv
<1>2. FlagTypes /\ DataTypes
  BY TypeParts
<1>3. /\ Is(Latest, "handshake") /\ Latest = job /\ service = "picked" /\ service' = "done" /\ Latest' = returned'
      /\ tls' = tls /\ dialled' = dialled /\ open' = open /\ output' = output /\ job' = job /\ polled' = polled
      /\ result' = result /\ owner' = owner /\ pending' = pending /\ told' = told /\ peer' = peer
  BY <1>1 DEF serviceHandshake, BasicInv, Latest, Is, roleVars, ownerVars, netVars
<1>4. /\ tls /\ ~told /\ output = 0 /\ "Secured" \notin events /\ "Connected" \notin events /\ owner \in Free
      /\ peer = "there" => connected /\ (readable \/ writable)
  BY <1>1, <1>2, <1>3 DEF BasicInv, ShakeInv, Made, DataTypes
<1>5. CASE peer = "there" /\ handshakeRetries
  <2>1. /\ Is(returned', "handshake") /\ (readable' \/ writable') /\ events' = events /\ connected' = connected
        /\ secureReady' = secureReady /\ fatal' = fatal /\ ssl' = "made" /\ peer = "there"
    <3>1. readable' \in BOOLEAN /\ writable' \in BOOLEAN
      BY <1>5 DEF handshakeRetries
    <3>2. returned' # NoJob /\ returned'.service = "handshake"
      BY <1>5, <3>1, JobIs DEF handshakeRetries
    <3>3. QED
      BY <1>5, <3>1, <3>2 DEF handshakeRetries, Is
  <2>2. BasicInv'
    BY <1>1, <1>2, <1>3, <1>4, <2>1 DEF BasicInv, StartInv, DialInv, ShakeInv, MadeInv, WriteInv, SpinInv, Latest, Is, Calm, WritesTo, Starting, Free, Made, Closing, Polls, Quiet, DataTypes
  <2>3. StartInv'
    BY <1>1, <1>2, <1>3, <1>4, <2>1 DEF StartInv, BasicInv, DialInv, ShakeInv, MadeInv, WriteInv, SpinInv, Latest, Is, Calm, WritesTo, Starting, Free, Made, Closing, Polls, Quiet, DataTypes
  <2>4. DialInv'
    BY <1>1, <1>2, <1>3, <1>4, <2>1 DEF DialInv, BasicInv, StartInv, ShakeInv, MadeInv, WriteInv, SpinInv, Latest, Is, Calm, WritesTo, Starting, Free, Made, Closing, Polls, Quiet, DataTypes
  <2>5. ShakeInv'
    BY <1>1, <1>2, <1>3, <1>4, <2>1 DEF ShakeInv, BasicInv, StartInv, DialInv, MadeInv, WriteInv, SpinInv, Latest, Is, Calm, WritesTo, Starting, Free, Made, Closing, Polls, Quiet, DataTypes
  <2>6. MadeInv'
    BY <1>1, <1>2, <1>3, <1>4, <2>1 DEF MadeInv, BasicInv, StartInv, DialInv, ShakeInv, WriteInv, SpinInv, Latest, Is, Calm, WritesTo, Starting, Free, Made, Closing, Polls, Quiet, DataTypes
  <2>7. WriteInv'
    BY <1>1, <1>2, <1>3, <1>4, <2>1 DEF WriteInv, BasicInv, StartInv, DialInv, ShakeInv, MadeInv, SpinInv, Latest, Is, Calm, WritesTo, Starting, Free, Made, Closing, Polls, Quiet, DataTypes
  <2>8. SpinInv'
    BY <1>1, <1>2, <1>3, <1>4, <2>1 DEF SpinInv, BasicInv, StartInv, DialInv, ShakeInv, MadeInv, WriteInv, Latest, Is, Calm, WritesTo, Starting, Free, Made, Closing, Polls, Quiet, DataTypes
  <2>9. QED
    BY <2>2, <2>3, <2>4, <2>5, <2>6, <2>7, <2>8 DEF SockInv
<1>6. CASE peer = "there" /\ handshakeDone
  <2>1. /\ connected /\ connected' /\ readable' /\ writable' /\ secureReady' /\ ssl' = "made" /\ fatal' = fatal
        /\ events' = events \cup {"Secured"} /\ Calm(returned') /\ (returned' # NoJob => returned'.read /\ ~returned'.write)
    <3>1. connected /\ connected' = connected
      BY <1>4, <1>6 DEF handshakeDone
    <3>2. returned' = IF open THEN Method("connected", TRUE, FALSE) ELSE NoJob
      <4>1. (TRUE /\ (connected => output > 0)) = FALSE
        BY <1>4, <3>1
      <4>2. returned' = IF open /\ (TRUE \/ (TRUE /\ (connected => output > 0)))
                        THEN Method(IF connected THEN "connected" ELSE "connecting", TRUE,
                                    (TRUE /\ (connected => output > 0)))
                        ELSE NoJob
        BY <1>6 DEF handshakeDone, plainJob
      <4>3. QED
        BY <3>1, <4>1, <4>2
    <3>3. /\ Method("connected", TRUE, FALSE) # NoJob /\ Method("connected", TRUE, FALSE).service = "connected"
          /\ Method("connected", TRUE, FALSE).read = TRUE /\ Method("connected", TRUE, FALSE).write = FALSE
      BY JobIs
    <3>4. Calm(returned') /\ (returned' # NoJob => returned'.read /\ ~returned'.write)
      BY <3>2, <3>3 DEF Calm, Is
    <3>5. readable' /\ writable' /\ secureReady' /\ ssl' = "made" /\ fatal' = fatal /\ events' = events \cup {"Secured"}
      BY <1>6 DEF handshakeDone, sendEvents
    <3>6. QED
      BY <3>1, <3>4, <3>5
  <2>2. BasicInv'
    BY <1>1, <1>2, <1>3, <1>4, <2>1 DEF BasicInv, StartInv, DialInv, ShakeInv, MadeInv, WriteInv, SpinInv, Latest, Is, Calm, WritesTo, Starting, Free, Made, Closing, Polls, Quiet, DataTypes
  <2>3. StartInv'
    BY <1>1, <1>2, <1>3, <1>4, <2>1 DEF StartInv, BasicInv, DialInv, ShakeInv, MadeInv, WriteInv, SpinInv, Latest, Is, Calm, WritesTo, Starting, Free, Made, Closing, Polls, Quiet, DataTypes
  <2>4. DialInv'
    BY <1>1, <1>2, <1>3, <1>4, <2>1 DEF DialInv, BasicInv, StartInv, ShakeInv, MadeInv, WriteInv, SpinInv, Latest, Is, Calm, WritesTo, Starting, Free, Made, Closing, Polls, Quiet, DataTypes
  <2>5. ShakeInv'
    BY <1>1, <1>2, <1>3, <1>4, <2>1 DEF ShakeInv, BasicInv, StartInv, DialInv, MadeInv, WriteInv, SpinInv, Latest, Is, Calm, WritesTo, Starting, Free, Made, Closing, Polls, Quiet, DataTypes
  <2>6. MadeInv'
    BY <1>1, <1>2, <1>3, <1>4, <2>1 DEF MadeInv, BasicInv, StartInv, DialInv, ShakeInv, WriteInv, SpinInv, Latest, Is, Calm, WritesTo, Starting, Free, Made, Closing, Polls, Quiet, DataTypes
  <2>7. WriteInv'
    BY <1>1, <1>2, <1>3, <1>4, <2>1 DEF WriteInv, BasicInv, StartInv, DialInv, ShakeInv, MadeInv, SpinInv, Latest, Is, Calm, WritesTo, Starting, Free, Made, Closing, Polls, Quiet, DataTypes
  <2>8. SpinInv'
    BY <1>1, <1>2, <1>3, <1>4, <2>1 DEF SpinInv, BasicInv, StartInv, DialInv, ShakeInv, MadeInv, WriteInv, Latest, Is, Calm, WritesTo, Starting, Free, Made, Closing, Polls, Quiet, DataTypes
  <2>9. QED
    BY <2>2, <2>3, <2>4, <2>5, <2>6, <2>7, <2>8 DEF SockInv
<1>7. CASE handshakeFails
  <2>1. /\ connected' = connected /\ readable' = FALSE /\ writable' = FALSE /\ returned' = NoJob
        /\ events \subseteq events' /\ "Connected" \notin events' /\ "Secured" \notin events'
        /\ (fatal => fatal')
    <3>1. connected' = connected /\ readable' = FALSE /\ writable' = FALSE /\ returned' = NoJob
      BY <1>7 DEF handshakeFails
    <3>2. events \subseteq events' /\ "Connected" \notin events' /\ "Secured" \notin events'
      <4>1. CASE dialled
        BY <1>4, <1>7, <4>1 DEF handshakeFails, sendEvents
      <4>2. CASE ~dialled
        BY <1>4, <1>7, <4>2 DEF handshakeFails, sendEvents
      <4>3. QED
        BY <4>1, <4>2
    <3>3. fatal => fatal'
      BY <1>7 DEF handshakeFails
    <3>4. QED
      BY <3>1, <3>2, <3>3
  <2>2. BasicInv'
    BY <1>1, <1>2, <1>3, <1>4, <2>1 DEF BasicInv, StartInv, DialInv, ShakeInv, MadeInv, WriteInv, SpinInv, Latest, Is, Calm, WritesTo, Starting, Free, Made, Closing, Polls, Quiet, DataTypes
  <2>3. StartInv'
    BY <1>1, <1>2, <1>3, <1>4, <2>1 DEF StartInv, BasicInv, DialInv, ShakeInv, MadeInv, WriteInv, SpinInv, Latest, Is, Calm, WritesTo, Starting, Free, Made, Closing, Polls, Quiet, DataTypes
  <2>4. DialInv'
    BY <1>1, <1>2, <1>3, <1>4, <2>1 DEF DialInv, BasicInv, StartInv, ShakeInv, MadeInv, WriteInv, SpinInv, Latest, Is, Calm, WritesTo, Starting, Free, Made, Closing, Polls, Quiet, DataTypes
  <2>5. ShakeInv'
    BY <1>1, <1>2, <1>3, <1>4, <2>1 DEF ShakeInv, BasicInv, StartInv, DialInv, MadeInv, WriteInv, SpinInv, Latest, Is, Calm, WritesTo, Starting, Free, Made, Closing, Polls, Quiet, DataTypes
  <2>6. MadeInv'
    BY <1>1, <1>2, <1>3, <1>4, <2>1 DEF MadeInv, BasicInv, StartInv, DialInv, ShakeInv, WriteInv, SpinInv, Latest, Is, Calm, WritesTo, Starting, Free, Made, Closing, Polls, Quiet, DataTypes
  <2>7. WriteInv'
    BY <1>1, <1>2, <1>3, <1>4, <2>1 DEF WriteInv, BasicInv, StartInv, DialInv, ShakeInv, MadeInv, SpinInv, Latest, Is, Calm, WritesTo, Starting, Free, Made, Closing, Polls, Quiet, DataTypes
  <2>8. SpinInv'
    BY <1>1, <1>2, <1>3, <1>4, <2>1 DEF SpinInv, BasicInv, StartInv, DialInv, ShakeInv, MadeInv, WriteInv, Latest, Is, Calm, WritesTo, Starting, Free, Made, Closing, Polls, Quiet, DataTypes
  <2>9. QED
    BY <2>2, <2>3, <2>4, <2>5, <2>6, <2>7, <2>8 DEF SockInv
<1>8. QED
  BY <1>5, <1>6, <1>7 DEF serviceHandshake

\* A step of the service thread with the job of a connection: the flags only fall, and while the
\* peer is there they stay; what it tells makes no connection.
Serving ==
    /\ service \in {"picked", "reading"} /\ Is(job, "connected")
    /\ tls' = tls /\ dialled' = dialled /\ open' = open /\ job' = job /\ polled' = polled /\ owner' = owner
    /\ pending' = pending /\ told' = told /\ peer' = peer /\ secureReady' = secureReady /\ ssl' = ssl
    /\ "Connected" \in events' <=> "Connected" \in events
    /\ "Secured" \in events' <=> "Secured" \in events
    /\ fatal => fatal'
Falling ==
    /\ connected' => connected
    /\ readable' => readable
    /\ writable' => writable
    /\ connected /\ ~connected' => ~readable' /\ ~writable'
    /\ peer \in {"away", "there"} => connected' = connected /\ readable' = readable /\ writable' = writable
    /\ output' = output \/ (output' \in Nat /\ output > 0) \/ (output' = 0 /\ ~connected')

\* Up to its reading.
LEMMA ServeKeeps ==
    ASSUME TypeOK, TypeOK', SockInv, serviceConnected
    PROVE  SockInv'
<1>1. BasicInv /\ StartInv /\ DialInv /\ ShakeInv /\ MadeInv /\ WriteInv /\ SpinInv
  BY DEF SockInv
<1>2. FlagTypes /\ DataTypes /\ FlagTypes' /\ DataTypes'
  BY TypeParts
<1>3. UNCHANGED <<tls, dialled, open, job, polled, owner, pending, told, peer, secureReady, ssl>>
  BY DEF serviceConnected, roleVars, ownerVars
<1>4. service = "picked" /\ Is(job, "connected") /\ Latest = job
  BY <1>1 DEF serviceConnected, BasicInv, Is, Latest
<1>5. CASE polled.error /\ service' = "done"
  <2>1. /\ onDisconnected /\ sendEvents({"Disconnected"}) /\ returnNew /\ fatal' = fatal /\ result' = result
    BY <1>5 DEF serviceConnected
  <2>2. ~connected' /\ ~readable' /\ ~writable' /\ output' = 0
    BY <2>1 DEF onDisconnected
  <2>3. returned' = NoJob
    BY <2>1, <2>2, ReturnedFits DEF Fits, Is
  <2>4. Serving
    BY <1>3, <1>4, <2>1 DEF Serving, sendEvents
  <2>5. Latest' = NoJob
    BY <1>5, <2>3 DEF Latest
  <2>6. peer \notin {"away", "there"}
    BY <1>1, <1>4, <1>5 DEF BasicInv
  <2>7. BasicInv'
    BY <1>1, <1>2, <1>4, <1>5, <2>2, <2>3, <2>4, <2>6 DEF BasicInv, StartInv, DialInv, ShakeInv, MadeInv, WriteInv, SpinInv, Latest, Is, Calm, WritesTo, Starting, Free, Made, Closing, Polls, Quiet, DataTypes, Serving
  <2>8. StartInv'
    BY <1>1, <1>2, <1>4, <1>5, <2>2, <2>3, <2>4, <2>6 DEF StartInv, BasicInv, DialInv, ShakeInv, MadeInv, WriteInv, SpinInv, Latest, Is, Calm, WritesTo, Starting, Free, Made, Closing, Polls, Quiet, DataTypes, Serving
  <2>9. DialInv'
    BY <1>1, <1>2, <1>4, <1>5, <2>2, <2>3, <2>4, <2>6 DEF DialInv, BasicInv, StartInv, ShakeInv, MadeInv, WriteInv, SpinInv, Latest, Is, Calm, WritesTo, Starting, Free, Made, Closing, Polls, Quiet, DataTypes, Serving
  <2>10. ShakeInv'
    BY <1>1, <1>2, <1>4, <1>5, <2>2, <2>3, <2>4, <2>6 DEF ShakeInv, BasicInv, StartInv, DialInv, MadeInv, WriteInv, SpinInv, Latest, Is, Calm, WritesTo, Starting, Free, Made, Closing, Polls, Quiet, DataTypes, Serving
  <2>11. MadeInv'
    BY <1>1, <1>2, <1>4, <1>5, <2>2, <2>3, <2>4, <2>6 DEF MadeInv, BasicInv, StartInv, DialInv, ShakeInv, WriteInv, SpinInv, Latest, Is, Calm, WritesTo, Starting, Free, Made, Closing, Polls, Quiet, DataTypes, Serving
  <2>12. WriteInv'
    BY <1>1, <1>2, <1>4, <1>5, <2>2, <2>3, <2>4, <2>6 DEF WriteInv, BasicInv, StartInv, DialInv, ShakeInv, MadeInv, SpinInv, Latest, Is, Calm, WritesTo, Starting, Free, Made, Closing, Polls, Quiet, DataTypes, Serving
  <2>13. SpinInv'
    BY <1>1, <1>2, <1>4, <1>5, <2>2, <2>3, <2>4, <2>6 DEF SpinInv, BasicInv, StartInv, DialInv, ShakeInv, MadeInv, WriteInv, Latest, Is, Calm, WritesTo, Starting, Free, Made, Closing, Polls, Quiet, DataTypes, Serving
  <2>14. QED
    BY <2>7, <2>8, <2>9, <2>10, <2>11, <2>12, <2>13 DEF SockInv
<1>6. CASE service' = "reading"
  <2>1. \/ result' = "Retry" /\ Untouched
        \/ output > 0 /\ polled.write /\ writes
        \/ output > 0 /\ polled.write /\ tlsFails
        \/ output > 0 /\ polled.write /\ peer = "broken" /\ (outputShutDown \/ hungUp)
    BY <1>2, <1>6 DEF serviceConnected, doWrite, DataTypes
  <2>2. returned' = returned
    BY <1>6 DEF serviceConnected
  <2>3. Serving
    <3>1. /\ "Connected" \in events' <=> "Connected" \in events
          /\ "Secured" \in events' <=> "Secured" \in events
          /\ fatal => fatal'
      <4>1. CASE Untouched \/ writes
        <5>1. events' = events /\ fatal' = fatal
          BY <4>1 DEF Untouched, writes
        <5>2. QED
          BY <5>1
      <4>2. CASE tlsFails \/ outputShutDown
        BY <4>2 DEF tlsFails, outputShutDown, sendEvents
      <4>3. CASE hungUp
        BY <4>3 DEF hungUp, sendEvents
      <4>4. QED
        BY <2>1, <4>1, <4>2, <4>3
    <3>2. QED
      BY <1>3, <1>4, <3>1 DEF Serving
  <2>4. Falling
    BY <1>2, <2>1 DEF Falling, Untouched, writes, tlsFails, outputShutDown, hungUp, onDisconnected, FlagTypes, DataTypes
  <2>5. /\ result' = "Retry" => output' = output /\ connected' = connected /\ readable' = readable /\ writable' = writable
        /\ result' = "Break" => fatal'
        /\ result' # "Retry" => output > 0 /\ polled.write
    BY <2>1 DEF Untouched, writes, tlsFails, outputShutDown, hungUp
  <2>6. BasicInv'
    BY <1>1, <1>2, <1>4, <1>6, <2>2, <2>3, <2>4, <2>5 DEF BasicInv, StartInv, DialInv, ShakeInv, MadeInv, WriteInv, SpinInv, Latest, Is, Calm, WritesTo, Starting, Free, Made, Closing, Polls, Quiet, DataTypes, Serving, Falling
  <2>7. StartInv'
    BY <1>1, <1>2, <1>4, <1>6, <2>2, <2>3, <2>4, <2>5 DEF StartInv, BasicInv, DialInv, ShakeInv, MadeInv, WriteInv, SpinInv, Latest, Is, Calm, WritesTo, Starting, Free, Made, Closing, Polls, Quiet, DataTypes, Serving, Falling
  <2>8. DialInv'
    BY <1>1, <1>2, <1>4, <1>6, <2>2, <2>3, <2>4, <2>5 DEF DialInv, BasicInv, StartInv, ShakeInv, MadeInv, WriteInv, SpinInv, Latest, Is, Calm, WritesTo, Starting, Free, Made, Closing, Polls, Quiet, DataTypes, Serving, Falling
  <2>9. ShakeInv'
    BY <1>1, <1>2, <1>4, <1>6, <2>2, <2>3, <2>4, <2>5 DEF ShakeInv, BasicInv, StartInv, DialInv, MadeInv, WriteInv, SpinInv, Latest, Is, Calm, WritesTo, Starting, Free, Made, Closing, Polls, Quiet, DataTypes, Serving, Falling
  <2>10. MadeInv'
    BY <1>1, <1>2, <1>4, <1>6, <2>2, <2>3, <2>4, <2>5 DEF MadeInv, BasicInv, StartInv, DialInv, ShakeInv, WriteInv, SpinInv, Latest, Is, Calm, WritesTo, Starting, Free, Made, Closing, Polls, Quiet, DataTypes, Serving, Falling
  <2>11. WriteInv'
    BY <1>1, <1>2, <1>4, <1>6, <2>2, <2>3, <2>4, <2>5 DEF WriteInv, BasicInv, StartInv, DialInv, ShakeInv, MadeInv, SpinInv, Latest, Is, Calm, WritesTo, Starting, Free, Made, Closing, Polls, Quiet, DataTypes, Serving, Falling
  <2>12. SpinInv'
    BY <1>1, <1>2, <1>4, <1>6, <2>2, <2>3, <2>4, <2>5 DEF SpinInv, BasicInv, StartInv, DialInv, ShakeInv, MadeInv, WriteInv, Latest, Is, Calm, WritesTo, Starting, Free, Made, Closing, Polls, Quiet, DataTypes, Serving, Falling
  <2>13. QED
    BY <2>6, <2>7, <2>8, <2>9, <2>10, <2>11, <2>12 DEF SockInv
<1>7. QED
  BY <1>5, <1>6 DEF serviceConnected

\* The reading, and what the job comes to.
LEMMA TakeKeeps ==
    ASSUME TypeOK, TypeOK', SockInv, serviceReads
    PROVE  SockInv'
<1>1. BasicInv /\ StartInv /\ DialInv /\ ShakeInv /\ MadeInv /\ WriteInv /\ SpinInv
  BY DEF SockInv
<1>2. FlagTypes /\ DataTypes /\ FlagTypes' /\ DataTypes'
  BY TypeParts
<1>3. UNCHANGED <<tls, dialled, open, job, polled, owner, pending, told, peer, secureReady, ssl, result>>
  BY DEF serviceReads, roleVars, ownerVars
<1>4. service = "reading" /\ service' = "done" /\ Is(job, "connected") /\ Latest = job /\ Latest' = returned'
  BY <1>1 DEF serviceReads, BasicInv, Is, Latest
<1>5. /\ "Connected" \in events' <=> "Connected" \in events
      /\ "Secured" \in events' <=> "Secured" \in events
      /\ fatal => fatal'
  BY DEF serviceReads, doReadPlain, doReadSecure, slurp, inputEnds, onDisconnected, sendEvents
<1>6. Serving
  BY <1>3, <1>4, <1>5 DEF Serving
<1>7. Falling
  BY <1>2 DEF Falling, serviceReads, doReadPlain, doReadSecure, slurp, inputEnds, onDisconnected, FlagTypes, DataTypes
<1>8. output' = output \/ (output' = 0 /\ ~connected')
  BY DEF serviceReads, doReadPlain, doReadSecure, slurp, inputEnds, onDisconnected
<1>9. \/ returned' = NoJob /\ fatal'
      \/ returned' = job /\ result = "Retry" /\ connected' = connected /\ readable' = readable /\ writable' = writable
              /\ output' = output
      \/ returnNew /\ (result = "New" \/ peer \notin {"away", "there"}) /\ (result = "New" \/ ~readable')
  BY <1>1 DEF BasicInv, serviceReads, doReadPlain, doReadSecure, slurp, inputEnds, onDisconnected, returns
<1>10. CASE returned' = NoJob /\ fatal'
  <2>1. BasicInv'
    BY <1>1, <1>2, <1>4, <1>6, <1>7, <1>8, <1>10 DEF BasicInv, StartInv, DialInv, ShakeInv, MadeInv, WriteInv, SpinInv, Latest, Is, Calm, WritesTo, Starting, Free, Made, Closing, Polls, Quiet, DataTypes, Serving, Falling
  <2>2. StartInv'
    BY <1>1, <1>2, <1>4, <1>6, <1>7, <1>8, <1>10 DEF StartInv, BasicInv, DialInv, ShakeInv, MadeInv, WriteInv, SpinInv, Latest, Is, Calm, WritesTo, Starting, Free, Made, Closing, Polls, Quiet, DataTypes, Serving, Falling
  <2>3. DialInv'
    BY <1>1, <1>2, <1>4, <1>6, <1>7, <1>8, <1>10 DEF DialInv, BasicInv, StartInv, ShakeInv, MadeInv, WriteInv, SpinInv, Latest, Is, Calm, WritesTo, Starting, Free, Made, Closing, Polls, Quiet, DataTypes, Serving, Falling
  <2>4. ShakeInv'
    BY <1>1, <1>2, <1>4, <1>6, <1>7, <1>8, <1>10 DEF ShakeInv, BasicInv, StartInv, DialInv, MadeInv, WriteInv, SpinInv, Latest, Is, Calm, WritesTo, Starting, Free, Made, Closing, Polls, Quiet, DataTypes, Serving, Falling
  <2>5. MadeInv'
    BY <1>1, <1>2, <1>4, <1>6, <1>7, <1>8, <1>10 DEF MadeInv, BasicInv, StartInv, DialInv, ShakeInv, WriteInv, SpinInv, Latest, Is, Calm, WritesTo, Starting, Free, Made, Closing, Polls, Quiet, DataTypes, Serving, Falling
  <2>6. WriteInv'
    BY <1>1, <1>2, <1>4, <1>6, <1>7, <1>8, <1>10 DEF WriteInv, BasicInv, StartInv, DialInv, ShakeInv, MadeInv, SpinInv, Latest, Is, Calm, WritesTo, Starting, Free, Made, Closing, Polls, Quiet, DataTypes, Serving, Falling
  <2>7. SpinInv'
    BY <1>1, <1>2, <1>4, <1>6, <1>7, <1>8, <1>10 DEF SpinInv, BasicInv, StartInv, DialInv, ShakeInv, MadeInv, WriteInv, Latest, Is, Calm, WritesTo, Starting, Free, Made, Closing, Polls, Quiet, DataTypes, Serving, Falling
  <2>8. QED
    BY <2>1, <2>2, <2>3, <2>4, <2>5, <2>6, <2>7 DEF SockInv
<1>11. CASE /\ returned' = job /\ result = "Retry" /\ output' = output
            /\ connected' = connected /\ readable' = readable /\ writable' = writable
  <2>1. BasicInv'
    BY <1>1, <1>2, <1>4, <1>6, <1>8, <1>11 DEF BasicInv, StartInv, DialInv, ShakeInv, MadeInv, WriteInv, SpinInv, Latest, Is, Calm, WritesTo, Starting, Free, Made, Closing, Polls, Quiet, DataTypes, Serving
  <2>2. StartInv'
    BY <1>1, <1>2, <1>4, <1>6, <1>8, <1>11 DEF StartInv, BasicInv, DialInv, ShakeInv, MadeInv, WriteInv, SpinInv, Latest, Is, Calm, WritesTo, Starting, Free, Made, Closing, Polls, Quiet, DataTypes, Serving
  <2>3. DialInv'
    BY <1>1, <1>2, <1>4, <1>6, <1>8, <1>11 DEF DialInv, BasicInv, StartInv, ShakeInv, MadeInv, WriteInv, SpinInv, Latest, Is, Calm, WritesTo, Starting, Free, Made, Closing, Polls, Quiet, DataTypes, Serving
  <2>4. ShakeInv'
    BY <1>1, <1>2, <1>4, <1>6, <1>8, <1>11 DEF ShakeInv, BasicInv, StartInv, DialInv, MadeInv, WriteInv, SpinInv, Latest, Is, Calm, WritesTo, Starting, Free, Made, Closing, Polls, Quiet, DataTypes, Serving
  <2>5. MadeInv'
    BY <1>1, <1>2, <1>4, <1>6, <1>8, <1>11 DEF MadeInv, BasicInv, StartInv, DialInv, ShakeInv, WriteInv, SpinInv, Latest, Is, Calm, WritesTo, Starting, Free, Made, Closing, Polls, Quiet, DataTypes, Serving
  <2>6. WriteInv'
    BY <1>1, <1>2, <1>4, <1>6, <1>8, <1>11 DEF WriteInv, BasicInv, StartInv, DialInv, ShakeInv, MadeInv, SpinInv, Latest, Is, Calm, WritesTo, Starting, Free, Made, Closing, Polls, Quiet, DataTypes, Serving
  <2>7. SpinInv'
    BY <1>1, <1>2, <1>4, <1>6, <1>8, <1>11 DEF SpinInv, BasicInv, StartInv, DialInv, ShakeInv, MadeInv, WriteInv, Latest, Is, Calm, WritesTo, Starting, Free, Made, Closing, Polls, Quiet, DataTypes, Serving
  <2>8. QED
    BY <2>1, <2>2, <2>3, <2>4, <2>5, <2>6, <2>7 DEF SockInv
<1>12. CASE returnNew /\ (result = "New" \/ peer \notin {"away", "there"}) /\ (result = "New" \/ ~readable')
  <2>1. Fits(returned', connected', readable', writable', output')
    BY <1>12, ReturnedFits
  <2>2. BasicInv'
    BY <1>1, <1>2, <1>4, <1>6, <1>7, <1>8, <1>12, <2>1 DEF BasicInv, StartInv, DialInv, ShakeInv, MadeInv, WriteInv, SpinInv, Latest, Is, Calm, WritesTo, Starting, Free, Made, Closing, Polls, Quiet, DataTypes, Serving, Falling, Fits
  <2>3. StartInv'
    BY <1>1, <1>2, <1>4, <1>6, <1>7, <1>8, <1>12, <2>1 DEF StartInv, BasicInv, DialInv, ShakeInv, MadeInv, WriteInv, SpinInv, Latest, Is, Calm, WritesTo, Starting, Free, Made, Closing, Polls, Quiet, DataTypes, Serving, Falling, Fits
  <2>4. DialInv'
    BY <1>1, <1>2, <1>4, <1>6, <1>7, <1>8, <1>12, <2>1 DEF DialInv, BasicInv, StartInv, ShakeInv, MadeInv, WriteInv, SpinInv, Latest, Is, Calm, WritesTo, Starting, Free, Made, Closing, Polls, Quiet, DataTypes, Serving, Falling, Fits
  <2>5. ShakeInv'
    BY <1>1, <1>2, <1>4, <1>6, <1>7, <1>8, <1>12, <2>1 DEF ShakeInv, BasicInv, StartInv, DialInv, MadeInv, WriteInv, SpinInv, Latest, Is, Calm, WritesTo, Starting, Free, Made, Closing, Polls, Quiet, DataTypes, Serving, Falling, Fits
  <2>6. MadeInv'
    BY <1>1, <1>2, <1>4, <1>6, <1>7, <1>8, <1>12, <2>1 DEF MadeInv, BasicInv, StartInv, DialInv, ShakeInv, WriteInv, SpinInv, Latest, Is, Calm, WritesTo, Starting, Free, Made, Closing, Polls, Quiet, DataTypes, Serving, Falling, Fits
  <2>7. WriteInv'
    BY <1>1, <1>2, <1>4, <1>6, <1>7, <1>8, <1>12, <2>1 DEF WriteInv, BasicInv, StartInv, DialInv, ShakeInv, MadeInv, SpinInv, Latest, Is, Calm, WritesTo, Starting, Free, Made, Closing, Polls, Quiet, DataTypes, Serving, Falling, Fits
  <2>8. SpinInv'
    BY <1>1, <1>2, <1>4, <1>6, <1>7, <1>8, <1>12, <2>1 DEF SpinInv, BasicInv, StartInv, DialInv, ShakeInv, MadeInv, WriteInv, Latest, Is, Calm, WritesTo, Starting, Free, Made, Closing, Polls, Quiet, DataTypes, Serving, Falling, Fits
  <2>9. QED
    BY <2>2, <2>3, <2>4, <2>5, <2>6, <2>7, <2>8 DEF SockInv
<1>13. QED
  BY <1>9, <1>10, <1>11, <1>12

LEMMA FinishKeeps ==
    ASSUME TypeOK, TypeOK', SockInv, finish
    PROVE  SockInv'
<1>1. BasicInv /\ StartInv /\ DialInv /\ ShakeInv /\ MadeInv /\ WriteInv /\ SpinInv
  BY DEF SockInv
<1>2. FlagTypes /\ DataTypes
  BY TypeParts
<1>3. BasicInv'
  BY <1>1, <1>2 DEF BasicInv, StartInv, DialInv, ShakeInv, MadeInv, WriteInv, SpinInv, Latest, Is, Calm, WritesTo, Starting, Free, Made, Closing, Polls, Quiet, DataTypes, finish, roleVars, flagVars, tlsVars, serviceVars, ownerVars, netVars
<1>4. StartInv'
  BY <1>1, <1>2 DEF StartInv, BasicInv, DialInv, ShakeInv, MadeInv, WriteInv, SpinInv, Latest, Is, Calm, WritesTo, Starting, Free, Made, Closing, Polls, Quiet, DataTypes, finish, roleVars, flagVars, tlsVars, serviceVars, ownerVars, netVars
<1>5. DialInv'
  BY <1>1, <1>2 DEF DialInv, BasicInv, StartInv, ShakeInv, MadeInv, WriteInv, SpinInv, Latest, Is, Calm, WritesTo, Starting, Free, Made, Closing, Polls, Quiet, DataTypes, finish, roleVars, flagVars, tlsVars, serviceVars, ownerVars, netVars
<1>6. ShakeInv'
  BY <1>1, <1>2 DEF ShakeInv, BasicInv, StartInv, DialInv, MadeInv, WriteInv, SpinInv, Latest, Is, Calm, WritesTo, Starting, Free, Made, Closing, Polls, Quiet, DataTypes, finish, roleVars, flagVars, tlsVars, serviceVars, ownerVars, netVars
<1>7. MadeInv'
  BY <1>1, <1>2 DEF MadeInv, BasicInv, StartInv, DialInv, ShakeInv, WriteInv, SpinInv, Latest, Is, Calm, WritesTo, Starting, Free, Made, Closing, Polls, Quiet, DataTypes, finish, roleVars, flagVars, tlsVars, serviceVars, ownerVars, netVars
<1>8. WriteInv'
  BY <1>1, <1>2 DEF WriteInv, BasicInv, StartInv, DialInv, ShakeInv, MadeInv, SpinInv, Latest, Is, Calm, WritesTo, Starting, Free, Made, Closing, Polls, Quiet, DataTypes, finish, roleVars, flagVars, tlsVars, serviceVars, ownerVars, netVars
<1>9. SpinInv'
  BY <1>1, <1>2 DEF SpinInv, BasicInv, StartInv, DialInv, ShakeInv, MadeInv, WriteInv, Latest, Is, Calm, WritesTo, Starting, Free, Made, Closing, Polls, Quiet, DataTypes, finish, roleVars, flagVars, tlsVars, serviceVars, ownerVars, netVars
<1>10. QED
  BY <1>3, <1>4, <1>5, <1>6, <1>7, <1>8, <1>9 DEF SockInv

LEMMA PeerKeeps ==
    ASSUME TypeOK, TypeOK', SockInv, peerAnswers \/ peerSends \/ peerReads \/ peerLeaves
    PROVE  SockInv'
<1>1. BasicInv /\ StartInv /\ DialInv /\ ShakeInv /\ MadeInv /\ WriteInv /\ SpinInv
  BY DEF SockInv
<1>2. FlagTypes /\ DataTypes
  BY TypeParts
<1>3. BasicInv'
  BY <1>1, <1>2 DEF BasicInv, StartInv, DialInv, ShakeInv, MadeInv, WriteInv, SpinInv, Latest, Is, Calm, WritesTo, Starting, Free, Made, Closing, Polls, Quiet, DataTypes, peerAnswers, peerSends, peerReads, peerLeaves, roleVars, flagVars, tlsVars, serviceVars, ownerVars, netVars
<1>4. StartInv'
  BY <1>1, <1>2 DEF StartInv, BasicInv, DialInv, ShakeInv, MadeInv, WriteInv, SpinInv, Latest, Is, Calm, WritesTo, Starting, Free, Made, Closing, Polls, Quiet, DataTypes, peerAnswers, peerSends, peerReads, peerLeaves, roleVars, flagVars, tlsVars, serviceVars, ownerVars, netVars
<1>5. DialInv'
  BY <1>1, <1>2 DEF DialInv, BasicInv, StartInv, ShakeInv, MadeInv, WriteInv, SpinInv, Latest, Is, Calm, WritesTo, Starting, Free, Made, Closing, Polls, Quiet, DataTypes, peerAnswers, peerSends, peerReads, peerLeaves, roleVars, flagVars, tlsVars, serviceVars, ownerVars, netVars
<1>6. ShakeInv'
  BY <1>1, <1>2 DEF ShakeInv, BasicInv, StartInv, DialInv, MadeInv, WriteInv, SpinInv, Latest, Is, Calm, WritesTo, Starting, Free, Made, Closing, Polls, Quiet, DataTypes, peerAnswers, peerSends, peerReads, peerLeaves, roleVars, flagVars, tlsVars, serviceVars, ownerVars, netVars
<1>7. MadeInv'
  BY <1>1, <1>2 DEF MadeInv, BasicInv, StartInv, DialInv, ShakeInv, WriteInv, SpinInv, Latest, Is, Calm, WritesTo, Starting, Free, Made, Closing, Polls, Quiet, DataTypes, peerAnswers, peerSends, peerReads, peerLeaves, roleVars, flagVars, tlsVars, serviceVars, ownerVars, netVars
<1>8. WriteInv'
  BY <1>1, <1>2 DEF WriteInv, BasicInv, StartInv, DialInv, ShakeInv, MadeInv, SpinInv, Latest, Is, Calm, WritesTo, Starting, Free, Made, Closing, Polls, Quiet, DataTypes, peerAnswers, peerSends, peerReads, peerLeaves, roleVars, flagVars, tlsVars, serviceVars, ownerVars, netVars
<1>9. SpinInv'
  BY <1>1, <1>2 DEF SpinInv, BasicInv, StartInv, DialInv, ShakeInv, MadeInv, WriteInv, Latest, Is, Calm, WritesTo, Starting, Free, Made, Closing, Polls, Quiet, DataTypes, peerAnswers, peerSends, peerReads, peerLeaves, roleVars, flagVars, tlsVars, serviceVars, ownerVars, netVars
<1>10. QED
  BY <1>3, <1>4, <1>5, <1>6, <1>7, <1>8, <1>9 DEF SockInv

LEMMA RestKeeps ==
    ASSUME TypeOK, TypeOK', SockInv, UNCHANGED vars
    PROVE  SockInv'
<1>1. BasicInv /\ StartInv /\ DialInv /\ ShakeInv /\ MadeInv /\ WriteInv /\ SpinInv
  BY DEF SockInv
<1>2. FlagTypes /\ DataTypes
  BY TypeParts
<1>3. BasicInv'
  BY <1>1, <1>2 DEF BasicInv, StartInv, DialInv, ShakeInv, MadeInv, WriteInv, SpinInv, Latest, Is, Calm, WritesTo, Starting, Free, Made, Closing, Polls, Quiet, DataTypes, vars, roleVars, flagVars, tlsVars, serviceVars, ownerVars, netVars
<1>4. StartInv'
  BY <1>1, <1>2 DEF StartInv, BasicInv, DialInv, ShakeInv, MadeInv, WriteInv, SpinInv, Latest, Is, Calm, WritesTo, Starting, Free, Made, Closing, Polls, Quiet, DataTypes, vars, roleVars, flagVars, tlsVars, serviceVars, ownerVars, netVars
<1>5. DialInv'
  BY <1>1, <1>2 DEF DialInv, BasicInv, StartInv, ShakeInv, MadeInv, WriteInv, SpinInv, Latest, Is, Calm, WritesTo, Starting, Free, Made, Closing, Polls, Quiet, DataTypes, vars, roleVars, flagVars, tlsVars, serviceVars, ownerVars, netVars
<1>6. ShakeInv'
  BY <1>1, <1>2 DEF ShakeInv, BasicInv, StartInv, DialInv, MadeInv, WriteInv, SpinInv, Latest, Is, Calm, WritesTo, Starting, Free, Made, Closing, Polls, Quiet, DataTypes, vars, roleVars, flagVars, tlsVars, serviceVars, ownerVars, netVars
<1>7. MadeInv'
  BY <1>1, <1>2 DEF MadeInv, BasicInv, StartInv, DialInv, ShakeInv, WriteInv, SpinInv, Latest, Is, Calm, WritesTo, Starting, Free, Made, Closing, Polls, Quiet, DataTypes, vars, roleVars, flagVars, tlsVars, serviceVars, ownerVars, netVars
<1>8. WriteInv'
  BY <1>1, <1>2 DEF WriteInv, BasicInv, StartInv, DialInv, ShakeInv, MadeInv, SpinInv, Latest, Is, Calm, WritesTo, Starting, Free, Made, Closing, Polls, Quiet, DataTypes, vars, roleVars, flagVars, tlsVars, serviceVars, ownerVars, netVars
<1>9. SpinInv'
  BY <1>1, <1>2 DEF SpinInv, BasicInv, StartInv, DialInv, ShakeInv, MadeInv, WriteInv, Latest, Is, Calm, WritesTo, Starting, Free, Made, Closing, Polls, Quiet, DataTypes, vars, roleVars, flagVars, tlsVars, serviceVars, ownerVars, netVars
<1>10. QED
  BY <1>3, <1>4, <1>5, <1>6, <1>7, <1>8, <1>9 DEF SockInv

LEMMA SockInit == Init => SockInv
<1> SUFFICES ASSUME Init PROVE SockInv
  OBVIOUS
<1>1. /\ dialled \in BOOLEAN /\ tls \in BOOLEAN /\ open /\ ~secureReady /\ ssl = "new" /\ events = {} /\ output = 0
      /\ job = NoJob /\ service = "idle" /\ ~heard
      /\ connected = ~dialled /\ readable = ~dialled /\ writable = ~dialled
      /\ owner = IF dialled THEN "unconnected" ELSE IF tls THEN "setBuilt" ELSE "set"
      /\ told = (~dialled /\ ~tls) /\ peer = IF dialled THEN "away" ELSE "there"
  BY DEF Init
<1>2. dialled \/ (Is(pending, "connected") /\ pending.read /\ ~pending.write)
  <2>1. CASE ~dialled
    <3>1. pending = plainJob(TRUE, TRUE, TRUE, TRUE, 0)
      BY <2>1 DEF Init
    <3>2. pending = Method("connected", TRUE, FALSE)
      <4>1. (TRUE /\ (TRUE => 0 > 0)) = FALSE
        OBVIOUS
      <4>2. pending = IF TRUE /\ (TRUE \/ (TRUE /\ (TRUE => 0 > 0)))
                      THEN Method(IF TRUE THEN "connected" ELSE "connecting", TRUE, (TRUE /\ (TRUE => 0 > 0)))
                      ELSE NoJob
        BY <3>1 DEF plainJob
      <4>3. QED
        BY <4>1, <4>2
    <3>3. QED
      BY <3>2, JobIs DEF Is
  <2>2. QED
    BY <2>1
<1>3. CASE dialled
  <2>1. /\ ~told /\ owner = "unconnected" /\ ~connected /\ ~readable /\ ~writable /\ open /\ ~secureReady /\ ssl = "new"
        /\ events = {} /\ ~(output > 0) /\ job = NoJob /\ service = "idle"
    <3>1. ~told
      BY <1>1, <1>3, Zenon
    <3>2. ~connected /\ ~readable /\ ~writable
      BY <1>1, <1>3, Zenon
    <3>3. ~(output > 0)
      BY <1>1, SMT
    <3>4. owner = "unconnected"
      BY <1>1, <1>3
    <3>5. QED
      BY <1>1, <3>1, <3>2, <3>3, <3>4
  <2>2. BasicInv /\ StartInv
    BY <1>3, <2>1 DEF BasicInv, StartInv, Latest, Is, Calm, WritesTo, Starting, Free, Made, Closing, Polls, Quiet
  <2>3. DialInv /\ ShakeInv /\ MadeInv
    BY <1>3, <2>1 DEF DialInv, ShakeInv, MadeInv, Latest, Is, Calm, WritesTo, Starting, Free, Made, Closing, Polls, Quiet
  <2>4. WriteInv /\ SpinInv
    BY <1>3, <2>1 DEF WriteInv, SpinInv, Latest, Is, Calm, WritesTo, Starting, Free, Made, Closing, Polls, Quiet
  <2>5. QED
    BY <2>2, <2>3, <2>4 DEF SockInv
<1>4. CASE ~dialled
  BY <1>1, <1>2, <1>4 DEF SockInv, BasicInv, StartInv, DialInv, ShakeInv, MadeInv, WriteInv, SpinInv, Latest, Is,
                          Calm, WritesTo, Starting, Free, Made, Closing, Polls, Quiet
<1>5. QED
  BY <1>3, <1>4

LEMMA SockNext == TypeOK /\ CloseInv /\ SockInv /\ [Next]_vars => SockInv'
<1> SUFFICES ASSUME TypeOK, CloseInv, SockInv, [Next]_vars PROVE SockInv'
  OBVIOUS
<1>1. TypeOK'
  BY TypeNext
<1>2. CASE OwnerStep
  BY <1>1, <1>2, GiveKeeps, AskKeeps, BuildKeeps, AcceptKeeps, ConnectKeeps, HandleKeeps, ReadKeeps, WriteKeeps,
     FlushKeeps, CloseKeeps, FreeKeeps, ShutKeeps DEF OwnerStep, OwnerGoesOn
<1>3. CASE ServiceStep
  BY <1>1, <1>3, PickKeeps, DialKeeps, ShakeKeeps, ServeKeeps, TakeKeeps, FinishKeeps DEF ServiceStep
<1>4. CASE peerAnswers \/ peerSends \/ peerReads \/ peerLeaves
  BY <1>1, <1>4, PeerKeeps
<1>5. CASE UNCHANGED vars
  BY <1>1, <1>5, RestKeeps
<1>6. QED
  BY <1>2, <1>3, <1>4, <1>5 DEF Next

\* Output is polled for, and the service thread does not spin while input is open.
THEOREM SocketPolls == Spec => [](OutputPolled /\ NoIdleSpin)
<1>1. SockInv => OutputPolled /\ NoIdleSpin
  BY DEF SockInv, WriteInv, SpinInv, OutputPolled, NoIdleSpin, Latest, WritesTo, Is, Polls
<1>2. QED
  BY <1>1, SockInit, SockNext, TypeInit, TypeNext, CloseInit, CloseNext, PTL DEF Spec
=============================================================================
