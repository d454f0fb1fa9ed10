------------------------------ MODULE TCPSocket ------------------------------
(***************************************************************************)
(* A data socket, plain (lib/net/TCPSocket.cpp) or with TLS around it       *)
(* (lib/net/SecureSocket.cpp), between its owner, the event loop, and the   *)
(* service thread of the multiplexer, which runs the socket's job.  The     *)
(* multiplexer is what JobTable says of it: the owner sets a job only while *)
(* none runs.  One action is what is done under m_mutex, or between two     *)
(* locks; newJob() is called by the owner without the mutex.                *)
(***************************************************************************)
EXTENDS Naturals

CONSTANTS
    NoJob,
    MaxWrites,      \* units the owner writes in a behavior
    MaxArrivals     \* units the peer sends

VARIABLES
    tls,            \* the socket is a SecureSocket
    dialled,        \* it is a client's
    open,           \* m_socket is there
    connected, readable, writable, flushed,
    input, output,  \* units in m_inputBuffer and m_outputBuffer
    secureReady,    \* m_secureReady
    fatal,          \* m_fatal
    ssl,            \* m_ssl: not made, usable, freed
    sslLocked,      \* the owner holds ssl_mutex_
    events,         \* kinds of events in the queue with this socket as target
    job,            \* the socket's job in the multiplexer
    service,        \* where the service thread is with that job
    polled,         \* what the poll said of it
    result,         \* writeResult
    returned,       \* what the job returns
    owner,          \* where the owner is
    pending,        \* the job the owner is about to set
    told,           \* the owner was told that it can use the socket
    heard,          \* the owner was told that it cannot any more
    wire,           \* units that arrived and are not read
    peer,           \* the other end: not there yet, refused, there, finished, broken
    window,         \* the network takes output
    toWrite, toSend \* what is left of the bounds

roleVars == <<tls, dialled>>
flagVars == <<open, connected, readable, writable, flushed, input, output>>
tlsVars == <<secureReady, fatal, ssl, sslLocked>>
serviceVars == <<service, polled, result, returned>>
ownerVars == <<owner, pending, told, heard, toWrite>>
netVars == <<wire, peer, window, toSend>>
vars == <<roleVars, flagVars, tlsVars, events, job, serviceVars, ownerVars, netVars>>

Job == [service : {"connecting", "connected", "handshake"}, read : BOOLEAN, write : BOOLEAN]

ASSUME TCPSocketAssumption == {MaxWrites, MaxArrivals} \subseteq Nat /\ NoJob \notin Job

Method(kind, r, w) == [service |-> kind, read |-> r, write |-> w]

Poll == [read : BOOLEAN, write : BOOLEAN, error : BOOLEAN]

\* Kinds of events somebody handles; those that say the socket is of no use any more.
LossEvents == {"ConnectionFailed", "SecureFailed", "InputShutdown", "OutputShutdown",
               "OutputError", "Disconnected"}
EventKinds == LossEvents \cup {"Connected", "Secured", "InputReady"}

Closing == {"removeSsl", "remove", "close", "closed"}
OwnerLabels == Closing \cup
    {"unconnected", "setBuilt", "building", "built", "ask", "set", "idle", "drain", "flush"}

\* Every variable has its type.
TypeOK ==
    /\ tls \in BOOLEAN /\ dialled \in BOOLEAN
    /\ open \in BOOLEAN /\ connected \in BOOLEAN /\ readable \in BOOLEAN
    /\ writable \in BOOLEAN /\ flushed \in BOOLEAN
    /\ input \in Nat /\ output \in Nat
    /\ secureReady \in BOOLEAN /\ fatal \in BOOLEAN /\ sslLocked \in BOOLEAN
    /\ ssl \in {"new", "made", "freed"}
    /\ events \subseteq EventKinds
    /\ job \in Job \cup {NoJob} /\ returned \in Job \cup {NoJob} /\ pending \in Job \cup {NoJob}
    /\ service \in {"idle", "picked", "reading", "done"}
    /\ polled \in Poll /\ result \in {"Retry", "New", "Break"}
    /\ owner \in OwnerLabels /\ told \in BOOLEAN /\ heard \in BOOLEAN
    /\ wire \in Nat /\ peer \in {"away", "refused", "there", "finished", "broken"}
    /\ window \in BOOLEAN
    /\ toWrite \in Nat /\ toSend \in Nat

------------------------------------------------------------------------------
(* Helpers.                                                                    *)

\* m_mutex is free: the service thread has it only while it reads and writes.
Unlocked == service # "reading"

sendEvents(kinds) == events' = events \cup kinds

onConnected == connected' = TRUE /\ readable' = TRUE /\ writable' = TRUE

\* Both directions are shut down and the buffers emptied; a flush is over.
onDisconnected ==
    /\ connected' = FALSE /\ readable' = FALSE /\ writable' = FALSE
    /\ input' = 0 /\ output' = 0
    /\ flushed' = TRUE

\* The job of a plain socket with these flags.
plainJob(isOpen, conn, r, w, out) ==
    LET w1 == w /\ (conn => out > 0)
    IN  IF isOpen /\ (r \/ w1)
        THEN Method(IF conn THEN "connected" ELSE "connecting", r, w1)
        ELSE NoJob

\* Mutant: output is not polled for while input is.
newJobReadOnly(conn, r, w, out) == plainJob(open, conn, r, w /\ ~r, out)

\* With TLS there is none between connecting and the handshake.
newJob(conn, r, w, out) ==
    IF tls /\ conn /\ ~secureReady
    THEN IF ssl = "made" THEN Method("handshake", r, w) ELSE NoJob
    ELSE plainJob(open, conn, r, w, out)

\* The job for the state a step of the service thread ends in.
returnNew == returned' = newJob(connected', readable', writable', output')

\* The service thread calls the functions of SecureSocket, once there is one.
Secure == tls /\ owner # "building"

------------------------------------------------------------------------------
(* The owner: construction and connecting.                                     *)

\* A client's socket is made unconnected.  A server's is made from an accepted
\* connection: the constructor of TCPSocket enters the connected state and sets
\* a job before the SecureSocket is built around it.
Init ==
    /\ tls \in BOOLEAN /\ dialled \in BOOLEAN
    /\ open = TRUE
    /\ connected = ~dialled /\ readable = ~dialled /\ writable = ~dialled
    /\ flushed = TRUE /\ input = 0 /\ output = 0
    /\ secureReady = FALSE /\ fatal = FALSE /\ ssl = "new" /\ sslLocked = FALSE
    /\ events = {}
    /\ job = NoJob /\ service = "idle" /\ result = "Retry" /\ returned = NoJob
    /\ polled = [read |-> FALSE, write |-> FALSE, error |-> FALSE]
    /\ owner = IF dialled THEN "unconnected" ELSE IF tls THEN "setBuilt" ELSE "set"
    /\ pending = IF dialled THEN NoJob ELSE plainJob(TRUE, TRUE, TRUE, TRUE, 0)
    /\ told = (~dialled /\ ~tls) /\ heard = FALSE
    /\ wire = 0 /\ window = TRUE /\ peer = IF dialled THEN "away" ELSE "there"
    /\ toWrite = MaxWrites /\ toSend = MaxArrivals

\* Mutant: the service thread is not waited for.
setJobAtOnce(j) == job' = j

\* addSocket and removeSocket: the owner has the job list, so no job runs.
setJob(j) == service = "idle" /\ job' = j

\* The owner sets the job it asked for.
giveJob ==
    /\ owner \in {"set", "setBuilt"}
    /\ setJob(pending)
    /\ owner' = IF owner = "set" THEN "idle" ELSE "building"
    /\ pending' = NoJob
    /\ UNCHANGED <<roleVars, flagVars, tlsVars, events, serviceVars, told, heard, toWrite, netVars>>

\* newJob() without the mutex: the service thread may be at work.
askJob ==
    /\ owner = "ask"
    /\ pending' = newJob(connected, readable, writable, output)
    /\ owner' = "set"
    /\ UNCHANGED <<roleVars, flagVars, tlsVars, events, job, serviceVars, told, heard, toWrite, netVars>>

\* The constructor of SecureSocket has run.
build ==
    /\ owner = "building"
    /\ owner' = "built"
    /\ UNCHANGED <<roleVars, flagVars, tlsVars, events, job, serviceVars,
                   pending, told, heard, toWrite, netVars>>

\* close() begins; with TLS it takes ssl_mutex_ and keeps it.
beginClose ==
    /\ owner' = IF tls THEN "removeSsl" ELSE "remove"
    /\ fatal' = (fatal \/ tls) /\ sslLocked' = tls

\* The handshake of an accepted socket begins, or its certificate cannot be loaded
\* and it is deleted.
secureAccept ==
    /\ owner = "built"
    /\ \/ /\ pending' = Method("handshake", readable, writable)
          /\ owner' = "set"
          /\ UNCHANGED <<fatal, sslLocked>>
       \/ beginClose /\ UNCHANGED pending
    /\ UNCHANGED <<roleVars, flagVars, secureReady, ssl, events, job, serviceVars,
                   told, heard, toWrite, netVars>>

\* Connected at once, in progress, or an exception on which the client deletes the
\* socket.
connect ==
    /\ owner = "unconnected" /\ Unlocked
    /\ \/ /\ onConnected /\ sendEvents({"Connected"})
          /\ peer' = "there" /\ owner' = "ask"
          /\ UNCHANGED <<fatal, sslLocked>>
       \/ /\ writable' = TRUE /\ owner' = "ask"
          /\ UNCHANGED <<connected, readable, events, peer, fatal, sslLocked>>
       \/ /\ beginClose
          /\ UNCHANGED <<connected, readable, writable, events, peer>>
    /\ UNCHANGED <<roleVars, open, flushed, input, output, secureReady, ssl, job, serviceVars,
                   pending, told, heard, toWrite, wire, window, toSend>>

------------------------------------------------------------------------------
(* The owner: events, reading, writing and closing.                            *)

\* An event is taken out of the queue.  On a connection with TLS the handshake
\* begins.
handleEvent ==
    /\ owner = "idle"
    /\ \E e \in events :
        /\ events' = events \ {e}
        /\ \/ e = "InputReady" /\ owner' = "drain" /\ UNCHANGED pending
           \/ /\ e = "Connected" /\ tls /\ open
              /\ pending' = Method("handshake", readable, writable)
              /\ owner' = "set"
           \/ /\ e # "InputReady" /\ ~(e = "Connected" /\ tls /\ open)
              /\ UNCHANGED <<owner, pending>>
        /\ told' = (told \/ e = "Secured" \/ (e = "Connected" /\ ~tls))
        /\ heard' = (heard \/ e \in LossEvents)
    /\ UNCHANGED <<roleVars, flagVars, tlsVars, job, serviceVars, toWrite, netVars>>

\* The filter above reads until it gets nothing.
read ==
    /\ owner = "drain" /\ Unlocked
    /\ \/ input = 0 /\ owner' = "idle" /\ UNCHANGED <<input, connected, events>>
       \/ /\ input > 0 /\ input' = input - 1
          /\ IF input' = 0 /\ ~readable /\ ~writable
             THEN connected' = FALSE /\ sendEvents({"Disconnected"})
             ELSE UNCHANGED <<connected, events>>
          /\ UNCHANGED owner
    /\ UNCHANGED <<roleVars, open, readable, writable, flushed, output, tlsVars, job, serviceVars,
                   pending, told, heard, toWrite, netVars>>

write ==
    /\ owner = "idle" /\ told /\ Unlocked
    /\ toWrite > 0 /\ toWrite' = toWrite - 1
    /\ \/ ~writable /\ sendEvents({"OutputError"}) /\ UNCHANGED <<output, flushed, owner>>
       \/ /\ writable
          /\ output' = output + 1 /\ flushed' = FALSE
          /\ owner' = IF output = 0 THEN "ask" ELSE owner
          /\ UNCHANGED events
    /\ UNCHANGED <<roleVars, open, connected, readable, writable, input, tlsVars, job, serviceVars,
                   pending, told, heard, netVars>>

\* A flush that has to wait.
flush ==
    /\ owner = "idle" /\ told /\ Unlocked /\ ~flushed
    /\ owner' = "flush"
    /\ UNCHANGED <<roleVars, flagVars, tlsVars, events, job, serviceVars,
                   pending, told, heard, toWrite, netVars>>

flushReturns ==
    /\ owner = "flush" /\ Unlocked /\ flushed
    /\ owner' = "idle"
    /\ UNCHANGED <<roleVars, flagVars, tlsVars, events, job, serviceVars,
                   pending, told, heard, toWrite, netVars>>

close ==
    /\ owner = "idle"
    /\ beginClose
    /\ UNCHANGED <<roleVars, flagVars, secureReady, ssl, events, job, serviceVars,
                   pending, told, heard, toWrite, netVars>>

\* Mutant: the TLS state is freed before the job is taken away.
freeSSLFirst ==
    /\ owner = "removeSsl"
    /\ ssl' = "freed" /\ sslLocked' = FALSE
    /\ owner' = "remove"
    /\ UNCHANGED <<roleVars, flagVars, secureReady, fatal, events, job, serviceVars,
                   pending, told, heard, toWrite, netVars>>

\* freeSSL: ssl_mutex_ is held while the job is taken away.
freeSSL ==
    /\ owner = "removeSsl"
    /\ setJob(NoJob)
    /\ ssl' = "freed" /\ sslLocked' = FALSE
    /\ owner' = "remove"
    /\ UNCHANGED <<roleVars, flagVars, secureReady, fatal, events, serviceVars,
                   pending, told, heard, toWrite, netVars>>

removeJob ==
    /\ owner = "remove"
    /\ setJob(NoJob)
    /\ owner' = "close"
    /\ UNCHANGED <<roleVars, flagVars, tlsVars, events, serviceVars, pending, told, heard, toWrite, netVars>>

\* The buffers are emptied and the socket closed; it may be deleted then.
closeSocket ==
    /\ owner = "close" /\ Unlocked
    /\ sendEvents(IF connected THEN {"Disconnected"} ELSE {})
    /\ onDisconnected
    /\ open' = FALSE
    /\ owner' = "closed"
    /\ UNCHANGED <<roleVars, tlsVars, job, serviceVars, pending, told, heard, toWrite, netVars>>

------------------------------------------------------------------------------
(* The service thread.                                                         *)

\* The poll finds something for the job; the thread keeps the list until the job
\* has returned.
pick ==
    /\ service = "idle" /\ job # NoJob
    /\ polled' \in
        [read : {job.read /\ (wire > 0 \/ peer \in {"finished", "broken"})},
         write : {job.write /\ peer # "away" /\ (window \/ peer \in {"refused", "broken"})},
         error : {e \in BOOLEAN : e => peer \in {"refused", "broken"}}]
    /\ TRUE \in {polled'.read, polled'.write, polled'.error}
    /\ service' = "picked"
    /\ UNCHANGED <<roleVars, flagVars, tlsVars, events, job, result, returned, ownerVars, netVars>>

serviceConnecting ==
    /\ service = "picked" /\ job.service = "connecting"
    /\ \/ /\ peer \in {"refused", "broken"}
          /\ sendEvents({"ConnectionFailed"}) /\ onDisconnected
          /\ returnNew
       \/ /\ peer \notin {"refused", "broken"} /\ polled.write
          /\ sendEvents({"Connected"}) /\ onConnected
          /\ UNCHANGED <<input, output, flushed>>
          /\ returnNew
       \/ /\ peer \notin {"refused", "broken"} /\ ~polled.write
          /\ returned' = job
          /\ UNCHANGED <<events, connected, readable, writable, input, output, flushed>>
    /\ service' = "done"
    /\ UNCHANGED <<roleVars, open, tlsVars, job, polled, result, ownerVars, netVars>>

\* The handshake needs more of the peer: one direction is polled for.
handshakeRetries ==
    /\ readable' \in BOOLEAN /\ writable' = ~readable'
    /\ ssl' = "made"
    /\ returned' = Method("handshake", readable', writable')
    /\ UNCHANGED <<events, connected, secureReady, fatal>>

\* It succeeds.  If bytes were read before it began it cannot.
handshakeDone ==
    /\ input = 0
    /\ readable' = TRUE /\ writable' = TRUE /\ secureReady' = TRUE
    /\ ssl' = "made"
    /\ sendEvents({"Secured"})
    /\ returned' = plainJob(open, connected, TRUE, TRUE, output)
    /\ UNCHANGED <<connected, fatal>>

\* It fails, on a client also after it, when the fingerprint is not trusted: neither
\* direction is polled for any more.
handshakeFails ==
    /\ readable' = FALSE /\ writable' = FALSE
    /\ fatal' \in {fatal, TRUE}
    /\ secureReady' \in {secureReady, dialled}
    /\ ssl' \in {ssl, "made"}
    /\ sendEvents({"Disconnected", "InputShutdown"} \cup IF dialled THEN {} ELSE {"SecureFailed"})
    /\ returned' = NoJob
    /\ UNCHANGED connected

\* One step of the handshake.
serviceHandshake ==
    /\ service = "picked" /\ job.service = "handshake" /\ ~sslLocked
    /\ \/ peer = "there" /\ (handshakeRetries \/ handshakeDone)
       \/ handshakeFails
    /\ wire' = 0
    /\ service' = "done"
    /\ UNCHANGED <<roleVars, open, flushed, input, output, sslLocked, job, polled, result,
                   ownerVars, peer, window, toSend>>

\* The part of serviceConnected before it reads.
Untouched == UNCHANGED <<events, connected, readable, writable, input, output, flushed, fatal, window>>

\* Some output or all of it goes; who flushes is woken when nothing is left.
writes ==
    \E n \in 1..output :
        /\ output' = output - n
        /\ flushed' = (flushed \/ output' = 0)
        /\ window' \in {TRUE, FALSE}
        /\ result' = "New"
        /\ UNCHANGED <<events, connected, readable, writable, input, fatal>>

\* A write error: the peer does not read any more, or the connection is gone.
outputShutDown ==
    /\ writable' = FALSE /\ output' = 0 /\ flushed' = TRUE
    /\ IF ~readable /\ input = 0
       THEN connected' = FALSE /\ sendEvents({"OutputShutdown", "Disconnected"})
       ELSE UNCHANGED connected /\ sendEvents({"OutputShutdown"})
    /\ result' = "New"
    /\ UNCHANGED <<readable, input, fatal, window>>

hungUp ==
    /\ \E kinds \in {{"Disconnected"}, {"OutputError", "Disconnected"}} : sendEvents(kinds)
    /\ onDisconnected
    /\ result' = "New"
    /\ UNCHANGED <<fatal, window>>

\* A TLS error after the handshake leaves the flags and the buffers alone.
tlsFails ==
    /\ fatal' = TRUE
    /\ sendEvents({"Disconnected", "InputShutdown"})
    /\ result' = "Break"
    /\ UNCHANGED <<connected, readable, writable, input, output, flushed, window>>

doWrite ==
    IF Secure
    THEN \/ (~secureReady \/ output = 0) /\ result' = "Retry" /\ Untouched
         \/ secureReady /\ output > 0 /\ ~fatal /\ peer # "broken" /\ writes
         \/ secureReady /\ output > 0 /\ (fatal \/ peer = "broken") /\ tlsFails
    ELSE \/ output = 0 /\ result' = "Retry" /\ Untouched
         \/ output > 0 /\ peer # "broken" /\ writes
         \/ output > 0 /\ peer = "broken" /\ (outputShutDown \/ hungUp)

\* serviceConnected up to its reading.
serviceConnected ==
    /\ service = "picked" /\ job.service = "connected"
    /\ \/ /\ polled.error
          /\ sendEvents({"Disconnected"}) /\ onDisconnected
          /\ returnNew
          /\ service' = "done"
          /\ UNCHANGED <<result, fatal, window>>
       \/ /\ ~polled.error /\ (Secure /\ polled.write => ~sslLocked)
          /\ IF polled.write THEN doWrite ELSE result' = "Retry" /\ Untouched
          /\ service' = "reading"
          /\ UNCHANGED returned
    /\ UNCHANGED <<roleVars, open, secureReady, ssl, sslLocked, job, polled, ownerVars, wire, peer, toSend>>

\* How serviceConnected ends, given what reading came to.
returns(readResult) ==
    \/ "Break" \in {readResult, result} /\ returned' = NoJob
    \/ "Break" \notin {readResult, result} /\ "New" \in {readResult, result} /\ returnNew
    \/ {readResult, result} = {"Retry"} /\ returned' = job

\* What arrived is taken, and announced if there was nothing before.
slurp ==
    /\ input' = input + wire /\ wire' = 0
    /\ sendEvents(IF input = 0 THEN {"InputReady"} ELSE {})

\* The end of the stream.
inputEnds ==
    /\ readable' = FALSE
    /\ IF ~writable /\ input = 0
       THEN connected' = FALSE /\ sendEvents({"InputShutdown", "Disconnected"})
       ELSE UNCHANGED connected /\ sendEvents({"InputShutdown"})
    /\ UNCHANGED <<writable, input, output, flushed>>

doReadPlain ==
    \/ /\ wire > 0 /\ slurp
       /\ UNCHANGED <<connected, readable, writable, output, flushed, fatal>>
       /\ returns("Retry")
    \/ /\ wire = 0 /\ peer = "finished" /\ inputEnds
       /\ UNCHANGED <<wire, fatal>>
       /\ returns("New")
    \/ /\ wire = 0 /\ peer = "broken" /\ sendEvents({"Disconnected"}) /\ onDisconnected
       /\ UNCHANGED <<wire, fatal>>
       /\ returns("New")

\* If the stream ends right after the last data, the data is not announced.
doReadSecure ==
    \/ /\ ~secureReady
       /\ UNCHANGED <<events, connected, readable, writable, input, output, flushed, wire, fatal>>
       /\ returns("Retry")
    \/ /\ secureReady /\ peer = "there" /\ ~fatal /\ slurp
       /\ UNCHANGED <<connected, readable, writable, output, flushed, fatal>>
       /\ returns("Retry")
    \/ /\ secureReady /\ (peer # "there" \/ fatal)
       /\ input' = (IF fatal THEN input ELSE input + wire) /\ wire' = 0
       /\ fatal' = TRUE /\ sendEvents({"Disconnected", "InputShutdown"})
       /\ UNCHANGED <<connected, readable, writable, output, flushed>>
       /\ returns("Break")

\* The reading part, still under the mutex.
serviceReads ==
    /\ service = "reading"
    /\ \/ /\ ~(polled.read /\ readable)
          /\ UNCHANGED <<events, connected, readable, writable, input, output, flushed, wire, fatal>>
          /\ returns("Retry")
       \/ polled.read /\ readable /\ ~Secure /\ doReadPlain
       \/ polled.read /\ readable /\ Secure /\ ~sslLocked /\ doReadSecure
    /\ service' = "done"
    /\ UNCHANGED <<roleVars, open, secureReady, ssl, sslLocked, job, polled, result, ownerVars,
                   peer, window, toSend>>

\* The list node gets what the job returned, and the list is let go.
finish ==
    /\ service = "done"
    /\ job' = returned
    /\ service' = "idle"
    /\ returned' = NoJob
    /\ UNCHANGED <<roleVars, flagVars, tlsVars, events, polled, result, ownerVars, netVars>>

------------------------------------------------------------------------------
(* The other end.                                                              *)

peerAnswers ==
    /\ peer = "away" /\ owner # "unconnected"
    /\ peer' \in {"there", "refused"}
    /\ UNCHANGED <<roleVars, flagVars, tlsVars, events, job, serviceVars, ownerVars, wire, window, toSend>>

peerSends ==
    /\ peer = "there" /\ toSend > 0
    /\ toSend' = toSend - 1 /\ wire' = wire + 1
    /\ UNCHANGED <<roleVars, flagVars, tlsVars, events, job, serviceVars, ownerVars, peer, window>>

peerReads ==
    /\ peer \in {"there", "finished"} /\ ~window
    /\ window' = TRUE
    /\ UNCHANGED <<roleVars, flagVars, tlsVars, events, job, serviceVars, ownerVars, wire, peer, toSend>>

\* It ends its stream, or the connection breaks and what was on its way is lost.
peerLeaves ==
    /\ peer \in {"there", "finished"}
    /\ \/ peer = "there" /\ peer' = "finished" /\ UNCHANGED wire
       \/ peer' = "broken" /\ wire' = 0
    /\ UNCHANGED <<roleVars, flagVars, tlsVars, events, job, serviceVars, ownerVars, window, toSend>>

------------------------------------------------------------------------------
\* What the owner goes on with by itself.
OwnerGoesOn ==
    \/ giveJob \/ askJob \/ build \/ secureAccept
    \/ read \/ flushReturns
    \/ freeSSL \/ removeJob \/ closeSocket

OwnerStep == OwnerGoesOn \/ connect \/ handleEvent \/ write \/ flush \/ close

ServiceStep ==
    \/ pick \/ serviceConnecting \/ serviceHandshake \/ serviceConnected \/ serviceReads \/ finish

Next == OwnerStep \/ ServiceStep \/ peerAnswers \/ peerSends \/ peerReads \/ peerLeaves

\* The threads run and the loop handles events; the multiplexer lets a caller that waits
\* have its list (LockedOutReturns in SocketMultiplexer), and the mutex is not kept from
\* the owner for ever.  Nothing says that a peer reads.
Spec ==
    /\ Init /\ [][Next]_vars
    /\ SF_vars(OwnerGoesOn) /\ WF_vars(handleEvent)
    /\ WF_vars(ServiceStep)

------------------------------------------------------------------------------
(* Properties.                                                                 *)

\* Nothing stays unsent for want of a job: what the owner wrote is polled for, whatever
\* the two threads chose last, unless TLS has given up or the owner is about to set
\* the job.
OutputPolled ==
    output > 0 /\ connected /\ writable /\ ~fatal /\ service = "idle" /\ owner \notin Closing \cup {"ask", "set"}
        => job # NoJob /\ job.write

\* While input is open the service thread does not spin: it polls for writing only if
\* there is something to write.  (A job set from flags that were stale makes it spin
\* once the input has ended, until the owner closes the socket.)
NoIdleSpin ==
    job # NoJob /\ job.service = "connected" /\ connected /\ readable /\ service = "idle"
        /\ owner \notin Closing \cup {"ask", "set"}
        => job.read /\ (job.write => output > 0)

\* Input of a plain socket is announced: the event is in the queue or its handler is
\* reading.
InputAnnounced ==
    ~tls /\ input > 0 => "InputReady" \in events \/ owner = "drain" \/ owner \in Closing

\* The service thread never works with TLS state that was freed.
SslUsedAlive == tls /\ service \in {"picked", "reading"} => ssl # "freed"

\* A socket that was closed has no job and none running: it can be deleted.
ClosedLeftAlone == owner \in {"close", "closed"} => job = NoJob /\ service = "idle"

\* What the owner takes away, the TLS state first and then the socket, the service thread does
\* not use any more (SecureSocket::freeSSL, TCPSocket::close).
ClosedSafely == SslUsedAlive /\ ClosedLeftAlone

\* The peer is there and takes nothing: neither does the network then.
Unread == peer \in {"there", "finished"} /\ ~window

\* The service thread waits for ssl_mutex_, which the owner holds while it waits for the
\* list of jobs, which the service thread holds.
Deadlocked ==
    /\ sslLocked /\ Secure
    /\ \/ service = "picked" /\ job.service = "handshake"
       \/ service = "picked" /\ job.service = "connected" /\ ~polled.error /\ polled.write
       \/ service = "reading" /\ polled.read /\ readable

\* TLS has failed with output left, and nobody wakes who flushes it.
LeftUnflushed == owner = "flush" /\ tls /\ fatal

\* The owner is neither in flush() nor in close(), unless TLS keeps it there.
NotDetained == owner \in {"flush", "removeSsl", "remove", "close"} => Deadlocked \/ LeftUnflushed

\* A connection that was refused, ended or broke was reported, unless the owner closes the
\* socket, or flushes after TLS gave up.
LossHeard ==
    peer \in {"refused", "finished", "broken"} => heard \/ owner \in Closing \/ LeftUnflushed

\* Whoever flushes or closes a socket returns, and no loss of the connection stays unheard,
\* unless a flush waits for a peer that keeps the connection and never reads.  With TLS a
\* flush that is under way when TLS fails does not return either, nor does a close that meets
\* the service thread in need of ssl_mutex_ (TCPSocket::flush, SecureSocket::freeSSL).
SocketAnswers == <>[](owner = "flush" /\ Unread) \/ []<>(NotDetained /\ LossHeard)
=============================================================================
