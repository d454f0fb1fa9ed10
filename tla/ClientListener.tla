---------------------------- MODULE ClientListener ----------------------------
(***************************************************************************)
(* The server's listener (lib/server/ClientListener.cpp): the listening     *)
(* socket (lib/net/TCPListenSocket.cpp, SecureListenSocket.cpp), clients    *)
(* that are not known yet (lib/server/ClientProxyUnknown.cpp), and those    *)
(* that wait for ServerApp to give them to the server.                      *)
(*                                                                         *)
(* The event loop takes events from one queue in order; the service thread  *)
(* adds events about sockets at any time, timers fire at any time.  A step  *)
(* is the handling of one event.  An object is named by its connection.     *)
(***************************************************************************)
EXTENDS Naturals, Sequences, FiniteSets, SequencesExt

CONSTANTS
    Conns,
    NoConn,
    AcceptFails,    \* accepting may fail, and the listening socket may break
    Stops           \* the listener is deleted at some time

\* What the constants may be.
ListenerAssumption == NoConn \notin Conns /\ AcceptFails \in BOOLEAN /\ Stops \in BOOLEAN

VARIABLES
    tls,
    listenJob,      \* the listening socket's job: there, taken away until accept(), stuck
    socket,         \* per connection: not there, waiting in the system, open, closed, deleted
    peer,           \* what the client did last: connect, get through, reply, inform, leave
    clientSockets,  \* m_clientSockets
    newClients,     \* m_newClients: the ClientProxyUnknown objects
    waitingClients, \* m_waitingClients
    stream,         \* m_stream of the unknown client is set
    ready,          \* its m_ready
    timer,          \* its timer runs
    proxy,          \* the ClientProxy: none, shaking hands, ready, hung up, deleted
    owner,          \* who has the pointer to it
    deafUnknown,    \* unknown clients whose stream handlers are removed
    strayHandlers,  \* whose handlers for the proxy are left, the proxy is not
    events,         \* the event queue
    stopped,
    corrupt         \* a deleted object was used: the run is not followed further

sockVars == <<tls, listenJob, socket, peer, clientSockets>>
unknownVars == <<newClients, stream, ready, timer, deafUnknown, strayHandlers>>
proxyVars == <<waitingClients, proxy, owner>>
vars == <<sockVars, unknownVars, proxyVars, events, stopped, corrupt>>

SocketEvents == {"Accepted", "DisconnectedOnAccept"}
StreamEvents == {"HelloBack", "BadHello", "Info", "Gone"}
OtherEvents == {"Success", "Failure", "Ready", "Disconnected"}
Event == [kind : SocketEvents \cup StreamEvents \cup OtherEvents, conn : Conns]
    \cup [kind : {"Connecting", "Handover"}, conn : {NoConn}]

\* Every variable has its type.
TypeOK ==
    /\ tls \in BOOLEAN /\ stopped \in BOOLEAN /\ corrupt \in BOOLEAN
    /\ listenJob \in {"set", "taken", "lost", "stuck"}
    /\ socket \in [Conns -> {"none", "backlog", "open", "closed", "deleted"}]
    /\ peer \in [Conns -> {"connecting", "silent", "replied", "informed", "left"}]
    /\ clientSockets \subseteq Conns /\ newClients \subseteq Conns
    /\ waitingClients \in Seq(Conns)
    /\ stream \subseteq Conns /\ ready \subseteq Conns /\ timer \subseteq Conns
    /\ deafUnknown \subseteq Conns /\ strayHandlers \subseteq Conns
    /\ proxy \in [Conns -> {"none", "handshake", "ready", "hungUp", "deleted"}]
    /\ owner \in [Conns -> {"nobody", "unknown", "listener", "server"}]
    /\ events \in Seq(Event)

------------------------------------------------------------------------------
Ev(kind, c) == [kind |-> kind, conn |-> c]

\* The event loop goes on.
Running == ~corrupt

\* The event at the head of the queue is of this kind; it is taken.
Takes(kind, c) == Running /\ events # <<>> /\ Head(events) = Ev(kind, c)

Init ==
    /\ tls \in BOOLEAN
    /\ listenJob = "set"
    /\ socket = [c \in Conns |-> "none"] /\ peer = [c \in Conns |-> "connecting"]
    /\ clientSockets = {} /\ newClients = {} /\ waitingClients = <<>>
    /\ stream = {} /\ ready = {} /\ timer = {} /\ deafUnknown = {} /\ strayHandlers = {}
    /\ proxy = [c \in Conns |-> "none"] /\ owner = [c \in Conns |-> "nobody"]
    /\ events = <<>> /\ stopped = FALSE /\ corrupt = FALSE

------------------------------------------------------------------------------
(* The service thread and the clients.                                         *)

\* A client connects to the port.
connects(c) ==
    /\ Running /\ ~stopped /\ socket[c] = "none"
    /\ socket' = [socket EXCEPT ![c] = "backlog"]
    /\ UNCHANGED <<tls, listenJob, peer, clientSockets, unknownVars, proxyVars, events, stopped, corrupt>>

\* serviceListening: the job ends until the client is accepted.  On an error it
\* closes its own socket, for which it must wait for itself.
serviceListening ==
    /\ Running /\ ~stopped /\ listenJob = "set"
    /\ \/ /\ \E c \in Conns : socket[c] = "backlog"
          /\ listenJob' = "taken"
          /\ events' = Append(events, Ev("Connecting", NoConn))
       \/ AcceptFails /\ listenJob' = "stuck" /\ UNCHANGED events
    /\ UNCHANGED <<tls, socket, peer, clientSockets, unknownVars, proxyVars, stopped, corrupt>>

\* Nothing reaches the queue from a connection once the service thread is stuck.
Served(c) == Running /\ listenJob # "stuck" /\ socket[c] = "open" /\ c \in clientSockets

\* The TLS handshake ends.
secured(c) ==
    /\ Served(c) /\ peer[c] = "connecting"
    /\ \/ events' = Append(events, Ev("Accepted", c)) /\ peer' = [peer EXCEPT ![c] = "silent"]
       \/ events' = Append(events, Ev("DisconnectedOnAccept", c)) /\ peer' = [peer EXCEPT ![c] = "left"]
    /\ UNCHANGED <<tls, listenJob, socket, clientSockets, unknownVars, proxyVars, stopped, corrupt>>

\* The client answers the hello, well or not, then the query for its information.
replies(c) ==
    /\ Served(c) /\ peer[c] = "silent" /\ c \in newClients /\ c \notin deafUnknown
    /\ \E kind \in {"HelloBack", "BadHello"} : events' = Append(events, Ev(kind, c))
    /\ peer' = [peer EXCEPT ![c] = "replied"]
    /\ UNCHANGED <<tls, listenJob, socket, clientSockets, unknownVars, proxyVars, stopped, corrupt>>

informs(c) ==
    /\ Served(c) /\ peer[c] = "replied" /\ proxy[c] = "handshake"
    /\ events' = Append(events, Ev("Info", c))
    /\ peer' = [peer EXCEPT ![c] = "informed"]
    /\ UNCHANGED <<tls, listenJob, socket, clientSockets, unknownVars, proxyVars, stopped, corrupt>>

\* The connection ends, at any time.
leaves(c) ==
    /\ Served(c) /\ peer[c] \notin {"connecting", "left"}
    /\ events' = Append(events, Ev("Gone", c))
    /\ peer' = [peer EXCEPT ![c] = "left"]
    /\ UNCHANGED <<tls, listenJob, socket, clientSockets, unknownVars, proxyVars, stopped, corrupt>>

------------------------------------------------------------------------------
(* Accepting.                                                                  *)

\* A socket was made; a plain one needs nothing more.
accepts(c) ==
    /\ socket' = [socket EXCEPT ![c] = "open"]
    /\ clientSockets' = clientSockets \cup {c}
    /\ peer' = [peer EXCEPT ![c] = IF tls THEN @ ELSE "silent"]
    /\ events' = IF tls THEN Tail(events) ELSE Append(Tail(events), Ev("Accepted", c))

setListeningJob == listenJob' = "set"

\* The system gave no socket, and the job is not set again; or the certificate could
\* not be loaded after it was.
acceptFails(c) ==
    /\ \/ listenJob' = "lost" /\ UNCHANGED socket
       \/ tls /\ setListeningJob /\ socket' = [socket EXCEPT ![c] = "deleted"]
    /\ events' = Tail(events)
    /\ UNCHANGED <<clientSockets, peer>>

handleClientConnecting ==
    /\ Takes("Connecting", NoConn)
    /\ \/ stopped /\ events' = Tail(events) /\ UNCHANGED <<listenJob, socket, clientSockets, peer>>
       \/ /\ ~stopped
          /\ \E c \in Conns :
                /\ socket[c] = "backlog"
                /\ \/ accepts(c) /\ setListeningJob
                   \/ AcceptFails /\ acceptFails(c)
    /\ UNCHANGED <<tls, unknownVars, proxyVars, stopped, corrupt>>

removeClientSocket(c) ==
    /\ clientSockets' = clientSockets \ {c}
    /\ socket' = [socket EXCEPT ![c] = "deleted"]

\* The unknown client is made and says hello.  The handler outlives the listener.
handleClientAccepted(c) ==
    /\ Takes("Accepted", c)
    /\ IF stopped
       THEN corrupt' = TRUE /\ UNCHANGED <<newClients, stream, timer>>
       ELSE /\ newClients' = newClients \cup {c}
            /\ stream' = stream \cup {c}
            /\ timer' = timer \cup {c}
            /\ UNCHANGED corrupt
    /\ events' = Tail(events)
    /\ UNCHANGED <<sockVars, ready, deafUnknown, strayHandlers, proxyVars, stopped>>

handleDisconnectedOnAccept(c) ==
    /\ Takes("DisconnectedOnAccept", c)
    /\ IF stopped
       THEN corrupt' = TRUE /\ UNCHANGED <<clientSockets, socket>>
       ELSE removeClientSocket(c) /\ UNCHANGED corrupt
    /\ events' = Tail(events)
    /\ UNCHANGED <<tls, listenJob, peer, unknownVars, proxyVars, stopped>>

------------------------------------------------------------------------------
(* ClientProxyUnknown.                                                         *)

\* The proxy goes, with it the stream; the handlers for the proxy stay, as it is
\* forgotten before they are removed.
sendFailure(c, rest) ==
    /\ proxy' = [proxy EXCEPT ![c] = IF owner[c] = "unknown" THEN "deleted" ELSE @]
    /\ owner' = [owner EXCEPT ![c] = IF @ = "unknown" THEN "nobody" ELSE @]
    /\ strayHandlers' = strayHandlers \cup {d \in {c} : owner[c] = "unknown"}
    /\ ready' = ready \ {c}
    /\ deafUnknown' = deafUnknown \cup {c}
    /\ timer' = timer \ {c}
    /\ events' = Append(rest, Ev("Failure", c))

\* Who handles what comes over the stream.
HeardByUnknown(c) == c \in newClients /\ c \notin deafUnknown /\ c \in stream
HeardByProxy(c) == proxy[c] \in {"handshake", "ready"}

\* Mutant: the timer ends with the reply to the hello.
handleHelloBackUntimed(c) ==
    /\ Takes("HelloBack", c) /\ HeardByUnknown(c)
    /\ deafUnknown' = deafUnknown \cup {c}
    /\ stream' = stream \ {c}
    /\ proxy' = [proxy EXCEPT ![c] = "handshake"]
    /\ owner' = [owner EXCEPT ![c] = "unknown"]
    /\ events' = Tail(events)
    /\ timer' = timer \ {c}
    /\ UNCHANGED <<sockVars, newClients, ready, strayHandlers, waitingClients, stopped, corrupt>>

\* handleData with a good reply: the proxy is made, takes the stream and asks for the
\* client's information.  The timer runs on.
handleHelloBack(c) ==
    /\ Takes("HelloBack", c) /\ HeardByUnknown(c)
    /\ deafUnknown' = deafUnknown \cup {c}
    /\ stream' = stream \ {c}
    /\ proxy' = [proxy EXCEPT ![c] = "handshake"]
    /\ owner' = [owner EXCEPT ![c] = "unknown"]
    /\ events' = Tail(events)
    /\ UNCHANGED <<sockVars, newClients, ready, timer, strayHandlers, waitingClients, stopped, corrupt>>

\* handleData with a bad reply or an unknown version, handleWriteError, handleDisconnect.
handleBadStream(c) ==
    /\ Takes("BadHello", c) \/ Takes("Gone", c)
    /\ HeardByUnknown(c)
    /\ sendFailure(c, Tail(events))
    /\ UNCHANGED <<sockVars, newClients, stream, waitingClients, stopped, corrupt>>

handleTimeout(c) ==
    /\ Running /\ c \in timer
    /\ sendFailure(c, events)
    /\ UNCHANGED <<sockVars, newClients, stream, waitingClients, stopped, corrupt>>

\* The proxy parses the client's information.
proxyInformed(c) ==
    /\ Takes("Info", c) /\ HeardByProxy(c)
    /\ proxy' = [proxy EXCEPT ![c] = "ready"]
    /\ events' = IF proxy[c] = "handshake" THEN Append(Tail(events), Ev("Ready", c)) ELSE Tail(events)
    /\ UNCHANGED <<sockVars, unknownVars, waitingClients, owner, stopped, corrupt>>

\* ClientProxy1_0::disconnect: it closes its stream and says so.
proxyDisconnects(c) ==
    /\ Takes("Gone", c) /\ HeardByProxy(c)
    /\ proxy' = [proxy EXCEPT ![c] = "hungUp"]
    /\ socket' = [socket EXCEPT ![c] = "closed"]
    /\ events' = Append(Tail(events), Ev("Disconnected", c))
    /\ UNCHANGED <<tls, listenJob, peer, clientSockets, unknownVars, waitingClients, owner, stopped, corrupt>>

\* Nobody has a handler.
unheard(c) ==
    /\ \E kind \in StreamEvents : Takes(kind, c)
    /\ ~HeardByUnknown(c) /\ ~HeardByProxy(c)
    /\ events' = Tail(events)
    /\ UNCHANGED <<sockVars, unknownVars, proxyVars, stopped, corrupt>>

\* sendSuccess, also through a handler that was left.
handleReady(c) ==
    /\ Takes("Ready", c)
    /\ IF c \in newClients
       THEN /\ ready' = ready \cup {c}
            /\ timer' = timer \ {c}
            /\ events' = Append(Tail(events), Ev("Success", c))
       ELSE events' = Tail(events) /\ UNCHANGED <<ready, timer>>
    /\ corrupt' = (c \in strayHandlers \ newClients)
    /\ UNCHANGED <<sockVars, newClients, stream, deafUnknown, strayHandlers, proxyVars, stopped>>

------------------------------------------------------------------------------
(* Handing over.                                                               *)

\* Mutant: the unknown client keeps its pointer too.
orphanShared(c) == UNCHANGED owner

\* The proxy leaves the unknown client.
orphanClientProxy(c) == owner' = [owner EXCEPT ![c] = "listener"]

\* The unknown client is deleted with all it owns.
removeUnknownClient(c) ==
    /\ newClients' = newClients \ {c}
    /\ stream' = stream \ {c} /\ ready' = ready \ {c} /\ timer' = timer \ {c}
    /\ proxy' = [proxy EXCEPT ![c] = IF owner'[c] = "unknown" THEN "deleted" ELSE @]
    /\ UNCHANGED <<deafUnknown, strayHandlers>>

\* ServerApp is told of one more waiting client.
announce == Append(Tail(events), Ev("Handover", NoConn))

\* A good handshake: the proxy waits for the server.  Otherwise it was lost since.
handleUnknownClient(c) ==
    /\ Takes("Success", c)
    /\ IF c \notin newClients
       THEN events' = Tail(events) /\ UNCHANGED <<socket, waitingClients, owner, proxy, unknownVars>>
       ELSE /\ \/ /\ c \in ready /\ owner[c] = "unknown"
                  /\ orphanClientProxy(c)
                  /\ waitingClients' = Append(waitingClients, c)
                  /\ events' = announce
                  /\ UNCHANGED socket
               \/ /\ c \notin ready \/ owner[c] # "unknown"
                  /\ socket' = [socket EXCEPT ![c] = IF c \in stream THEN "closed" ELSE @]
                  /\ events' = Tail(events)
                  /\ UNCHANGED <<waitingClients, owner>>
            /\ removeUnknownClient(c)
    /\ UNCHANGED <<tls, listenJob, peer, clientSockets, stopped, corrupt>>

\* The socket is found only while the unknown client has the stream.
handleFailure(c) ==
    /\ Takes("Failure", c)
    /\ UNCHANGED owner
    /\ IF c \in newClients /\ c \in stream
       THEN removeClientSocket(c)
       ELSE UNCHANGED <<clientSockets, socket>>
    /\ IF c \in newClients THEN removeUnknownClient(c) ELSE UNCHANGED <<proxy, unknownVars>>
    /\ events' = Tail(events)
    /\ UNCHANGED <<tls, listenJob, peer, waitingClients, stopped, corrupt>>

proxyDeleted(c) ==
    /\ proxy' = [proxy EXCEPT ![c] = "deleted"]
    /\ owner' = [owner EXCEPT ![c] = "nobody"]

\* ClientProxyDisconnected, handled by the unknown client, also through a handler that
\* was left; by the listener, which takes the filter for the socket, deletes it with the
\* proxy and then again; or by the server.
handleClientDisconnected(c) ==
    /\ Takes("Disconnected", c)
    /\ \/ /\ c \in newClients
          /\ sendFailure(c, Tail(events))
          /\ UNCHANGED <<waitingClients, corrupt>>
       \/ /\ owner[c] = "listener"
          /\ proxyDeleted(c)
          /\ \E i \in DOMAIN waitingClients :
                waitingClients[i] = c /\ waitingClients' = RemoveAt(waitingClients, i)
          /\ corrupt' = TRUE
          /\ events' = Tail(events)
          /\ UNCHANGED <<ready, timer, deafUnknown, strayHandlers>>
       \/ /\ owner[c] = "server"
          /\ proxyDeleted(c)
          /\ events' = Tail(events)
          /\ UNCHANGED <<ready, timer, deafUnknown, strayHandlers, waitingClients, corrupt>>
       \/ /\ owner[c] = "nobody" /\ c \notin newClients
          /\ corrupt' = (c \in strayHandlers)
          /\ events' = Tail(events)
          /\ UNCHANGED <<ready, timer, deafUnknown, strayHandlers, proxyVars>>
    /\ UNCHANGED <<sockVars, newClients, stream, stopped>>

\* getNextClient and adoptClient.
handleClientConnected ==
    /\ Takes("Handover", NoConn)
    /\ IF stopped \/ waitingClients = <<>>
       THEN UNCHANGED <<waitingClients, owner>>
       ELSE /\ waitingClients' = Tail(waitingClients)
            /\ owner' = [owner EXCEPT ![Head(waitingClients)] = "server"]
    /\ events' = Tail(events)
    /\ UNCHANGED <<sockVars, unknownVars, proxy, stopped, corrupt>>

\* The server gives a client up that does not answer (closeClients, removeOldClient).
serverDeletes(c) ==
    /\ Running /\ owner[c] = "server"
    /\ proxyDeleted(c)
    /\ UNCHANGED <<sockVars, unknownVars, waitingClients, events, stopped, corrupt>>

\* ServerApp deletes the listener after the server and its clients are gone.
stop ==
    /\ Stops /\ Running /\ ~stopped /\ listenJob # "stuck"
    /\ \A c \in Conns : owner[c] # "server"
    /\ stopped' = TRUE /\ listenJob' = "lost"
    /\ newClients' = {} /\ stream' = {} /\ ready' = {} /\ timer' = {}
    /\ waitingClients' = <<>>
    /\ proxy' = [c \in Conns |-> IF owner[c] = "nobody" THEN proxy[c] ELSE "deleted"]
    /\ owner' = [c \in Conns |-> "nobody"]
    /\ socket' = [c \in Conns |-> IF c \in clientSockets THEN "deleted" ELSE socket[c]]
    /\ clientSockets' = {}
    /\ UNCHANGED <<tls, peer, deafUnknown, strayHandlers, events, corrupt>>

------------------------------------------------------------------------------
Handle ==
    \/ handleClientConnecting \/ handleClientConnected
    \/ \E c \in Conns :
        \/ handleClientAccepted(c) \/ handleDisconnectedOnAccept(c)
        \/ handleHelloBack(c) \/ handleBadStream(c) \/ proxyInformed(c) \/ proxyDisconnects(c)
        \/ unheard(c) \/ handleReady(c) \/ handleUnknownClient(c) \/ handleFailure(c)
        \/ handleClientDisconnected(c)

Network ==
    \/ serviceListening
    \/ \E c \in Conns : connects(c) \/ secured(c) \/ replies(c) \/ informs(c) \/ leaves(c)

Next == Handle \/ Network \/ stop \/ \E c \in Conns : handleTimeout(c) \/ serverDeletes(c)

\* The loop handles events, timers expire, and the service thread runs.
Spec ==
    /\ Init /\ [][Next]_vars
    /\ WF_vars(Handle) /\ WF_vars(serviceListening)
    /\ \A c \in Conns : WF_vars(handleTimeout(c))

------------------------------------------------------------------------------
(* Properties.                                                                 *)

Queued(kinds, c) == \E i \in DOMAIN events : events[i].kind \in kinds /\ events[i].conn = c

\* Every proxy that is alive has one owner, which knows it, and a socket that was not
\* deleted under it.
OneOwner ==
    \A c \in Conns :
        /\ owner[c] = "nobody" <=> proxy[c] \in {"none", "deleted"}
        /\ owner[c] = "unknown" => c \in newClients /\ c \notin stream
        /\ owner[c] = "listener" <=> c \in ToSet(waitingClients)
        /\ owner[c] # "nobody" => c \in clientSockets

\* ServerApp hears at least as often of waiting clients as there are any: none is
\* forgotten in the listener.
WaitingAnnounced ==
    ~stopped => Len(waitingClients) <= Cardinality({i \in DOMAIN events : events[i].kind = "Handover"})

\* An unknown client whose timer does not run any more has its end in the queue.
OutcomeQueued == \A c \in newClients \ timer : Queued({"Success", "Failure"}, c)

\* While the listening socket is not polled, somebody is about to accept.
SomebodyAccepts == listenJob = "taken" => Queued({"Connecting"}, NoConn)

\* A connection that nobody uses any more is left open only if its hello was answered.
\* (A client that fails after that leaves its socket behind until the listener ends.)
StrangersDropped ==
    \A c \in clientSockets :
        socket[c] = "open" /\ peer[c] # "connecting" /\ c \notin newClients /\ ~Queued(SocketEvents, c)
            => proxy[c] # "none"

\* Every client is let in or refused: nobody stays unknown.
NobodyNew == newClients = {} \/ corrupt
NewClientsGo == []<>NobodyNew

\* "pull out the socket before deleting the client so we know which socket we no longer
\* need" (handleClientDisconnected): nothing is used after it was deleted.
NoFreedUse == ~corrupt
=============================================================================
