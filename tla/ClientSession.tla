---------------------------- MODULE ClientSession ----------------------------
(***************************************************************************)
(* How a client gets and keeps its connection: Client (lib/client/          *)
(* Client.cpp) connects, shakes hands and notices losses, ServerProxy       *)
(* (lib/client/ServerProxy.cpp) reads what the server says and keeps the    *)
(* alarm, ClientApp (lib/deskflow/ClientApp.cpp) decides when and where to  *)
(* try again.  All run in the event loop; a step handles one event.         *)
(***************************************************************************)
EXTENDS Naturals, Sequences, FiniteSets, SequencesExt

CONSTANTS
    Addresses,      \* per server in the list, how many addresses its name has; 0: none found
    Up,             \* the <<server, address>> pairs where a server answers
    MaxLosses,      \* times the network or the server fails at a pair in Up
    MaxSuspends     \* times the computer goes to sleep

\* What the constants may be.
SessionAssumption ==
    /\ Addresses \in Seq(Nat) /\ Addresses # <<>>
    /\ \A p \in Up : p \in Nat \X Nat /\ p[1] \in DOMAIN Addresses /\ p[2] < Addresses[p[1]]
    /\ MaxLosses \in Nat /\ MaxSuspends \in Nat

VARIABLES
    phase,          \* m_stream, m_server and m_ready: none, connecting, waiting for hello,
                    \* shaking hands, ready
    timer,          \* m_timer runs
    using,          \* the pair the stream goes to
    silent,         \* the server has stopped answering
    requested,      \* the disconnect request in the queue
    suspended, connectOnResume,
    serverAddress,  \* m_serverAddress: the server whose name the client looks up
    resolved,       \* m_resolvedAddressesCount
    restarts,       \* ClientApp's timers that will start the client
    server, address,\* m_currentServerIndex, m_lastServerAddressIndex
    events,         \* of the client, on their way to ClientApp
    losses, suspends

linkVars == <<phase, timer, using, silent, requested>>
sleepVars == <<suspended, connectOnResume, suspends>>
addressVars == <<serverAddress, resolved>>
appVars == <<restarts, server, address>>
vars == <<linkVars, sleepVars, addressVars, appVars, events, losses>>

Servers == DOMAIN Addresses
Requests == {"close", "message", "refuse"}
Pairs == {p \in Servers \X Nat : p[2] < Addresses[p[1]] \/ p[2] = 0}

\* Every variable has its type.
TypeOK ==
    /\ phase \in {"none", "connecting", "hello", "handshake", "ready"}
    /\ timer \in BOOLEAN /\ using \in Pairs /\ silent \in BOOLEAN
    /\ requested \in Requests \cup {"nothing"}
    /\ suspended \in BOOLEAN /\ connectOnResume \in BOOLEAN
    /\ serverAddress \in Servers /\ resolved \in Nat /\ restarts \in Nat
    /\ server \in Servers /\ address \in Nat
    /\ events \in Seq({"Connected", "Failed", "Refused", "Disconnected"})
    /\ losses \in 0..MaxLosses /\ suspends \in 0..MaxSuspends

------------------------------------------------------------------------------
send(e) == events' = Append(events, e)

\* A connection to a server that answers fails only so often.
MayFail == using \notin Up \/ losses < MaxLosses
Fails == MayFail /\ losses' = IF using \in Up THEN losses + 1 ELSE losses

\* The stream goes, with the proxy and the timer.
Hangup ==
    /\ phase' = "none" /\ timer' = FALSE /\ requested' = "nothing" /\ silent' = FALSE
    /\ UNCHANGED using

\* cleanup(), the part of disconnect() and refuseConnection() that forgets the resume too.
cleanup == Hangup /\ connectOnResume' = FALSE

\* Client::connect at the server s: nothing if there is a stream, or while it sleeps; the
\* name is looked up and the socket made, each of which may throw.
connect(s, asleep, index) ==
    \/ /\ phase # "none" \/ asleep
       /\ UNCHANGED <<linkVars, resolved, events, losses>>
    \/ /\ phase = "none" /\ ~asleep /\ Addresses[s] = 0
       /\ send("Failed")
       /\ UNCHANGED <<linkVars, resolved, losses>>
    \/ /\ phase = "none" /\ ~asleep /\ Addresses[s] > 0
       /\ resolved' = Addresses[s]
       /\ using' = <<s, Min({index, Addresses[s] - 1})>>
       /\ \/ phase' = "connecting" /\ timer' = TRUE /\ UNCHANGED <<events, losses>>
          \/ /\ losses < MaxLosses /\ losses' = losses + 1
             /\ send("Failed")
             /\ UNCHANGED <<phase, timer>>
       /\ UNCHANGED <<silent, requested>>

\* startNode, with the screen opened.
Init ==
    /\ phase = "none" /\ timer = FALSE /\ using = <<1, 0>> /\ silent = FALSE
    /\ requested = "nothing"
    /\ suspended = FALSE /\ connectOnResume = FALSE /\ suspends = 0
    /\ serverAddress = 1 /\ resolved = 0 /\ restarts = 1
    /\ server = 1 /\ address = 0
    /\ events = <<>> /\ losses = 0

------------------------------------------------------------------------------
(* The connection.                                                             *)

\* DataSocketConnected, or DataSocketSecureConnected with TLS.
handleConnected ==
    /\ phase = "connecting" /\ using \in Up
    /\ phase' = "hello"
    /\ UNCHANGED <<timer, using, silent, requested, sleepVars, addressVars, appVars, events, losses>>

handleConnectionFailed ==
    /\ phase = "connecting" /\ Fails
    /\ Hangup
    /\ send("Failed")
    /\ UNCHANGED <<sleepVars, addressVars, appVars>>

handleConnectTimeout ==
    /\ timer /\ Fails
    /\ Hangup
    /\ send("Failed")
    /\ UNCHANGED <<sleepVars, addressVars, appVars>>

\* Mutant: a wrong hello ends the connection and nobody is told.
handleHelloUntold ==
    /\ phase = "hello"
    /\ \/ /\ phase' = "handshake" /\ timer' = FALSE
          /\ UNCHANGED <<using, silent, requested, events, losses>>
       \/ Fails /\ Hangup /\ UNCHANGED events
    /\ UNCHANGED <<sleepVars, addressVars, appVars>>

\* The hello: answered, and the proxy made with its alarm; or not one of ours.
handleHello ==
    /\ phase = "hello"
    /\ \/ /\ phase' = "handshake" /\ timer' = FALSE
          /\ UNCHANGED <<using, silent, requested, events, losses>>
       \/ Fails /\ Hangup /\ send("Failed")
    /\ UNCHANGED <<sleepVars, addressVars, appVars>>

\* The server sends its options.
handshakeComplete ==
    /\ phase = "handshake" /\ ~silent /\ requested = "nothing"
    /\ phase' = "ready"
    /\ send("Connected")
    /\ UNCHANGED <<timer, using, silent, requested, sleepVars, addressVars, appVars, losses>>

\* parseHandshakeMessage and parseMessage, where they end the connection: closed by the
\* server, something wrong, or refused.
requestDisconnect ==
    /\ phase \in {"handshake", "ready"} /\ ~silent /\ requested = "nothing" /\ Fails
    /\ requested' \in IF phase = "ready" THEN {"close", "message"} ELSE Requests
    /\ UNCHANGED <<phase, timer, using, silent, sleepVars, addressVars, appVars, events>>

handleDisconnectRequested ==
    /\ requested # "nothing"
    /\ cleanup
    /\ send(CASE requested = "close" -> "Disconnected"
              [] requested = "message" -> "Failed"
              [] requested = "refuse" -> "Refused")
    /\ UNCHANGED <<suspended, suspends, addressVars, appVars, losses>>

\* handleDisconnected, handleOutputError.
handleDisconnected ==
    /\ phase \in {"hello", "handshake", "ready"} /\ Fails
    /\ Hangup
    /\ send("Disconnected")
    /\ UNCHANGED <<sleepVars, addressVars, appVars>>

serverGoesSilent ==
    /\ phase \in {"handshake", "ready"} /\ ~silent /\ Fails
    /\ silent' = TRUE
    /\ UNCHANGED <<phase, timer, using, requested, sleepVars, addressVars, appVars, events>>

\* No keep-alive message came for so long.
handleKeepAliveAlarm ==
    /\ silent
    /\ cleanup
    /\ send("Failed")
    /\ UNCHANGED <<suspended, suspends, addressVars, appVars, losses>>

handleSuspend ==
    /\ ~suspended /\ suspends < MaxSuspends /\ suspends' = suspends + 1
    /\ suspended' = TRUE
    /\ Hangup
    /\ connectOnResume' = (phase \in {"handshake", "ready"})
    /\ send("Disconnected")
    /\ UNCHANGED <<addressVars, appVars, losses>>

\* The client connects by itself, at the first address of the server it was told last:
\* ClientApp is not asked, and may have gone back to the first server meanwhile.
handleResume ==
    /\ suspended /\ suspended' = FALSE
    /\ connectOnResume' = FALSE
    /\ IF connectOnResume THEN connect(serverAddress, FALSE, 0)
       ELSE UNCHANGED <<linkVars, resolved, events, losses>>
    /\ UNCHANGED <<serverAddress, suspends, appVars>>

------------------------------------------------------------------------------
(* ClientApp.                                                                  *)

\* A restart timer ends: the client is told the server and connects, or will when it wakes up.
handleClientRestart ==
    /\ restarts > 0 /\ restarts' = restarts - 1
    /\ serverAddress' = server
    /\ connect(server, suspended, address)
    /\ connectOnResume' = (connectOnResume \/ (phase = "none" /\ suspended))
    /\ UNCHANGED <<suspended, suspends, server, address>>

Takes(e) == events # <<>> /\ Head(events) = e /\ events' = Tail(events)
scheduleClientRestart == restarts' = restarts + 1

handleClientConnected ==
    /\ Takes("Connected")
    /\ server' = 1 /\ address' = 0
    /\ UNCHANGED <<linkVars, sleepVars, addressVars, restarts, losses>>

tryNextServer == IF server < Len(Addresses) THEN server + 1 ELSE 1

\* The next address of this server, or the next server; after the last as if refused.
handleClientFailed ==
    /\ Takes("Failed")
    /\ IF address + 1 < resolved
       THEN address' = address + 1 /\ UNCHANGED server
       ELSE address' = 0 /\ server' = tryNextServer
    /\ scheduleClientRestart
    /\ UNCHANGED <<linkVars, sleepVars, addressVars, losses>>

handleClientRefused ==
    /\ Takes("Refused")
    /\ scheduleClientRestart
    /\ UNCHANGED <<linkVars, sleepVars, addressVars, server, address, losses>>

handleClientDisconnected ==
    /\ Takes("Disconnected")
    /\ scheduleClientRestart
    /\ UNCHANGED <<linkVars, sleepVars, addressVars, server, address, losses>>

------------------------------------------------------------------------------
App == handleClientConnected \/ handleClientFailed \/ handleClientRefused \/ handleClientDisconnected

Progress ==
    \/ handleConnected \/ (phase = "hello" /\ handleHello) \/ handshakeComplete
    \/ handleDisconnectRequested \/ handleKeepAliveAlarm

Next ==
    \/ App \/ handleClientRestart
    \/ Progress
    \/ handleConnectionFailed \/ handleConnectTimeout
    \/ requestDisconnect \/ handleDisconnected \/ serverGoesSilent
    \/ handleSuspend \/ handleResume

\* The loop handles events, timers expire, and a server that is up answers.
Spec ==
    /\ Init /\ [][Next]_vars
    /\ WF_vars(App) /\ WF_vars(handleClientRestart) /\ WF_vars(Progress)
    /\ WF_vars(handleConnectTimeout)

------------------------------------------------------------------------------
(* Properties.                                                                 *)

\* The events on their way that will start the client again.
Endings == {i \in DOMAIN events : events[i] # "Connected"}
Retrying == restarts > 0 \/ Endings # {}

\* Whatever ends a connection, something will start the client again: a timer, an event
\* that sets one, or waking up.
SomebodyRetries == phase = "none" => Retrying \/ (suspended /\ connectOnResume)

\* The two seconds are for connecting and the hello, and never end a session that has begun.
TimerWhileConnecting == timer <=> phase \in {"connecting", "hello"}

\* Attempts do not multiply: every failure is followed by one, and only going to sleep adds
\* to those under way.
OneAttempt ==
    restarts + Cardinality(Endings) + (IF phase # "none" THEN 1 ELSE 0)
        + (IF connectOnResume THEN 1 ELSE 0) <= 1 + suspends

\* Nothing is connected, and nothing tried, while the computer sleeps.
AsleepIdle == suspended => phase = "none"

\* As long as some server answers at some address, the client gets to it.
Served == phase = "ready" \/ suspended
Reconnects == Up # {} => []<>Served
=============================================================================
