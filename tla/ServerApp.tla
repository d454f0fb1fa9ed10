------------------------------ MODULE ServerApp ------------------------------
(***************************************************************************)
(* The life of the server inside its program (lib/deskflow/ServerApp.cpp):   *)
(* started when the program starts, stopped while the computer sleeps,       *)
(* stopped at the end.  To stop it closeServer runs the event loop once      *)
(* more inside the handler that stops it, until the clients are gone or a    *)
(* timer ends, and both tell the loop by a Quit event like the user's.  The  *)
(* queue holds what the main thread adds itself; the rest (connections, the  *)
(* power messages, which are delivered at once) comes at any time, in the    *)
(* loop inside closeServer too: a close may come within a close.  The inner  *)
(* one then deletes the server that the outer one waits with, and may use up *)
(* the outer one's timer; when the outer one ends it deletes the server      *)
(* again, anything may follow, and the model ends there.  The events that    *)
(* reset the server or have its clients reconnect are handled; nothing under *)
(* src/ sends them, other programs may.                                      *)
(***************************************************************************)
EXTENDS Integers, Sequences, FiniteSets

CONSTANTS
    Clients,
    StartMayFail,   \* the address may be in use
    MaxSuspends,
    MaxJoins,
    MaxResets       \* bounds

\* What the constants may be.
ServerAppAssumption ==
    /\ StartMayFail \in BOOLEAN
    /\ MaxSuspends \in Nat /\ MaxJoins \in Nat /\ MaxResets \in Nat

VARIABLES
    main,           \* running, leaving (cleanupServer), gone
    state,          \* m_serverState; no code sets the other states
    server,         \* m_server
    clients,        \* m_clients without the primary
    oldClients,     \* m_oldClients
    suspended,      \* m_suspended
    asleep,         \* the last power message was a suspend
    queue,          \* quit of the user, quit of closeServer, disconnected
    closing,        \* the calls of closeServer that wait, the innermost last
    stale,          \* how many of them, from the first on, wait with a server that was deleted
    asked,          \* the user asked to quit
    resetSuspended, \* a reset started the server while m_suspended, or the computer's sleep
    suspends, joins, resets \* bounds

clientVars == <<clients, oldClients>>
powerVars == <<suspended, asleep, resetSuspended>>
closingVars == <<closing, stale>>
boundVars == <<suspends, joins, resets>>
vars == <<main, state, server, clientVars, powerVars, queue, closingVars, asked, boundVars>>

\* Every variable has its type.
TypeOK ==
    /\ main \in {"running", "leaving", "gone"}
    /\ state \in {"Uninitialized", "Initialized", "Started"}
    /\ server \in {"none", "live"}
    /\ clients \subseteq Clients /\ oldClients \subseteq Clients
    /\ suspended \in BOOLEAN /\ asleep \in BOOLEAN /\ resetSuspended \in BOOLEAN /\ asked \in BOOLEAN
    /\ \A i \in 1..Len(queue) : queue[i] \in {"quit", "closed", "disconnected"}
    /\ \A i \in 1..Len(closing) : closing[i] \in [by : {"suspend", "reset", "exit"}, timer : BOOLEAN]
    /\ stale \in 0..Len(closing)
    /\ suspends \in 0..MaxSuspends /\ joins \in 0..MaxJoins /\ resets \in 0..MaxResets

\* startNode: a server that cannot start ends the program at once.
Init ==
    /\ main = "running" /\ state = "Started" /\ server = "live"
    /\ clients = {} /\ oldClients = {} /\ suspended = FALSE /\ asleep = FALSE /\ resetSuspended = FALSE
    /\ queue = <<>> /\ closing = <<>> /\ stale = 0 /\ asked = FALSE
    /\ suspends = 0 /\ joins = 0 /\ resets = 0

Posted(cs, os) == IF cs = {} /\ os = {} THEN Append(queue, "disconnected") ELSE queue

\* handleClientConnected and Server::adoptClient: also while the server is being closed.
handleClientConnected(c) ==
    /\ main # "gone" /\ server = "live" /\ joins < MaxJoins
    /\ c \notin clients \cup oldClients
    /\ clients' = clients \cup {c} /\ joins' = joins + 1
    /\ UNCHANGED <<main, state, server, oldClients, powerVars, queue, closingVars, asked, suspends, resets>>

\* Server::removeActiveClient: the connection is lost.
removeActiveClient(c) ==
    /\ main # "gone" /\ server = "live" /\ c \in clients
    /\ clients' = clients \ {c} /\ queue' = Posted(clients \ {c}, oldClients)
    /\ UNCHANGED <<main, state, server, oldClients, powerVars, closingVars, asked, boundVars>>

\* Server::removeOldClient: the client answered, or its timer ended.
removeOldClient(c) ==
    /\ main # "gone" /\ server = "live" /\ c \in oldClients
    /\ oldClients' = oldClients \ {c} /\ queue' = Posted(clients, oldClients \ {c})
    /\ UNCHANGED <<main, state, server, clients, powerVars, closingVars, asked, boundVars>>

\* Server::closeClient of a client that is no longer in the configuration.
closeClient(c) ==
    /\ main = "running" /\ server = "live" /\ c \in clients
    /\ clients' = clients \ {c} /\ oldClients' = oldClients \cup {c}
    /\ UNCHANGED <<main, state, server, powerVars, queue, closingVars, asked, boundVars>>

\* Server::disconnect.
disconnect ==
    /\ clients' = {} /\ oldClients' = oldClients \cup clients
    /\ queue' = Posted(clients, oldClients)

forceReconnect ==
    /\ main = "running" /\ resets < MaxResets /\ resets' = resets + 1
    /\ server = "live" /\ disconnect
    /\ UNCHANGED <<main, state, server, powerVars, closingVars, asked, suspends, joins>>

\* Mutant: the wait has no end of its own.
waitForClients(by) == closing' = Append(closing, [by |-> by, timer |-> FALSE]) /\ UNCHANGED stale

\* closeServer, to where it waits: the timer is set.
waits(by) == closing' = Append(closing, [by |-> by, timer |-> TRUE]) /\ UNCHANGED stale

\* closeServer: Server::disconnect, then the loop.
closeServer(by) == disconnect /\ waits(by)

\* handleSuspend, with stopServer to where it waits; without a screen nobody tells.
handleSuspend ==
    /\ main # "gone" /\ state # "Uninitialized" /\ suspends < MaxSuspends
    /\ suspends' = suspends + 1 /\ asleep' = TRUE
    /\ IF suspended
       THEN UNCHANGED <<clientVars, queue, closingVars, suspended>>
       ELSE IF state = "Started"
            THEN closeServer("suspend") /\ UNCHANGED suspended
            ELSE suspended' = TRUE /\ UNCHANGED <<clientVars, queue, closingVars>>
    /\ UNCHANGED <<main, state, server, resetSuspended, asked, joins, resets>>

\* startServer: a failure is logged, nothing tries again.
starts == state = "Initialized"

\* Mutant: the suspension stays noted.
handleResumeStill ==
    /\ main # "gone" /\ state # "Uninitialized" /\ asleep
    /\ asleep' = FALSE /\ resetSuspended' = FALSE
    /\ IF suspended /\ starts THEN state' = "Started" /\ server' = "live" ELSE UNCHANGED <<state, server>>
    /\ UNCHANGED <<main, clientVars, suspended, queue, closingVars, asked, boundVars>>

\* handleResume: while the server is being stopped for a suspend it does nothing.
handleResume ==
    /\ main # "gone" /\ state # "Uninitialized" /\ asleep
    /\ asleep' = FALSE /\ resetSuspended' = FALSE
    /\ IF suspended
       THEN /\ suspended' = FALSE
            /\ IF starts
               THEN \/ state' = "Started" /\ server' = "live"
                    \/ StartMayFail /\ UNCHANGED <<state, server>>
               ELSE UNCHANGED <<state, server>>
       ELSE UNCHANGED <<suspended, state, server>>
    /\ UNCHANGED <<main, clientVars, queue, closingVars, asked, boundVars>>

\* The rest of resetServer, when the server is stopped: cleanupServer and startServer, which
\* opens the screen again and does not look at m_suspended.
startsAgain ==
    /\ \/ state' = "Started" /\ server' = "live"
       \/ StartMayFail /\ state' \in {"Uninitialized", "Initialized"} /\ server' = "none"
    /\ resetSuspended' = (suspended \/ asleep)

\* resetServer, with stopServer to where it waits.
resetServer ==
    /\ main # "gone" /\ resets < MaxResets /\ resets' = resets + 1
    /\ \/ state = "Started" /\ closeServer("reset") /\ UNCHANGED <<state, server, resetSuspended>>
       \/ state # "Started" /\ startsAgain /\ UNCHANGED <<clientVars, queue, closingVars>>
    /\ UNCHANGED <<main, suspended, asleep, asked, suspends, joins>>

\* A signal, or the event of a screen that is lost.
userQuits ==
    /\ main = "running" /\ ~asked
    /\ asked' = TRUE /\ queue' = Append(queue, "quit")
    /\ UNCHANGED <<main, state, server, clientVars, powerVars, closingVars, boundVars>>

\* The innermost call of closeServer that waits, if its server is still there.
Closes == closing # <<>> /\ stale < Len(closing)

\* The handler of ServerDisconnected that closeServer installs, and removes for all that wait
\* with the same server; no other handles it.
handleDisconnected ==
    /\ queue # <<>> /\ Head(queue) = "disconnected"
    /\ queue' = IF Closes THEN Append(Tail(queue), "closed") ELSE Tail(queue)
    /\ UNCHANGED <<main, state, server, clientVars, powerVars, closingVars, asked, boundVars>>

\* The timer of closeServer: timers are looked at when no event waits.
handleTimer ==
    /\ queue = <<>>
    /\ \E i \in 1..Len(closing) :
        /\ closing[i].timer
        /\ closing' = [closing EXCEPT ![i].timer = FALSE]
    /\ queue' = <<"closed">>
    /\ UNCHANGED <<main, state, server, clientVars, powerVars, stale, asked, boundVars>>

Quits == queue # <<>> /\ Head(queue) \in {"quit", "closed"}

\* The loop inside closeServer ends: the server and the listener are deleted, and the caller
\* goes on.  Whoever else waits with that server does not know.
serverClosed ==
    /\ Quits /\ Closes
    /\ closing' = SubSeq(closing, 1, Len(closing) - 1) /\ stale' = Len(closing) - 1
    /\ \/ /\ closing[Len(closing)].by = "exit"
          /\ main' = "gone" /\ state' = "Uninitialized" /\ server' = "none"
          /\ UNCHANGED <<suspended, resetSuspended>>
       \/ /\ closing[Len(closing)].by = "suspend"
          /\ suspended' = TRUE /\ state' = "Initialized" /\ server' = "none"
          /\ UNCHANGED <<main, resetSuspended>>
       \/ /\ closing[Len(closing)].by = "reset"
          /\ startsAgain
          /\ UNCHANGED <<main, suspended>>
    /\ queue' = Tail(queue) /\ clients' = {} /\ oldClients' = {}
    /\ UNCHANGED <<asleep, asked, boundVars>>

\* The loop inside an outer closeServer ends: the server is deleted a second time.
deletedTwice ==
    /\ Quits /\ closing # <<>> /\ stale = Len(closing)
    /\ main' = "gone" /\ queue' = Tail(queue)
    /\ UNCHANGED <<state, server, clientVars, powerVars, closingVars, asked, boundVars>>

\* The main loop ends: cleanupServer.
leave ==
    /\ Quits /\ closing = <<>> /\ main = "running"
    /\ IF state = "Started"
       THEN /\ main' = "leaving"
            /\ clients' = {} /\ oldClients' = oldClients \cup clients
            /\ queue' = (IF clients = {} /\ oldClients = {} THEN Append(Tail(queue), "disconnected")
                         ELSE Tail(queue))
            /\ waits("exit") /\ UNCHANGED state
       ELSE /\ main' = "gone" /\ state' = "Uninitialized" /\ queue' = Tail(queue)
            /\ UNCHANGED <<clientVars, closingVars>>
    /\ UNCHANGED <<server, powerVars, asked, boundVars>>

Loop == main # "gone" /\ (handleDisconnected \/ handleTimer \/ serverClosed \/ deletedTwice \/ leave)

Next ==
    \/ \E c \in Clients : handleClientConnected(c) \/ removeActiveClient(c) \/ removeOldClient(c) \/ closeClient(c)
    \/ handleSuspend \/ handleResume \/ userQuits \/ forceReconnect \/ resetServer
    \/ Loop

Spec == Init /\ [][Next]_vars /\ WF_vars(Loop)

------------------------------------------------------------------------------
(* Properties.                                                                 *)

\* Nothing is left of a server that is not started, whatever connected, left and was closed
\* while the loop inside closeServer ran: no object, no client.
NothingLeft ==
    state # "Started" => server = "none" /\ clients \cup oldClients = {}

\* A computer that sleeps does not serve, however often it was told to sleep and to wake, and
\* whatever came while the server was being stopped, a close within a close too, unless a reset
\* started it while it slept or the suspension was noted.  (Until a close that waits ends, the
\* server it waits with still serves.)
AsleepStopped ==
    asleep /\ ~Closes /\ main = "running" /\ ~resetSuspended => state # "Started"

\* A server that is being closed is closed in the end: clients that do not answer, and new
\* ones, hold it up for the time of the timer only.  An outer close whose server an inner one
\* deleted may wait until the user quits.
NotClosing == ~Closes
ClosingEnds == []<>NotClosing

\* The program ends only if the user asked for it.
EndsWhenAsked == main # "running" => asked

\* A user who asks for it is heeded.
QuitHeeded == asked ~> main = "gone"

\* The computer is awake: the server serves in the end.
AwakeServes == (~asleep /\ main = "running") ~> (state = "Started" \/ asleep \/ main # "running")
=============================================================================
