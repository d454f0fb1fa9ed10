-------------------------- MODULE ConnectionParts --------------------------
(***************************************************************************)
(* The parts of a connection, which share no state: a socket, the listener   *)
(* that accepts clients, the packets that come over a socket, the session of  *)
(* a client, the thread that serves the sockets, and the programs that keep a  *)
(* client or a server running.  MCConnections runs them, one in each behavior;  *)
(* ConnectionsProofs proves what is said here of each.                          *)
(***************************************************************************)
EXTENDS TCPSocket, MCParts

CONSTANTS
    sock, NoSocket,                                             \* JobTable
    Conns, NoConn, AcceptFails, Stops,                          \* ClientListener
    Header, Body, MaxUnits,                                     \* PacketStreamFilter
    Addresses, Up, MaxLosses, MaxSuspends,                      \* ClientSession
    MaxStarts,                                                  \* Threads
    WorkerSessions, NoSession, Grace, Silence, StopWait, Patience, Delays, LongRun,
    WorkerSwitches, WorkerFaults,                               \* WorkerService
    DogSessions, Lobby, MaxControls, MaxCommands, DogFaults, DogSwitches    \* Watchdog

VARIABLES
    \* ClientListener
    l_tls, listenJob, socket, l_peer, clientSockets, newClients, waitingClients, stream,
    l_ready, l_timer, proxy, l_owner, deafUnknown, strayHandlers, l_events, stopped, corrupt,
    \* PacketStreamFilter
    f_tls, total, early, badPacket, arrived, ended, unannounced, socketInput, buffer, size,
    inputShutdown, queue, reader, packets, packetsRead, f_heard,
    \* ClientSession
    phase, c_timer, using, silent, requested, suspended, connectOnResume, serverAddress,
    resolved, restarts, server, address, c_events, losses, suspends,
    \* Threads
    main, child, m_threadMutex, counting, m_refCount, freed, m_cancel, m_cancelling, m_exited,
    locker, pipe, t_polled, signalled, torn, deaf, starts,
    \* WorkerService
    pc, w_stopped, changed, w_resumed, active, notices, session, life, hung, w_input, w_told, beats,
    beaten, w_silent, grace, wait, uptime, w_failures, wronged, w_switches, w_faults,
    \* Watchdog
    d_service, quits, daemon, configFile, command, running, state, d_failures, dog, process, core,
    coreIn, stray, console, seen, asked, hasty, d_resumed, gaveUp, controls, commands, d_faults,
    d_switches

listenerVars == <<l_tls, listenJob, socket, l_peer, clientSockets, newClients, waitingClients, stream,
    l_ready, l_timer, proxy, l_owner, deafUnknown, strayHandlers, l_events, stopped, corrupt>>
filterVars == <<f_tls, total, early, badPacket, arrived, ended, unannounced, socketInput, buffer,
    size, inputShutdown, queue, reader, packets, packetsRead, f_heard>>
sessionVars == <<phase, c_timer, using, silent, requested, suspended, connectOnResume, serverAddress,
    resolved, restarts, server, address, c_events, losses, suspends>>
threadVars == <<main, child, m_threadMutex, counting, m_refCount, freed, m_cancel, m_cancelling,
    m_exited, locker, pipe, t_polled, signalled, torn, deaf, starts>>
serviceWorkerVars == <<pc, w_stopped, changed, w_resumed, active, notices, session, life, hung,
    w_input, w_told, beats, beaten, w_silent, grace, wait, uptime, w_failures, wronged, w_switches,
    w_faults>>
watchdogVars == <<d_service, quits, daemon, configFile, command, running, state, d_failures, dog,
    process, core, coreIn, stray, console, seen, asked, hasty, d_resumed, gaveUp, controls, commands,
    d_faults, d_switches>>

\* The multiplexer as the socket sees it.
tableJob == [s \in {sock} |-> job]
tableServed == IF service = "idle" THEN NoSocket ELSE sock
Table == INSTANCE JobTable WITH Sockets <- {sock}, Jobs <- Job, job <- tableJob, served <- tableServed

Listener == INSTANCE ClientListener WITH
    tls <- l_tls, peer <- l_peer, ready <- l_ready, timer <- l_timer, owner <- l_owner,
    events <- l_events

Filter == INSTANCE PacketStreamFilter WITH tls <- f_tls, heard <- f_heard

Session == INSTANCE ClientSession WITH timer <- c_timer, events <- c_events

Thread == INSTANCE Threads WITH polled <- t_polled

Worker == INSTANCE WorkerService WITH
    Sessions <- WorkerSessions, MaxSwitches <- WorkerSwitches, MaxFaults <- WorkerFaults,
    stopped <- w_stopped, resumed <- w_resumed, input <- w_input, told <- w_told,
    silent <- w_silent, failures <- w_failures, switches <- w_switches, faults <- w_faults

Dog == INSTANCE Watchdog WITH
    Sessions <- DogSessions, MaxFaults <- DogFaults, MaxSwitches <- DogSwitches,
    service <- d_service, failures <- d_failures, resumed <- d_resumed, faults <- d_faults,
    switches <- d_switches

ASSUME ConnectionsAssumption ==
    /\ sock # NoSocket
    /\ Listener!ListenerAssumption /\ Filter!FilterAssumption /\ Session!SessionAssumption
    /\ Thread!ThreadsAssumption /\ Worker!WorkerAssumption /\ Dog!WatchdogAssumption

------------------------------------------------------------------------------
(* Properties.  A part that rests satisfies its own.                           *)

\* The service thread polls a socket for what its flags and buffers ask for, whatever
\* the two threads chose last: output is not left, input is announced, and it does not
\* spin (TCPSocket::newJob, SecureSocket::newJob).
SocketServed == TypeOK /\ OutputPolled /\ NoIdleSpin /\ InputAnnounced

\* The two threads use the multiplexer's table as it allows: the owner sets or takes away
\* a job only while none runs, and the service thread runs only one that is there.
TableUsed == Table!Spec

\* Every connection has one that answers for it, from accepting to the server: a proxy
\* has one owner, a client that waits is announced, one that failed has its event in the
\* queue, somebody is about to accept, and a socket is not left open to a stranger
\* (ClientListener, ClientProxyUnknown).
ClientsAccountedFor ==
    /\ Listener!TypeOK /\ Listener!OneOwner /\ Listener!WaitingAnnounced
    /\ Listener!OutcomeQueued /\ Listener!SomebodyAccepts /\ Listener!StrangersDropped

\* The end of the stream is told after the last complete packet that was announced was read
\* (PacketStreamFilter::filterEvent).
EndAfterData == Filter!TypeOK /\ Filter!EndAfterData

\* A client that is not connected will try again, with one attempt at a time, a timer only
\* while it connects and nothing while the computer sleeps (Client, ClientApp).
SessionKept ==
    /\ Session!TypeOK /\ Session!SomebodyRetries /\ Session!TimerWhileConnecting
    /\ Session!OneAttempt /\ Session!AsleepIdle

\* One core or worker runs at a time, in the session that is active, as it was asked for last:
\* what is asked meanwhile is kept, what ends is not left behind, and what answers is not
\* killed (WindowsService, MSWindowsWatchdog, DaemonApp, ArchDaemonWindows).  And a thread is
\* freed when the last that refers to it is done (ArchMultithreadPosix).
HostKept ==
    /\ Worker!TypeOK /\ Worker!ChangeSeen /\ Worker!NoneLeft /\ Worker!AnswersSpared
    /\ Worker!DelayFits
    /\ Dog!TypeOK /\ Dog!OneCore /\ Dog!CommandKept /\ Dog!NothingLeft
    /\ Thread!TypeOK /\ Thread!FreedByLast
=============================================================================
