--------------------------- MODULE MCConnections ---------------------------
(***************************************************************************)
(* The parts of a connection (ConnectionParts) side by side for TLC.  They   *)
(* share no state: in each behavior one part runs under its own specification *)
(* and the others rest, so that one run checks them all.                      *)
(***************************************************************************)
EXTENDS Sequences, ConnectionParts

\* Three servers: the first has two addresses and is not there, the second has none, the
\* third answers; the second address of the first answers too.
ThreeServers == <<2, 0, 1>>
Answering == {<<3, 0>>, <<1, 1>>}
\* The service waits so long before it starts a worker again, the longer the more often it failed.
TwoDelays == <<1, 2>>

allVars == <<vars, listenerVars, filterVars, sessionVars, threadVars, serviceWorkerVars,
    watchdogVars, part>>

\* One initial state of each part while it rests.
PartsInit ==
    /\ part \in {"socket", "listener", "filter", "session", "thread", "worker", "watchdog"}
    /\ Init /\ (part # "socket" => ~tls /\ ~dialled)
    /\ Listener!Init /\ (part # "listener" => ~l_tls)
    /\ Filter!Init /\ (part # "filter" => ~f_tls /\ total = 0 /\ badPacket = 0 /\ reader = "all")
    /\ Session!Init /\ Thread!Init /\ Worker!Init /\ Dog!Init

PartsNext ==
    /\ \/ /\ part = "socket" /\ Next
          /\ UNCHANGED <<listenerVars, filterVars, sessionVars, threadVars, serviceWorkerVars, watchdogVars>>
       \/ /\ part = "listener" /\ Listener!Next
          /\ UNCHANGED <<vars, filterVars, sessionVars, threadVars, serviceWorkerVars, watchdogVars>>
       \/ /\ part = "filter" /\ Filter!Next
          /\ UNCHANGED <<vars, listenerVars, sessionVars, threadVars, serviceWorkerVars, watchdogVars>>
       \/ /\ part = "session" /\ Session!Next
          /\ UNCHANGED <<vars, listenerVars, filterVars, threadVars, serviceWorkerVars, watchdogVars>>
       \/ /\ part = "thread" /\ Thread!Next
          /\ UNCHANGED <<vars, listenerVars, filterVars, sessionVars, serviceWorkerVars, watchdogVars>>
       \/ /\ part = "worker" /\ Worker!Next
          /\ UNCHANGED <<vars, listenerVars, filterVars, sessionVars, threadVars, watchdogVars>>
       \/ /\ part = "watchdog" /\ Dog!Next
          /\ UNCHANGED <<vars, listenerVars, filterVars, sessionVars, threadVars, serviceWorkerVars>>
    /\ UNCHANGED part

\* Each part has the fairness of its own specification while it runs.
SocketFair ==
    /\ SF_vars(part = "socket" /\ OwnerGoesOn) /\ WF_vars(part = "socket" /\ handleEvent)
    /\ WF_vars(part = "socket" /\ ServiceStep)
ListenerFair ==
    /\ WF_listenerVars(part = "listener" /\ Listener!Handle)
    /\ WF_listenerVars(part = "listener" /\ Listener!serviceListening)
    /\ \A c \in Conns : WF_listenerVars(part = "listener" /\ Listener!handleTimeout(c))
FilterFair == WF_filterVars(part = "filter" /\ Filter!Handle)
SessionFair ==
    /\ WF_sessionVars(part = "session" /\ Session!App)
    /\ WF_sessionVars(part = "session" /\ Session!handleClientRestart)
    /\ WF_sessionVars(part = "session" /\ Session!Progress)
    /\ WF_sessionVars(part = "session" /\ Session!handleConnectTimeout)
ThreadFair ==
    /\ WF_threadVars(part = "thread" /\ Thread!Stopping)
    /\ WF_threadVars(part = "thread" /\ Thread!Child)

WorkerFair ==
    /\ WF_serviceWorkerVars(part = "worker" /\ Worker!Serve)
    /\ WF_serviceWorkerVars(part = "worker" /\ Worker!Worker)
    /\ WF_serviceWorkerVars(part = "worker" /\ Worker!Tick)
    /\ WF_serviceWorkerVars(part = "worker" /\ Worker!changeTold)
WatchdogFair ==
    /\ WF_watchdogVars(part = "watchdog" /\ Dog!Service)
    /\ WF_watchdogVars(part = "watchdog" /\ Dog!Watch)

PartsSpec ==
    /\ PartsInit /\ [][PartsNext]_allVars
    /\ SocketFair /\ ListenerFair /\ FilterFair /\ SessionFair /\ ThreadFair
    /\ WorkerFair /\ WatchdogFair

------------------------------------------------------------------------------
\* Nobody waits for ever: a flush and a close return, of a plain socket and with TLS, but for a
\* flush whose peer never reads and the two cases that NotDetained names; a loss is heard, a
\* new client is let in or refused, packets that were announced and the end of the stream reach
\* the reader, a client gets to a server that answers, who ends a thread gets back, and the
\* user at the computer gets a core.
EverybodyAnswered ==
    \/ <>[](owner = "flush" /\ Unread)
    \/ []<>(/\ NotDetained /\ LossHeard
            /\ Listener!NobodyNew
            /\ Filter!CaughtUp
            /\ Thread!Ended
            /\ part = "session" => Session!Served
            /\ part = "worker" => Worker!Served
            /\ part = "watchdog" => Dog!Served)
=============================================================================
