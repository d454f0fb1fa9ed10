------------------------------ MODULE Watchdog ------------------------------
(***************************************************************************)
(* The daemon that keeps a core running for whoever sits at the console: the  *)
(* service it is (ArchDaemonWindows), its application and the commands that    *)
(* come over its pipe (DaemonApp, DaemonIpcServer), and the watchdog, whose    *)
(* main loop starts, restarts and stops the core under one mutex               *)
(* (MSWindowsWatchdog, MSWindowsProcess, MSWindowsSession).                    *)
(*                                                                            *)
(* Four threads act: the control manager's, the daemon's own, the one that     *)
(* reads commands, and the watchdog's.  The daemon may be killed and started   *)
(* again; the core may end or get stuck at any time.                           *)
(***************************************************************************)
EXTENDS Naturals

CONSTANTS
    Sessions,      \* the sessions the console may belong to
    Lobby,         \* the one nobody is logged in to: it gives no user's token, so that a
                   \* command that is not elevated cannot be started there
    MaxControls,   \* bound on controls of the service
    MaxCommands,   \* bound on commands over the pipe
    MaxFaults,     \* bound on what goes wrong with a core or the daemon
    MaxSwitches    \* bound on changes of the console's session

WatchdogAssumption ==
    /\ Lobby \in Sessions
    /\ {MaxControls, MaxCommands, MaxFaults, MaxSwitches} \subseteq Nat

VARIABLES
    service,       \* m_serviceState
    quits,         \* quit messages in the daemon thread's queue
    daemon,        \* where that thread is
    configFile,    \* the settings name a configuration to start with
    command,       \* m_command is not empty
    running,       \* m_running
    state,         \* m_processState
    failures,      \* m_startFailures
    dog,           \* where the watchdog's thread is
    process,       \* m_process: none, one that was not created, or one that was
    core, coreIn,  \* the process it stands for, and its session
    stray,         \* a core the watchdog did not start
    console, seen, \* the console's session, and m_activeSessionId
    asked,         \* what the control manager asked for last
    hasty,         \* it asked before the last request was done
    resumed,       \* the service was continued after a pause
    gaveUp,        \* stop() did not wait for the watchdog's thread
    controls, commands, faults, switches

vars == <<service, quits, daemon, configFile, command, running, state, failures, dog, process, core,
    coreIn, stray, console, seen, asked, hasty, resumed, gaveUp, controls, commands, faults, switches>>
serviceVars == <<service, quits, daemon, asked, hasty, resumed, gaveUp>>
dogVars == <<running, state, failures, dog, process, core, coreIn, stray, seen>>
boundVars == <<controls, commands, faults, switches>>

Alive == {"up", "stuck"}
Busy == {"starting", "checking", "stopping"} \* the thread holds m_processStateMutex

TypeOK ==
    /\ service \in {"starting", "running", "pausing", "paused", "continuing", "stopping", "stopped"}
    /\ quits \in 0 .. MaxControls
    /\ daemon \in {"waiting", "entering", "looping", "leaving", "gone"}
    /\ {configFile, command, running, hasty, resumed, gaveUp} \subseteq BOOLEAN
    /\ state \in {"Idle", "StartScheduled", "StartPending", "Running", "StopPending"}
    /\ failures \in 0 .. 2
    /\ dog \in {"none", "cleaning", "free", "finishing"} \cup Busy
    /\ process \in {"null", "blank", "held"} /\ {core, stray} \subseteq {"none"} \cup Alive
    /\ {coreIn, console, seen} \subseteq Sessions
    /\ asked \in {"run", "pause", "stop"}
    /\ controls \in 0 .. MaxControls /\ commands \in 0 .. MaxCommands
    /\ faults \in 0 .. MaxFaults /\ switches \in 0 .. MaxSwitches

\* The daemon's memory when it starts: the command is made from the configuration that the
\* settings name, if there is one that can be used.
Started(keep) ==
    /\ service' = "starting" /\ quits' = 0 /\ daemon' = "waiting" /\ asked' = "run"
    /\ hasty' = FALSE /\ resumed' = FALSE /\ gaveUp' = FALSE /\ running' = TRUE /\ failures' = 0
    /\ dog' = "none" /\ process' = "null"
    /\ command' = keep /\ state' = IF keep THEN "StartPending" ELSE "Idle"

Init ==
    /\ service = "starting" /\ quits = 0 /\ daemon = "waiting" /\ asked = "run"
    /\ hasty = FALSE /\ resumed = FALSE /\ gaveUp = FALSE
    /\ configFile = FALSE /\ command = FALSE /\ running = TRUE /\ state = "Idle" /\ failures = 0
    /\ dog = "none" /\ process = "null" /\ core = "none" /\ stray = "none"
    /\ coreIn = Lobby /\ console = Lobby /\ seen = Lobby
    /\ controls = 0 /\ commands = 0 /\ faults = 0 /\ switches = 0

------------------------------------------------------------------------------
(* The service: serviceHandler, doRunDaemon and DaemonApp::mainLoop.           *)

isRunState(s) == s \in {"starting", "continuing", "running"}

\* Nothing is asked of a service that starts, stops or has stopped.
serviceHandler(ctrl) ==
    /\ service \notin {"starting", "stopping", "stopped"}
    /\ controls < MaxControls /\ controls' = controls + 1
    /\ asked' = ctrl /\ hasty' = (hasty \/ service \notin {"running", "paused"})
    /\ \/ ctrl = "pause" /\ service # "paused" /\ service' = "pausing" /\ quits' = quits + 1
       \/ ctrl = "run" /\ service \in {"paused", "pausing"} /\ service' = "continuing" /\ UNCHANGED quits
       \/ ctrl = "stop" /\ service' = "stopping" /\ quits' = quits + 1
    /\ UNCHANGED <<daemon, resumed, gaveUp, configFile, command, dogVars, console, commands, faults,
           switches>>

\* A thread of the watchdog that was given up on has ended when the service is continued.
doRunDaemon ==
    /\ daemon = "waiting"
    /\ \/ isRunState(service) /\ dog = "none" /\ daemon' = "entering" /\ UNCHANGED service
       \/ service = "stopping" /\ service' = "stopped" /\ daemon' = "gone"
    /\ UNCHANGED <<quits, asked, hasty, resumed, gaveUp, configFile, command, dogVars, console, boundVars>>

\* daemonRunning(true), whatever was asked meanwhile; then the watchdog's threads are started.
enterLoop ==
    /\ daemon = "entering" /\ daemon' = "looping" /\ service' = "running"
    /\ dog' = "cleaning" /\ resumed' = (resumed \/ ~running)
    /\ UNCHANGED <<quits, asked, hasty, gaveUp, configFile, command, running, state, failures, process,
           core, coreIn, stray, console, seen, boundVars>>

\* A quit message ends the loop; the watchdog is told.
leaveLoop ==
    /\ daemon = "looping" /\ quits > 0
    /\ quits' = quits - 1 /\ daemon' = "leaving" /\ running' = FALSE
    /\ UNCHANGED <<service, asked, hasty, resumed, gaveUp, configFile, command, state, failures, dog,
           process, core, coreIn, stray, console, seen, boundVars>>

\* The thread is waited for, five seconds: it takes longer only to shut down a core that is
\* stuck.  When the daemon is gone its threads are too.
stopped ==
    /\ daemon = "leaving"
    /\ \/ dog = "none" /\ UNCHANGED gaveUp
       \/ dog # "none" /\ "stuck" \in {core, stray} /\ gaveUp' = TRUE
    /\ IF service = "pausing" THEN service' = "paused" /\ daemon' = "waiting" /\ UNCHANGED dog
       ELSE service' = "stopped" /\ daemon' = "gone" /\ dog' = "none"
    /\ UNCHANGED <<quits, asked, hasty, resumed, configFile, command, running, state, failures,
           process, core, coreIn, stray, console, seen, boundVars>>

Service == doRunDaemon \/ enterLoop \/ leaveLoop \/ stopped

\* The daemon is killed, or was stopped; the next one is started with the computer or by hand.
\* It does not know a core that is left.
restart ==
    /\ faults < MaxFaults /\ faults' = faults + 1
    /\ Started(configFile)
    /\ stray' = (IF core # "none" THEN core ELSE stray) /\ core' = "none"
    /\ seen' = Lobby /\ UNCHANGED <<configFile, coreIn, console, controls, commands, switches>>

------------------------------------------------------------------------------
(* The commands.  setProcessConfig waits for the mutex.                        *)

Commanded == daemon # "gone" /\ commands < MaxCommands /\ commands' = commands + 1

\* Mutant: it does not wait.
setProcessConfigAtOnce(set) ==
    /\ command' = set /\ state' = IF set THEN "StartPending" ELSE "StopPending"
    /\ UNCHANGED <<running, failures, dog, process, core, coreIn, stray, seen>>

setProcessConfig(set) ==
    /\ dog \notin Busy
    /\ command' = set /\ state' = IF set THEN "StartPending" ELSE "StopPending"
    /\ UNCHANGED <<running, failures, dog, process, core, coreIn, stray, seen>>

\* The path is kept before anything is known of the file.
setConfigFile ==
    /\ Commanded /\ configFile' = TRUE
    /\ UNCHANGED <<serviceVars, command, dogVars, console, controls, faults, switches>>

\* Without a file there is nothing to start; the client is told "ok" all the same.
applyWatchdogCommand ==
    /\ Commanded /\ configFile /\ setProcessConfig(TRUE)
    /\ UNCHANGED <<serviceVars, configFile, console, controls, faults, switches>>

clearWatchdogCommand ==
    /\ Commanded /\ configFile' = FALSE /\ setProcessConfig(FALSE)
    /\ UNCHANGED <<serviceVars, console, controls, faults, switches>>

\* The core goes on, but not after the next start of the daemon.
clearSettings ==
    /\ Commanded /\ configFile /\ configFile' = FALSE
    /\ UNCHANGED <<serviceVars, command, dogVars, console, controls, faults, switches>>

------------------------------------------------------------------------------
(* The watchdog's thread: mainLoop.                                            *)

DogStep == UNCHANGED <<serviceVars, configFile, command, running, console, boundVars>>

hasChanged == seen # console
isProcessRunning == process = "held" /\ core # "none"

shutdownExistingProcesses ==
    /\ DogStep /\ dog = "cleaning" /\ dog' = "free" /\ stray' = "none"
    /\ UNCHANGED <<state, failures, process, core, coreIn, seen>>

\* One turn of the loop, up to where it has to wait with the mutex held.
turn ==
    /\ DogStep /\ dog = "free"
    /\ \/ ~running /\ dog' = "finishing" /\ UNCHANGED state
       \/ /\ running /\ state = "Running" /\ hasChanged
          /\ state' = "StartPending" /\ dog' = "starting"
       \/ /\ running /\ state = "Running" /\ ~hasChanged /\ ~isProcessRunning
          /\ state' = "StartPending" /\ UNCHANGED dog
       \/ running /\ state = "StartScheduled" /\ state' = "StartPending" /\ UNCHANGED dog
       \/ running /\ state = "StartPending" /\ dog' = "starting" /\ UNCHANGED state
       \/ running /\ state = "StopPending" /\ dog' = "stopping" /\ UNCHANGED state
    /\ UNCHANGED <<failures, process, core, coreIn, stray, seen>>

\* The first failure is followed by another try at once, the others by a pause.
handleStartError ==
    /\ failures' = IF failures < 2 THEN failures + 1 ELSE 2
    /\ state' = IF failures' > 1 THEN "StartScheduled" ELSE "StartPending"
    /\ dog' = "free"

\* The old core is shut down, by force in the end.  The new one is not created if there is no
\* user whose token could be taken, unless the command is elevated and takes winlogon.exe's;
\* if that token, or the environment, cannot be had; or if creating it returns false, which
\* leaves no handle to ask for an exit code.  What m_process holds then was never created.
startProcess ==
    /\ dog = "starting" /\ seen' = console
    /\ \/ /\ process' = "held" /\ core' = "up" /\ coreIn' = console
          /\ dog' = "checking" /\ UNCHANGED <<state, failures, faults>>
       \/ /\ console = Lobby \/ faults < MaxFaults
          /\ faults' = IF console = Lobby THEN faults ELSE faults + 1
          /\ process' = "blank" /\ core' = "none" /\ UNCHANGED coreIn /\ handleStartError
    /\ UNCHANGED <<stray, serviceVars, configFile, command, running, console, controls, commands,
           switches>>

\* After a second the core is looked at.
checkStarted ==
    /\ DogStep /\ dog = "checking"
    /\ IF isProcessRunning
       THEN state' = "Running" /\ failures' = 0 /\ dog' = "free" /\ UNCHANGED process
       ELSE process' = "null" /\ handleStartError
    /\ UNCHANGED <<core, coreIn, stray, seen>>

stopProcess ==
    /\ DogStep /\ dog = "stopping" /\ dog' = "free" /\ state' = "Idle"
    /\ process' = "null" /\ core' = "none" /\ stray' = "none"
    /\ UNCHANGED <<failures, coreIn, seen>>

finish ==
    /\ DogStep /\ dog = "finishing" /\ dog' = "none"
    /\ process' = "null" /\ core' = "none" /\ stray' = "none"
    /\ UNCHANGED <<state, failures, coreIn, seen>>

Watch == shutdownExistingProcesses \/ turn \/ startProcess \/ checkStarted \/ stopProcess \/ finish

------------------------------------------------------------------------------
(* The core and the users.                                                     *)

coreFails ==
    /\ core = "up" /\ core' \in {"none", "stuck"} /\ faults < MaxFaults /\ faults' = faults + 1
    /\ UNCHANGED <<serviceVars, configFile, command, running, state, failures, dog, process, coreIn,
           stray, console, seen, controls, commands, switches>>

switchUser(s) ==
    /\ s # console /\ console' = s /\ switches < MaxSwitches /\ switches' = switches + 1
    /\ UNCHANGED <<serviceVars, configFile, command, dogVars, controls, commands, faults>>

Next ==
    \/ Service \/ Watch
    \/ (\E ctrl \in {"pause", "run", "stop"} : serviceHandler(ctrl)) \/ restart
    \/ setConfigFile \/ applyWatchdogCommand \/ clearWatchdogCommand \/ clearSettings
    \/ coreFails \/ (\E s \in Sessions : switchUser(s))

Fair == WF_vars(Service) /\ WF_vars(Watch)
Spec == Init /\ [][Next]_vars /\ Fair

------------------------------------------------------------------------------
(* Properties.                                                                 *)

\* There is never a second core: what an earlier daemon left is gone before one is started.
OneCore == core = "none" \/ stray = "none"

\* What was commanded last is done or going to be, whatever the watchdog was doing.
CommandKept ==
    IF command THEN state \in {"StartPending", "StartScheduled", "Running"}
    ELSE state \in {"StopPending", "Idle"}

\* A service that does not run has no core, unless it could not wait for a stuck one.
NothingLeft ==
    (service = "stopped" \/ (service = "paused" /\ dog = "none")) /\ ~gaveUp => core = "none"

\* The service comes to what was asked of it last; asked too soon it may stop instead of going
\* on, and wait for a thread that does not wake up instead of pausing, but a stop is always done.
ControlDone ==
    CASE asked = "stop" -> service = "stopped"
      [] asked = "pause" -> service \in {"paused", "stopped"} \/ (hasty /\ service = "pausing")
      [] OTHER -> service = "running" \/ (hasty /\ service = "stopped")

\* The user at the console has the core that was commanded, and none that was not, while the
\* service runs and was never paused.
CoreServes ==
    service = "running" /\ ~resumed =>
        IF command THEN console = Lobby \/ (core # "none" /\ coreIn = console /\ state = "Running")
        ELSE core = "none" /\ stray = "none"

Served == ControlDone /\ CoreServes
=============================================================================
