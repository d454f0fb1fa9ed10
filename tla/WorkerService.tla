--------------------------- MODULE WorkerService ---------------------------
(***************************************************************************)
(* The Windows service that keeps one sharing worker in the active session   *)
(* (WindowsService.cpp), and the worker it starts, which is the same program  *)
(* with its standard streams joined to the service's pipes                    *)
(* (deskflow-core.cpp, HeadlessControl, HeadlessStatus).                      *)
(*                                                                            *)
(* The service control manager calls from a thread of its own: it may stop    *)
(* the service, tell it that sessions changed, some time after they did, and  *)
(* that the computer woke up.  Time passes in ticks, and only while the       *)
(* service has nothing to handle.                                             *)
(***************************************************************************)
EXTENDS Integers, Sequences

CONSTANTS
    Sessions,      \* the sessions a user may be in
    NoSession,     \* nobody's session is active
    Grace,         \* ticks a new worker may take before it is expected to be heard (30 s)
    Silence,       \* ticks a worker may be silent (10 s)
    StopWait,      \* ticks a worker may take to stop (4 s)
    Patience,      \* ticks the service waits for a session before it looks again (30 s)
    Delays,        \* ticks before the next worker, after so many failures
    LongRun,       \* ticks after which earlier failures are forgotten (60 s)
    MaxSwitches,   \* bound on changes of the active session, and on wake-ups
    MaxFaults      \* bound on what goes wrong in or with a worker

VARIABLES
    pc,            \* where serviceMain and runWorker are
    stopped, changed, resumed, \* the events, and the flag set with the second
    active,        \* the session that is active
    notices,       \* session changes the service was not told of yet
    session,       \* the session the worker was started in
    life,          \* the worker: none, booting, discovering, running, quitting or exited
    hung,          \* its event loop is stuck
    input,         \* it has joined its standard input to the pipe
    told,          \* the stop command is in that pipe
    beats,         \* status records in the output pipe
    beaten,        \* it wrote one since the last tick
    silent, grace, wait, uptime, failures,
    wronged,       \* a worker that answers was ended by force
    switches, faults

vars == <<pc, stopped, changed, resumed, active, notices, session, life, hung, input, told, beats,
    beaten, silent, grace, wait, uptime, failures, wronged, switches, faults>>
workerVars == <<life, hung, input, told, beats, beaten>>
eventVars == <<stopped, changed, resumed, active, notices>>

WorkerAssumption ==
    /\ {Grace, Silence, StopWait, Patience, LongRun, MaxSwitches, MaxFaults} \subseteq Nat \ {0}
    /\ Delays \in Seq(Nat \ {0}) /\ Delays # <<>> /\ NoSession \notin Sessions

Running == {"discovering", "running"}

TypeOK ==
    /\ pc \in {"choosing", "waiting", "starting", "watching", "ending", "delaying", "stopped"}
    /\ {stopped, changed, resumed, hung, input, told, beaten, wronged} \subseteq BOOLEAN
    /\ {active, session} \subseteq Sessions \cup {NoSession}
    /\ notices \in 0 .. MaxSwitches /\ switches \in 0 .. MaxSwitches /\ faults \in 0 .. MaxFaults
    /\ life \in {"none", "booting", "quitting", "exited"} \cup Running
    /\ beats \in 0 .. 1 /\ silent \in 0 .. Silence + 1 /\ grace \in 0 .. Grace
    /\ wait \in Nat /\ uptime \in 0 .. LongRun /\ failures \in 0 .. Len(Delays)

Init ==
    /\ pc = "choosing" /\ stopped = FALSE /\ changed = FALSE /\ resumed = FALSE
    /\ active = NoSession /\ notices = 0 /\ session = NoSession
    /\ life = "none" /\ hung = FALSE /\ input = FALSE /\ told = FALSE /\ beats = 0 /\ beaten = FALSE
    /\ silent = 0 /\ grace = 0 /\ wait = 0 /\ uptime = 0 /\ failures = 0
    /\ wronged = FALSE /\ switches = 0 /\ faults = 0

------------------------------------------------------------------------------
(* The service's thread.                                                       *)

\* The job is closed with the worker, so that nothing of it is left.
NoWorker ==
    /\ life' = "none" /\ hung' = FALSE /\ input' = FALSE /\ told' = FALSE /\ beats' = 0
    /\ beaten' = FALSE

choose ==
    /\ pc = "choosing"
    /\ IF stopped THEN pc' = "stopped" /\ UNCHANGED <<session, wait>>
       ELSE IF active = NoSession THEN pc' = "waiting" /\ wait' = Patience /\ UNCHANGED session
       ELSE pc' = "starting" /\ session' = active /\ UNCHANGED wait
    /\ uptime' = 0
    /\ UNCHANGED <<workerVars, eventVars, silent, grace, failures, wronged, switches, faults>>

waitForSession ==
    /\ pc = "waiting" /\ (stopped \/ changed \/ wait = 0)
    /\ pc' = "choosing" /\ changed' = (stopped /\ changed) /\ wait' = 0
    /\ UNCHANGED <<workerVars, stopped, resumed, active, notices, session, silent, grace, uptime,
           failures, wronged, switches, faults>>

\* An exception ends the worker, and the next one comes after a while.
Failed ==
    /\ pc' = "delaying"
    /\ LET before == IF uptime = LongRun THEN 0 ELSE failures IN
       /\ wait' = Delays[IF before < Len(Delays) THEN before + 1 ELSE before]
       /\ failures' = IF before < Len(Delays) THEN before + 1 ELSE before
    /\ NoWorker

runWorker ==
    /\ pc = "starting" /\ UNCHANGED uptime
    /\ \/ /\ pc' = "watching" /\ life' = "booting" /\ silent' = 0 /\ grace' = Grace
          /\ UNCHANGED <<hung, input, told, beats, beaten, wait, failures, faults>>
       \/ /\ faults < MaxFaults /\ faults' = faults + 1
          /\ Failed /\ UNCHANGED <<silent, grace>>
    /\ UNCHANGED <<eventVars, session, wronged, switches>>

\* The worker is asked to stop if it can hear that.
ShutDown ==
    /\ pc' = "ending" /\ wait' = StopWait /\ told' = input
    /\ UNCHANGED <<life, hung, input, beats, beaten, failures, wronged>>

\* The heartbeat is checked after whatever ended the wait.
Checked(s, g) ==
    IF g = 0 /\ s > Silence
    THEN Failed /\ wronged' = (wronged \/ (life \in Running /\ ~hung))
    ELSE UNCHANGED <<pc, wait, failures, life, hung, input, told, beaten, wronged>>

\* WaitForMultipleObjects: the first of those that are signalled, or its own time-out.
watch ==
    /\ pc = "watching"
    /\ IF stopped
       THEN ShutDown /\ UNCHANGED <<changed, resumed, silent, grace>>
       ELSE IF changed
       THEN /\ changed' = FALSE
            /\ IF active # session THEN ShutDown /\ UNCHANGED <<resumed, silent, grace>>
               ELSE /\ grace' = IF resumed THEN Grace ELSE grace
                    /\ resumed' = FALSE /\ UNCHANGED silent
                    /\ Checked(silent, grace') /\ (pc' = pc => UNCHANGED beats)
       ELSE IF life = "exited" THEN Failed /\ UNCHANGED <<changed, resumed, silent, grace, wronged>>
       ELSE IF beats > 0
       THEN beats' = 0 /\ silent' = 0 /\ Checked(0, grace) /\ UNCHANGED <<changed, resumed, grace>>
       ELSE /\ grace = 0 /\ silent > Silence
            /\ Checked(silent, grace) /\ UNCHANGED <<changed, resumed, silent, grace>>
    /\ UNCHANGED <<stopped, active, notices, session, uptime, switches, faults>>

end ==
    /\ pc = "ending" /\ (life = "exited" \/ wait = 0)
    /\ pc' = "choosing" /\ failures' = 0 /\ wait' = 0 /\ NoWorker
    /\ wronged' = (wronged \/ (life # "exited" /\ told /\ ~hung))
    /\ UNCHANGED <<eventVars, session, silent, grace, uptime, switches, faults>>

\* Only a stop ends the delay.
delayed ==
    /\ pc = "delaying" /\ (stopped \/ wait = 0)
    /\ pc' = "choosing" /\ wait' = 0
    /\ UNCHANGED <<workerVars, eventVars, session, silent, grace, uptime, failures, wronged,
           switches, faults>>

Serve == choose \/ waitForSession \/ runWorker \/ watch \/ end \/ delayed

------------------------------------------------------------------------------
(* The service control manager's thread, and the users.                        *)

switchSession(s) ==
    /\ switches < MaxSwitches /\ switches' = switches + 1 /\ s # active
    /\ active' = s /\ notices' = notices + 1
    /\ UNCHANGED <<pc, stopped, changed, resumed, session, workerVars, silent, grace, wait, uptime,
           failures, wronged, faults>>

Control ==
    UNCHANGED <<pc, active, session, workerVars, silent, grace, wait, uptime, failures, wronged, faults>>

stop == Control /\ ~stopped /\ stopped' = TRUE /\ UNCHANGED <<changed, resumed, notices, switches>>

changeTold ==
    /\ Control /\ notices > 0 /\ notices' = notices - 1 /\ changed' = TRUE
    /\ UNCHANGED <<stopped, resumed, switches>>

wokenUp ==
    /\ Control /\ switches < MaxSwitches /\ switches' = switches + 1
    /\ resumed' = TRUE /\ changed' = TRUE /\ UNCHANGED <<stopped, notices>>

control == stop \/ changeTold \/ wokenUp

------------------------------------------------------------------------------
(* The worker.                                                                 *)

WorkerStep == UNCHANGED <<pc, eventVars, session, silent, grace, wait, uptime, failures, wronged, switches>>

\* It joins its streams to the pipes before anything else.
connectPipes ==
    /\ WorkerStep /\ life = "booting" /\ ~input /\ ~hung
    /\ input' = TRUE /\ UNCHANGED <<life, hung, told, beats, beaten, faults>>

\* With a server's address the core starts, else the worker listens for servers first; the first
\* status is written either way.
main ==
    /\ WorkerStep /\ life = "booting" /\ input /\ ~hung
    /\ life' \in Running /\ beats' = 1 /\ beaten' = TRUE
    /\ UNCHANGED <<hung, input, told, faults>>

discovered ==
    /\ WorkerStep /\ life = "discovering" /\ ~hung
    /\ life' = "running" /\ UNCHANGED <<hung, input, told, beats, beaten, faults>>

heartbeat ==
    /\ WorkerStep /\ life \in Running /\ ~hung /\ ~beaten
    /\ beats' = 1 /\ beaten' = TRUE /\ UNCHANGED <<life, hung, input, told, faults>>

\* HeadlessControl has a timer of its own: a worker without a core ends, a core is told to
\* quit and ends later.
stopCommand ==
    /\ WorkerStep /\ told /\ life \in Running /\ (life = "discovering" => ~hung)
    /\ life' = IF life = "running" THEN "quitting" ELSE "exited"
    /\ UNCHANGED <<hung, input, told, beats, beaten, faults>>

coreFinished ==
    /\ WorkerStep /\ life = "quitting" /\ ~hung
    /\ life' = "exited" /\ UNCHANGED <<hung, input, told, beats, beaten, faults>>

\* It ends by itself, or is stuck.
fault ==
    /\ WorkerStep /\ life \in Running \cup {"booting", "quitting"} /\ faults < MaxFaults /\ faults' = faults + 1
    /\ \/ life' = "exited" /\ UNCHANGED hung
       \/ hung' = TRUE /\ UNCHANGED life
    /\ UNCHANGED <<input, told, beats, beaten>>

Worker == connectPipes \/ main \/ discovered \/ heartbeat \/ stopCommand \/ coreFinished

\* A worker that is not stuck writes its status and stops in time.
InTime == ~hung => beaten \/ life \in {"none", "exited"}
Idle ==
    CASE pc = "watching" -> ~(stopped \/ changed \/ life = "exited" \/ beats > 0 \/ (grace = 0 /\ silent > Silence))
      [] pc = "waiting" -> ~(stopped \/ changed \/ wait = 0)
      [] pc = "ending" -> life # "exited" /\ wait > 0
      [] pc = "delaying" -> ~stopped /\ wait > 0
      [] OTHER -> FALSE

Tick ==
    /\ Idle /\ InTime /\ (told => hung)
    /\ beaten' = FALSE
    /\ silent' = IF pc = "watching" /\ silent \leq Silence THEN silent + 1 ELSE silent
    /\ grace' = IF grace > 0 THEN grace - 1 ELSE 0
    /\ wait' = IF wait > 0 THEN wait - 1 ELSE 0
    /\ uptime' = IF pc = "watching" /\ uptime < LongRun THEN uptime + 1 ELSE uptime
    /\ UNCHANGED <<pc, eventVars, session, life, hung, input, told, beats, failures, wronged,
           switches, faults>>

Next ==
    \/ Serve \/ (\E s \in Sessions \cup {NoSession} : switchSession(s)) \/ control
    \/ Worker \/ fault \/ Tick

Fair == /\ WF_vars(Serve) /\ WF_vars(Worker) /\ WF_vars(Tick)
        /\ WF_vars(changeTold)
Spec == Init /\ [][Next]_vars /\ Fair

------------------------------------------------------------------------------
(* Properties.                                                                 *)

\* A worker in a session that is no longer active is noticed, whenever the change comes
\* (runWorker reads the session before it starts the worker; the event keeps the news).
ChangeSeen == pc = "watching" /\ active # session => changed \/ notices > 0

\* Two workers never run at once, and a stopped service leaves none.
NoneLeft == pc \notin {"watching", "ending"} => life = "none"

\* A worker that answers is never ended by force.
AnswersSpared == ~wronged

\* The delay grows with failures in a row and starts again after a long run or a stop.
DelayFits == pc = "delaying" => failures > 0 /\ wait \leq Delays[failures]

\* A service that is told to stop does, and one that is not has a worker that works in the
\* session that is active.
StopEnds == stopped => pc = "stopped"
Works == stopped \/ active = NoSession
         \/ (pc = "watching" /\ life \in Running /\ ~hung /\ session = active)
Served == StopEnds /\ Works
=============================================================================
