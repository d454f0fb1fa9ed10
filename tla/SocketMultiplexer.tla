-------------------------- MODULE SocketMultiplexer --------------------------
(***************************************************************************)
(* The socket multiplexer (lib/net/SocketMultiplexer.cpp): a service thread  *)
(* that polls the sockets with the job list locked, and threads that add     *)
(* and remove jobs.  A thread that wants the list locks out the others       *)
(* (the lock on the lock), breaks the service thread out of its poll and     *)
(* waits for the list.  One action is one critical section under m_mutex,    *)
(* or one step under the job list lock.                                      *)
(***************************************************************************)
EXTENDS Naturals, Sequences, SequencesExt

CONSTANTS
    Callers,        \* the threads that add and remove sockets
    Service,        \* the service thread
    Sockets,
    Jobs,           \* what a job can be waiting for
    NoJob,          \* nullptr in the job list; the request to remove
    NoThread,
    NoSocket

Threads == Callers \cup {Service}

ASSUME MultiplexerAssumption ==
    /\ Service \notin Callers
    /\ NoThread \notin Threads
    /\ NoJob \notin Jobs
    /\ NoSocket \notin Sockets

VARIABLES
    pc,             \* where each thread is
    request,        \* the arguments of the call each caller is in
    sleeping,       \* threads in a CondVar::wait
    lockLocker,     \* m_jobListLockLocked and m_jobListLockLocker
    locker,         \* m_jobListLock and m_jobListLocker
    jobsReady,      \* m_jobsReady
    update,         \* m_update
    order,          \* m_socketJobs: the sockets in list order, the keys of m_socketJobMap
    slot,           \* the job each list node holds
    pfds,           \* what the service thread polls
    cursor,         \* the service thread's place in the list
    served,         \* how many entries of pfds have been served
    polled,         \* the service thread has polled before
    unblocked       \* the service thread's pipe (or event) is signalled

lockVars == <<sleeping, lockLocker, locker, jobsReady>>
listVars == <<update, order, slot>>
pollVars == <<pfds, cursor, served>>
wakeVars == <<polled, unblocked>>
vars == <<pc, request, lockVars, listVars, pollVars, wakeVars>>

Request == [socket : Sockets, job : Jobs \cup {NoJob}]

\* The arguments of a caller that is in no call.
NoRequest == [socket |-> NoSocket, job |-> NoJob]

CallerLabels == {"idle", "lockLock", "unblock", "lockList", "change", "unlock"}
ServiceLabels == {"wait", "lockLock", "lockList", "collect", "poll", "next", "run", "reap", "unlock"}

\* Every variable has its type.
TypeOK ==
    /\ pc \in [Threads -> CallerLabels \cup ServiceLabels]
    /\ \A t \in Callers : pc[t] \in CallerLabels
    /\ pc[Service] \in ServiceLabels
    /\ request \in [Callers -> Request \cup {NoRequest}]
    /\ sleeping \subseteq Threads
    /\ lockLocker \in Threads \cup {NoThread}
    /\ locker \in Threads \cup {NoThread}
    /\ jobsReady \in BOOLEAN
    /\ update \in BOOLEAN
    /\ order \in Seq(Sockets)
    /\ slot \in [Sockets -> Jobs \cup {NoJob}]
    /\ pfds \in Seq([socket : Sockets, job : Jobs])
    /\ cursor \in Nat /\ served \in Nat
    /\ polled \in BOOLEAN /\ unblocked \in BOOLEAN

------------------------------------------------------------------------------
(* The locks.  A thread that finds a condition false goes to sleep; it looks   *)
(* again when it is woken, by a signal or for no reason.                       *)

Goto(t, label) == pc' = [pc EXCEPT ![t] = label]

Waiting(label) == {t \in sleeping : pc[t] = label}

\* The threads a signal can wake: one of those that wait.
Signalled(label) == IF Waiting(label) = {} THEN {{}} ELSE {{t} : t \in Waiting(label)}

Sleep(t) ==
    /\ sleeping' = sleeping \cup {t}
    /\ UNCHANGED <<pc, lockLocker, locker, jobsReady>>

lockJobListLock(t) ==
    /\ pc[t] = "lockLock" /\ t \notin sleeping
    /\ IF lockLocker # NoThread THEN Sleep(t)
       ELSE /\ lockLocker' = t
            /\ Goto(t, IF t = Service THEN "lockList" ELSE "unblock")
            /\ UNCHANGED <<sleeping, locker, jobsReady>>
    /\ UNCHANGED <<request, listVars, pollVars, wakeVars>>

\* Mutant: the lock on the lock is taken for the lock.
lockBarging(t) ==
    /\ pc[t] = "lockList" /\ t \notin sleeping
    /\ locker' = t
    /\ lockLocker' = NoThread
    /\ sleeping' = sleeping \ Waiting("lockLock")
    /\ Goto(t, IF t = Service THEN "collect" ELSE "change")
    /\ UNCHANGED <<jobsReady, request, listVars, pollVars, wakeVars>>

lockJobList(t) ==
    /\ pc[t] = "lockList" /\ t \notin sleeping
    /\ IF locker # NoThread THEN Sleep(t)
       ELSE /\ locker' = t
            /\ lockLocker' = NoThread
            /\ sleeping' = sleeping \ Waiting("lockLock")
            /\ Goto(t, IF t = Service THEN "collect" ELSE "change")
            /\ UNCHANGED jobsReady
    /\ UNCHANGED <<request, listVars, pollVars, wakeVars>>

\* Mutant: the thread that waits for jobs is not woken.
unlockUnheard(t) ==
    /\ pc[t] = "unlock"
    /\ locker' = NoThread
    /\ jobsReady' = (order # <<>>)
    /\ \E lists \in Signalled("lockList") : sleeping' = sleeping \ lists
    /\ Goto(t, IF t = Service THEN "wait" ELSE "idle")
    /\ request' = [c \in Callers |-> IF c = t THEN NoRequest ELSE request[c]]
    /\ UNCHANGED <<lockLocker, listVars, pollVars, wakeVars>>

unlockJobList(t) ==
    /\ pc[t] = "unlock"
    /\ locker' = NoThread
    /\ jobsReady' = (order # <<>>)
    /\ \E lists \in Signalled("lockList"),
          waits \in IF jobsReady' = jobsReady THEN {{}} ELSE Signalled("wait") :
          sleeping' = sleeping \ (lists \cup waits)
    /\ Goto(t, IF t = Service THEN "wait" ELSE "idle")
    /\ request' = [c \in Callers |-> IF c = t THEN NoRequest ELSE request[c]]
    /\ UNCHANGED <<lockLocker, listVars, pollVars, wakeVars>>

\* A condition variable may wake a thread for no reason.
WakeSpuriously(t) ==
    /\ t \in sleeping
    /\ sleeping' = sleeping \ {t}
    /\ UNCHANGED <<pc, request, lockLocker, locker, jobsReady, listVars, pollVars, wakeVars>>

------------------------------------------------------------------------------
(* addSocket and removeSocket. *)

Call(t) ==
    /\ pc[t] = "idle"
    /\ \E r \in Request : request' = [request EXCEPT ![t] = r]
    /\ Goto(t, "lockLock")
    /\ UNCHANGED <<lockVars, listVars, pollVars, wakeVars>>

\* Mutant: the service thread is left in its poll.
pollLeft(t) ==
    /\ pc[t] = "unblock"
    /\ Goto(t, "lockList")
    /\ UNCHANGED <<request, lockVars, listVars, pollVars, wakeVars>>

\* Break the service thread out of its poll.  Its pipe or event exists only once it
\* has polled: a pipe made earlier belongs to the calling thread.
unblockPollSocket(t) ==
    /\ pc[t] = "unblock"
    /\ unblocked' = polled
    /\ Goto(t, "lockList")
    /\ UNCHANGED <<request, lockVars, listVars, pollVars, polled>>

\* Mutant: the poll entries are not collected anew after a removal.
changedUnseen(t) ==
    LET s == request[t].socket
        j == request[t].job
    IN  /\ pc[t] = "change"
        /\ slot' = [slot EXCEPT ![s] = j]
        /\ order' = IF s \in Range(order) \/ j = NoJob THEN order ELSE Append(order, s)
        /\ update' = (update \/ j # NoJob)
        /\ Goto(t, "unlock")
        /\ UNCHANGED <<request, lockVars, pollVars, wakeVars>>

\* Put the job at the end of the list, or in the place of the one the socket had, or
\* take it away and leave the place empty.
Change(t) ==
    LET s == request[t].socket
        j == request[t].job
    IN  /\ pc[t] = "change"
        /\ slot' = [slot EXCEPT ![s] = j]
        /\ order' = IF s \in Range(order) \/ j = NoJob THEN order ELSE Append(order, s)
        /\ update' = (update \/ j # NoJob \/ slot[s] # NoJob)
        /\ Goto(t, "unlock")
        /\ UNCHANGED <<request, lockVars, pollVars, wakeVars>>

------------------------------------------------------------------------------
(* serviceThread. *)

WaitForJobs ==
    /\ pc[Service] = "wait" /\ Service \notin sleeping
    /\ IF ~jobsReady THEN Sleep(Service)
       ELSE Goto(Service, "lockLock") /\ UNCHANGED lockVars
    /\ UNCHANGED <<request, listVars, pollVars, wakeVars>>

\* The places of the list that hold a job, in list order.
Employed ==
    CHOOSE places \in UNION {[1..n -> DOMAIN order] : n \in 0..Len(order)} :
        /\ \A i, j \in DOMAIN places : i < j => places[i] < places[j]
        /\ Range(places) = {k \in DOMAIN order : slot[order[k]] # NoJob}

\* The poll entries of the jobs in the list.
Entries ==
    LET places == Employed
    IN  [i \in DOMAIN places |-> [socket |-> order[places[i]], job |-> slot[order[places[i]]]]]

\* Collect the poll entries and enter the poll.
Collect ==
    /\ pc[Service] = "collect"
    /\ pfds' = IF update THEN Entries ELSE pfds
    /\ update' = FALSE
    /\ polled' = (polled \/ pfds' # <<>>)
    /\ Goto(Service, "poll")
    /\ UNCHANGED <<request, lockVars, order, slot, cursor, served, unblocked>>

\* The poll ends: at once with nothing to poll, or because another thread broke it.
PollUnblocked ==
    /\ pc[Service] = "poll"
    /\ pfds = <<>> \/ unblocked
    /\ unblocked' = (unblocked /\ pfds = <<>>)
    /\ Goto(Service, "reap")
    /\ UNCHANGED <<request, lockVars, listVars, pollVars, polled>>

\* The poll fails, or a system call is interrupted.
PollFails ==
    /\ pc[Service] = "poll" /\ pfds # <<>>
    /\ Goto(Service, "reap")
    /\ UNCHANGED <<request, lockVars, listVars, pollVars, wakeVars>>

\* The poll ends because sockets are ready: their jobs will be run.
PollReady ==
    /\ pc[Service] = "poll" /\ pfds # <<>>
    /\ unblocked' = FALSE
    /\ Goto(Service, "next")
    /\ UNCHANGED <<request, lockVars, listVars, pollVars, polled>>

\* The places in the list, past the cursor, that hold a job.
Ahead == {k \in DOMAIN order : k > cursor /\ slot[order[k]] # NoJob}

\* The next job runs with the next poll entry, if there is one of each.
NextJob ==
    /\ pc[Service] = "next"
    /\ IF Ahead # {} /\ served < Len(pfds)
       THEN /\ \E k \in Ahead : (\A l \in Ahead : k <= l) /\ cursor' = k
            /\ served' = served + 1
            /\ Goto(Service, "run")
       ELSE cursor' = 0 /\ served' = 0 /\ Goto(Service, "reap")
    /\ UNCHANGED <<request, lockVars, listVars, pfds, wakeVars>>

\* Mutant: what the job returned goes to the wrong place.
JobRunMisfiled ==
    /\ pc[Service] = "run"
    /\ \/ UNCHANGED listVars
       \/ \E j \in Jobs \cup {NoJob} : slot' = [slot EXCEPT ![order[1]] = j]
          /\ update' = TRUE
          /\ UNCHANGED order
    /\ Goto(Service, "next")
    /\ UNCHANGED <<request, lockVars, pollVars, wakeVars>>

\* The job returns itself, another one, or none.
JobRun ==
    /\ pc[Service] = "run"
    /\ \/ UNCHANGED listVars
       \/ \E j \in Jobs \cup {NoJob} : slot' = [slot EXCEPT ![order[cursor]] = j]
          /\ update' = TRUE
          /\ UNCHANGED order
    /\ Goto(Service, "next")
    /\ UNCHANGED <<request, lockVars, pollVars, wakeVars>>

\* A socket without a job leaves the list, until there is none.
Reap ==
    LET vacant == {k \in DOMAIN order : slot[order[k]] = NoJob}
    IN  /\ pc[Service] = "reap"
        /\ IF vacant = {} THEN Goto(Service, "unlock") /\ UNCHANGED listVars
           ELSE /\ \E k \in vacant : order' = RemoveAt(order, k)
                /\ update' = TRUE
                /\ UNCHANGED <<pc, slot>>
        /\ UNCHANGED <<request, lockVars, pollVars, wakeVars>>

------------------------------------------------------------------------------
Init ==
    /\ pc = [t \in Threads |-> IF t = Service THEN "wait" ELSE "idle"]
    /\ request = [t \in Callers |-> NoRequest]
    /\ sleeping = {} /\ lockLocker = NoThread /\ locker = NoThread
    /\ jobsReady = FALSE /\ update = FALSE
    /\ order = <<>> /\ slot = [s \in Sockets |-> NoJob]
    /\ pfds = <<>> /\ cursor = 0 /\ served = 0
    /\ polled = FALSE /\ unblocked = FALSE

\* What a thread does of its own accord until it waits or returns.
Step(t) ==
    \/ lockJobListLock(t) \/ lockJobList(t) \/ unlockJobList(t)
    \/ t \in Callers /\ (unblockPollSocket(t) \/ Change(t))
    \/ t = Service /\ (WaitForJobs \/ Collect \/ PollUnblocked \/ NextJob \/ JobRun \/ Reap)

Next ==
    \/ \E t \in Threads : Step(t) \/ WakeSpuriously(t)
    \/ \E t \in Callers : Call(t)
    \/ PollReady \/ PollFails

\* Threads are scheduled and jobs end.  That sockets become ready, that anybody
\* calls, and who gets a free lock first is left open.
Fairness == \A t \in Threads : WF_vars(Step(t))

Spec == Init /\ [][Next]_vars /\ Fairness

------------------------------------------------------------------------------
(* Properties. *)

\* The service thread and the callers never have the job list at the same time, and
\* never is a list unlocked by a thread that did not lock it.
Inside == {"collect", "poll", "next", "run", "reap", "change", "unlock"}
ListLocked == \A t \in Threads : pc[t] \in Inside <=> locker = t

\* The poll misses no job and polls for none that is gone: the entries collected
\* earlier are still those of the list (m_update, SocketMultiplexer::serviceThread).
PollMatchesJobs == pc[Service] = "poll" => pfds = Entries

\* A job is run with the poll entry of its own socket: "the order of jobs in the list
\* continue to match the order of jobs in pfds" (SocketMultiplexer::addSocket).
OwnPollEntry ==
    /\ TypeOK
    /\ pc[Service] = "run" =>
        pfds[served] = [socket |-> order[cursor], job |-> slot[order[cursor]]]

\* No thread sleeps through the condition it waits for: a single signal is enough to
\* hand on the list (SocketMultiplexer::unlockJobList).
NobodyOverslept ==
    /\ Waiting("lockLock") # {} => lockLocker # NoThread
    /\ Waiting("lockList") # {} => locker # NoThread
    /\ Waiting("wait") # {} => ~jobsReady

\* Once the service thread has polled, every addSocket and removeSocket that has
\* locked out the others returns, however quiet the network is.
LockedOutReturns ==
    \A t \in Callers : pc[t] = "unblock" /\ polled ~> pc[t] = "idle"

\* The same from the very first poll on: "break thread out of poll"
\* (SocketMultiplexer::addSocket).
PollAlwaysBroken == \A t \in Callers : pc[t] = "unblock" ~> pc[t] = "idle"

\* The multiplexer keeps the promise of JobTable.
Table == INSTANCE JobTable WITH
    job <- slot,
    served <- IF pc[Service] = "run" THEN order[cursor] ELSE NoSocket

TableSpec == Table!Spec
=============================================================================
