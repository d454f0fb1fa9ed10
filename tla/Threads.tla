------------------------------ MODULE Threads ------------------------------
(***************************************************************************)
(* The life of a thread (ArchMultithreadPosix, Thread) by the one the         *)
(* program starts again and again, the service thread of a socket             *)
(* multiplexer: the main thread starts it, and to end it sets its cancel      *)
(* flag, signals it, writes to its pipe, waits until it exited and closes it. *)
(*                                                                            *)
(* What is done under m_threadMutex is one step, but for a count of           *)
(* references: it is raised under the mutex and lowered without it, so each   *)
(* change is a read and a write, between which the other thread may act.      *)
(* The next thread is started when the last one is gone.  What is done with   *)
(* the sockets is SocketMultiplexer's.                                        *)
(***************************************************************************)
EXTENDS Integers

CONSTANTS MaxStarts \* a bound on the multiplexers that are made

ThreadsAssumption == MaxStarts \in Nat

VARIABLES
    main, child,       \* what each thread is at
    m_threadMutex,     \* who raises the count
    counting,          \* the count as each has read it, None if it changes nothing
    m_refCount, freed, \* of the child's ArchThreadImpl
    m_cancel, m_cancelling, m_exited, \* the same
    locker,            \* whether the job list's lock names the child, and so refers to it
    pipe,              \* m_networkData: "none", "empty" or "written"
    polled,            \* the child polled, and refers to itself for good
    signalled,         \* SIGWAKEUP interrupted the poll
    torn, deaf,        \* the named cases
    starts

cancelVars == <<m_cancel, m_cancelling, m_exited>>
pollVars == <<pipe, polled, signalled, deaf>>
countVars == <<m_threadMutex, counting, m_refCount, freed, torn>>
vars == <<main, child, countVars, cancelVars, locker, pollVars, starts>>

Actors == {"main", "child"}
None == -1

\* Where a thread changes the count: refThread under the mutex, closeThread without it.
Raising == {"waiting", "born", "locking", "asking", "keeping"}
Lowering == {"waited", "deleting", "unlocking", "named", "giving", "unlocked", "exited"}

TypeOK ==
    /\ main \in {"idle", "serving", "killing", "unblocking", "waiting", "watching", "waited",
                 "deleting", "unlocking"}
    /\ child \in {"none", "born", "named", "testing", "locking", "asking", "keeping", "giving",
                  "polling", "unlocked", "cancelled", "exited"}
    /\ m_threadMutex \in Actors \cup {"none"}
    /\ counting \in [Actors -> Int]
    /\ m_refCount \in Int /\ freed \in BOOLEAN
    /\ m_cancel \in BOOLEAN /\ m_cancelling \in BOOLEAN /\ m_exited \in BOOLEAN
    /\ locker \in BOOLEAN
    /\ pipe \in {"none", "empty", "written"} /\ polled \in BOOLEAN /\ signalled \in BOOLEAN
    /\ torn \in BOOLEAN /\ deaf \in BOOLEAN
    /\ starts \in 0 .. MaxStarts

Init ==
    /\ main = "idle" /\ child = "none"
    /\ m_threadMutex = "none" /\ counting = [a \in Actors |-> None]
    /\ m_refCount = 0 /\ freed = TRUE
    /\ m_cancel = FALSE /\ m_cancelling = FALSE /\ m_exited = FALSE
    /\ locker = FALSE
    /\ pipe = "none" /\ polled = FALSE /\ signalled = FALSE
    /\ torn = FALSE /\ deaf = FALSE /\ starts = 0

------------------------------------------------------------------------------
(* The count of references.                                                    *)

At(a) == IF a = "main" THEN main ELSE child
Unlocked == m_threadMutex = "none"

\* The count is read.
count(a) ==
    /\ counting[a] = None
    /\ \/ At(a) \in Raising /\ Unlocked /\ m_threadMutex' = a
       \/ At(a) \in Lowering /\ UNCHANGED m_threadMutex
    /\ counting' = [counting EXCEPT ![a] = m_refCount]
    /\ UNCHANGED <<main, child, m_refCount, freed, torn, cancelVars, locker, pollVars, starts>>

\* It is written, over what the other wrote meanwhile.
write(a, n) ==
    /\ m_refCount' = n /\ torn' = (torn \/ m_refCount # counting[a])
    /\ counting' = [counting EXCEPT ![a] = None]

refThread(a) ==
    /\ m_threadMutex = a
    /\ write(a, counting[a] + 1) /\ m_threadMutex' = "none"
    /\ UNCHANGED freed

\* The last one takes it off the list, under the mutex, and deletes it.
closeThread(a) ==
    /\ counting[a] # None /\ (counting[a] = 1 => Unlocked)
    /\ write(a, counting[a] - 1)
    /\ freed' = (freed \/ counting[a] = 1)
    /\ UNCHANGED m_threadMutex

------------------------------------------------------------------------------
(* The main thread.                                                            *)

\* One reference is the owner's and one the thread's.
newThread ==
    /\ main = "idle" /\ child = "none" /\ starts < MaxStarts
    /\ main' = "serving" /\ child' = "born"
    /\ m_refCount' = 2 /\ freed' = FALSE
    /\ m_cancel' = FALSE /\ m_cancelling' = FALSE /\ m_exited' = FALSE
    /\ pipe' = "none" /\ polled' = FALSE /\ signalled' = FALSE /\ deaf' = FALSE /\ torn' = FALSE
    /\ starts' = starts + 1
    /\ UNCHANGED <<m_threadMutex, counting, locker>>

cancelThread ==
    /\ main = "serving" /\ Unlocked
    /\ LET wakeup == ~m_exited /\ ~m_cancelling IN
       m_cancel' = (m_cancel \/ wakeup) /\ main' = (IF wakeup THEN "killing" ELSE "unblocking")
    /\ UNCHANGED <<child, countVars, m_cancelling, m_exited, locker, pollVars, starts>>

\* A signal while the child is not in a system call is lost.
kill ==
    /\ main = "killing" /\ main' = "unblocking"
    /\ signalled' = (child = "polling")
    /\ UNCHANGED <<child, countVars, cancelVars, locker, pipe, polled, deaf, starts>>

\* If the child has no pipe yet, the main thread makes one for itself.
unblockPollSocket ==
    /\ main = "unblocking" /\ Unlocked /\ main' = "waiting"
    /\ IF pipe = "none" THEN deaf' = TRUE /\ UNCHANGED pipe
       ELSE pipe' = "written" /\ UNCHANGED deaf
    /\ UNCHANGED <<child, countVars, cancelVars, locker, polled, signalled, starts>>

\* It refers to the child, looks again and again whether it exited, and closes it.
wait ==
    /\ \/ main = "waiting" /\ refThread("main") /\ main' = "watching"
       \/ main = "watching" /\ Unlocked /\ m_exited /\ main' = "waited" /\ UNCHANGED countVars
       \/ main = "waited" /\ closeThread("main") /\ main' = "deleting"
    /\ UNCHANGED <<child, cancelVars, locker, pollVars, starts>>

\* The thread is deleted, and then the job list's lock if it names it.
deleteThread ==
    /\ main \in {"deleting", "unlocking"} /\ closeThread("main")
    /\ main' = IF main = "deleting" /\ locker THEN "unlocking" ELSE "idle"
    /\ locker' = (locker /\ main = "deleting")
    /\ UNCHANGED <<child, cancelVars, pollVars, starts>>

------------------------------------------------------------------------------
(* The child.                                                                  *)

\* It reads its id for the log.
threadFunc ==
    /\ \/ child = "born" /\ refThread("child") /\ child' = "named"
       \/ child = "named" /\ closeThread("child") /\ child' = "testing"
    /\ UNCHANGED <<main, cancelVars, locker, pollVars, starts>>

\* Thrown once; also while it waits for jobs, every tenth of a second.
testCancelThread ==
    /\ m_cancel /\ ~m_cancelling
    /\ m_cancelling' = TRUE /\ m_cancel' = FALSE
    /\ child' = "cancelled"

\* No cancel, and there are jobs.
serve ==
    /\ child = "testing" /\ Unlocked
    /\ \/ testCancelThread
       \/ ~(m_cancel /\ ~m_cancelling) /\ child' = "locking" /\ UNCHANGED <<m_cancel, m_cancelling>>
    /\ UNCHANGED <<main, countVars, m_exited, locker, pollVars, starts>>

\* The locks are named after the thread that has them.  With no socket nothing is polled.
lockJobList ==
    /\ \/ /\ child = "locking" /\ refThread("child") /\ locker' = TRUE
          /\ child' \in {"asking", "unlocked"}
       \/ /\ child = "unlocked" /\ closeThread("child") /\ locker' = FALSE
          /\ child' = "testing"
    /\ UNCHANGED <<main, cancelVars, pollVars, starts>>

\* The first time it makes a pipe, and find leaves a reference behind.
getUnblockPipe ==
    /\ \/ /\ child = "asking" /\ refThread("child")
          /\ child' = IF pipe = "none" THEN "keeping" ELSE "giving"
          /\ UNCHANGED <<pipe, polled>>
       \/ /\ child = "keeping" /\ refThread("child") /\ child' = "giving"
          /\ pipe' = "empty" /\ polled' = TRUE
       \/ /\ child = "giving" /\ closeThread("child") /\ child' = "polling"
          /\ UNCHANGED <<pipe, polled>>
    /\ UNCHANGED <<main, cancelVars, locker, signalled, deaf, starts>>

\* It returns if the pipe was written to, or a signal came.
pollSocket ==
    /\ child = "polling"
    /\ \/ /\ pipe = "written" /\ ~signalled
          /\ pipe' = "empty" /\ child' = "unlocked"
          /\ UNCHANGED <<m_cancel, m_cancelling, signalled>>
       \/ /\ signalled /\ signalled' = FALSE /\ Unlocked
          /\ \/ testCancelThread
             \/ ~(m_cancel /\ ~m_cancelling) /\ child' = "unlocked"
                /\ UNCHANGED <<m_cancel, m_cancelling>>
          /\ UNCHANGED pipe
    /\ UNCHANGED <<main, countVars, m_exited, locker, polled, deaf, starts>>

\* Or if a socket has something to read.
socketReady ==
    /\ child = "polling" /\ ~signalled /\ child' = "unlocked"
    /\ pipe' = "empty"
    /\ UNCHANGED <<main, countVars, cancelVars, locker, polled, signalled, deaf, starts>>

doThreadFunc ==
    /\ \/ /\ child = "cancelled" /\ Unlocked /\ m_exited' = TRUE /\ child' = "exited"
          /\ UNCHANGED countVars
       \/ /\ child = "exited" /\ closeThread("child") /\ child' = "none"
          /\ UNCHANGED m_exited
    /\ UNCHANGED <<main, m_cancel, m_cancelling, locker, pollVars, starts>>

------------------------------------------------------------------------------

Stopping == count("main") \/ kill \/ unblockPollSocket \/ wait \/ deleteThread
Child == count("child") \/ threadFunc \/ serve \/ lockJobList \/ getUnblockPipe \/ pollSocket
             \/ doThreadFunc
Next == newThread \/ cancelThread \/ Stopping \/ Child \/ socketReady

\* Both threads run; when the main thread stops the other is up to the program.
Fair == WF_vars(Stopping) /\ WF_vars(Child)
Spec == Init /\ [][Next]_vars /\ Fair

------------------------------------------------------------------------------
(* Properties.                                                                 *)

\* The thread is there as long as somebody refers to it and is freed when nobody does, unless
\* it polled or two changes of the count overlapped (closeThread, refThread).
References ==
    (IF main \in {"idle", "unlocking"} THEN 0 ELSE 1) + (IF main \in {"watching", "waited"} THEN 1 ELSE 0)
        + (IF child = "none" THEN 0 ELSE 1) + (IF child \in {"named", "keeping", "giving"} THEN 1 ELSE 0)
        + (IF locker THEN 1 ELSE 0) + (IF polled THEN 1 ELSE 0)
FreedByLast == ~torn => (freed <=> References = 0)

\* Whoever ends a thread gets back, unless the thread went into its first poll with neither
\* the signal nor the pipe to end it (cancelThread, unblockPollSocket, wait).
Ended == main \in {"idle", "serving"} \/ (deaf /\ child = "polling")
=============================================================================
