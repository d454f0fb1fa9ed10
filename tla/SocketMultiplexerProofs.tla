------------------------ MODULE SocketMultiplexerProofs ------------------------
(***************************************************************************)
(* Proofs about the socket multiplexer, for any threads, sockets and jobs.  *)
(* Most need of the poll entries only that they are collected anew whenever *)
(* the list has changed; that each job finds the entry of its own socket    *)
(* needs what they are (Employed), which exists by induction on the length  *)
(* of the list.                                                             *)
(***************************************************************************)
EXTENDS SocketMultiplexer, SequenceTheorems, FiniteSetTheorems, TLAPS

\* The types that the rest depends on.
TypeInv ==
    /\ pc \in [Threads -> CallerLabels \cup ServiceLabels]
    /\ \A t \in Callers : pc[t] \in CallerLabels
    /\ pc[Service] \in ServiceLabels
    /\ request \in [Callers -> Request \cup {NoRequest}]
    /\ \A t \in Callers : pc[t] # "idle" => request[t] \in Request
    /\ sleeping \subseteq Threads
    /\ lockLocker \in Threads \cup {NoThread}
    /\ locker \in Threads \cup {NoThread}
    /\ jobsReady \in BOOLEAN
    /\ update \in BOOLEAN
    /\ order \in Seq(Sockets)
    /\ slot \in [Sockets -> Jobs \cup {NoJob}]
    /\ pc[Service] = "run" => cursor \in DOMAIN order

LEMMA ServiceIsThread == Service \in Threads /\ Callers \subseteq Threads
  BY DEF Threads

\* Taking one element out of a sequence leaves a sequence.
LEMMA RemoveAtType ==
    ASSUME NEW S, NEW q \in Seq(S), NEW k \in DOMAIN q
    PROVE  RemoveAt(q, k) \in Seq(S)
<1>1. k \in 1 .. Len(q) /\ Len(q) \in Nat
  BY LenProperties
<1>2. SubSeq(q, 1, k - 1) \in Seq(S)
  BY <1>1, SubSeqProperties
<1>3. SubSeq(q, k + 1, Len(q)) \in Seq(S)
  BY <1>1, SubSeqProperties
<1>4. QED
  BY <1>2, <1>3, ConcatProperties DEF RemoveAt

LEMMA TypeInit == Init => TypeInv
<1> SUFFICES ASSUME Init PROVE TypeInv
  OBVIOUS
<1>1. order \in Seq(Sockets)
  BY EmptySeq DEF Init
<1>2. QED
  BY <1>1, MultiplexerAssumption
     DEF Init, TypeInv, CallerLabels, ServiceLabels, Threads

LEMMA TypeNext == TypeInv /\ [Next]_vars => TypeInv'
<1> SUFFICES ASSUME TypeInv, [Next]_vars PROVE TypeInv'
  OBVIOUS
<1> USE ServiceIsThread, MultiplexerAssumption DEF CallerLabels, ServiceLabels
<1>1. ASSUME NEW t \in Threads, lockJobListLock(t) PROVE TypeInv'
  <2>1. CASE lockLocker # NoThread
    BY <1>1, <2>1 DEF lockJobListLock, Sleep, TypeInv, listVars, pollVars
  <2>2. CASE lockLocker = NoThread
    BY <1>1, <2>2 DEF lockJobListLock, Goto, TypeInv, listVars, pollVars, Threads
  <2>3. QED
    BY <2>1, <2>2
<1>2. ASSUME NEW t \in Threads, lockJobList(t) PROVE TypeInv'
  <2>1. CASE locker # NoThread
    BY <1>2, <2>1 DEF lockJobList, Sleep, TypeInv, listVars, pollVars
  <2>2. CASE locker = NoThread
    BY <1>2, <2>2 DEF lockJobList, Goto, TypeInv, listVars, pollVars, Threads, Waiting
  <2>3. QED
    BY <2>1, <2>2
<1>3. ASSUME NEW t \in Threads, unlockJobList(t) PROVE TypeInv'
  <2>1. sleeping' \subseteq sleeping /\ jobsReady' \in BOOLEAN
    BY <1>3 DEF unlockJobList
  <2>2. request' \in [Callers -> Request \cup {NoRequest}]
    BY <1>3 DEF unlockJobList, TypeInv
  <2>3. \A c \in Callers : pc'[c] # "idle" => request'[c] \in Request
    BY <1>3 DEF unlockJobList, Goto, TypeInv, Threads
  <2>4. QED
    BY <1>3, <2>1, <2>2, <2>3 DEF unlockJobList, Goto, TypeInv, listVars, pollVars, Threads
<1>4. ASSUME NEW t \in Callers, unblockPollSocket(t) PROVE TypeInv'
  BY <1>4 DEF unblockPollSocket, Goto, TypeInv, lockVars, listVars, pollVars, Threads
<1>5. ASSUME NEW t \in Callers, Change(t) PROVE TypeInv'
  <2>1. request[t] \in Request
    BY <1>5 DEF TypeInv, Change
  <2>2. order' \in Seq(Sockets)
    BY <1>5, <2>1, AppendProperties DEF Change, TypeInv, Request
  <2>3. slot' \in [Sockets -> Jobs \cup {NoJob}]
    BY <1>5, <2>1 DEF Change, TypeInv, Request
  <2>4. pc'[Service] = "run" => cursor' \in DOMAIN order'
    <3>1. pc'[Service] = pc[Service] /\ cursor' = cursor
      BY <1>5 DEF Change, Goto, TypeInv, pollVars
    <3>2. \A s \in Sockets : DOMAIN order \subseteq DOMAIN Append(order, s)
      BY AppendProperties, LenProperties DEF TypeInv
    <3>3. QED
      BY <1>5, <2>1, <3>1, <3>2 DEF Change, TypeInv, Request
  <2>5. update' \in BOOLEAN
    BY <1>5 DEF Change, TypeInv
  <2>6. QED
    BY <1>5, <2>2, <2>3, <2>4, <2>5 DEF Change, Goto, TypeInv, lockVars
<1>6. CASE WaitForJobs
  <2>1. CASE ~jobsReady
    BY <1>6, <2>1 DEF WaitForJobs, Sleep, TypeInv, listVars, pollVars
  <2>2. CASE jobsReady
    BY <1>6, <2>2 DEF WaitForJobs, Goto, TypeInv, lockVars, listVars, pollVars
  <2>3. QED
    BY <2>1, <2>2
<1>7. CASE Collect
  BY <1>7 DEF Collect, Goto, TypeInv, lockVars
<1>8. CASE PollUnblocked \/ PollReady \/ PollFails
  BY <1>8 DEF PollUnblocked, PollReady, PollFails, Goto, TypeInv, lockVars, listVars, pollVars
<1>9. CASE NextJob
  <2>1. CASE Ahead # {} /\ served < Len(pfds)
    <3>1. cursor' \in DOMAIN order
      BY <1>9, <2>1 DEF NextJob, Ahead
    <3>2. QED
      BY <1>9, <2>1, <3>1 DEF NextJob, Goto, TypeInv, lockVars, listVars
  <2>2. CASE ~(Ahead # {} /\ served < Len(pfds))
    BY <1>9, <2>2 DEF NextJob, Goto, TypeInv, lockVars, listVars
  <2>3. QED
    BY <2>1, <2>2
<1>10. CASE JobRun
  BY <1>10 DEF JobRun, Goto, TypeInv, lockVars, listVars, pollVars
<1>11. CASE Reap
  <2>1. order' \in Seq(Sockets)
    BY <1>11, RemoveAtType DEF Reap, TypeInv, listVars
  <2>2. QED
    BY <1>11, <2>1 DEF Reap, Goto, TypeInv, lockVars, listVars, pollVars
<1>12. ASSUME NEW t \in Threads, WakeSpuriously(t) PROVE TypeInv'
  BY <1>12 DEF WakeSpuriously, TypeInv, listVars, pollVars
<1>13. ASSUME NEW t \in Callers, Call(t) PROVE TypeInv'
  <2>1. /\ request' \in [Callers -> Request \cup {NoRequest}]
        /\ request'[t] \in Request
        /\ \A c \in Callers \ {t} : request'[c] = request[c]
    BY <1>13 DEF Call, TypeInv
  <2>2. QED
    BY <1>13, <2>1 DEF Call, Goto, TypeInv, lockVars, listVars, pollVars
<1>14. CASE UNCHANGED vars
  BY <1>14 DEF vars, TypeInv, lockVars, listVars, pollVars
<1>15. QED
  BY <1>1, <1>2, <1>3, <1>4, <1>5, <1>6, <1>7, <1>8, <1>9, <1>10, <1>11, <1>12, <1>13, <1>14
     DEF Next, Step

THEOREM TypeAlways == Spec => []TypeInv
<1>1. QED
  BY TypeInit, TypeNext, PTL DEF Spec

------------------------------------------------------------------------------
(* The locks.  Having the list, and having the lock on the lock, is a matter  *)
(* of where a thread is.                                                      *)

Claiming == {"unblock", "lockList"}
LockClaimed == \A t \in Threads : pc[t] \in Claiming <=> lockLocker = t
LockInv == TypeInv /\ ListLocked /\ LockClaimed

LEMMA LockInit == Init => LockInv
  BY TypeInit, MultiplexerAssumption DEF Init, LockInv, ListLocked, LockClaimed, Inside, Claiming

LEMMA LockNext == LockInv /\ [Next]_vars => LockInv'
<1> SUFFICES ASSUME LockInv, [Next]_vars PROVE ListLocked' /\ LockClaimed'
  BY TypeNext DEF LockInv
<1> USE ServiceIsThread, MultiplexerAssumption DEF LockInv, TypeInv, ListLocked, LockClaimed, Inside, Claiming, Goto
<1>1. ASSUME NEW t \in Threads, lockJobListLock(t) PROVE ListLocked' /\ LockClaimed'
  BY <1>1 DEF lockJobListLock, Sleep
<1>2. ASSUME NEW t \in Threads, lockJobList(t) PROVE ListLocked' /\ LockClaimed'
  BY <1>2 DEF lockJobList, Sleep
<1>3. ASSUME NEW t \in Threads, unlockJobList(t) PROVE ListLocked' /\ LockClaimed'
  BY <1>3 DEF unlockJobList
<1>4. ASSUME NEW t \in Callers, unblockPollSocket(t) PROVE ListLocked' /\ LockClaimed'
  BY <1>4 DEF unblockPollSocket, lockVars
<1>5. ASSUME NEW t \in Callers, Change(t) PROVE ListLocked' /\ LockClaimed'
  BY <1>5 DEF Change, lockVars
<1>6. CASE WaitForJobs
  BY <1>6 DEF WaitForJobs, Sleep, lockVars
<1>7. CASE Collect \/ PollUnblocked \/ PollReady \/ PollFails \/ NextJob \/ JobRun
  BY <1>7 DEF Collect, PollUnblocked, PollReady, PollFails, NextJob, JobRun, lockVars
<1>8. CASE Reap
  BY <1>8 DEF Reap, lockVars
<1>9. ASSUME NEW t \in Threads, WakeSpuriously(t) PROVE ListLocked' /\ LockClaimed'
  BY <1>9 DEF WakeSpuriously
<1>10. ASSUME NEW t \in Callers, Call(t) PROVE ListLocked' /\ LockClaimed'
  BY <1>10 DEF Call, lockVars
<1>11. CASE UNCHANGED vars
  BY <1>11 DEF vars, lockVars
<1>12. QED
  BY <1>1, <1>2, <1>3, <1>4, <1>5, <1>6, <1>7, <1>8, <1>9, <1>10, <1>11 DEF Next, Step

\* Whatever the threads, the job list has one user at a time, and only the thread
\* that locked it unlocks it (SocketMultiplexer::lockJobList, unlockJobList).
THEOREM ListLockedAlways == Spec => []ListLocked
<1>1. LockInv => ListLocked
  BY DEF LockInv
<1>2. QED
  BY <1>1, LockInit, LockNext, PTL DEF Spec

------------------------------------------------------------------------------
(* The condition variables.  unlockJobList signals one thread only.  That is  *)
(* enough because only the thread with the lock on the lock can be waiting    *)
(* for the list, and only the service thread waits for jobs.                  *)

\* A thread that sleeps stays where it went to sleep.
SleepersWait == \A t \in sleeping : pc[t] \in {"lockLock", "lockList", "wait"}
WakeInv == LockInv /\ SleepersWait /\ NobodyOverslept

LEMMA WakeInit == Init => WakeInv
  BY LockInit DEF Init, WakeInv, SleepersWait, NobodyOverslept, Waiting

\* At most one thread waits for the list, and a signal wakes it.
LEMMA OneWaitsForList ==
    ASSUME LockInv, NEW rest \in Signalled("lockList")
    PROVE  Waiting("lockList") \subseteq rest
  BY DEF LockInv, LockClaimed, TypeInv, Claiming, Signalled, Waiting

\* So it is with the service thread and jobs.
LEMMA OneWaitsForJobs ==
    ASSUME LockInv, NEW rest \in Signalled("wait")
    PROVE  Waiting("wait") \subseteq rest
  BY ServiceIsThread
     DEF LockInv, TypeInv, CallerLabels, Threads, Signalled, Waiting

LEMMA WakeNext == WakeInv /\ [Next]_vars => WakeInv'
<1> SUFFICES ASSUME WakeInv, [Next]_vars PROVE SleepersWait' /\ NobodyOverslept'
  BY LockNext DEF WakeInv
<1> USE ServiceIsThread, MultiplexerAssumption
        DEF WakeInv, LockInv, TypeInv, LockClaimed, ListLocked, Inside, Claiming,
            SleepersWait, NobodyOverslept, Waiting, Goto
<1>1. ASSUME NEW t \in Threads, lockJobListLock(t) PROVE SleepersWait' /\ NobodyOverslept'
  BY <1>1 DEF lockJobListLock, Sleep
<1>2. ASSUME NEW t \in Threads, lockJobList(t) PROVE SleepersWait' /\ NobodyOverslept'
  BY <1>2 DEF lockJobList, Sleep
<1>3. ASSUME NEW t \in Threads, unlockJobList(t) PROVE SleepersWait' /\ NobodyOverslept'
  <2>1. PICK lists \in Signalled("lockList"),
             waits \in IF jobsReady' = jobsReady THEN {{}} ELSE Signalled("wait") :
             sleeping' = sleeping \ (lists \cup waits)
    BY <1>3 DEF unlockJobList
  <2>2. Waiting("lockList")' = {}
    BY <1>3, <2>1, OneWaitsForList DEF unlockJobList
  <2>3. Waiting("lockLock")' \subseteq Waiting("lockLock") /\ lockLocker' = lockLocker
    BY <1>3, <2>1 DEF unlockJobList
  <2>4. Waiting("wait")' # {} => ~jobsReady'
    <3>1. t \notin sleeping'
      BY <1>3, <2>1 DEF unlockJobList
    <3>2. Waiting("wait")' \subseteq Waiting("wait")
      BY <1>3, <2>1, <3>1 DEF unlockJobList
    <3>3. CASE jobsReady' = jobsReady
      BY <3>2, <3>3
    <3>4. CASE jobsReady' # jobsReady
      <4>1. Waiting("wait") \subseteq waits
        BY <2>1, <3>4, OneWaitsForJobs
      <4>2. Waiting("wait")' = {}
        BY <2>1, <3>2, <4>1
      <4>3. QED
        BY <4>2
    <3>5. QED
      BY <3>3, <3>4
  <2>5. SleepersWait'
    BY <1>3, <2>1 DEF unlockJobList
  <2>6. QED
    BY <2>2, <2>3, <2>4, <2>5
<1>4. ASSUME NEW t \in Callers, unblockPollSocket(t) PROVE SleepersWait' /\ NobodyOverslept'
  BY <1>4 DEF unblockPollSocket, lockVars
<1>5. ASSUME NEW t \in Callers, Change(t) PROVE SleepersWait' /\ NobodyOverslept'
  BY <1>5 DEF Change, lockVars
<1>6. CASE WaitForJobs
  BY <1>6 DEF WaitForJobs, Sleep, lockVars
<1>7. CASE Collect \/ PollUnblocked \/ PollReady \/ PollFails \/ NextJob \/ JobRun
  BY <1>7 DEF Collect, PollUnblocked, PollReady, PollFails, NextJob, JobRun, lockVars
<1>8. CASE Reap
  BY <1>8 DEF Reap, lockVars
<1>9. ASSUME NEW t \in Threads, WakeSpuriously(t) PROVE SleepersWait' /\ NobodyOverslept'
  BY <1>9 DEF WakeSpuriously
<1>10. ASSUME NEW t \in Callers, Call(t) PROVE SleepersWait' /\ NobodyOverslept'
  BY <1>10 DEF Call, lockVars
<1>11. CASE UNCHANGED vars
  BY <1>11 DEF vars, lockVars
<1>12. QED
  BY <1>1, <1>2, <1>3, <1>4, <1>5, <1>6, <1>7, <1>8, <1>9, <1>10, <1>11 DEF Next, Step

\* No thread sleeps through the condition it waits for, however many threads want the
\* list (the signals of SocketMultiplexer::unlockJobList and lockJobList).
THEOREM NobodyOversleptAlways == Spec => []NobodyOverslept
<1>1. WakeInv => NobodyOverslept
  BY DEF WakeInv
<1>2. QED
  BY <1>1, WakeInit, WakeNext, PTL DEF Spec
------------------------------------------------------------------------------
(* The poll entries.  As long as m_update is clear they are those of the      *)
(* list; it is clear during a poll, and no caller is in the list then.        *)

\* The service thread goes on to poll only once the list has a place, and only the
\* service thread takes places away.
Busy == {"lockLock", "lockList", "collect", "poll", "next", "run"}
BusyWithOrder ==
    /\ pc[Service] \in Busy => order # <<>>
    /\ pc[Service] = "wait" /\ jobsReady => order # <<>>

Collected ==
    /\ ~update => pfds = Entries \/ (order = <<>> /\ pfds = <<>>)
    /\ pc[Service] = "poll" => ~update

PollInv == LockInv /\ BusyWithOrder /\ Collected

LEMMA PollInit == Init => PollInv
  BY LockInit, ServiceIsThread DEF Init, PollInv, BusyWithOrder, Collected, Busy

\* The entries follow from the list and the jobs in it.
LEMMA EntriesSame == UNCHANGED <<order, slot>> => Entries' = Entries
  BY DEF Entries, Employed

LEMMA ChangeOrder ==
    ASSUME TypeInv, NEW t \in Callers, Change(t)
    PROVE  /\ order # <<>> => order' # <<>>
           /\ ~update' => ~update /\ UNCHANGED <<order, slot>>
<1>1. request[t].socket \in Sockets /\ request[t].job \in Jobs \cup {NoJob}
  BY DEF TypeInv, Change, Request
<1>2. order # <<>> => order' # <<>>
  BY <1>1, AppendProperties DEF Change, TypeInv
<1>3. ASSUME ~update' PROVE ~update /\ UNCHANGED <<order, slot>>
  <2>1. ~update /\ request[t].job = NoJob /\ slot[request[t].socket] = NoJob
    BY <1>3, MultiplexerAssumption DEF Change, TypeInv
  <2>2. order' = order
    BY <2>1 DEF Change
  <2>3. slot' = slot
    BY <1>1, <2>1 DEF Change, TypeInv
  <2>4. QED
    BY <2>1, <2>2, <2>3
<1>4. QED
  BY <1>2, <1>3

LEMMA PollNext == PollInv /\ [Next]_vars => PollInv'
<1> SUFFICES ASSUME PollInv, [Next]_vars PROVE BusyWithOrder' /\ Collected'
  BY LockNext DEF PollInv
<1> USE ServiceIsThread, EntriesSame
        DEF PollInv, LockInv, TypeInv, ListLocked, Inside, BusyWithOrder, Collected, Busy, Goto
<1>1. ASSUME NEW t \in Threads, lockJobListLock(t) \/ lockJobList(t)
      PROVE  BusyWithOrder' /\ Collected'
  <2>1. UNCHANGED <<order, slot, update, pfds, jobsReady>>
    BY <1>1 DEF lockJobListLock, lockJobList, Sleep, listVars, pollVars
  <2>2. \/ pc'[Service] = pc[Service]
        \/ pc[Service] \in {"lockLock", "lockList"} /\ pc'[Service] \in {"lockList", "collect"}
    BY <1>1 DEF lockJobListLock, lockJobList, Sleep
  <2>3. QED
    BY <2>1, <2>2
<1>2. ASSUME NEW t \in Threads, unlockJobList(t) PROVE BusyWithOrder' /\ Collected'
  <2>1. UNCHANGED <<order, slot, update, pfds>> /\ jobsReady' = (order # <<>>)
    BY <1>2 DEF unlockJobList, listVars, pollVars
  <2>2. pc'[Service] = pc[Service] \/ pc'[Service] = "wait"
    BY <1>2 DEF unlockJobList
  <2>3. QED
    BY <2>1, <2>2
<1>3. ASSUME NEW t \in Callers, unblockPollSocket(t) PROVE BusyWithOrder' /\ Collected'
  BY <1>3, MultiplexerAssumption DEF unblockPollSocket, lockVars, listVars, pollVars
<1>4. ASSUME NEW t \in Callers, Change(t) PROVE BusyWithOrder' /\ Collected'
  <2>1. pc'[Service] = pc[Service] /\ pc[Service] # "poll"
    BY <1>4, MultiplexerAssumption DEF Change
  <2>2. pfds' = pfds /\ jobsReady' = jobsReady
    BY <1>4 DEF Change, lockVars, pollVars
  <2>3. QED
    BY <1>4, <2>1, <2>2, ChangeOrder
<1>5. CASE WaitForJobs
  <2>1. UNCHANGED <<order, slot, update, pfds, jobsReady>>
    BY <1>5 DEF WaitForJobs, Sleep, lockVars, listVars, pollVars
  <2>2. pc'[Service] = pc[Service] \/ (pc'[Service] = "lockLock" /\ pc[Service] = "wait" /\ jobsReady)
    BY <1>5 DEF WaitForJobs, Sleep, lockVars
  <2>3. QED
    BY <2>1, <2>2
<1>6. CASE Collect
  <2>1. UNCHANGED <<order, slot>> /\ ~update' /\ pc'[Service] = "poll" /\ order # <<>>
    BY <1>6 DEF Collect
  <2>2. pfds' = Entries
    BY <1>6, <2>1 DEF Collect
  <2>3. QED
    BY <2>1, <2>2
<1>7. CASE PollUnblocked \/ PollReady \/ PollFails
  BY <1>7 DEF PollUnblocked, PollReady, PollFails, lockVars, listVars, pollVars
<1>8. CASE NextJob
  <2>1. UNCHANGED <<order, slot, update, pfds>> /\ pc'[Service] \in {"run", "reap"} /\ order # <<>>
    BY <1>8 DEF NextJob, listVars
  <2>2. QED
    BY <2>1
<1>9. CASE JobRun
  <2>1. pc'[Service] = "next" /\ order' = order /\ order # <<>> /\ pfds' = pfds
    BY <1>9 DEF JobRun, listVars, pollVars
  <2>2. update' \/ (update' = update /\ slot' = slot)
    BY <1>9 DEF JobRun, listVars
  <2>3. QED
    BY <2>1, <2>2
<1>10. CASE Reap
  <2>1. pc'[Service] \in {"reap", "unlock"} /\ pfds' = pfds
    BY <1>10 DEF Reap, pollVars
  <2>2. update' \/ UNCHANGED <<update, order, slot>>
    BY <1>10 DEF Reap, listVars
  <2>3. QED
    BY <2>1, <2>2
<1>11. ASSUME NEW t \in Threads, WakeSpuriously(t) PROVE BusyWithOrder' /\ Collected'
  BY <1>11 DEF WakeSpuriously, listVars, pollVars
<1>12. ASSUME NEW t \in Callers, Call(t) PROVE BusyWithOrder' /\ Collected'
  BY <1>12, MultiplexerAssumption DEF Call, lockVars, listVars, pollVars
<1>13. CASE UNCHANGED vars
  BY <1>13 DEF vars, lockVars, listVars, pollVars
<1>14. QED
  BY <1>1, <1>2, <1>3, <1>4, <1>5, <1>6, <1>7, <1>8, <1>9, <1>10, <1>11, <1>12, <1>13
     DEF Next, Step

\* The service thread polls for exactly the jobs in the list (m_update,
\* SocketMultiplexer::serviceThread).
THEOREM PollMatchesJobsAlways == Spec => []PollMatchesJobs
<1>1. PollInv => PollMatchesJobs
  BY DEF PollInv, BusyWithOrder, Busy, Collected, PollMatchesJobs
<1>2. QED
  BY <1>1, PollInit, PollNext, PTL DEF Spec

------------------------------------------------------------------------------
(* The multiplexer implements JobTable.  A job runs between NextJob and       *)
(* JobRun; the list is the service thread's then, so no caller can change it. *)

Serving == IF pc[Service] = "run" THEN order[cursor] ELSE NoSocket

LEMMA TableInit == Init => Table!Init
  BY ServiceIsThread DEF Init, Table!Init

LEMMA TableNext ==
    ASSUME LockInv, [Next]_vars
    PROVE  [Table!Next]_<<slot, IF pc[Service] = "run" THEN order[cursor] ELSE NoSocket>>
<1> USE ServiceIsThread, MultiplexerAssumption
        DEF LockInv, TypeInv, ListLocked, Inside, Goto
<1> DEFINE Goal == [Table!Next]_<<slot, IF pc[Service] = "run" THEN order[cursor] ELSE NoSocket>>
<1>1. ASSUME UNCHANGED slot, Serving' = Serving PROVE Goal
  BY <1>1 DEF Serving
<1>2. ASSUME NEW t \in Threads,
             lockJobListLock(t) \/ lockJobList(t) \/ unlockJobList(t) \/ WakeSpuriously(t)
      PROVE  Goal
  <2>1. UNCHANGED <<order, slot, cursor>>
    BY <1>2 DEF lockJobListLock, lockJobList, unlockJobList, WakeSpuriously, listVars, pollVars
  <2>2. pc'[Service] = pc[Service] \/ (pc[Service] # "run" /\ pc'[Service] # "run")
    BY <1>2 DEF lockJobListLock, lockJobList, unlockJobList, WakeSpuriously, Sleep
  <2>3. QED
    BY <1>1, <2>1, <2>2 DEF Serving
<1>3. ASSUME NEW t \in Callers, unblockPollSocket(t) \/ Call(t) PROVE Goal
  BY <1>1, <1>3 DEF unblockPollSocket, Call, Serving, listVars, pollVars
<1>4. ASSUME NEW t \in Callers, Change(t) PROVE Goal
  <2>1. request[t].socket \in Sockets /\ request[t].job \in Jobs \cup {NoJob}
    BY <1>4 DEF Change, Request
  <2>2. pc[Service] # "run" /\ pc'[Service] # "run"
    BY <1>4 DEF Change
  <2>3. Table!SetJob(request[t].socket, request[t].job)
    BY <1>4, <2>2 DEF Change, Table!SetJob
  <2>4. QED
    BY <2>1, <2>3 DEF Table!Next
<1>5. CASE WaitForJobs \/ Collect \/ PollUnblocked \/ PollReady \/ PollFails \/ Reap
  <2>1. slot' = slot
    BY <1>5 DEF WaitForJobs, Collect, PollUnblocked, PollReady, PollFails, Reap, listVars
  <2>2. pc[Service] # "run" /\ pc'[Service] # "run"
    BY <1>5 DEF WaitForJobs, Sleep, Collect, PollUnblocked, PollReady, PollFails, Reap
  <2>3. QED
    BY <1>1, <2>1, <2>2 DEF Serving
<1>6. CASE NextJob
  <2>1. slot' = slot /\ order' = order /\ pc[Service] = "next"
    BY <1>6 DEF NextJob, listVars
  <2>2. CASE Ahead # {} /\ served < Len(pfds)
    <3>1. pc'[Service] = "run" /\ cursor' \in Ahead
      BY <1>6, <2>2 DEF NextJob
    <3>2. order[cursor'] \in Sockets /\ slot[order[cursor']] # NoJob
      BY <3>1, LenProperties DEF Ahead
    <3>3. Table!Serve(order[cursor'])
      BY <2>1, <3>1, <3>2 DEF Table!Serve
    <3>4. QED
      BY <3>2, <3>3 DEF Table!Next
  <2>3. CASE ~(Ahead # {} /\ served < Len(pfds))
    BY <1>1, <1>6, <2>1, <2>3 DEF NextJob, Serving
  <2>4. QED
    BY <2>2, <2>3
<1>7. CASE JobRun
  <2>1. pc[Service] = "run" /\ pc'[Service] = "next" /\ order[cursor] \in Sockets
    BY <1>7, LenProperties DEF JobRun
  <2>2. PICK j \in Jobs \cup {NoJob} : slot' = [slot EXCEPT ![order[cursor]] = j]
    <3>1. CASE UNCHANGED listVars
      <4>1. slot' = [slot EXCEPT ![order[cursor]] = slot[order[cursor]]]
        BY <2>1, <3>1 DEF listVars
      <4>2. QED
        BY <2>1, <4>1
    <3>2. QED
      BY <1>7, <3>1 DEF JobRun
  <2>3. Table!Finish(j)
    BY <2>1, <2>2 DEF Table!Finish
  <2>4. QED
    BY <2>3 DEF Table!Next
<1>8. CASE UNCHANGED vars
  BY <1>1, <1>8 DEF vars, listVars, pollVars, Serving
<1>9. QED
  BY <1>2, <1>3, <1>4, <1>5, <1>6, <1>7, <1>8 DEF Next, Step

\* The multiplexer keeps the promise of JobTable: a removed socket is left alone
\* (SocketMultiplexer::removeSocket).
THEOREM TableImplemented == Spec => TableSpec
<1>1. QED
  BY LockInit, LockNext, TableInit, TableNext, PTL DEF Spec, TableSpec, Table!Spec

------------------------------------------------------------------------------
(* Induction over the list.  The library's induction theorems take an operator; *)
(* that every set of numbers has a least one says the same in first-order      *)
(* terms.                                                                      *)

LEMMA LeastNumber ==
    ASSUME NEW T \in SUBSET Nat, T # {}
    PROVE  \E n \in T : \A m \in T : n <= m
<1> DEFINE Sets == {1 .. n : n \in T}
<1>1. Sets \subseteq FiniteSubsetsOf(Nat) /\ Sets # {}
  <2>1. \A n \in T : IsFiniteSet(1 .. n) /\ 1 .. n \subseteq Nat
    BY FS_Interval
  <2>2. QED
    BY <2>1 DEF FiniteSubsetsOf
<1>2. PICK I \in Sets : \A J \in Sets : ~(<<J, I>> \in StrictSubsetOrdering(Nat))
  <2> HIDE DEF Sets
  <2>1. IsWellFoundedOn(StrictSubsetOrdering(Nat), FiniteSubsetsOf(Nat))
    BY FS_StrictSubsetOrderingWellFounded
  <2>2. QED
    BY <1>1, <2>1, WFMin
<1>3. PICK n \in T : I = 1 .. n
  OBVIOUS
<1>4. ASSUME NEW m \in T, m < n PROVE FALSE
  <2>1. n \in 1 .. n /\ n \notin 1 .. m
    BY <1>4
  <2>2. 1 .. m \in Sets /\ 1 .. m \subseteq 1 .. n /\ 1 .. m # 1 .. n
    BY <1>4, <2>1
  <2>3. <<1 .. m, 1 .. n>> \in StrictSubsetOrdering(Nat)
    BY <2>2 DEF StrictSubsetOrdering
  <2>4. QED
    BY <1>2, <1>3, <2>2, <2>3
<1>5. QED
  BY <1>4

\* f lists the members of K, in their order.
Lists(f, n, K) ==
    /\ f \in [1 .. n -> K]
    /\ \A i, j \in 1 .. n : i < j => f[i] < f[j]
    /\ \A k \in K : \E i \in 1 .. n : f[i] = k

\* The members of a set of numbers up to m can be listed.
LEMMA Listing ==
    ASSUME NEW m \in Nat, NEW K \in SUBSET (1 .. m)
    PROVE  \E n \in 0 .. m : \E f : Lists(f, n, K)
<1> DEFINE Listed(l) == \A L \in SUBSET (1 .. l) : \E n \in 0 .. l : \E f : Lists(f, n, L)
           Bad == {l \in Nat : ~Listed(l)}
<1>1. ASSUME Bad # {} PROVE FALSE
  <2>1. PICK l \in Bad : \A k \in Bad : l <= k
    <3> HIDE DEF Bad
    <3>1. Bad \in SUBSET Nat
      BY DEF Bad
    <3>2. QED
      BY <1>1, <3>1, LeastNumber
  <2>2. PICK L \in SUBSET (1 .. l) : ~\E n \in 0 .. l : \E f : Lists(f, n, L)
    BY <2>1
  <2>3. CASE L = {}
    <3>1. Lists([i \in 1 .. 0 |-> 0], 0, L)
      BY <2>3 DEF Lists
    <3>2. QED
      BY <2>1, <2>2, <3>1
  <2>4. CASE L # {}
    <3>1. l \in Nat /\ l # 0
      <4>1. l \in Nat
        BY <2>1
      <4>2. PICK k \in L : TRUE
        BY <2>4
      <4>3. k \in 1 .. l
        OBVIOUS
      <4>4. QED
        BY <4>1, <4>3
    <3>2. l - 1 \in Nat /\ l - 1 \notin Bad
      BY <2>1, <3>1
    <3>3. Listed(l - 1)
      BY <3>2
    <3>4. L \ {l} \in SUBSET (1 .. (l - 1))
      BY <2>2, <3>1
    <3>5. PICK n \in 0 .. (l - 1) : \E f : Lists(f, n, L \ {l})
      <4> HIDE DEF Bad
      <4>1. QED
        BY <3>3, <3>4
    <3>6. PICK f : Lists(f, n, L \ {l})
      BY <3>5
    <3>7. CASE l \notin L
      <4>1. L \ {l} = L /\ n \in 0 .. l
        BY <3>1, <3>7
      <4>2. QED
        BY <2>2, <3>5, <3>6, <4>1
    <3>8. CASE l \in L
      <4> DEFINE g == [i \in 1 .. (n + 1) |-> IF i <= n THEN f[i] ELSE l]
      <4>1. n \in Nat /\ n + 1 \in 0 .. l
        BY <3>1, <3>5, <3>6
      <4>2. f \in [1 .. n -> L \ {l}] /\ \A i \in 1 .. n : f[i] \in Int /\ f[i] < l
        <5>1. f \in [1 .. n -> L \ {l}]
          BY <3>5, <3>6 DEF Lists
        <5>2. \A k \in L \ {l} : k \in Int /\ k < l
          BY <3>1, <3>4
        <5>3. QED
          BY <5>1, <5>2
      <4>3. g \in [1 .. (n + 1) -> L]
        BY <3>8, <4>1, <4>2
      <4>4. \A i, j \in 1 .. (n + 1) : i < j => g[i] < g[j]
        BY <3>5, <3>6, <4>1, <4>2 DEF Lists
      <4>5. ASSUME NEW k \in L PROVE \E i \in 1 .. (n + 1) : g[i] = k
        <5>1. CASE k = l
          <6>1. g[n + 1] = l /\ n + 1 \in 1 .. (n + 1)
            BY <4>1
          <6>2. QED
            BY <5>1, <6>1
        <5>2. CASE k # l
          <6>1. PICK i \in 1 .. n : f[i] = k
            BY <3>5, <3>6, <5>2 DEF Lists
          <6>2. i \in 1 .. (n + 1) /\ g[i] = k
            BY <4>1, <6>1
          <6>3. QED
            BY <6>2
        <5>3. QED
          BY <5>1, <5>2
      <4>6. Lists(g, n + 1, L)
        BY <4>3, <4>4, <4>5 DEF Lists
      <4> HIDE DEF g
      <4>7. QED
        BY <2>2, <4>1, <4>6
    <3>9. QED
      BY <3>7, <3>8
  <2>5. QED
    BY <2>3, <2>4
<1>2. Listed(m)
  BY <1>1
<1>3. QED
  BY <1>2

------------------------------------------------------------------------------
(* The entry of a job.  The entries that are not served yet are those of the    *)
(* places past the cursor that hold a job, one by one, although jobs come and go *)
(* there while others run.                                                      *)

Occupied == {k \in DOMAIN order : slot[order[k]] # NoJob}

LEMMA EmployedLists ==
    ASSUME TypeInv
    PROVE  \E n \in 0 .. Len(order) : Lists(Employed, n, Occupied)
<1> DEFINE Listings == UNION {[1 .. n -> DOMAIN order] : n \in 0 .. Len(order)}
           Right(f) == /\ \A i, j \in DOMAIN f : i < j => f[i] < f[j]
                       /\ Range(f) = Occupied
<1>1. Len(order) \in Nat /\ DOMAIN order = 1 .. Len(order)
  BY LenProperties DEF TypeInv
<1>2. PICK n \in 0 .. Len(order) : \E f : Lists(f, n, Occupied)
  BY <1>1, Listing DEF Occupied
<1>3. PICK f : Lists(f, n, Occupied)
  BY <1>2
<1>4. f \in Listings
  <2>1. f \in [1 .. n -> DOMAIN order]
    BY <1>2, <1>3 DEF Lists, Occupied
  <2>2. QED
    BY <1>2, <1>3, <2>1
<1>5. Right(f)
  <2>1. DOMAIN f = 1 .. n
    BY <1>2, <1>3 DEF Lists
  <2>2. Range(f) = Occupied
    BY <1>2, <1>3, <2>1 DEF Lists, Range
  <2>3. QED
    BY <1>2, <1>3, <2>1, <2>2 DEF Lists
<1>6. Employed \in Listings /\ Right(Employed)
  <2>1. Employed = CHOOSE g \in Listings : Right(g)
    BY DEF Employed, Occupied
  <2> HIDE DEF Listings, Right
  <2>2. QED
    BY <1>4, <1>5, <2>1
<1>7. PICK l \in 0 .. Len(order) : Employed \in [1 .. l -> DOMAIN order]
  BY <1>6
<1>8. Lists(Employed, l, Occupied)
  <2>1. DOMAIN Employed = 1 .. l
    BY <1>7
  <2>2. \A k : k \in Occupied <=> \E i \in 1 .. l : Employed[i] = k
    BY <1>6, <2>1 DEF Range
  <2>3. QED
    BY <1>6, <1>7, <2>1, <2>2 DEF Lists
<1>9. QED
  BY <1>7, <1>8

Remaining == (served + 1) .. Len(pfds)
EntryOf(k) == [socket |-> order[k], job |-> slot[order[k]]]

\* f leads from the entries to their places in the list.
Leads(f) ==
    /\ f \in [1 .. Len(pfds) -> DOMAIN order]
    /\ \A i, j \in 1 .. Len(pfds) : i < j => f[i] < f[j]
    /\ cursor = IF served = 0 THEN 0 ELSE f[served]
    /\ \A i \in Remaining : pfds[i] = EntryOf(f[i])
    /\ \A k : k \in Ahead <=> \E i \in Remaining : f[i] = k

InTurn == pc[Service] \in {"next", "run"}

EntryInv ==
    /\ PollInv
    /\ pfds \in Seq([socket : Sockets, job : Jobs])
    /\ cursor \in Nat /\ served \in 0 .. Len(pfds)
    /\ \A k, l \in DOMAIN order : order[k] = order[l] => k = l
    /\ InTurn => \E f : Leads(f)
    /\ ~InTurn => cursor = 0 /\ served = 0
    /\ pc[Service] = "run" => served # 0 /\ pfds[served] = EntryOf(cursor)

LEMMA EntriesType ==
    ASSUME TypeInv
    PROVE  /\ Entries \in Seq([socket : Sockets, job : Jobs])
           /\ Lists(Employed, Len(Entries), Occupied)
           /\ \A i \in 1 .. Len(Entries) : Entries[i] = EntryOf(Employed[i])
<1>1. PICK n \in 0 .. Len(order) : Lists(Employed, n, Occupied)
  BY EmployedLists
<1>2. n \in Nat /\ DOMAIN Employed = 1 .. n
  BY <1>1, LenProperties DEF Lists, TypeInv
<1>3. Entries = [i \in 1 .. n |-> EntryOf(Employed[i])]
  BY <1>2 DEF Entries, EntryOf
<1>4. \A i \in 1 .. n : EntryOf(Employed[i]) \in [socket : Sockets, job : Jobs]
  <2>1. ASSUME NEW i \in 1 .. n PROVE Employed[i] \in DOMAIN order /\ slot[order[Employed[i]]] # NoJob
    BY <1>1, <2>1 DEF Lists, Occupied
  <2>2. \A k \in DOMAIN order : order[k] \in Sockets
    BY LenProperties DEF TypeInv
  <2>3. QED
    BY <2>1, <2>2 DEF EntryOf, TypeInv
<1>5. Entries \in Seq([socket : Sockets, job : Jobs]) /\ Len(Entries) = n
  BY <1>2, <1>3, <1>4
<1>6. QED
  BY <1>1, <1>3, <1>5

LEMMA EntryInit == Init => EntryInv
<1> SUFFICES ASSUME Init PROVE EntryInv
  OBVIOUS
<1>1. pfds \in Seq([socket : Sockets, job : Jobs]) /\ Len(pfds) = 0
  BY EmptySeq DEF Init
<1>2. pc[Service] = "wait"
  BY ServiceIsThread DEF Init
<1>3. QED
  BY <1>1, <1>2, PollInit DEF Init, EntryInv, InTurn

\* No socket has two places in the list.
NoTwice == \A k, l \in DOMAIN order : order[k] = order[l] => k = l

\* What happens elsewhere while the service thread stays where it is, or goes to where it
\* has no place in the list.
LEMMA EntryQuiet ==
    ASSUME EntryInv, PollInv', pfds' \in Seq([socket : Sockets, job : Jobs]), NoTwice',
           UNCHANGED <<cursor, served>>,
           \/ InTurn /\ UNCHANGED <<pc[Service], order, slot, pfds>>
           \/ ~InTurn /\ ~InTurn'
    PROVE  EntryInv'
<1>1. CASE InTurn /\ UNCHANGED <<pc[Service], order, slot, pfds>>
  <2>1. \A f : Leads(f) => Leads(f)'
    BY <1>1 DEF Leads, Remaining, EntryOf, Ahead
  <2>2. InTurn' /\ \E f : Leads(f)'
    BY <1>1, <2>1 DEF EntryInv, InTurn
  <2>3. pc'[Service] = "run" => served' # 0 /\ pfds'[served'] = EntryOf(cursor)'
    BY <1>1 DEF EntryInv, EntryOf
  <2>4. QED
    BY <1>1, <2>2, <2>3 DEF EntryInv, NoTwice
<1>2. CASE ~InTurn /\ ~InTurn'
  <2>1. cursor' = 0 /\ served' = 0 /\ served' \in 0 .. Len(pfds')
    BY <1>2, LenProperties DEF EntryInv
  <2>2. pc'[Service] # "run"
    BY <1>2 DEF InTurn
  <2>3. QED
    BY <1>2, <2>1, <2>2 DEF EntryInv, NoTwice
<1>3. QED
  BY <1>1, <1>2

\* Taking a place out of the list leaves the others their own sockets.
LEMMA RemoveAtNoTwice ==
    ASSUME NEW S, NEW q \in Seq(S), NEW k \in DOMAIN q,
           \A i, j \in DOMAIN q : q[i] = q[j] => i = j
    PROVE  \A i, j \in DOMAIN RemoveAt(q, k) : RemoveAt(q, k)[i] = RemoveAt(q, k)[j] => i = j
<1> DEFINE low == SubSeq(q, 1, k - 1)
           high == SubSeq(q, k + 1, Len(q))
<1>1. k \in 1 .. Len(q) /\ Len(q) \in Nat /\ DOMAIN q = 1 .. Len(q)
  BY LenProperties
<1>2. low \in Seq(S) /\ Len(low) = k - 1 /\ \A i \in 1 .. (k - 1) : low[i] = q[i]
  BY <1>1, SubSeqProperties
<1>3. /\ high \in Seq(S) /\ Len(high) = Len(q) - k
      /\ \A i \in 1 .. (Len(q) - k) : high[i] = q[k + i]
  BY <1>1, SubSeqProperties
<1> HIDE DEF low, high
<1>4. /\ low \o high \in Seq(S) /\ Len(low \o high) = Len(q) - 1
      /\ \A i \in 1 .. (Len(q) - 1) : (low \o high)[i] = q[IF i < k THEN i ELSE i + 1]
  <2>1. low \o high \in Seq(S) /\ Len(low \o high) = Len(low) + Len(high)
    BY <1>2, <1>3, ConcatProperties
  <2>2. \A i \in 1 .. (Len(low) + Len(high)) :
            (low \o high)[i] = IF i <= Len(low) THEN low[i] ELSE high[i - Len(low)]
    BY <1>2, <1>3, ConcatProperties
  <2>3. Len(low) + Len(high) = Len(q) - 1
    BY <1>1, <1>2, <1>3
  <2>4. ASSUME NEW i \in 1 .. (Len(q) - 1)
        PROVE  (low \o high)[i] = q[IF i < k THEN i ELSE i + 1]
    <3>1. CASE i < k
      <4>1. i <= Len(low) /\ i \in 1 .. (k - 1)
        BY <1>1, <1>2, <3>1
      <4>2. QED
        BY <1>2, <2>2, <2>3, <3>1, <4>1
    <3>2. CASE ~(i < k)
      <4>1. /\ ~(i <= Len(low)) /\ i - Len(low) \in 1 .. (Len(q) - k)
            /\ k + (i - Len(low)) = i + 1
        BY <1>1, <1>2, <3>2
      <4>2. (low \o high)[i] = high[i - Len(low)]
        BY <2>2, <2>3, <4>1
      <4>3. high[i - Len(low)] = q[i + 1]
        BY <1>3, <4>1
      <4>4. QED
        BY <3>2, <4>2, <4>3
    <3>3. QED
      BY <3>1, <3>2
  <2>5. QED
    BY <2>1, <2>3, <2>4
<1>5. DOMAIN (low \o high) = 1 .. (Len(q) - 1)
  BY <1>4, LenProperties
<1>6. RemoveAt(q, k) = low \o high
  BY DEF RemoveAt, low, high
<1>7. ASSUME NEW i \in 1 .. (Len(q) - 1), NEW j \in 1 .. (Len(q) - 1),
             q[IF i < k THEN i ELSE i + 1] = q[IF j < k THEN j ELSE j + 1]
      PROVE  i = j
  <2>1. (IF i < k THEN i ELSE i + 1) \in DOMAIN q /\ (IF j < k THEN j ELSE j + 1) \in DOMAIN q
    BY <1>1
  <2>2. (IF i < k THEN i ELSE i + 1) = (IF j < k THEN j ELSE j + 1)
    BY <1>7, <2>1
  <2>3. QED
    BY <1>1, <2>2
<1>8. QED
  BY <1>4, <1>5, <1>6, <1>7

LEMMA EntryNext == EntryInv /\ [Next]_vars => EntryInv'
<1> SUFFICES ASSUME EntryInv, [Next]_vars PROVE EntryInv'
  OBVIOUS
<1> USE ServiceIsThread, MultiplexerAssumption
<1>1. PollInv /\ PollInv' /\ LockInv /\ TypeInv /\ TypeInv' /\ NoTwice
  BY PollNext DEF EntryInv, PollInv, LockInv, NoTwice
<1>2. pfds \in Seq([socket : Sockets, job : Jobs])
  BY DEF EntryInv
<1>3. ASSUME UNCHANGED <<order, slot, pfds, cursor, served>>,
             pc'[Service] = pc[Service] \/ (~InTurn /\ ~InTurn')
      PROVE  EntryInv'
  <2>1. NoTwice'
    BY <1>1, <1>3 DEF NoTwice
  <2>2. CASE ~InTurn /\ ~InTurn'
    BY <1>1, <1>2, <1>3, <2>1, <2>2, EntryQuiet
  <2>3. CASE pc'[Service] = pc[Service]
    <3>1. \/ InTurn /\ UNCHANGED <<pc[Service], order, slot, pfds>>
          \/ ~InTurn /\ ~InTurn'
      BY <1>3, <2>3 DEF InTurn
    <3>2. QED
      BY <1>1, <1>2, <1>3, <2>1, <3>1, EntryQuiet
  <2>4. QED
    BY <1>3, <2>2, <2>3
<1>4. ASSUME NEW t \in Threads,
             lockJobListLock(t) \/ lockJobList(t) \/ unlockJobList(t) \/ WakeSpuriously(t)
      PROVE  EntryInv'
  <2>1. UNCHANGED <<order, slot, pfds, cursor, served>>
    BY <1>4 DEF lockJobListLock, lockJobList, unlockJobList, WakeSpuriously, listVars, pollVars
  <2>2. pc'[Service] = pc[Service] \/ (~InTurn /\ ~InTurn')
    BY <1>1, <1>4 DEF lockJobListLock, lockJobList, unlockJobList, WakeSpuriously, Sleep, Goto,
                      InTurn, TypeInv
  <2>3. QED
    BY <1>3, <2>1, <2>2
<1>5. ASSUME NEW t \in Callers, unblockPollSocket(t) \/ Call(t) PROVE EntryInv'
  <2>1. UNCHANGED <<order, slot, pfds, cursor, served>>
    BY <1>5 DEF unblockPollSocket, Call, listVars, pollVars
  <2>2. pc'[Service] = pc[Service]
    BY <1>1, <1>5 DEF unblockPollSocket, Call, Goto, TypeInv
  <2>3. QED
    BY <1>3, <2>1, <2>2
<1>6. ASSUME NEW t \in Callers, Change(t) PROVE EntryInv'
  <2>1. ~InTurn /\ ~InTurn' /\ UNCHANGED <<pfds, cursor, served>>
    BY <1>1, <1>6 DEF Change, Goto, InTurn, LockInv, ListLocked, Inside, TypeInv, pollVars
  <2>2. request[t].socket \in Sockets
    BY <1>1, <1>6 DEF Change, TypeInv, Request
  <2>3. NoTwice'
    <3>1. CASE order' = order
      BY <1>1, <3>1 DEF NoTwice
    <3>2. CASE order' = Append(order, request[t].socket) /\ request[t].socket \notin Range(order)
      <4>1. /\ Len(order) \in Nat /\ DOMAIN order = 1 .. Len(order)
            /\ DOMAIN order' = 1 .. (Len(order) + 1)
            /\ \A i \in 1 .. Len(order) : order'[i] = order[i]
            /\ order'[Len(order) + 1] = request[t].socket
        BY <1>1, <2>2, <3>2, LenProperties, AppendProperties DEF TypeInv
      <4>2. \A i \in 1 .. Len(order) : order[i] # request[t].socket
        BY <3>2, <4>1 DEF Range
      <4>3. QED
        BY <1>1, <4>1, <4>2 DEF NoTwice
    <3>3. QED
      BY <1>6, <3>1, <3>2 DEF Change
  <2>4. QED
    BY <1>1, <1>2, <2>1, <2>3, EntryQuiet
<1>7. CASE WaitForJobs \/ PollUnblocked \/ PollFails
  <2>1. UNCHANGED <<order, slot, pfds, cursor, served>>
    BY <1>7 DEF WaitForJobs, PollUnblocked, PollFails, listVars, pollVars
  <2>2. ~InTurn /\ ~InTurn'
    BY <1>1, <1>7 DEF WaitForJobs, PollUnblocked, PollFails, Sleep, Goto, InTurn, TypeInv, lockVars
  <2>3. QED
    BY <1>3, <2>1, <2>2
<1>8. CASE Collect
  <2>1. ~InTurn /\ ~InTurn' /\ UNCHANGED <<order, cursor, served>>
    BY <1>1, <1>8 DEF Collect, Goto, InTurn, TypeInv
  <2>2. pfds' \in Seq([socket : Sockets, job : Jobs])
    BY <1>1, <1>2, <1>8, EntriesType DEF Collect
  <2>3. NoTwice'
    BY <1>1, <2>1 DEF NoTwice
  <2>4. QED
    BY <1>1, <2>1, <2>2, <2>3, EntryQuiet
<1>9. CASE PollReady
  <2>1. /\ pc[Service] = "poll" /\ pc'[Service] = "next"
        /\ UNCHANGED <<order, slot, pfds, cursor, served>>
    BY <1>1, <1>9 DEF PollReady, Goto, TypeInv, listVars, pollVars
  <2>2. pfds = Entries /\ cursor = 0 /\ served = 0
    BY <1>1, <2>1 DEF PollInv, Collected, BusyWithOrder, Busy, EntryInv, InTurn
  <2>3. Leads(Employed)
    <3>1. /\ Lists(Employed, Len(pfds), Occupied) /\ Len(pfds) \in Nat
          /\ \A i \in 1 .. Len(pfds) : pfds[i] = EntryOf(Employed[i])
      BY <1>1, <1>2, <2>2, EntriesType, LenProperties
    <3>2. Remaining = 1 .. Len(pfds)
      BY <2>2, <3>1 DEF Remaining
    <3>3. Ahead = Occupied
      <4>1. DOMAIN order = 1 .. Len(order) /\ Len(order) \in Nat
        BY <1>1, LenProperties DEF TypeInv
      <4>2. QED
        BY <2>2, <4>1 DEF Ahead, Occupied
    <3>4. Occupied \subseteq DOMAIN order
      BY DEF Occupied
    <3>5. QED
      BY <2>2, <3>1, <3>2, <3>3, <3>4 DEF Leads, Lists
  <2>4. Leads(Employed)' = Leads(Employed)
    BY <2>1 DEF Leads, Remaining, EntryOf, Ahead, Employed
  <2>5. QED
    BY <1>1, <1>2, <2>1, <2>2, <2>3, <2>4, LenProperties DEF EntryInv, InTurn, NoTwice
<1>10. CASE NextJob
  <2>1. pc[Service] = "next" /\ UNCHANGED <<order, slot, pfds>> /\ InTurn
    BY <1>10 DEF NextJob, listVars, InTurn
  <2>2. PICK f : Leads(f)
    BY <2>1 DEF EntryInv
  <2>3. served \in Nat /\ Len(pfds) \in Nat /\ served <= Len(pfds)
    BY <1>2, LenProperties DEF EntryInv
  <2>4. CASE Ahead # {} /\ served < Len(pfds)
    <3>1. PICK k \in Ahead : (\A l \in Ahead : k <= l) /\ cursor' = k
      BY <1>10, <2>4 DEF NextJob
    <3>2. served' = served + 1 /\ pc'[Service] = "run"
      BY <1>1, <1>10, <2>4 DEF NextJob, Goto, TypeInv
    <3>3. DOMAIN order \subseteq Nat /\ Ahead \subseteq DOMAIN order
      BY <1>1, LenProperties DEF TypeInv, Ahead
    <3>4. served + 1 \in Remaining /\ Remaining \subseteq 1 .. Len(pfds)
      BY <2>3, <2>4 DEF Remaining
    <3>5. k = f[served + 1]
      <4>1. PICK i \in Remaining : f[i] = k
        BY <2>2, <3>1 DEF Leads
      <4>2. f[served + 1] \in Ahead /\ k <= f[served + 1]
        BY <2>2, <3>1, <3>4 DEF Leads
      <4>3. i = served + 1 \/ f[served + 1] < f[i]
        BY <2>2, <2>3, <3>4, <4>1 DEF Leads, Remaining
      <4>4. QED
        BY <3>1, <3>3, <4>1, <4>2, <4>3
    <3>6. Remaining' = Remaining \ {served + 1}
      BY <2>1, <2>3, <3>2 DEF Remaining
    <3>7. pfds[served + 1] = EntryOf(k)
      BY <2>2, <3>4, <3>5 DEF Leads
    <3>8. Ahead' = {l \in Ahead : l > k}
      <4>1. cursor \in Nat /\ k > cursor
        BY <3>1, <3>3 DEF EntryInv, Ahead
      <4>2. QED
        BY <2>1, <3>1, <3>3, <4>1 DEF Ahead
    <3>9. \A l : l \in Ahead' <=> \E i \in Remaining' : f[i] = l
      <4>1. ASSUME NEW i \in Remaining' PROVE f[i] \in Ahead'
        <5>1. i \in Remaining /\ served + 1 < i
          BY <2>3, <3>4, <3>6 DEF Remaining
        <5>2. f[i] \in Ahead /\ f[served + 1] < f[i]
          BY <2>2, <3>4, <5>1 DEF Leads
        <5>3. QED
          BY <3>5, <3>8, <5>2, <3>3, <3>1
      <4>2. ASSUME NEW l \in Ahead' PROVE \E i \in Remaining' : f[i] = l
        <5>1. l \in Ahead /\ l # k
          BY <3>1, <3>3, <3>8
        <5>2. PICK i \in Remaining : f[i] = l
          BY <2>2, <5>1 DEF Leads
        <5>3. i # served + 1
          BY <3>5, <5>1, <5>2
        <5>4. QED
          BY <3>6, <5>2, <5>3
      <4>3. QED
        BY <4>1, <4>2
    <3>10. Leads(f)'
      <4>1. cursor' = f[served'] /\ served' # 0
        BY <2>3, <3>1, <3>2, <3>5
      <4>2. \A i \in Remaining' : pfds'[i] = EntryOf(f[i])'
        BY <2>1, <2>2, <3>6 DEF Leads, EntryOf
      <4>3. QED
        BY <2>1, <2>2, <3>9, <4>1, <4>2 DEF Leads
    <3>11. pfds'[served'] = EntryOf(cursor)' /\ served' # 0 /\ served' \in 0 .. Len(pfds')
      BY <2>1, <2>3, <2>4, <3>1, <3>2, <3>7 DEF EntryOf
    <3>12. cursor' \in Nat
      BY <3>1, <3>3
    <3>13. QED
      BY <1>1, <1>2, <2>1, <3>2, <3>10, <3>11, <3>12 DEF EntryInv, InTurn, NoTwice
  <2>5. CASE ~(Ahead # {} /\ served < Len(pfds))
    <3>1. cursor' = 0 /\ served' = 0 /\ pc'[Service] = "reap"
      BY <1>1, <1>10, <2>5 DEF NextJob, Goto, TypeInv
    <3>2. QED
      BY <1>1, <1>2, <2>1, <2>3, <3>1 DEF EntryInv, InTurn, NoTwice
  <2>6. QED
    BY <2>4, <2>5
<1>11. CASE JobRun
  <2>1. /\ pc[Service] = "run" /\ pc'[Service] = "next"
        /\ UNCHANGED <<order, pfds, cursor, served>>
    BY <1>1, <1>11 DEF JobRun, Goto, TypeInv, listVars, pollVars
  <2>2. PICK f : Leads(f)
    BY <2>1 DEF EntryInv, InTurn
  <2>3. cursor \in DOMAIN order /\ DOMAIN order \subseteq Nat /\ cursor = f[served] /\ served # 0
    BY <1>1, <2>1, <2>2, LenProperties DEF TypeInv, EntryInv, Leads
  <2>4. \A k \in DOMAIN order : k # cursor => slot'[order[k]] = slot[order[k]]
    <3>1. \A k \in DOMAIN order : k # cursor => order[k] # order[cursor]
      BY <1>1, <2>3 DEF NoTwice
    <3>2. CASE UNCHANGED listVars
      BY <3>2 DEF listVars
    <3>3. CASE ~UNCHANGED listVars
      <4>1. PICK j : slot' = [slot EXCEPT ![order[cursor]] = j]
        BY <1>11, <3>3 DEF JobRun
      <4>2. \A k \in DOMAIN order : order[k] \in Sockets
        BY <1>1, LenProperties DEF TypeInv
      <4>3. QED
        BY <1>1, <3>1, <4>1, <4>2 DEF TypeInv
    <3>4. QED
      BY <3>2, <3>3
  <2>5. Ahead' = Ahead
    BY <2>1, <2>3, <2>4 DEF Ahead
  <2>6. Remaining' = Remaining
    BY <2>1 DEF Remaining
  <2>7. \A i \in Remaining : EntryOf(f[i])' = EntryOf(f[i])
    <3>1. \A i \in Remaining : f[i] \in Ahead
      BY <2>2 DEF Leads
    <3>2. \A k \in Ahead : k \in DOMAIN order /\ k # cursor
      BY <2>3 DEF Ahead
    <3>3. QED
      BY <2>1, <2>4, <3>1, <3>2 DEF EntryOf
  <2>8. Leads(f)'
    BY <2>1, <2>2, <2>5, <2>6, <2>7 DEF Leads
  <2>9. QED
    BY <1>1, <1>2, <2>1, <2>8 DEF EntryInv, InTurn, NoTwice
<1>12. CASE Reap
  <2>1. ~InTurn /\ ~InTurn' /\ UNCHANGED <<pfds, cursor, served>>
    BY <1>1, <1>12 DEF Reap, Goto, InTurn, TypeInv, pollVars
  <2>2. NoTwice'
    <3>1. CASE order' = order
      BY <1>1, <3>1 DEF NoTwice
    <3>2. CASE \E k \in DOMAIN order : order' = RemoveAt(order, k)
      BY <1>1, <3>2, RemoveAtNoTwice DEF NoTwice, TypeInv
    <3>3. QED
      BY <1>12, <3>1, <3>2 DEF Reap, listVars
  <2>3. QED
    BY <1>1, <1>2, <2>1, <2>2, EntryQuiet
<1>13. CASE UNCHANGED vars
  BY <1>3, <1>13 DEF vars, listVars, pollVars
<1>14. QED
  BY <1>4, <1>5, <1>6, <1>7, <1>8, <1>9, <1>10, <1>11, <1>12, <1>13 DEF Next, Step

WakeType == polled \in BOOLEAN /\ unblocked \in BOOLEAN

LEMMA WakeTypeNext == WakeType /\ [Next]_vars => WakeType'
<1> SUFFICES ASSUME WakeType, [Next]_vars PROVE WakeType'
  OBVIOUS
<1>1. ASSUME NEW t \in Threads,
             lockJobListLock(t) \/ lockJobList(t) \/ unlockJobList(t) \/ WakeSpuriously(t)
      PROVE  WakeType'
  BY <1>1 DEF WakeType, lockJobListLock, lockJobList, unlockJobList, WakeSpuriously, wakeVars
<1>2. ASSUME NEW t \in Callers, unblockPollSocket(t) \/ Change(t) \/ Call(t) PROVE WakeType'
  BY <1>2 DEF WakeType, unblockPollSocket, Change, Call, wakeVars
<1>3. CASE WaitForJobs \/ NextJob \/ JobRun \/ Reap \/ PollFails
  BY <1>3 DEF WakeType, WaitForJobs, NextJob, JobRun, Reap, PollFails, wakeVars
<1>4. CASE Collect
  BY <1>4 DEF WakeType, Collect
<1>5. CASE PollUnblocked \/ PollReady
  BY <1>5 DEF WakeType, PollUnblocked, PollReady
<1>6. CASE UNCHANGED vars
  BY <1>6 DEF WakeType, vars, wakeVars
<1>7. QED
  BY <1>1, <1>2, <1>3, <1>4, <1>5, <1>6 DEF Next, Step

\* A job is run with the poll entry of its own socket, whatever the jobs that run make of
\* theirs meanwhile: "the order of jobs in the list continue to match the order of jobs in
\* pfds" (SocketMultiplexer::addSocket).
THEOREM OwnPollEntryAlways == Spec => []OwnPollEntry
<1>1. Init => WakeType
  BY DEF Init, WakeType
<1>2. ASSUME EntryInv, WakeType PROVE OwnPollEntry
  <2>1. TypeOK
    <3>1. cursor \in Nat /\ served \in Nat
      BY <1>2, LenProperties DEF EntryInv
    <3>2. QED
      BY <1>2, <3>1 DEF EntryInv, PollInv, LockInv, TypeInv, TypeOK, WakeType
  <2>2. QED
    BY <1>2, <2>1 DEF EntryInv, OwnPollEntry, EntryOf
<1>3. EntryInv /\ WakeType => OwnPollEntry
  BY <1>2
<1>4. QED
  BY <1>1, <1>3, EntryInit, EntryNext, WakeTypeNext, PTL DEF Spec
===============================================================================
