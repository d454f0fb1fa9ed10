------------------------------ MODULE JobTable ------------------------------
(***************************************************************************)
(* What a SocketMultiplexer promises its sockets.  Each socket has at most  *)
(* one job.  A job is set or taken away only while none is being served, a  *)
(* job is served only while its socket has it, and what it returns takes    *)
(* its place.  A socket that was removed is therefore left alone from then  *)
(* on: its owner may delete it.                                             *)
(***************************************************************************)
CONSTANTS
    Sockets,
    Jobs,
    NoJob,
    NoSocket

VARIABLES
    job,        \* the job of each socket
    served      \* the socket whose job is running

Init ==
    /\ job = [s \in Sockets |-> NoJob]
    /\ served = NoSocket

\* addSocket, or removeSocket with NoJob.
SetJob(s, j) ==
    /\ served = NoSocket
    /\ job' = [job EXCEPT ![s] = j]
    /\ UNCHANGED served

\* The job of a socket begins to run.
Serve(s) ==
    /\ served = NoSocket
    /\ job[s] # NoJob
    /\ served' = s
    /\ UNCHANGED job

\* The job returns the next one, itself or none.
Finish(j) ==
    /\ served # NoSocket
    /\ job' = [job EXCEPT ![served] = j]
    /\ served' = NoSocket

Next ==
    \/ \E s \in Sockets, j \in Jobs \cup {NoJob} : SetJob(s, j)
    \/ \E s \in Sockets : Serve(s)
    \/ \E j \in Jobs \cup {NoJob} : Finish(j)

Spec == Init /\ [][Next]_<<job, served>>
=============================================================================
