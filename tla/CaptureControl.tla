---------------------------- MODULE CaptureControl ----------------------------
(***************************************************************************)
(* How a client hands a capture (a recording or a screenshot) to the        *)
(* server's computer (captureCommand and requestCapture,                    *)
(* lib/platform/FileClipboardTransfer.cpp): it makes an offer, asks the     *)
(* server over the sharing connection to receive it, and waits up to four   *)
(* seconds for the answer; the server's receiver thread then fetches it     *)
(* over the file connection.  A capture's commands run on threads of their  *)
(* own, beside the event loops of both sides.                               *)
(***************************************************************************)
EXTENDS Naturals, Sequences, FiniteSets

CONSTANTS
    Captures,
    MaxPending,     \* offers kept by the client, and jobs kept by the server
    MaxDrops        \* times the sharing connection, or its options, are lost

\* What the constants may be.
CaptureAssumption == IsFiniteSet(Captures) /\ MaxPending \in Nat \ {0} /\ MaxDrops \in Nat

VARIABLES
    told,           \* per capture, what its command has come to
    status,         \* what the client reports of it
    offers,         \* captures: those that can be fetched
    request,        \* its request's number; 0: none
    requests,       \* captureRequest
    replies,        \* captureReplies, by number
    capturing,      \* captureSender is set
    toServer, toClient,
    known, queue, saved,    \* by the server
    drops

clientVars == <<told, status, offers, request, requests, replies, capturing>>
serverVars == <<known, queue, saved>>
vars == <<clientVars, toServer, toClient, serverVars, drops>>

Numbers == 1..Cardinality(Captures)
Message == [number : Numbers, capture : Captures]
Answer == [number : Numbers, ok : BOOLEAN]

\* Every variable has its type.
TypeOK ==
    /\ told \in [Captures -> {"new", "offered", "waiting", "ok", "failed"}]
    /\ status \in [Captures -> {"none", "preparing", "failed", "saved"}]
    /\ offers \subseteq Captures
    /\ request \in [Captures -> 0..Cardinality(Captures)] /\ requests \in 0..Cardinality(Captures)
    /\ replies \in [Numbers -> {"absent", "empty", "ok", "refused"}]
    /\ capturing \in BOOLEAN
    /\ toServer \in Seq(Message) /\ toClient \in Seq(Answer)
    /\ known \subseteq Captures /\ queue \in Seq(known) /\ saved \subseteq known
    /\ drops \in 0..MaxDrops

Init ==
    /\ told = [c \in Captures |-> "new"] /\ status = [c \in Captures |-> "none"]
    /\ offers = {}
    /\ request = [c \in Captures |-> 0] /\ requests = 0
    /\ replies = [n \in Numbers |-> "absent"]
    /\ capturing = FALSE /\ toServer = <<>> /\ toClient = <<>>
    /\ known = {} /\ queue = <<>> /\ saved = {} /\ drops = 0

------------------------------------------------------------------------------
(* The client's commands.                                                      *)

\* A command ends: what failed is reported so.
tell(c, outcome) ==
    /\ told' = [told EXCEPT ![c] = outcome]
    /\ status' = IF outcome = "failed" THEN [status EXCEPT ![c] = "failed"] ELSE status

finished(c) == status[c] \in {"saved", "failed"}

\* capture-offer: those that are over make room; none is made for a server that cannot.
captureOffer(c) ==
    /\ told[c] = "new" /\ capturing
    /\ LET kept == {o \in offers : ~finished(o)}
       IN  IF Cardinality(kept) < MaxPending
           THEN /\ offers' = kept \cup {c}
                /\ told' = [told EXCEPT ![c] = "offered"]
                /\ status' = [status EXCEPT ![c] = "preparing"]
           ELSE offers' = kept /\ told' = [told EXCEPT ![c] = "failed"] /\ UNCHANGED status
    /\ UNCHANGED <<request, requests, replies, capturing, toServer, toClient, serverVars, drops>>

\* The request gets a number, and a place for its answer.
requestCapture(c) ==
    /\ told[c] = "offered"
    /\ IF capturing
       THEN /\ requests' = requests + 1
            /\ request' = [request EXCEPT ![c] = requests + 1]
            /\ replies' = [replies EXCEPT ![requests + 1] = "empty"]
            /\ toServer' = Append(toServer, [number |-> requests + 1, capture |-> c])
            /\ tell(c, "waiting")
       ELSE tell(c, "failed") /\ UNCHANGED <<requests, request, replies, toServer>>
    /\ UNCHANGED <<offers, capturing, toClient, serverVars, drops>>

\* It returns with the answer, or without it after four seconds or when the server is gone.
requestReturns(c) ==
    /\ told[c] = "waiting"
    /\ tell(c, IF replies[request[c]] = "ok" THEN "ok" ELSE "failed")
    /\ replies' = [replies EXCEPT ![request[c]] = "absent"]
    /\ UNCHANGED <<offers, request, requests, capturing, toServer, toClient, serverVars, drops>>

\* Mutant: an answer goes to whoever waits.
answeredToAll(a, n) == replies[n] # "absent"

\* An answer that comes late finds no place.
answered(a, n) == n = a.number /\ replies[n] # "absent"

captureResponse ==
    /\ toClient # <<>> /\ toClient' = Tail(toClient)
    /\ replies' = [n \in Numbers |->
            IF answered(Head(toClient), n)
            THEN IF Head(toClient).ok THEN "ok" ELSE "refused"
            ELSE replies[n]]
    /\ UNCHANGED <<told, status, offers, request, requests, capturing, toServer, serverVars, drops>>

------------------------------------------------------------------------------
(* The sharing connection.                                                     *)

\* setOptions: the server says that it can.
setCaptureSender ==
    /\ ~capturing /\ capturing' = TRUE
    /\ UNCHANGED <<told, status, offers, request, requests, replies, toServer, toClient, serverVars, drops>>

\* resetOptions or cleanupScreen: with the connection goes what is on its way.
clearCaptureSender ==
    /\ capturing /\ drops < MaxDrops /\ drops' = drops + 1
    /\ capturing' = FALSE
    /\ \/ UNCHANGED <<toServer, toClient>>
       \/ toServer' = <<>> /\ toClient' = <<>>
    /\ UNCHANGED <<told, status, offers, request, requests, replies, serverVars>>

------------------------------------------------------------------------------
(* The server.                                                                 *)

\* capture-receive: known already, or refused, or a job.
captureReceive ==
    /\ toServer # <<>> /\ toServer' = Tail(toServer)
    /\ LET c == Head(toServer).capture
           accepted == c \in known \/ Len(queue) < MaxPending
       IN  /\ toClient' = Append(toClient, [number |-> Head(toServer).number, ok |-> accepted])
           /\ IF accepted /\ c \notin known
              THEN known' = known \cup {c} /\ queue' = Append(queue, c)
              ELSE UNCHANGED <<known, queue>>
    /\ UNCHANGED <<saved, clientVars, drops>>

\* The receiver thread fetches and saves it, which the client learns; or fails alone.
fetchCapture ==
    /\ queue # <<>> /\ queue' = Tail(queue)
    /\ LET c == Head(queue)
       IN  \/ /\ c \in offers
              /\ saved' = saved \cup {c}
              /\ status' = [status EXCEPT ![c] = "saved"]
           \/ UNCHANGED <<saved, status>>
    /\ UNCHANGED <<told, offers, request, requests, replies, capturing, toServer, toClient, known, drops>>

------------------------------------------------------------------------------
Next ==
    \/ \E c \in Captures : captureOffer(c) \/ requestCapture(c) \/ requestReturns(c)
    \/ captureResponse \/ captureReceive \/ fetchCapture
    \/ setCaptureSender \/ clearCaptureSender

Spec == Init /\ [][Next]_vars

------------------------------------------------------------------------------
(* Properties.                                                                 *)

\* Whoever is told that the server receives a capture is told so of that capture, however
\* late the answers to others were.
AnswerMatches == \A c \in Captures : told[c] = "ok" => c \in known

\* A place for an answer is kept only while somebody waits for it.
RepliesAwaited ==
    \A n \in Numbers : replies[n] # "absent" => \E c \in Captures : told[c] = "waiting" /\ request[c] = n

\* What the server is about to fetch can be fetched, unless the client was told that it failed.
QueuedCanBeFetched ==
    \A i \in DOMAIN queue : queue[i] \in offers \/ told[queue[i]] = "failed"
=============================================================================
