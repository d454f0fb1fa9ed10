---------------------------- MODULE ServiceParts ----------------------------
(***************************************************************************)
(* Four components that share no state, side by side: files on the clipboard, *)
(* screen captures, the event queue and the application around the server.     *)
(* MCServices runs them, with others, one in each behavior; ServicesProofs      *)
(* proves what is said here of each.                                           *)
(***************************************************************************)
EXTENDS FileTransfer, MCParts

CONSTANTS
    Captures, MaxPending, MaxDrops,                                     \* CaptureControl
    Producers, MaxEvents, MaxAdopts,                                    \* EventQueue
    AppClients, StartMayFail, MaxSuspends, MaxJoins, MaxResets          \* ServerApp

VARIABLES
    \* CaptureControl
    told, status, offers, request, requests, replies, capturing, toServer, toClient, known,
    k_queue, saved, drops,
    \* EventQueue
    ready, draining, pending, buffer, events, oldIDs, holding, sent, dispatched, aside,
    discarded, adopts,
    \* ServerApp
    main, state, server, clients, oldClients, suspended, asleep, resetSuspended, a_queue, closing,
    a_stale, asked, suspends, joins, resets

captureVars == <<told, status, offers, request, requests, replies, capturing, toServer, toClient,
    known, k_queue, saved, drops>>
queueVars == <<ready, draining, pending, buffer, events, oldIDs, holding, sent, dispatched, aside,
    discarded, adopts>>
appVars == <<main, state, server, clients, oldClients, suspended, asleep, resetSuspended, a_queue, closing,
    a_stale, asked, suspends, joins, resets>>

Capture == INSTANCE CaptureControl WITH queue <- k_queue
Queue == INSTANCE EventQueue
App == INSTANCE ServerApp WITH Clients <- AppClients, queue <- a_queue, stale <- a_stale

ASSUME PartsAssumption ==
    Capture!CaptureAssumption /\ Queue!EventQueueAssumption /\ App!ServerAppAssumption

------------------------------------------------------------------------------
(* Properties.  A part that rests satisfies its own.                           *)

\* What was fetched is whole, of one version (FileClipboardTransfer::fetch).
FilesWhole == part = "files" => TypeOK /\ StagedWhole

\* Answers to capture commands reach those who asked, however late, and what the server is
\* about to fetch is there (FileClipboardTransfer::requestCapture, captureReceive).
CapturesAnswered == part = "capture" =>
    /\ Capture!TypeOK /\ Capture!AnswerMatches /\ Capture!RepliesAwaited /\ Capture!QueuedCanBeFetched

\* Events of all threads are kept once, under an id of their own, and in their order but
\* for those put aside (EventQueue::addEvent, EventQueue::loop).
EventsKept == part = "queue" =>
    Queue!TypeOK /\ Queue!IdsInUse /\ Queue!InOrder /\ Queue!OnePlace

\* A computer that sleeps does not serve, unless a reset started the server while it slept or the
\* suspension was noted, and a server that was stopped leaves nothing behind
\* (ServerApp::handleSuspend, resetServer, stopServer, closeServer).
AsleepStopped == part = "app" => App!TypeOK /\ App!AsleepStopped /\ App!NothingLeft
=============================================================================
