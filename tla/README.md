# Verification of ZeroFlow's input and clipboard sharing

ZeroFlow is a headless fork of Deskflow: one computer (the *server*, or *primary*) shares its
keyboard, mouse and clipboard with others (the *clients*) over a network.  This directory holds TLA+
models of the parts whose behaviour depends on the order in which things happen, the TLC runs that
check them and the proofs of the results that hold for every instance.

All source paths below are under `src/src/lib/` unless they say otherwise.

## 1. Inventory

| Component | State it keeps | Operations | Talks to |
| --- | --- | --- | --- |
| Server core, `server/Server.cpp` | connected clients by name and as a set, clients being hung up on, active screen, pointer position, pending switch, lock, screen saver, clipboards | adopt, disconnect, close, reload, layout, motion, jump, lock, screen saver, emergency return, clipboard grab and change, key and button relay | proxies, PrimaryClient, Config, event queue, timers |
| Configuration, `server/Config.cpp` | screens, aliases, links (intervals of edges), options | add, connect, look up, read, write | Server, ServerApp, adoptClient |
| Input filter, `server/InputFilter.cpp` | rules, key state of the hot keys | match an event, perform actions | event queue, primary screen |
| Client proxies, `server/ClientProxy*.cpp` | options, shape, heartbeat alarm, clipboard dirty flags | parse messages, send enter, leave, keys, clipboards | Server, socket |
| Primary client, `server/PrimaryClient.cpp` | fake-input count, clipboard dirty flags | enter, leave, reconfigure, clipboard | Server, Screen |
| Listener, `server/ClientListener.cpp`, `ClientProxyUnknown.cpp` | sockets, new clients, waiting clients, handshake timer | accept, hello, hand over | ServerApp, Server |
| Server application, `deskflow/ServerApp.cpp` | life-cycle state, listener, server, screen, retry and suspend flags | start, stop, retry, reload, suspend, resume | all of the above |
| Client, `client/Client.cpp` | connection, handshake, timer, suspend flags, clipboard ownership and times | connect, disconnect, enter, leave, grab, suspend, resume | ServerProxy, Screen |
| Server proxy, `client/ServerProxy.cpp` | sequence number, pending mouse motion, keep-alive alarm, modifier table | parse messages, send clipboards | Client, socket |
| Client application, `deskflow/ClientApp.cpp` | restart and suspend flags, next restart delay | start, retry, disconnect | Client |
| Screen, `deskflow/Screen.cpp` | entered, enabled, half-duplex keys, screen saver synchronisation | enable, enter, leave, options | platform screens, KeyState |
| Key state, `deskflow/KeyState.cpp`, `KeyMap.cpp` | pressed keys, modifiers, synthesised strokes | press, release, repeat, map | platform key state |
| Events, `base/EventQueue.cpp` | event table, timers, handlers | add, dispatch, timers, quit | every component |
| Sockets, `net/TCPSocket.cpp`, `SecureSocket.cpp`, `SocketMultiplexer.cpp` | buffers, job list with cursor, TLS state | read, write, shut down, service | network, event queue |
| Packet and clipboard chunks, `deskflow/PacketStreamFilter.cpp`, `StreamChunker.cpp`, `ClipboardChunk.cpp` | buffered packet, transfer being assembled | frame, cut, assemble | proxies |
| File clipboard, `platform/FileClipboardTransfer.cpp` | offer, receive job, captures, published paths | serve, fetch, resume, publish, acknowledge | its own TLS port |
| Double Insert, `platform/MSWindowsScreen.cpp` | tap flags, time of the first tap, keys down at a crossing | press, release, cross | Server |
| X selections, `platform/XWindowsClipboard.cpp` | ownership and its times, cached data, replies with their parts | answer, send parts, lose, read | other programs |
| Clipboard bridge, `platform/ClipboardUserBridge.cpp` | helper process | run as the interactive user | file clipboard |
| Windows service, `apps/deskflow-core/WindowsService.cpp` | active session, worker with its pipes, delay after a failure | start, watch, restart, stop | the worker, the control manager |
| Watchdog, `platform/MSWindowsWatchdog.cpp`, `arch/win32/ArchDaemonWindows.cpp`, `apps/deskflow-daemon` | command, process and its state, failures, service state | set command, launch, restart, stop, pause, continue | core process, the control manager |
| Headless control and status, `base/HeadlessControl.cpp`, `HeadlessStatus.cpp`, `deskflow/ipc` | commands read from stdin, heartbeat | stop, limits, layout | application, Server |
| Platform layers, `platform/`, `arch/` | hooks, desks, key and clipboard state of each system | system calls | Screen |
| GUI, `gui/` | settings, core process | not built in this fork | IPC |

The behaviours that are hard here:

* The server runs on one thread, but its handlers interleave in any order: motions, timers, hot keys,
  connections, disconnections that come late, configuration reloads and the screen saver all read and
  write the same pointers to client objects.  A client object is deleted when it disconnects, so every
  pointer left behind is a use after free.
* A switch is a decision spread over time: an edge is met, a delay runs or a second tap is awaited, and
  the screen it was decided for may go, or the cursor may be locked, in between.
* The screen saver takes the pointer home and gives it back, with clients coming and going meanwhile.
* The configuration object is shared between the application and the server, and names are looked up in
  it again long after a client was filed under one of them.
* Clipboard ownership is decided by sequence numbers that travel with enter messages, while grabs and
  data are under way in both directions.
* The file clipboard has its own threads, retries, resumes and acknowledgements.
* A socket is used by two threads, one of which chooses jobs without the lock it needs.
* Keys go down on one screen and come up on another, after a crossing, a reload or a change of the
  modifiers; what was pressed must be released where it was pressed.
* The server edits its own configuration file, which a person edits too.
* Two programs keep a core running while sessions, commands and processes change under them.

What makes each component correct is stated where its module is described.

## 2. How the project is laid out

Every component has a module of its own, with the names of the code.  What is proved about it is in
`<Module>Proofs.tla`.  Modules `MC...` give the constants values for TLC.

Many components share no state with one another: a socket is not in the way of the search for a
neighbour.  Such components are *parts* of a composite, `MCConnections` or `MCServices`: a variable `part` (in `MCParts`) says which one runs, the others rest in one initial
state, and `[][...]` lets only that one move, under its own fairness.  A behaviour of the composite is
a behaviour of one part, so the run checks each part exhaustively, and the states of the parts add up
instead of multiplying.  A composite's property is the conjunction of what is asked of its parts,
guarded by `part = "..."` where the resting state would not satisfy it; their type invariants are
conjuncts too.  The properties of the parts that have proofs are stated in `ConnectionParts`,
`ServiceParts` and `InputParts`, which instantiate the parts with constants left open: the run checks them with the values of
its `.cfg`, and `ConnectionsProofs`, `ListenerProofs`, `ServicesProofs` and `InputProofs` prove the same definitions for all
values.  (The modules `MC...` reach recursive definitions, about which nothing can be proved.)  Liveness of
several parts is written as one `[]<>` of a conjunction: a part that rests
satisfies its conjunct at once, so the formula asks for it of the part that runs.

Components that do interact are composed for real: `TCPSocket` over `JobTable`, which
`SocketMultiplexer` is shown to implement; the listener with its unknown clients, filters, sockets and
proxies; the client's three classes; the service and the worker it starts; the daemon with the control
manager, the commands and the core; `Clipboard` with server, clients, screens and connections.

| Modules | What they model |
| --- | --- |
| `Server`, `MCServer`, `ServerProofs` | which screen has the pointer, who is connected |
| `Neighbors` | links between screens and the search along them |
| `ConfigFile` (`MCPrograms`) | the configuration file, read and rewritten |
| `KeyRelay`, `DoubleInsert` | keys and buttons on their way, the two taps |
| `MouseStream` | motions at the client |
| `HotKeys`, `KeySynthesis` (`MCTyping`) | keyboard rules, keys at the client |
| `Clipboard`, `MCClipboard`, `ClipboardProofs` | whose clipboard it is |
| `XSelection` (`MCPrograms`) | the selections of an X screen |
| `FileTransfer`, `CaptureControl` | files and captures |
| `SocketMultiplexer`, `JobTable`, `MCSocketMultiplexer`, `SocketMultiplexerProofs` | who has the sockets |
| `TCPSocket`, `TCPSocketProofs`, `PacketStreamFilter` | a socket, the packets that come over it |
| `ClientListener`, `ClientSession` | how a connection begins and ends, on both sides |
| `EventQueue`, `ServerApp` | events of all threads, the life of the server |
| `ServiceParts`, `ServicesProofs` | files, captures, events and the server's life side by side, and what is proved of them |
| `InputParts`, `InputProofs` | keys on their way, taps, motions, desktops and links side by side, and what is proved of them |
| `MCServices` | the parts of both, with those of `MCTyping` and `MCPrograms`, for TLC |
| `WorkerService`, `Watchdog` | the programs that keep a core running |
| `Desks` | the desktops of Windows and its screen saver |
| `Threads` | the life of a thread and its references |
| `ConnectionParts`, `ListenerProofs`, `ConnectionsProofs`, `MCConnections` | sockets, filter, listener, session, threads, service and watchdog side by side, and what is proved of them |

### `Server.tla`: which screen has the pointer

**State.** `clients`, `clientSet` and `oldClients` are `m_clients`, `m_clientSet` and
`m_oldClients`; `active`, `activeSaver` are `m_active`, `m_activeSaver`; `config` is the `Config` shared
with `ServerApp` and `opts` the options `processOptions` copied from it; `pending` holds
`m_switchScreen`, `m_switchDir`, the delay timer and the double tap; `locked` is `m_lockedToScreen`;
`pos` and `jumpPos` are the pointer position and the position each client was last left at.  `entered`
(screens entered and not left since), `saverOn` (the primary's screen saver) and `saverTold` (clients
whose last screen saver message said "on") are observations of the calls the server makes.

**Abstraction.** A coordinate is represented by the screen whose coordinate space it is in; that is what
tells a right position from a wrong one.  Which screen lies beyond a point of an edge is left open: the
outcomes of `mapToNeighbor` are all connected clients that a search in the direction can come to, or
none.  Time is left open too: whether a second tap is in time, whether a button is held, whether the
pointer is in a dead corner are choices.  Motion deltas, warps, key and button relay and clipboards are
not in this module.

**Actions.** One per handler, run to its end, since the server is single threaded.
`RefuseClient`, `AdoptClient` are the outcomes of `adoptClient` (with the automatic placement of new
screens); `ClientDisconnected`, `ClientCloseTimeout`, `Disconnect` the ends of a connection;
`ReloadConfig` is `ServerApp::reloadConfig` with `setConfig`; `ApplyLayout`, `ShapeChanged`,
`MotionOnPrimary`, `MotionOnSecondary`, `SwitchWaitTimeout`, `JumpToScreen` (the three ways to name a
screen), `LockCursorToScreen`, `EmergencyReturn`, `ScreensaverActivated`, `ScreensaverDeactivated` are
the others.  The operators they share have the names of the functions they model.  A step that would
use a deleted client is not an ordinary step: `Crash` then restarts the server.

**Environment.** A client proxy object is handed to `adoptClient` whenever it is not on a list; the same
object stands for a later connection of the same name.  The files an operator may have on disk
(`Files`) and the arrangements asked for over the control channel (`Arrangements`) are constants.

**Fairness.** None.  Nothing says that a client answers, that the pointer moves or that a screen saver
ends, and the event loop itself may be held up in the closing of a client (`TCPSocket`), so the module
promises no progress.

### `MCServer.tla`: instances

Three names, two or three proxy objects, and the configurations in which the interesting cases arise:
two clients on parts of one edge, two on edges that share a corner, a row, an edited file that drops a
screen and moves another, with or without relative moves.

`server_calm` restricts the behaviours to `CalmSpec`: while the screen saver keeps a screen to go back
to, nothing takes the pointer to a client.  `active_lost` is the same question without the restriction,
and shows why it is there: a client takes the pointer by motion or hot key during the screen saver, goes,
and stays `m_active`.

**Bounds.** The model has no counters: every variable ranges over a finite set once the constants do, so
the runs are exhaustive for their constants.  Two clients are needed for every hazard that was listed (a
switch between clients, a second edge or part of an edge, one client going while the other has the
pointer), and a third object with a taken name for the lists.

### `ServerProofs.tla`: what holds for every instance

`TypeCorrect`: `TypeOK` is invariant.  The inductive invariant is `TypeInv`, which adds that an idle
pending switch is entirely idle; without it the delay timer could hand a null screen to `switchScreen`.

`ListsAlwaysAgree`, `PendingAlwaysConnected`, `OrphanedOnlyBySaver`, `CalmPointer`, `DoubleTapHolds`
rest on `SafeInv` (and `CalmInv`): the lists are filed by the announced names, and the pending switch
aims at a connected client.  They assume that no file has aliases (`Unaliased`).  The assumption is
needed: `removeClient` looks the name up in a configuration that may have changed since the client was
filed, and the model reaches lists that disagree as soon as `Files` has a file in which a name has
become an alias.  `SafeNext` has one step per action; two lemmas carry the weight, `RemovalStep` for the
handlers that take clients off the lists and `KeptStep` for those that move the pointer among connected
screens, and `MotionMoves` reduces every motion to the second kind.  `LockHolds` needs only the types.
`DoubleTapHolds` relates the edge that is crossed to the one that was tapped: the screen reached is a
neighbor in the direction of the armed tap.  `SaverToldAlways` adds `SaverInv` to `SafeInv`: a saved screen
implies that the saver runs, so that what `adoptClient` reads from `m_activeSaver` is never a lie, though
it may say nothing.  It assumes no aliases too: `onScreensaver` tells the clients that `m_clients` names
(`Told`), and with aliases a connected client may be missing there.

`ArrivesWhereAimed` and `ArrivesAlways` are about positions.  `PlaceInv` says that the pointer's position and the
one remembered of each screen are in the coordinates of their own screen; every handler keeps it but two.
A primary that refuses to be left (`canLeave`) has the new position recorded all the same, and a delay timer
that started for one screen may end in a switch to another (the run `wait_wrong_screen`).  So the theorems
assume that the primary does not refuse; the first then asks for arrival as long as
`PendingAimsAtOneScreen` holds, so that the timer is the only thing left to blame; the second has files
that turn no delay on, as the run `server_taps`, and shows that no timer ever runs (`NoTimer`).

### `Neighbors.tla`: what lies beyond an edge

**State.** `links` are the cells of `Config`, an interval of one edge to an interval of another;
`connected` the clients; `phase`, `dir`, `src`, `t` and the others are the locals of
`Server::getNeighbor` and `mapToNeighbor`.  **Actions.** `connect`, `disconnect` and clients that come
and go between searches; then one turn of a search's loop at a time: `noNeighbor`, `skip`, `found`,
`switch` with `avoidJumpZone`.  Fractions are numbers of `Grid`-ths, rounded down as the code does.

Asked: links of one edge never overlap, though `Cell::overlaps` compares with two of them only; the
ordered look-up finds a link that is there; the pointer arrives on the screen (`ArrivesOnScreen`) and
outside the jump zone; a search ends, unless the links of the unconnected screens lead it round for ever.
`Endless` says when they do, before the first step: after as many turns as there are places of edges the
search is still under way.  The comment in `getNeighbor` (`Server.cpp:670`) has a search end that comes back
to its source, but the code does not compare the two; `SearchReturns` says what the comment does, and fails.

**Proved** in `InputProofs`, for any screens, grid, links and reach: `LinksFit`.  `DisjointInv` says that the
links of one edge never overlap, since of a set of disjoint intervals only the two next to a new one can
overlap it; the ordered look-up then finds the one that covers a position, because the intervals begin in
the order in which they end.  `SearchInv` follows the search: while it goes on the pointer is beyond the
edge of the last connected screen, and once it went through an edge it is between the ends of that edge
(`OnEdge`, from what the two scalings of `Config` do to a fraction within an interval); so the screen that is
entered contains it.  The proof asks for a jump zone smaller than the primary screen (the code's is one
pixel): otherwise `avoidJumpZone` puts the pointer outside.  That a search ends stays with TLC.

### `ConfigFile.tla`: the file a person and the server both write

A file is a sequence of sections, a section a sequence of lines: screens with options, links, rules.
`read` is the parser with its error paths; `adoptClient` and `applyLayout` rewrite sections of the text
by pattern and change the live configuration beside it, as `Server.cpp:280-325` does; `reload` and
`restart` read the file again; a person edits it.  Aliases come from the settings.

Asked, in `ConfigKept`, a part of `DoneAsAsked`: the configuration in use is well formed; a file the server rewrote can be read
again; what was answered for is what the next start finds; nothing but the replaced sections changes;
a client that was given a place can be reached.  The code breaks these in five *named cases*, and each
property is asked outside them: `Indented` (the pattern matches only ends and headers at the margin, so
it swallows what follows or writes a second section), `Doubled` (two sections of one kind), `Thin` (an
interval rounded to nothing), `Aliased` (an alias equal to a screen's name), `strayed` (the file was
edited and not reloaded, and the live links get a screen they do not know).

### `Clipboard.tla`: whose clipboard it is

**State.** `server` has the fields of `Server::ClipboardInfo` and what the proxies keep (`dirty`, and the
`buffer` each uses both for what it received and for what it sends); `client` has those of `Client` and
`ServerProxy`; `screen` is the system clipboard and `MSWindowsScreen::m_ownClipboard` of each computer;
`events` and each client's `events` are the event queues between a socket or a screen and its handler;
`down` and `up` are the connections.

**Abstraction.** The two clipboards of the protocol are handled alike and never meet, so there is one.
Contents are numbered by the copy that made them.  A clipboard travels as one message: its chunks leave
the sender in one run of events and nothing of another transfer comes between them.  On Windows a
clipboard's time is never the one asked about, so the time check of `sendClipboard` always passes.
`Connect` stands for the whole handshake.  What users copy while their computer is disconnected is left
out: the next connection clears it.

**Actions.** `SwitchScreen` (any cause), `ServerEvent`, `ServerReceive` on the server; `ClientReceive`,
`ClientEvent` on a client; `Copy`, `onClipboardChange` on a computer; `Connect`, `Disconnect`.  The
handlers they run are operators on the part of the state that the server's thread changes, named as in
the code, so that one calls the next as the code does.

What users and the network may do is a `scenario`, chosen at the start: how often the cursor moves, who
copies, whose connection may be lost, which copies are over the limit.  `clipboards` takes two: copies on
the primary and one client with the cursor on three screens and no loss; and one client that copies, one
copy over the limit, while the other client loses its connection and comes back.  `OwnerSent`,
`OwnersAgree`, `UpToDate` and `DataExpected` say in which scenarios they hold (`NoLoss`, `AllFit`,
`OnlyClient`, `OnlyCopier`); the condition is part of the property.  What a client that is gone had sent
stays in the queue as *orphans* that no handler takes: the handlers belong to a proxy, which is deleted.

**Proved** in `ClipboardProofs`, for any clients, copies, moves and scenarios:

* `OwnersAgreeAlways`.  `StateInv` has the types and numbers; `CourseInv` says where the cursor's moves are on
  their way to each client and that what a client left behind was sent; `CourierInv` that sequence numbers
  of messages and events are those of some move in the past, rising on each connection; `ClaimInv` that a
  client that believes it owns the clipboard, and does not, is about to be told: its own grab is still on
  its way, or data is coming or will be sent when it is entered.  The attempt to prove this found its
  condition: a copy that is too large is never sent, and a client that should be given it goes on believing
  that it owns what was there before (`ClientProxy1_6::setClipboard`), so `ActiveKnowsOwner` is asked where
  everything fits (`AllFit`).
* `OwnerSentAlways`, from `CourseInv`.
* `DataExpectedAlways`.  Where one client copies, `AloneInv` (nobody else has a claim), `IdleInv` (nor has the
  primary) and `FirstInv` (until the server makes it the owner, what the client sends comes after its first
  grab) follow what was told through both queues.

* `UpToDateAlways`, which relates what every screen shows to what the server has when all is settled.  At
  rest it says little of how it came about; what each step keeps is about the *last* message of a kind on
  every way (`LastIn`): a way has a last one that fits, or has none and the place it comes from already
  fits.  `HomeInv` (where no connection is lost): what a client owns and the server holds the primary shows,
  or it is dirty and the cursor is away.  `CleanInv` (where one client copies): the last that a clean screen
  is sent, over the events and then `down`, is what the server holds, and nothing that a proxy skips for its
  size is in the way (`FitsInv`).  `KeptInv`: the last that the owner said is in its own queue, on `up`, in
  the proxy's buffer while its event waits, or with the server, and no grab of a later move follows it
  (`Limit`); or else the owner is about to be told that it owns nothing.  All rest on `LoneInv`, which joins
  the invariants of the theorems above.

**Bounds.** `MaxCopies` = 2, because a copy that overtakes another is the case of interest; `MaxSeq` = 3
(2 with reconnections): out, across and home again.  The queues need no bound: each message answers a
copy or a switch.  With both bounds used up the system is at rest, so deadlock is not checked.  There is
no fairness: the properties are about what is true when all has been handled (`Settled`), or always.

What the model shows and no run asserts, because it does not hold: a copy can be lost (data from the
server is written over it before its grab event is handled, `Client.cpp:268`), the first copy after
connecting goes unnoticed until the next notice (`MSWindowsScreen.cpp:1372`), the primary is not given
the clipboard when the client with the cursor is lost, and what a proxy received is lost where a switch
sends something else through the same buffer (`ClientProxy1_6.cpp:69`).

### `XSelection.tla`: the selections of an X screen

**State.** `clip` is what `XWindowsClipboard` keeps of each of two selections (owner, times, cache,
replies with how much of them was sent, saved event masks); `x` the X server's view (owners, properties),
`x_events` the events it sends, `notices` what a program hears, `alive` its windows.  **Actions.** A
program asks, reads a part, owns the selection itself, destroys its window; the screen opens, fills and
closes the clipboard, handles `SelectionRequest`, `PropertyNotify`, `SelectionClear`, `DestroyNotify`.
Times wrap at `Wrap`.  Formats are two: one that fits a property and one sent in two parts (INCR).

`SelectionsAnswered`, a part of `DoneAsAsked`: who owns a selection has its data; a program gets whole answers of the copy it
asked about, in the order it asked; and when everything was handled each request of a window that lives
was answered.  Ghost variables mark what the code does not do: `stale` (`lost()` does not compare its time
with `m_timeOwned`, so a late notice gives up a selection taken back), `deaf` (the two clipboards restore
each other's event mask on one window, and the transfer stops), `early` (a waiting reply is followed by
an unsent one).  The module has a `RECURSIVE` operator and is checked by TLC only.

### `FileTransfer.tla`, `CaptureControl.tla`, and their proofs in `ServicesProofs.tla`

**Files.** `copy`, the offer, its thread `Serve`, the receiver's job with attempts, generation and
committed chunks, staging, publication and the paste are variables; the user copies, edits, pastes, other
programs take the clipboard, and any chunk may fail (`MaxFailures`).  One action is what is done with the
clipboard open, or between two locks, so that what was looked up before may be old.  Asked: what the
receiver shows is of its newest job that was not cancelled (`NewestShown`), what is staged is whole and of
one version (`FilesWhole`), the source's clipboard is emptied only of a copy whose files were moved away
(`SourceCopySurvives`), and a paste is told to the source (in `EverythingEnds`: no paste waits for ever, `PasteTold`, and one that
waits is given up only in the four cases that `PasteKept` lists, above all that the receiver began a newer
job and forgot the published paths), under fairness of the two threads, which the code justifies by bounded waits in both.

**Captures.** Commands of several producers, the request over the sharing connection, the four seconds a
producer waits, late answers, lost messages (`MaxDrops`), the table of captures and its eviction.

**Proved** for any numbers of chunks, attempts, copies, jobs, failures and captures: `Newest`
(`publish` asks again with the clipboard open, and that is enough); `CopySurvives`, from `ClearInv`: the
source is told of a paste only of an offer whose files were moved, and clears only if the copy is still
that offer; `FilesAlwaysWhole`, from `StagedInv`: the chunks of a fetch and those already staged are of the
version that the source named when it was asked, however often the connection broke and the file was edited;
`CapturesAlways`, from `NumbersInv` (requests have numbers of their own), `AnswersInv` (what travels and
what arrived carry the number of a request whose capture the server knows) and `FetchInv` (what the server
is about to fetch is offered, unless the client was told that it failed).

### `SocketMultiplexer.tla` and `JobTable.tla`: who has the sockets

**State.** `pc` is where each thread is; `lockLocker` stands for `m_jobListLockLocked` and its locker,
`locker` for `m_jobListLock` and its locker, `jobsReady` and `update` for the flags of those names;
`order` and `slot` are the list with its map and what each node holds; `pfds`, `served` and `cursor` are
local to `serviceThread`; `polled` and `unblocked` are the pipe (or event) that breaks its poll, which
belongs to the service thread only from its first poll on.  `sleeping` are the threads in a
`CondVar::wait`.

**Actions.** One per critical section under `m_mutex` (`lockJobListLock`, `lockJobList`,
`unlockJobList`, `WaitForJobs`), and one per step taken with the job list: `Change` is the body of
`addSocket` and of `removeSocket`; `Collect`, `PollUnblocked`, `PollReady`, `PollFails`, `NextJob`,
`JobRun`, `Reap` are `serviceThread`.  A signal wakes any one of the threads that wait on the condition,
and a thread may wake for no reason.  The destructor, which cancels the service thread, is left out.

**Fairness.** Each thread takes its steps (`WF_vars(Step(t))`): threads are scheduled and jobs end.  A
poll need not end by itself and nobody need call, so `PollReady`, `PollFails` and `Call` are not fair.
Who gets a free lock first is left open, so the property about callers begins where a caller has the
lock on the lock.

`JobTable` is what a socket may rely on: jobs change only while none runs, a job runs only while its
socket has it, and what it returns takes its place.  `TableSpec` says that the multiplexer implements
it: `job` is `slot`, and `served` is the socket under the cursor while a job runs.

**Bounds.** Two callers can wait for the lock on the lock while the service thread waits for the list;
two sockets give a job that is not at the head of the list and one removed behind or before it.  The jobs of a
socket are told apart only by what they wait for; one kind is enough for the lists to disagree.

### `SocketMultiplexerProofs.tla`: for any threads, sockets and jobs

* `ListLockedAlways`.  `LockInv`: where a thread is decides whether it has the list (`ListLocked`) and
  whether it has the lock on the lock (`LockClaimed`).
* `NobodyOversleptAlways`.  `unlockJobList` calls `signal`, which wakes one thread.  `OneWaitsForList`
  and `OneWaitsForJobs` show that never more than one waits: only the thread with the lock on the lock
  waits for the list, and only the service thread waits for jobs.
* `PollMatchesJobsAlways`.  `PollInv`: while `m_update` is clear the entries are those of the list, and it
  is clear during the poll; the service thread goes on to poll only with a list that is not empty.
* `TableImplemented`.  Every step is a step of `JobTable` or leaves it alone.  `Change` needs `ListLocked`,
  so that no job is running then.

* `OwnPollEntryAlways`.  `EntryInv`: a strictly increasing `f` leads from the entries to the places they were
  collected from, the job that runs is the one at `f[served]`, and the entries not served yet are those of the
  places past the cursor that hold a job, one by one (`Leads`).  A job that runs touches only its own place,
  because no socket has two (`NoTwice`), so `f` survives it.  That there is such an `f` when the entries are
  collected (`Listing`) is induction over the length of the list, done by the least counterexample:
  `LeastNumber`, from the library's theorem that finite sets are well-founded.

`LockedOutReturns` is liveness and stays with TLC.

### `Threads.tla`: the life of a thread

The main thread makes the multiplexer's service thread, and ends it by a flag, a signal, a byte in its pipe
and a wait.  `ArchMultithreadPosix` counts who refers to a thread; the count is raised under
`m_threadMutex` and lowered without it, so a change is two steps here.  Asked: the thread is freed when
nobody refers to it and not before (`FreedByLast`), and whoever ends a thread gets back (`Ended`).  Named:
two changes that overlap (`torn`); a thread that polled refers to itself for good, as
`setNetworkDataForCurrentThread` looks itself up and keeps the reference (`polled`), so it is never freed; a
thread that is ended before its first poll may poll for ever, as the pipe is made for the thread that
wanted to write to it (`deaf`, the other end of what `mux_first` shows).

**Proved** for any number of starts: `LastFrees`.  The count is the number of references (`ExactInv`), which
needs where each of them is held (`HoldersInv`) and that a count that was read belongs to a thread
that is about to write it (`CountingInv`).

### `TCPSocket.tla` and `TCPSocketProofs.tla`: a socket between two threads

**State.** The flags, buffers (as numbers of writes and arrivals) and job of a plain or TLS socket;
`service` and `owner` are where the two threads are; `sslLocked` is `ssl_mutex_`; `events` those in the
queue.  **Actions.** One is what is done under `m_mutex`, or between two locks; `newJob()` is called by the
owner without the mutex, so its choice may be old when it is set.  The multiplexer is `JobTable`:
`TableUsed` says that the two threads use it as it allows.

Asked: `ClosedSafely` (TLS state is never used after it was freed, and a socket that was closed has no job
and none that runs); `SocketServed` (what is in the buffers is polled for, input is announced, no spinning);
that a flush and a close return and a loss is heard (`SocketAnswers`), of TLS sockets too.  No peer is assumed to read:
a flush to one that keeps the connection and takes nothing may last for ever (`Unread`), and nothing else
may keep a plain socket's owner.  What fails and is named: a fatal TLS error ends the
job with output pending, so a `flush` under way does not return (`LeftUnflushed`); `freeSSL` holds
`ssl_mutex_` while it waits for the job list, and the service thread waits for that mutex with the list
locked (`Deadlocked`, which TLC reaches); a stale job spins
after the end of the input; input read together with a close over TLS is not announced.

**Proved** for any numbers of writes and arrivals: `TypeCorrect`; `ClosedSockets`, from `CloseInv`: once
the owner took the job away nothing puts one back, as the owner is past asking for one and the service
thread, idle when the job went, finds none; `InputIsAnnounced` for plain sockets; and `SocketAlways`
(`SocketServed`), from `SockInv`.  What the two threads chose last has to fit what the flags have become
meanwhile.  The argument is that a connection is dialled or accepted, made secure if it has TLS, and then
made for good: in each of these phases the job is of another kind and only one of the two threads can
change it (`StartInv`, `DialInv`, `ShakeInv`, `MadeInv`), and once it is made the flags only fall, so a job
asked for earlier polls for no less than one asked for now (`WriteInv`, `SpinInv`).  `TableAlways`
(`TableUsed`, in `ConnectionsProofs`) is the refinement: the socket's own job is `job` of `JobTable`, and it is the one
served while the service thread is in it; then every step of the socket is `SetJob`, `Serve` or `Finish`
or leaves the table alone.  As the multiplexer implements the same `JobTable` (`TableImplemented`), what a
socket relies on and what it may do meet there, both proved.

### `PacketStreamFilter.tla`, `ClientListener.tla`, `ClientSession.tla`

**Filter.** Units arrive while somebody reads one packet, then all, one after the other while the event loop
waits and the socket is filled (`readNext`); a packet may be over the limit.  Over TLS, data that is read
in one go with the end is not announced (`endsAtOnce`; `SecureSocket::doRead` returns at `status < 0`).
The end of the stream is told
after the last whole packet that was announced was read, and those packets and the end reach the reader;
what came unannounced, and only that, may be lost with the connection (`unannounced`).

**Listener.** Two connections, each from `accept` through TLS, hello and shape to the hand-over, with the
timer, refusals, failing accepts, clients that go at any moment and a listener that stops.  Each object
(socket, filter, unknown client, proxy) has one owner; a client that waits is announced; one that failed
has its event in the queue; somebody accepts, until an accept fails; nobody stays new.  Named: after an
accept that fails the listening job is gone; a client that goes while it waits is deleted twice
(`corrupt`; `ClientListener.cpp`, `removeClientSocket`); a client that fails after its hello leaves its
socket until the listener ends.

**Session.** `Client`, `ServerProxy` and `ClientApp` in one event loop: addresses tried in turn, the
connect and handshake timers, the keep-alive alarm, refusals, restart delays, suspending and resuming.
Asked: a client that is not connected will try again, makes one attempt at a time, is idle asleep, leaves a
silent server and comes to one that answers, while at least one does.  `Client::handleResume` connects
without asking `ClientApp`, to the server the client was told last (`serverAddress`), though
`handleClientConnected` has gone back to the first; and `connect` may fail at once, when the name is not
known or the socket cannot be made, and says so with the same event.  The restart timer, the event loop
and the sockets' outcomes are fair.  A sleep can leave two attempts under way, the one put off until the
computer wakes and the restart that was scheduled before, so `OneAttempt` allows one more per sleep; and
the two, in turn, can step over the server that answers: with the list `<<2, 1, 1>>` and one sleep, or
`<<2, 0, 1>>` and two, TLC finds a client that never comes to it.  `Served` is therefore asked of the list
and the one sleep of the run, and of no other; it is liveness, and not proved.

**Proved** for any connections, lists and bounds (`ListenerProofs`, `ConnectionsProofs`):

* `ClientsAlways` (`ClientsAccountedFor`).  The queue holds events that name connections, so the invariant
  counts them: `ConnInv(c)` follows one connection by how many events of each kind there are for it.  It
  arrives once, while nobody knows it (`ArrivalInv`); the unknown client has a stream whose socket the listener
  keeps, until it has a proxy, and is deaf from then on (`UnknownInv`); what ends it is in the queue, and
  what is in the queue fits what became of it (`OutcomeInv`); its proxy has an owner as long as it lives
  (`ProxyInv`).  `WaitingInv` says that those who wait are those the listener owns, each once and no more
  than are announced.  Without the counts none is inductive: a second `Success` of one connection would
  hand its proxy over twice.
* `FilterAlways` (`EndAfterData`), for plain and TLS sockets.  `AmountInv` accounts for every unit that came: it is in the socket, in
  the filter's buffer, or part of a packet whose header was taken, and of those only the last is not read.
  What is in the socket is announced before the end is (`Ahead`), but for what came with it, so nothing
  announced is left there when the end is handled, and an end the filter tells of itself finds no packet begun; what remains is then less than a
  packet, or the one too large.  Without the order of the queue the end could overtake its data.
* `SessionAlways` (`SessionKept`).  `AttemptsInv` counts what will connect the client again, the timers, the
  losses in the queue, the connection, and the attempt put off by a sleep: at least one, and at most one
  more per sleep.  `LinkInv` ties timers and requests to the phase they are about.

### `WorkerService.tla` and `Watchdog.tla`: who keeps a core running

**Service.** `serviceMain` starts a worker in the session at the console, watches its status lines,
ends it by its input and then by force, waits after failures; `Control` is the service manager's thread;
the worker may be silent, stuck, or end; sessions change before they are told.  Time passes in ticks, only
while the service has nothing to handle: its loop waits in `WaitForMultipleObjects` with bounded times.

**Daemon.** `serviceHandler` and `doRunDaemon` with the control manager (pause, continue, stop), the
daemon's loop, commands that come over its pipe, the watchdog's loop that starts, checks, restarts and
stops the core under one mutex; the daemon may be killed and started again, the core may end or be stuck,
the user at the console changes.

`HostKept`: a worker in the wrong session is noticed, none is left behind, one that answers is not killed,
the delay fits the failures in a row; there is never a second core, what was commanded last is done or
going to be, and a service that stopped has no core.  **Proved** as `HostAlways`, for any sessions, waits and
bounds.  `WorkerInv`: a worker that is not stuck has been silent for a tick at most when the service looks,
because it writes in every tick and a record that was not read keeps time from passing; so it is never
ended for silence, whatever `Silence` is.  `DogInv`: a core that an earlier daemon left is gone before the
watchdog does anything else, and a thread that ended left none.  `Served` (in `EverybodyAnswered`): who sits at the
console gets the core that was asked for, and the service reaches the state it was asked for.  Named: a
service that was paused never runs a core again (`m_running` is true
only from construction to the first stop: `resumed`); a control given while another is pending may stop the service, or leave it
pending for ever (`hasty`; `ArchDaemonWindows.cpp`, where a FIXME says as much); `stop()` gives up after
five seconds on a core that is stuck, which stays (`gaveUp`).

### `EventQueue.tla` and `ServerApp.tla`

**Events.** Two threads add events while the main loop becomes ready, drains what was put aside, dispatches
and adopts another buffer.  Events have an id of their own while they wait, are dispatched once and in
their order.  Named: an event that is put aside after the queue was drained stays (`aside`), because
`m_pending` is pushed to without a lock (`EventQueue.cpp:204`), and what comes during the drain overtakes.
**Proved** as `EventsAlways` (`ServicesProofs`), for any threads, events and adoptions, from `QueueInv`: an
event is at one place (`EventsParted`), its id in use once (`IDsKept`), and each place holds a thread's
events in their order, with the newer place behind the older (`EventsInTurn`).

**Application.** `closeServer` runs the event loop inside a handler until the clients are gone or three
seconds passed, and a suspend, a reset (`ServerAppResetServer`) or another close may come in that loop.  The
inner `closeServer` then deletes the server the outer one waits with (`stale` counts those), and the outer
one deletes it again when its loop ends: `deletedTwice`, after which the model stops, as anything may
follow.  Asked: a computer that sleeps does not serve, also after a close within a close, a server that is not
started has left nothing, and the innermost close ends.  Named: `resetServer` starts the server whatever
`m_suspended` says (`resetSuspended`); an outer close may wait without a timer, which ended the inner loop
instead.  **Proved** as `AsleepAlways`, from `AppInv`, for any clients and bounds and any depth of closes.
Not so, and not asked: that a user's Quit ends the program (the nested loop swallows it), that a
stray second Quit does not, that a computer that wakes serves again (`EndsWhenAsked`, `QuitHeeded` and
`AwakeServes` are defined for that and fail).

### `KeyRelay.tla`, `HotKeys.tla`, `DoubleInsert.tla`: keys at the host

Relay, taps, motions and desktops are parts of `InputParts`, and `InputLetGo` is what is asked of them: it
is proved in `InputProofs` (`InputAlwaysLetGo`).  Hot keys and the typing of a client are parts of
`MCTyping`, asked for in `DoneAsAsked`.

**Relay.** The hook, the host's message queue shared with the server's events, the relay with
broadcasting, the messages to clients and the keys each believes to be down.  What goes down goes up,
except (`excused`): a release that waits in the queue when a crossing posts its mark, or when the cursor is
moved; a key that goes down on the host while it is being left; a release still to be handled when the
pointer comes home; a screen that refuses to be left; keys down where broadcasting ends or its targets
change; a button held while a hot key jumps.

Leaving the host has three parts between which the user may do something.  `Screen::leave` reads the
keyboard first (`leavePrimary`): not from the messages that were handled but from the hook's own state
(`MSWindowsKeyState::pollPressedKeys`, `hookKeys` here), so a key whose message still waits is counted.  Then
`warpCursor` moves the cursor, and removes every message of the hooks that waits, keys among them
(`Purged`).  Last, `MSWindowsScreen::leave` keeps the keys as `m_primaryKeyDownList`, and the mode of the hook
changes.  A press between the first and the last reaches the host and is on no list (`Late`).  The cursor is
also moved on the way home and when the displays change (`onDisplayChange`).  The release that the host
waits for is injected there, and the hook sees it again, so it is relayed as well.

*Proved* for any clients, keys, sets to broadcast to and screens that refuse: `KeysAlwaysGoUp`.  A key passes
four places, the hook, the host's queue, the channel to a client and the client, and is let go only where all
agree, so `RelayInv` says of each what may be behind: a press that waits in the queue is of something still
held, or its release waits after it (`AheadInv`); of what a client holds, *or will hold when it has handled
what is on its way* (`MayHold`), the release is ahead and will be given to that client (`HoldInv`); what
is down at a client is known there as the server's (`KnownInv`), so that leaving lets go of it; the host's
own keys are released where they were pressed (`HostInv`); a lost client is heard of once (`GoneInv`).

**Hot keys.** Rules, their registration with the screen, the two tables of ids, events that carry an id
through the queue, reloads and new servers.  Ids and tables stay inverse; each registered key has a rule;
a hot key fires the rule that names it and deactivates what it activated.  Excused: events queued over a
reload, since ids are given out in the opposite order (`replaced`), and releases whose modifiers changed
meanwhile (`loose`), since the rule is looked up by those of that moment.

**Two taps.** The pointer comes home by two presses of Insert within the time and by nothing else, and no
other Insert is swallowed, of the messages that no move of the cursor threw away (`warpCursor`), and unless
what the taps hold for down is not what the messages said (`mixed`).  That happens when a release was
thrown away, and when the release of an Insert held over a crossing is injected for the host before the
taps are looked at (`ReleaseForHost`): the hook posts it a second time, and until that is handled, or after
it if the next press came between, they differ.  It passes when the key is next released; only a release that was
thrown away (`upLost`) keeps them waiting while Insert is up.

*Proved* for any window of time and any numbers of presses, messages, crossings and moves of the cursor:
`TapsAlwaysAgree`.  `TapOrder` says that the queue holds the messages of presses in the order of the presses,
with each press but the one that is down followed by its release, and that only a release may come late or
twice; `TapAhead` how what waits continues what was heard (`downAsHeard`); `TapState` that the screen counts
from that, and that a release is ahead of taps that wait for one.

### `MouseStream.tla` and `KeySynthesis.tla`: at the client

**Motions.** What was kept back and what was handed on are the motions the server sent, in order, unless
one of the other kind was handed on first (`overtaken`), and nothing is kept between two visits.
*Proved* for any number of motions: `MotionsAreKept`, from `MouseInv` (what is kept back is of a visit, and what
the pointer made and what is kept add up to no more than was sent).

**Keys.** The map of keys made from the system's, `mapKey` with the modifiers a key needs and those it must
not have, keystrokes and their restoration, presses, repeats and releases, commands that set and clear
modifiers, two layout groups, a local user who holds a Shift key, on a system that types repeats and one
that does not.  Asked: what the client believes to be down is down and the reverse; its modifiers are the
system's; the character typed is the one sent, with the modifiers of a command; the modifiers are as before
the key; and after the client is left nothing is down.  Named cases: `user`, `shared` (two server keys on
one button), `swapped` (a repeat that moves to another button leaves the old one down on Linux,
`KeyState.cpp:842`), `halfDone` (a command fails after it changed the mask), `cleared` (a count of a
modifier that is held is zeroed and goes below).  It needs `RECURSIVE` and is checked by TLC only.

### `Desks.tla`: the desktops of Windows

Windows has several desktops (the user's, the screen saver's, those that ask for consent or a password)
and does not tell when another gets the input.  `MSWindowsDesks` looks five times a second, and has for
each a thread that hides the cursor and owns the hooks.  The model has the looks in their steps (the name
is read, then the screen saver asked about), the messages between the threads, the crossings, the screen
saver with the thread that watches for its end, and Windows, which switches at any moment.

Asked: no desktop hides the cursor while the pointer is here, the active one does while it is away; after a
look the hooks and the key state are those of the keyboard; what the screen knows of the screen saver
becomes true again (`SaverKnown`).  Named: a message to a desktop without a window is dropped, so after a
locked desktop the cursor may stay as it was (`dropped`); keys that changed on a desktop that returned
between two looks are not read (`blinked`); a saver that starts again before its last end was told may go
unnoticed, since the late notice clears `m_screensaverActive` while `m_active` stays (`restarted`); an end
that another message follows is passed over (`overtaken`); `WM_QUIT` posted to the thread of a desktop that
cannot be opened before its first `GetMessage` is lost, and `removeDesks` waits for ever (`stuck`).

*Proved* for any desktops, whichever of them cannot be opened or have no window: `DesksStayRight`.  `DeskShows`
says that exactly the active desktop hides the cursor, if it is reached and the pointer is away, and that it
has the hooks; `DeskKeys` that a key is relayed only while the pointer is there and that what was read of the
keys is so unless the input came back unseen (`blinked`).  A desktop that
cannot be opened has the empty name (`Locked`), which is also `m_activeDeskName` before the first look.
That the screen learns of the saver (`SaverKnown`) is liveness and stays with TLC.

## 3. The runs

| Run | Module | Asks | Expect |
| --- | --- | --- | --- |
| `server_switch` | `MCServer` | switch delay, a primary that may refuse: do pending switches aim at connected clients, does a lock stop them, is the pointer orphaned only during the screen saver | pass |
| `server_taps` | `MCServer` | can a motion cross an edge without the double tap; does the pointer arrive in its screen's coordinates | pass |
| `server_lists` | `MCServer` | do the client lists agree | pass |
| `server_calm` | `MCServer` | while the screen saver holds the pointer, is exactly the active, connected screen entered, and does every client know | pass |
| `clipboards` | `MCClipboard` | have owners sent, do they agree, who is up to date, from whom is data taken | pass |
| `mux` | `MCSocketMultiplexer` | lock, poll entries, wake-ups, return of callers, refinement of `JobTable` | pass |
| `connections` | `MCConnections` | seven parts: socket, listener, filter, session, thread, worker, watchdog | pass |
| `services` | `MCServices` | thirteen parts: files, capture, neighbors, config, queue, app, keys, hotkeys, insert, typing, mouse, selections, desks | pass |
| `active_lost` | `MCServer` | is the active screen always connected | violation |
| `wait_wrong_screen` | `MCServer` | do the delay timer and the switch aim at one screen | violation |
| `clip_sender` | `MCClipboard` | is data only taken from the owner, with copies in two places | violation |
| `mux_first` | `MCSocketMultiplexer` | does a call also return that is made before the first poll | violation |

**Bounds.** Two of everything that can overtake another, one or two failures, and every counter has a
named bound: `Max...` in the modules, given values in the MC modules and the `.cfg` files.  A hazard of
this code takes two actors and one accident; the third copy, client or command repeats what the second did.
Counters that only bound (`doings`, `losses`, `switches`) are in the guards of the environment's actions,
never in those of the code, so the code always runs to its end.  With them used up a system is at rest, and
`CHECK_DEADLOCK FALSE` says so; `mux` and the server's runs never stop and check deadlock.

**Fairness.** Threads are scheduled, the event loop handles what is in its queue, timers that were started
fire.  No user, no client, no network and no control manager is fair, with one exception: Windows tells the
service of a session change in the end (`changeTold`).  A socket's peer need not read what is sent.  `OwnerGoesOn` of a socket is strongly fair, as the
mutex it waits for is given up again and again.

**What the violations show**

| Run | Code | Disagreement |
| --- | --- | --- |
| `active_lost` | `Server::forceLeaveClient` | a client that has the pointer during the screen saver and goes stays the active screen |
| `wait_wrong_screen` | `Server::isSwitchOkay` | the timer runs with the coordinates of one screen and the switch goes to another |
| `clip_sender` | `Server::onClipboardChanged` | the sender is not "the expected client": the assertion can fail |
| `mux_first` | `ArchNetworkBSD::getUnblockPipeForThread` | a thread is not broken out of its first poll |

Where the code does not do what its surroundings lead one to expect and no comment or test says what it
should do, the case has a name in the module (a ghost variable or an operator, listed with each module
above), and the properties are asked outside it.  A case is an exact condition on what happened, so a
property fails as soon as something else goes wrong in the same way.

## 4. What is proved

| Module | Theorems | Argument |
| --- | --- | --- |
| `ServerProofs` | twelve, for any screens, proxies, files and arrangements | `TypeInv`, `SafeInv`, `CalmInv`, `SaverInv`, `PlaceInv`; files without aliases where names are looked up |
| `ClipboardProofs` | who owns the clipboard, that owners sent, from whom data is taken, what screens show when all is settled, for any clients, copies, moves and scenarios | `StateInv`, `CourseInv`, `CourierInv`, `ClaimInv`; `AloneInv`, `IdleInv`, `FirstInv`; `FitsInv`, `HomeInv`, `CleanInv`, `KeptInv` |
| `SocketMultiplexerProofs` | five, with the refinement of `JobTable`, for any threads, sockets and jobs | `LockInv`, `PollInv`, `EntryInv`, one waiter per condition |
| `TCPSocketProofs` | types, closing, announcing, polling, for any amounts of data | `CloseInv`; `SockInv` |
| `ListenerProofs` | every client is accounted for, for any set of connections | `ListenerInv`: the events in the queue counted per connection |
| `ConnectionsProofs` | the socket is served and uses the table of jobs as allowed (the other side of `JobTable`), the end comes after the data that was announced, the session kept, the host kept, the last reference frees | `SockInv`; `AmountInv`; `LinkInv`, `AttemptsInv`; `WorkerInv`, `DogInv`; `ExactInv`, `HoldersInv`, `CountingInv` |
| `ServicesProofs` | files whole and newest, the source's copy survives, captures answered, events kept, asleep is stopped | `FileInv`, `ClearInv`; `NumbersInv`, `AnswersInv`, `FetchInv`; `QueueInv`; `AppInv` |
| `InputProofs` | keys and buttons go up, motions are kept, the taps agree, cursor and keys follow the desktop, links are disjoint, found and lead onto a screen | `RelayInv`; `MouseInv`; `TapInv`; `DesksInv`; `LinksInv` |

Each rests on named assumptions about the constants (`...Assumption`), which TLC evaluates for the
instances; the composites' theorems state the assumption of each part where they need it.  An invariant was
checked with TLC, as an invariant of a small instance, before it was proved.

**Model-checked only**, and why:

* Everything that is liveness, as the provers do no `ENABLED`: `LockedOutReturns`,
  `SocketAnswers`, `EverybodyAnswered`, `EverythingEnds`.
* `DoneAsAsked`: `KeySynthesis` and `XSelection` are recursive, `ConfigFile` folds over the sections and
  lines of a file, and `HotKeys` gives ids to all rules of a file in turn.  The library's induction theorems take an operator as a parameter, which the provers cannot
  instantiate.  Where the argument is about the length of one list, a least counterexample does instead
  (`LeastNumber` in `SocketMultiplexerProofs`); where the definition itself recurses it does not.

## 5. What is not modelled, and why

* **GUI** (`gui/`, `apps/deskflow-gui`): not part of this fork's build (`src/lib/CMakeLists.txt`).  With it
  go the sockets of `deskflow/ipc`: `CoreIpcServer` is made but never listens.
* **Screens and hooks** of the operating systems beyond what is named above, key tables
  (`XDGKeyUtil`, the platforms' tables in `*KeyState.cpp`), the portals of Wayland: calls into systems this
  project would have to invent.
* **Pure data**: clipboard formats and their conversion, protocol formatting, Unicode, settings, logging.
* **TLS** and the X, Windows and macOS systems are external; the modules say what they may do.
* **Byte limits** of buffers, times beyond their order, and the motion between two edges.
* **Threads on Windows** (`arch/win32/ArchMultithreadWindows.cpp`), the signal handler and priorities.

The `status` and `note` of each component in `PROJECT.json` say how far it is covered, `hazards` what
could go wrong at which line and which property looks at it.
