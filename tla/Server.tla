------------------------------- MODULE Server -------------------------------
(***************************************************************************)
(* The screen-switching core of the server (lib/server/Server.cpp): which   *)
(* screen holds the pointer, which clients are connected or being hung up   *)
(* on, the pending edge switch (delay timer and double tap), the screen     *)
(* saver hand-over, the cursor lock and the screen configuration.  The      *)
(* server is single threaded: one action is one event handler run to its    *)
(* end by the event loop, and all the interleaving is in the order in which *)
(* the handlers are run.                                                    *)
(*                                                                          *)
(* Coordinates are abstracted to the screen in whose coordinate space they  *)
(* are expressed; NoScreen stands for a null pointer and for coordinates    *)
(* that were never written.                                                 *)
(***************************************************************************)
EXTENDS Naturals

CONSTANTS
    Proxy,          \* client proxy objects the listener can hand to the server
    Primary,        \* the PrimaryClient object, the server's own screen
    Name,           \* screen names
    NameOf,         \* the name each object announces, [Proxy \cup {Primary} -> Name]
    Files,          \* the configurations an operator may have on disk
    Arrangements,   \* the link sets an operator may ask for over the control channel
    LeaveMayFail,   \* can the primary screen refuse to be left (canLeave)
    NoScreen,       \* the null client pointer, unset coordinates
    NoName          \* a name no configuration entry resolves

Client == Proxy \cup {Primary}
MaybeClient == Client \cup {NoScreen}
Direction == {"Left", "Right", "Top", "Bottom"}
OptionName == {"wait", "twoTap", "relative", "disableLock"}
Link == [from : Name, dir : Direction, to : Name]

ASSUME ClientAssumption ==
    /\ Primary \notin Proxy
    /\ NoScreen \notin Client
    /\ NoName \notin Name
    /\ NameOf \in [Client -> Name]
    /\ LeaveMayFail \in BOOLEAN

(***************************************************************************)
(* A configuration file names the screens (canon maps a name or an alias to *)
(* the canonical name), links their edges and sets some of the options.     *)
(***************************************************************************)
ASSUME FilesAssumption ==
    \A f \in Files :
        /\ f.canon \in [Name -> Name \cup {NoName}]
        /\ f.links \subseteq Link
        /\ f.opts \in UNION {[D -> BOOLEAN] : D \in SUBSET OptionName}

ASSUME ArrangementsAssumption == Arrangements \subseteq SUBSET Link

VARIABLES
    config,         \* m_config: [canon, links], shared with ServerApp
    opts,           \* the options processOptions copied out of the configuration
    clients,        \* m_clients: name -> client
    clientSet,      \* m_clientSet
    oldClients,     \* m_oldClients: told to close, close timer running
    active,         \* m_active
    activeSaver,    \* m_activeSaver
    pos,            \* m_x, m_y: the screen whose coordinates they are
    jumpPos,        \* BaseClientProxy::m_x, m_y of each client, likewise
    pending,        \* m_switchScreen, m_switchDir, the delay timer and the double tap
    locked,         \* m_lockedToScreen
    entered,        \* screens that were entered and not left since
    saverOn,        \* the primary's screen saver is running
    saverTold       \* clients whose last screensaver message said "on"

switchVars == <<active, pos, pending, entered>>
listVars == <<clients, clientSet, oldClients>>
confVars == <<config, opts>>
saverVars == <<activeSaver, saverOn, saverTold>>
vars == <<config, opts, clients, clientSet, oldClients, active, activeSaver, pos,
          jumpPos, pending, locked, entered, saverOn, saverTold>>

\* Objects that exist: a pointer to any other client dangles.
Live == clientSet \cup oldClients

-----------------------------------------------------------------------------
(***************************************************************************)
(* Names and the layout.                                                    *)
(***************************************************************************)

\* The canonical name of a client, or the name it announced when the
\* configuration does not know it.
NameIn(conf, c) ==
    IF conf.canon[NameOf[c]] = NoName THEN NameOf[c] ELSE conf.canon[NameOf[c]]

getName(c) == NameIn(config, c)

isScreen(conf, n) == conf.canon[n] # NoName
isCanonicalName(conf, n) == conf.canon[n] = n

\* Every name that a search from src in a direction can come to: unconnected
\* screens are skipped over, and a fast motion skips connected ones too.
Beyond(src, dir) ==
    {n \in Name :
        \A S \in SUBSET Name :
            (\A l \in config.links :
                l.dir = dir /\ l.from \in S \cup {src} => l.to \in S) => n \in S}

\* The outcomes of mapToNeighbor.  A link may cover only a part of an edge, so
\* that there is no neighbor is always among them.
mapToNeighbor(src, dir) ==
    {NoScreen} \cup
    IF dir = "NoDirection" THEN {} ELSE {clients[n] : n \in Beyond(getName(src), dir)}

Opposite(dir) ==
    CASE dir = "Left" -> "Right" [] dir = "Right" -> "Left"
      [] dir = "Top" -> "Bottom" [] OTHER -> "Top"

\* connect: an unknown screen gets no link, and neither does an edge that has one.
Linked(links, src, dir, dst) ==
    IF src = NoName \/ \E l \in links : l.from = src /\ l.dir = dir THEN links
    ELSE links \cup {[from |-> src, dir |-> dir, to |-> dst]}

\* The configuration with a new screen n at an edge of the anchor.
placed(n, anchor, dir) ==
    [canon |-> [config.canon EXCEPT ![n] = n],
     links |-> Linked(Linked(config.links, config.canon[anchor], dir, n),
                      n, Opposite(dir), anchor)]

Order == [Right |-> 1, Left |-> 2, Bottom |-> 3, Top |-> 4]

FreeEdges(links, anchor) == {d \in Direction : \A l \in links : l.from = anchor => l.dir # d}

FirstFree(links, anchor) ==
    {d \in FreeEdges(links, anchor) : \A e \in FreeEdges(links, anchor) : Order[d] <= Order[e]}

\* The configurations that place a new screen n.  The edge is looked for in the file
\* on disk, which is in step with the server or was edited since.
AutoPlaced(n) ==
    UNION {UNION {{placed(n, anchor, dir) : dir \in FirstFree(disk.links, anchor)} :
                      anchor \in {m \in Name : isCanonicalName(disk, m)}} :
           disk \in {d \in Files \cup {config} : ~isScreen(d, n)}}

-----------------------------------------------------------------------------
(***************************************************************************)
(* The pending switch.  tap is "armed" only while the double tap is engaged; *)
(* wait is the screen for which the saved coordinates were computed, or     *)
(* NoScreen when the delay timer is not running.                            *)
(***************************************************************************)
Pending == [screen : MaybeClient, dir : Direction \cup {"NoDirection"},
            tap : {"off", "engaged", "armed"}, wait : MaybeClient]

Idle == [screen |-> NoScreen, dir |-> "NoDirection", tap |-> "off", wait |-> NoScreen]

stopSwitch(p) == IF p.screen = NoScreen THEN p ELSE Idle

isLockedToScreen(buttonHeld) == ~opts["disableLock"] /\ (locked \/ buttonHeld)

\* The pointer moved without crossing an edge: late, the second tap can no
\* longer come in time; back, it moved back out of the tap zone.
noSwitch(p, late, back) ==
    [p EXCEPT !.wait = NoScreen,
              !.tap = IF p.tap = "off" \/ late THEN "off"
                      ELSE IF back THEN "armed" ELSE p.tap]

\* Mutant: a tap at another edge counts as the first of two.
tappedElsewhere(p, dir, inTime) == opts["twoTap"] /\ p.tap = "armed" /\ inTime

\* The second tap, at the edge tapped before, after a retreat and in time.
shouldSwitchTwoTap(p, dir, inTime) ==
    opts["twoTap"] /\ dir = p.dir /\ p.tap = "armed" /\ inTime

\* The pointer is at an edge that leads to dst.  The result holds the pending
\* state afterwards and the screen to switch to now, if any.
isSwitchOkay(p, dst, dir, inTime, inCorner, buttonHeld) ==
    LET isNewDirection == dir # p.dir
        aimed == IF isNewDirection \/ p.screen = NoScreen
                 THEN [p EXCEPT !.screen = dst, !.dir = dir] ELSE p
        secondTap == shouldSwitchTwoTap(p, dir, inTime)
        tapped == IF opts["twoTap"] /\ ~secondTap
                  THEN [aimed EXCEPT !.tap = "engaged"] ELSE aimed
        waiting == IF opts["wait"] /\ ~secondTap /\ (isNewDirection \/ tapped.wait = NoScreen)
                   THEN [tapped EXCEPT !.wait = dst] ELSE tapped
        later == ~secondTap /\ (opts["twoTap"] \/ opts["wait"])
    IN  CASE dst = NoScreen ->
                 [pend |-> stopSwitch(p), to |-> NoScreen]
          [] dst # NoScreen /\ (inCorner \/ (~later /\ isLockedToScreen(buttonHeld))) ->
                 [pend |-> Idle, to |-> NoScreen]
          [] OTHER ->
                 [pend |-> waiting, to |-> IF later THEN NoScreen ELSE dst]

-----------------------------------------------------------------------------
(***************************************************************************)
(* Parts of handlers: each fixes the next value of switchVars.              *)
(***************************************************************************)

\* Cut over to dst at a position given in the coordinates of space.  The
\* position is recorded first, also when the primary then refuses to be left;
\* a client proxy never refuses.
switchScreen(dst, space, p) ==
    /\ {active, dst} \subseteq Live
    /\ pending' = stopSwitch(p)
    /\ pos' = space
    /\ \/ /\ dst = active \/ (active = Primary /\ LeaveMayFail)
          /\ UNCHANGED <<active, entered>>
       \/ /\ dst # active
          /\ active' = dst
          /\ entered' = (entered \ {active}) \cup {dst}

\* The pointer stays on the active screen, clamped to it.
stay(p) ==
    /\ pending' = p
    /\ pos' = active
    /\ UNCHANGED <<active, entered>>

\* The pointer meets one edge, or two of them in a corner, which are then tried
\* one after the other.
meetEdges(first, second) ==
    \E inTime, inCorner, buttonHeld \in BOOLEAN,
       dst1 \in mapToNeighbor(active, first), dst2 \in mapToNeighbor(active, second) :
        LET try1 == IF first = "NoDirection" THEN [pend |-> pending, to |-> NoScreen]
                    ELSE isSwitchOkay(pending, dst1, first, inTime, inCorner, buttonHeld)
            try2 == IF try1.to # NoScreen \/ second = "NoDirection" THEN try1
                    ELSE isSwitchOkay(try1.pend, dst2, second, inTime, inCorner, buttonHeld)
        IN  IF try2.to = NoScreen THEN stay(try2.pend)
            ELSE switchScreen(try2.to, try2.to, try2.pend)

onMouseMovePrimary ==
    /\ active = Primary
    /\ \/ \E late, back \in BOOLEAN : stay(noSwitch(pending, late, back))
       \/ \E dirh \in {"NoDirection", "Left", "Right"}, dirv \in {"NoDirection", "Top", "Bottom"} :
            /\ {dirh, dirv} # {"NoDirection"}
            /\ meetEdges(dirh, dirv)

onMouseMoveSecondary ==
    /\ active \in Live \ {Primary}
    /\ IF opts["relative"] /\ locked THEN UNCHANGED switchVars
       ELSE \/ stay(pending)
            \/ /\ pending.screen # NoScreen
               /\ \E late, back \in BOOLEAN : stay(noSwitch(pending, late, back))
            \/ \E dir \in Direction : meetEdges(dir, "NoDirection")

\* The position after stopRelativeMoves: the center of the active client.
stopRelativeMoves == IF opts["relative"] /\ active # Primary THEN active ELSE pos

-----------------------------------------------------------------------------
(***************************************************************************)
(* Taking clients off the lists.                                            *)
(***************************************************************************)

\* Mutant: the client is not erased from m_clients.
removeFromSetOnly(R) ==
    /\ clients' = clients
    /\ clientSet' = clientSet \ R
    /\ saverTold' = saverTold \ R

\* removeClient for each client of R that is on the lists.  The name a client is
\* erased under is looked up in the configuration in force by then.
removeClients(R) ==
    /\ clients' = [n \in Name |->
                      IF \E c \in R \cap clientSet : NameIn(config', c) = n THEN NoScreen
                      ELSE clients[n]]
    /\ clientSet' = clientSet \ R
    /\ saverTold' = saverTold \ R

\* The screen a forced leave looks at: the one the pointer was on when the screen
\* saver came on, else the active one.
holder == IF activeSaver # NoScreen THEN activeSaver ELSE active

\* Mutant: a pending switch to a client that goes is kept.
pendingKept(R) == IF pending.screen = NoScreen THEN Idle ELSE pending

pendingWithout(R) == IF pending.screen \in R THEN Idle ELSE pending
posWithout(R) == IF holder \in R THEN Primary ELSE pos

\* Mutants: the saved screen is made active, the active screen is not changed, the
\* primary is not entered, the saved screen is not forgotten.
forceLeaveToSaved(R) ==
    /\ active' = IF holder \in R THEN activeSaver ELSE active
    /\ activeSaver' = IF activeSaver \in R THEN NoScreen ELSE activeSaver
    /\ entered' = entered \ R
forceLeaveNoCutOver(R) ==
    /\ active' = active
    /\ activeSaver' = IF activeSaver \in R THEN NoScreen ELSE activeSaver
    /\ entered' = (entered \ R) \cup (IF holder \in R THEN {Primary} ELSE {})
forceLeaveNoEnter(R) ==
    /\ active' = IF holder \in R THEN Primary ELSE active
    /\ activeSaver' = IF activeSaver \in R THEN NoScreen ELSE activeSaver
    /\ entered' = entered \ R
forceLeaveKeepSaved(R) ==
    /\ active' = IF holder \in R THEN Primary ELSE active
    /\ activeSaver' = activeSaver
    /\ entered' = (entered \ R) \cup
                  (IF holder \in R /\ activeSaver = NoScreen THEN {Primary} ELSE {})

\* The pointer is forced off the clients of R.  The primary is not entered when
\* the screen saver is taken to have done so.
forceLeaveClients(R) ==
    /\ active' = IF holder \in R THEN Primary ELSE active
    /\ activeSaver' = IF activeSaver \in R THEN NoScreen ELSE activeSaver
    /\ entered' = (entered \ R) \cup
                  (IF holder \in R /\ activeSaver = NoScreen THEN {Primary} ELSE {})

\* The clients of R are told to close, and a close timer is started for each.
closeClients(R) ==
    /\ removeClients(R)
    /\ oldClients' = oldClients \cup R
    /\ forceLeaveClients(R)

-----------------------------------------------------------------------------
(***************************************************************************)
(* Handlers about connections and the configuration.                        *)
(***************************************************************************)

\* The configuration in which adoptClient looks a client up: a screen with an
\* unknown name is placed first.
Accommodating(c) == IF isScreen(config, NameOf[c]) THEN {config} ELSE AutoPlaced(NameOf[c])

\* adoptClient turns a client away: its name is unknown and cannot be placed (it
\* is invalid, or the layout file cannot be read or saved), or is in use.
RefuseClient(c) ==
    /\ c \notin Live
    /\ \/ ~isScreen(config, NameOf[c]) /\ config' = config
       \/ config' \in Accommodating(c) /\ clients[NameIn(config', c)] # NoScreen
    /\ UNCHANGED <<opts, jumpPos, locked, saverOn>>
    /\ closeClients({c})
    /\ pending' = pendingWithout({c})
    /\ pos' = posWithout({c})

\* Mutant: a client that connects is not told of the screen saver.
adoptUntold(c) ==
    /\ c \notin Live
    /\ config' \in Accommodating(c)
    /\ clients[NameIn(config', c)] = NoScreen
    /\ clients' = [clients EXCEPT ![NameIn(config', c)] = c]
    /\ clientSet' = clientSet \cup {c}
    /\ jumpPos' = [jumpPos EXCEPT ![c] = c]
    /\ UNCHANGED <<opts, oldClients, saverVars, locked, switchVars>>

\* adoptClient takes a client.  It is told of the screen saver only while there is
\* a saved screen.
AdoptClient(c) ==
    /\ c \notin Live
    /\ config' \in Accommodating(c)
    /\ clients[NameIn(config', c)] = NoScreen
    /\ clients' = [clients EXCEPT ![NameIn(config', c)] = c]
    /\ clientSet' = clientSet \cup {c}
    /\ jumpPos' = [jumpPos EXCEPT ![c] = c]
    /\ saverTold' = IF activeSaver # NoScreen THEN saverTold \cup {c} ELSE saverTold
    /\ UNCHANGED <<opts, oldClients, activeSaver, saverOn, locked, switchVars>>

\* handleClientDisconnected: an active client is taken off the lists and forced
\* off the screen; an old one just goes.
ClientDisconnected(c) ==
    /\ UNCHANGED <<confVars, jumpPos, locked, saverOn>>
    /\ \/ /\ c \in clientSet \ {Primary}
          /\ removeClients({c})
          /\ forceLeaveClients({c})
          /\ pending' = pendingWithout({c})
          /\ pos' = posWithout({c})
          /\ UNCHANGED oldClients
       \/ /\ c \in oldClients
          /\ oldClients' = oldClients \ {c}
          /\ UNCHANGED <<clients, clientSet, activeSaver, saverTold, switchVars>>

\* handleClientCloseTimeout: the client did not hang up within five seconds.
ClientCloseTimeout(c) ==
    /\ c \in oldClients
    /\ oldClients' = oldClients \ {c}
    /\ UNCHANGED <<clients, clientSet, confVars, saverVars, switchVars, jumpPos, locked>>

\* disconnect: every client but the primary is closed.
Disconnect ==
    /\ UNCHANGED <<confVars, jumpPos, locked, saverOn>>
    /\ LET R == {clients[n] : n \in Name} \ {Primary, NoScreen}
       IN  /\ R # {} /\ R \subseteq Live
           /\ closeClients(R)
           /\ pending' = pendingWithout(R)
           /\ pos' = posWithout(R)

\* ServerApp::reloadConfig: the shared configuration is overwritten from the file,
\* and only then setConfig decides whether the server accepts it.
ReloadConfig(f) ==
    /\ config' = [canon |-> f.canon, links |-> f.links]
    /\ UNCHANGED <<jumpPos, locked, saverOn>>
    /\ IF ~isScreen(f, NameOf[Primary])
       THEN UNCHANGED <<opts, listVars, activeSaver, saverTold, switchVars>>
       ELSE LET R == {clients[n] : n \in {m \in Name : ~isCanonicalName(f, m)}}
                         \ {Primary, NoScreen}
                p == pendingWithout(R)
            IN  /\ R \subseteq Live
                /\ closeClients(R)
                /\ opts' = [o \in OptionName |-> IF o \in DOMAIN f.opts THEN f.opts[o]
                                                 ELSE opts[o]]
                /\ pending' = [p EXCEPT
                                  !.wait = IF "wait" \in DOMAIN f.opts THEN NoScreen ELSE @,
                                  !.tap = IF "twoTap" \in DOMAIN f.opts THEN "off" ELSE @]
                /\ pos' = IF opts["relative"] /\ ~opts'["relative"] /\ active' # Primary
                          THEN active' ELSE posWithout(R)

\* applyLayout: the links are replaced when every screen is given a place.
ApplyLayout(links) ==
    /\ {n \in Name : isCanonicalName(config, n)} =
           {NameIn(config, Primary)} \cup {l.to : l \in links}
    /\ config' = [config EXCEPT !.links = links]
    /\ pending' = stopSwitch(pending)
    /\ UNCHANGED <<opts, listVars, saverVars, jumpPos, locked, active, pos, entered>>

\* handleShapeChanged: the position of the client is read afresh; the primary then
\* looks at the pointer as after a motion.
ShapeChanged(c) ==
    /\ c \in clientSet
    /\ jumpPos' = [jumpPos EXCEPT ![c] = c]
    /\ UNCHANGED <<confVars, listVars, saverVars, locked>>
    /\ IF c = Primary THEN onMouseMovePrimary \/ onMouseMoveSecondary
       ELSE /\ pos' = IF c = active THEN c ELSE pos
            /\ UNCHANGED <<active, pending, entered>>

-----------------------------------------------------------------------------
(***************************************************************************)
(* Handlers about the pointer.                                              *)
(***************************************************************************)

MotionOnPrimary ==
    /\ onMouseMovePrimary
    /\ UNCHANGED <<confVars, listVars, saverVars, jumpPos, locked>>

MotionOnSecondary ==
    /\ onMouseMoveSecondary
    /\ UNCHANGED <<confVars, listVars, saverVars, jumpPos, locked>>

\* Mutant: the lock is not looked at again.
switchWaitUnchecked ==
    /\ pending.wait # NoScreen
    /\ switchScreen(pending.screen, pending.wait, pending)
    /\ UNCHANGED <<confVars, listVars, saverVars, jumpPos, locked>>

\* handleSwitchWaitTimeout: the lock may have come after the timer was started.
SwitchWaitTimeout ==
    /\ pending.wait # NoScreen
    /\ \E buttonHeld \in BOOLEAN :
          IF isLockedToScreen(buttonHeld)
          THEN pending' = stopSwitch(pending) /\ UNCHANGED <<active, pos, entered>>
          ELSE switchScreen(pending.screen, pending.wait, pending)
    /\ UNCHANGED <<confVars, listVars, saverVars, jumpPos, locked>>

\* Mutant: the position is recorded under the screen that is jumped to.
jumpMisplaced(c) ==
    /\ c \in {clients[n] : n \in Name} \ {NoScreen}
    /\ jumpPos' = [jumpPos EXCEPT ![c] = pos]
    /\ switchScreen(c, jumpPos[c], pending)
    /\ UNCHANGED <<confVars, listVars, saverVars, locked>>

\* A hot key or a request names a screen, a direction or the next screen: the
\* position on the active screen is recorded, the one on the new screen restored.
JumpToScreen(c) ==
    /\ c \in {clients[n] : n \in Name} \ {NoScreen}
    /\ jumpPos' = [jumpPos EXCEPT ![active] = pos]
    /\ switchScreen(c, jumpPos'[c], pending)
    /\ UNCHANGED <<confVars, listVars, saverVars, locked>>

\* handleLockCursorToScreenEvent.
LockCursorToScreen ==
    /\ active \in Live
    /\ locked' = ~locked
    /\ pos' = IF locked' THEN pos ELSE stopRelativeMoves
    /\ UNCHANGED <<confVars, listVars, saverVars, jumpPos, active, pending, entered>>

\* The emergency key unlocks the cursor and takes the pointer home.
EmergencyReturn ==
    /\ locked' = FALSE
    /\ switchScreen(Primary, Primary, stopSwitch(pending))
    /\ UNCHANGED <<confVars, listVars, saverVars, jumpPos>>

\* The clients that onScreensaver tells: those m_clients names.
Told == {clients[n] : n \in Name} \ {NoScreen, Primary}

\* onScreensaver(true).
ScreensaverActivated ==
    /\ ~saverOn /\ Told \subseteq Live
    /\ saverOn' = TRUE
    /\ activeSaver' = active
    /\ IF active # Primary THEN switchScreen(Primary, Primary, pending)
       ELSE UNCHANGED switchVars
    /\ saverTold' = saverTold \cup Told
    /\ UNCHANGED <<confVars, listVars, jumpPos, locked>>

\* onScreensaver(false).
ScreensaverDeactivated ==
    /\ saverOn /\ Told \subseteq Live
    /\ saverOn' = FALSE
    /\ IF activeSaver \notin {NoScreen, Primary}
       THEN switchScreen(activeSaver, activeSaver, pending)
       ELSE UNCHANGED switchVars
    /\ activeSaver' = NoScreen
    /\ saverTold' = saverTold \ Told
    /\ UNCHANGED <<confVars, listVars, jumpPos, locked>>

-----------------------------------------------------------------------------
\* The constructor.  The pointer position is not initialized; the cursor may be
\* locked from the start by the scroll lock key or by an option.
Init ==
    /\ \E f \in Files :
          /\ isScreen(f, NameOf[Primary])
          /\ config = [canon |-> f.canon, links |-> f.links]
          /\ opts = [o \in OptionName |-> o \in DOMAIN f.opts /\ f.opts[o]]
          /\ clients = [n \in Name |-> IF n = NameIn(f, Primary) THEN Primary ELSE NoScreen]
    /\ clientSet = {Primary} /\ oldClients = {}
    /\ active = Primary /\ entered = {Primary}
    /\ pos = NoScreen /\ jumpPos = [c \in Client |-> c]
    /\ pending = Idle
    /\ locked \in BOOLEAN
    /\ activeSaver = NoScreen /\ saverOn = FALSE /\ saverTold = {}

\* A pointer to a deleted client is used, the process dies and is started anew.
Crash ==
    /\ \/ active \notin Live
       \/ \E n \in Name : clients[n] \notin Live \cup {NoScreen}
    /\ \E f \in Files :
          /\ isScreen(f, NameOf[Primary])
          /\ config' = [canon |-> f.canon, links |-> f.links]
          /\ opts' = [o \in OptionName |-> o \in DOMAIN f.opts /\ f.opts[o]]
          /\ clients' = [n \in Name |-> IF n = NameIn(f, Primary) THEN Primary ELSE NoScreen]
    /\ clientSet' = {Primary} /\ oldClients' = {}
    /\ active' = Primary /\ entered' = {Primary}
    /\ pos' = NoScreen /\ jumpPos' = [c \in Client |-> c]
    /\ pending' = Idle
    /\ locked' \in BOOLEAN
    /\ activeSaver' = NoScreen /\ saverOn' = FALSE /\ saverTold' = {}

Next ==
    \/ \E c \in Proxy : RefuseClient(c) \/ AdoptClient(c)
    \/ \E c \in Proxy : ClientDisconnected(c) \/ ClientCloseTimeout(c)
    \/ Disconnect
    \/ \E f \in Files : ReloadConfig(f)
    \/ \E links \in Arrangements : ApplyLayout(links)
    \/ \E c \in Client : ShapeChanged(c) \/ JumpToScreen(c)
    \/ MotionOnPrimary \/ MotionOnSecondary \/ SwitchWaitTimeout
    \/ LockCursorToScreen \/ EmergencyReturn
    \/ ScreensaverActivated \/ ScreensaverDeactivated
    \/ Crash

Spec == Init /\ [][Next]_vars

-----------------------------------------------------------------------------
(***************************************************************************)
(* Properties.                                                              *)
(***************************************************************************)

\* Every variable has its type, and the objects on the lists are client objects.
TypeOK ==
    /\ config \in [canon : [Name -> Name \cup {NoName}], links : SUBSET Link]
    /\ opts \in [OptionName -> BOOLEAN]
    /\ clients \in [Name -> MaybeClient]
    /\ clientSet \subseteq Client /\ oldClients \subseteq Proxy
    /\ active \in Client /\ activeSaver \in MaybeClient
    /\ pos \in MaybeClient /\ jumpPos \in [Client -> MaybeClient]
    /\ pending \in Pending
    /\ locked \in BOOLEAN /\ saverOn \in BOOLEAN
    /\ entered \subseteq Client /\ saverTold \subseteq Proxy

\* A pending switch always aims at a connected client, and with no screen to aim
\* at neither the delay timer nor the double tap is left running: the timeout
\* hands m_switchScreen to switchScreen, which asserts that it is not null.
PendingTargetConnected ==
    /\ pending.screen \in clientSet \cup {NoScreen}
    /\ pending.screen = NoScreen => pending = Idle

\* m_clients and m_clientSet hold the same clients, each under its own name, and
\* none of them is on the list of the clients being hung up on: a client that was
\* left in one of the lists would be deleted while it is still used.
ListsAgree ==
    /\ \A n \in Name : clients[n] # NoScreen =>
            clients[n] \in clientSet /\ getName(clients[n]) = n
    /\ \A c \in clientSet : \E n \in Name : clients[n] = c
    /\ clientSet \cap oldClients = {}
    /\ Primary \in clientSet

\* The client that has the pointer is connected ("if this client is the active
\* screen then we have to jump off of it", closeClient).
ActiveConnected == active \in clientSet

\* Exactly the active screen is entered: no other screen still shows the pointer
\* or takes input, and the one that has the pointer was told so.
OnlyActiveEntered == entered = {active}

\* The screen to go back to when the screen saver ends is connected.
SaverTargetConnected == activeSaver \in clientSet \cup {NoScreen}

\* The pointer loses its screen only while the screen saver keeps a screen to go
\* back to: forceLeaveClient then looks at that screen instead of the active one.
OrphanedOnlyDuringSaver ==
    [][ActiveConnected /\ ~ActiveConnected' => activeSaver # NoScreen]_vars

\* While the cursor is locked no motion, shape change or delay timer takes the
\* pointer to another screen, even if the lock came after the switch was begun.
LockedPointerStays ==
    [][locked /\ ~opts["disableLock"] /\
          (MotionOnPrimary \/ MotionOnSecondary \/ SwitchWaitTimeout \/ ShapeChanged(Primary))
        => active' = active]_vars

\* With the double tap on, a motion leaves the screen only through the edge that
\* was tapped before and retreated from: the tap is armed, and the screen reached lies
\* in the direction of that tap (shouldSwitchTwoTap, isNewDirection in isSwitchOkay).
DoubleTapRequired ==
    [][opts["twoTap"] /\ (MotionOnPrimary \/ MotionOnSecondary) /\ active' # active
        => /\ pending.tap = "armed" /\ pending.screen \in clientSet
           /\ active' \in mapToNeighbor(active, pending.dir)]_vars

\* The pointer arrives on a screen at a position computed for that screen, whatever
\* jumps, edits and disconnections moved the recorded positions before; only a
\* position recorded before the first motion is none (the constructor sets none).
ArrivesInPlace == [][active' # active => pos' \in {active', NoScreen}]_vars

\* The delay timer, the double tap and the switch all aim at the same screen
\* ("all tests are always trying to reach the same screen in the same direction").
PendingAimsAtOneScreen == pending.wait \in {NoScreen, pending.screen}

\* While the screen saver keeps a screen to go back to, every connected client was
\* told that it runs, those that came meanwhile included (onScreensaver and "activate
\* screen saver on new client", adoptClient); none is told so once it has ended.
SaverToldInSync ==
    /\ activeSaver # NoScreen => saverTold = clientSet \ {Primary}
    /\ ~saverOn => saverTold = {}

(***************************************************************************)
(* The behaviours in which, while the screen saver keeps a screen to go     *)
(* back to, nothing takes the pointer from the primary to a client.         *)
(***************************************************************************)
SaverHoldsPointer == activeSaver # NoScreen => active = Primary
CalmSpec == Init /\ [][Next /\ SaverHoldsPointer']_vars

=============================================================================
