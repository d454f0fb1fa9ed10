----------------------------- MODULE InputParts -----------------------------
(***************************************************************************)
(* Five components that input goes through and that share no state, side by  *)
(* side: keys and buttons from the host to the clients, the motions a client  *)
(* receives, the two taps that take the pointer home, the desktops of         *)
(* Windows, and the search for the screen beyond an edge.  MCServices runs    *)
(* them, with others, one in each behavior; InputProofs proves what is said    *)
(* here of each.                                                              *)
(***************************************************************************)
EXTENDS Integers, Sequences, MCParts

CONSTANTS
    RelayClients, RelayPrimary, RelayKeys, RelayButton, Broadcasts, Refusers,  \* KeyRelay
    MaxRelayed, MaxPosted, MaxLosses,
    MaxMotions,                                                         \* MouseStream
    TapWindow, MaxTapTime, MaxTaps, MaxTapMessages, MaxCrossings,       \* DoubleInsert
    Desktops, Home, Saver, Inaccessible, Windowless, Locked, NoDesk, MaxSwitches,   \* Desks
    Screen, Primary, Shape, Grid, Candidates, Directions, Reach, JumpZone   \* Neighbors

VARIABLES
    \* KeyRelay
    held, hookKeys, host, r_queue, buttons, keysBefore, warped, active, r_clients, broadcasting, targets,
    r_toClient, linked, entered, serverKeys, down, excused, doings, losses,
    \* MouseStream
    reading, promised, compress, relative, kept, keptBy, ignoring, pointer, m_asked, overtaken,
    motions,
    \* DoubleInsert
    i_clock, insertIsDown, keyMessages, lastDown, insertInHook, insertInState,
    inPrimaryKeyDownList, isOnScreen, leaving, insertPressedAt, insertHeld, swallowInsertRelease,
    returns, presses, crossings, counted, otherPress, returnedBy, downAsHeard, upLost,
    wrongReturn, missedReturn, eaten,
    \* Desks
    input, saving, d_held, primary, d_main, name, enabled, d_isOnScreen, screensaverActive,
    messages, desks, d_ready, activeDesk, activeDeskName, deskOnScreen, hidden, hook, d_down,
    relayed, saverActive, watch, dropped, blinked, restarted, d_overtaken, d_doings,
    \* Neighbors
    links, connected, phase, dir, src, t, last, pos

relayVars == <<held, hookKeys, host, r_queue, buttons, keysBefore, warped, active, r_clients,
    broadcasting, targets, r_toClient, linked, entered, serverKeys, down, excused, doings, losses>>
mouseVars == <<reading, promised, compress, relative, kept, keptBy, ignoring, pointer, m_asked,
    overtaken, motions>>
insertVars == <<i_clock, insertIsDown, keyMessages, lastDown, insertInHook, insertInState,
    inPrimaryKeyDownList, isOnScreen, leaving, insertPressedAt, insertHeld, swallowInsertRelease,
    returns, presses, crossings, counted, otherPress, returnedBy, downAsHeard, upLost,
    wrongReturn, missedReturn, eaten>>
desksVars == <<input, saving, d_held, primary, d_main, name, enabled, d_isOnScreen,
    screensaverActive, messages, desks, d_ready, activeDesk, activeDeskName, deskOnScreen, hidden,
    hook, d_down, relayed, saverActive, watch, dropped, blinked, restarted, d_overtaken, d_doings>>
neighborVars == <<links, connected, phase, dir, src, t, last, pos>>

KeysTo == INSTANCE KeyRelay WITH
    Clients <- RelayClients, Primary <- RelayPrimary, Keys <- RelayKeys, Button <- RelayButton,
    BroadcastSets <- Broadcasts, MayRefuse <- Refusers,
    MaxDoings <- MaxRelayed, MaxQueue <- MaxPosted,
    queue <- r_queue, clients <- r_clients, toClient <- r_toClient

Mouse == INSTANCE MouseStream WITH asked <- m_asked

Insert == INSTANCE DoubleInsert WITH
    Window <- TapWindow, MaxTime <- MaxTapTime, MaxPresses <- MaxTaps, MaxQueue <- MaxTapMessages,
    clock <- i_clock

DesksOf == INSTANCE Desks WITH
    MaxDoings <- MaxSwitches,
    held <- d_held, main <- d_main, isOnScreen <- d_isOnScreen, ready <- d_ready, down <- d_down,
    overtaken <- d_overtaken, doings <- d_doings

Neighbor == INSTANCE Neighbors

ASSUME InputAssumption ==
    /\ KeysTo!KeyRelayAssumption /\ Mouse!MouseStreamAssumption /\ Insert!DoubleInsertAssumption
    /\ DesksOf!DesksAssumption /\ Neighbor!NeighborsAssumption

------------------------------------------------------------------------------
(* Properties.  A part that rests satisfies its own.                           *)

\* Whatever the order of keys, crossings, hot keys, refusals and lost connections, what went
\* down somewhere goes up there, but for the named cases; each screen's pointer is where
\* the motions sent to it led; two taps of Insert, and nothing else, take the pointer home; the
\* cursor is hidden while the pointer is away, and the keys are those of the keyboard, whichever
\* desktops had the input (Server::onKeyUp, KeyState::fakeAllKeysUp,
\* ServerProxy::flushCompressedMouse, MSWindowsScreen::onKey, MSWindowsDesks::checkDesk).
InputLetGo ==
    /\ part = "keys" =>
           KeysTo!TypeOK /\ KeysTo!KeysLetGo /\ KeysTo!ButtonLetGo /\ KeysTo!HostKeysLetGo
    /\ part = "mouse" => Mouse!TypeOK /\ Mouse!NoMotionLost /\ Mouse!NothingKept
    /\ part = "insert" =>
           /\ Insert!TypeOK /\ Insert!ReturnByTwoTaps /\ Insert!TwoTapsReturn
           /\ Insert!SingleTapKept /\ Insert!HeldWhileDown
    /\ part = "desks" =>
           DesksOf!TypeOK /\ DesksOf!CursorShown /\ DesksOf!CursorHidden /\ DesksOf!KeysFollow

\* Any sequence of changes leaves links between which the search for a neighbor cannot
\* go wrong: one screen per point of an edge, and a position on the screen that is entered
\* (Config::connect, Server::mapToNeighbor, Server::avoidJumpZone).
NeighborsFit == part = "neighbors" =>
    /\ Neighbor!TypeOK /\ Neighbor!LinksDisjoint /\ Neighbor!LookupComplete
    /\ Neighbor!ArrivesOnScreen /\ Neighbor!OutOfJumpZone
=============================================================================
