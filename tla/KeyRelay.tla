------------------------------ MODULE KeyRelay ------------------------------
(***************************************************************************)
(* Keys and buttons of the host on their way to the screens: the hook and    *)
(* its messages (MSWindowsHook, MSWindowsScreen), the relay (Server), and     *)
(* the keys a client's screen believes to be down (Screen, KeyState).         *)
(*                                                                            *)
(* The host's messages and the server's events share the queue of one thread, *)
(* so that a press, a crossing and a release may overtake each other between  *)
(* the hook and the relay.  Whenever the host's cursor is moved, all messages  *)
(* of the hooks that wait are removed.  Autorepeats are left out, and every    *)
(* key of the host has its own key on a client.                               *)
(***************************************************************************)
EXTENDS Integers, Sequences, SequencesExt, FiniteSets

CONSTANTS
    Clients, Primary,
    Keys, Button,       \* keys, and one button
    BroadcastSets,      \* the screens that hot keys broadcast to
    MayRefuse,          \* screens that may refuse to be left (canLeave)
    MaxDoings,          \* bound on what the user does
    MaxQueue,           \* and how far ahead of the server's thread
    MaxLosses           \* bound on lost connections

KeyRelayAssumption ==
    /\ Primary \notin Clients /\ Button \notin Keys
    /\ BroadcastSets \subseteq SUBSET Clients /\ MayRefuse \subseteq Clients \cup {Primary}
    /\ {MaxDoings, MaxQueue} \subseteq Nat /\ MaxLosses \in Nat

Inputs == Keys \cup {Button}
Screens == Clients \cup {Primary}

VARIABLES
    held,           \* what the user holds down
    hookKeys,       \* g_keyState: keys that the hook saw go down
    host,           \* keys that are down for the host's own programs
    queue,          \* messages and events of the server's thread
    buttons,        \* m_buttons of the host
    keysBefore,     \* m_primaryKeyDownList: keys that were down when the host was left
    warped,         \* how far a handler that moves the host's cursor has come, and what for
    active,         \* m_active
    clients,        \* the clients in m_clients
    broadcasting,   \* m_keyboardBroadcasting
    targets,        \* m_keyboardBroadcastingScreens
    toClient,       \* messages on their way to each client
    linked,         \* clients whose connection is up
    entered,        \* m_entered of each client's screen
    serverKeys,     \* m_serverKeys and m_syntheticKeys of each client
    down,           \* what is down for the programs of each client
    excused,        \* pairs of a screen and an input that will not be let go there (not in the code)
    doings, losses  \* counters

hostVars == <<held, hookKeys, host, buttons, keysBefore, warped>>
serverVars == <<active, clients, broadcasting, targets>>
clientVars == <<linked, entered, serverKeys, down>>
vars == <<hostVars, queue, serverVars, toClient, clientVars, excused, doings, losses>>

Init ==
    /\ held = {} /\ hookKeys = {} /\ host = {} /\ queue = <<>> /\ buttons = FALSE
    /\ keysBefore = {} /\ warped = "no"
    /\ active = Primary /\ clients = Clients /\ broadcasting = FALSE
    /\ targets = Clients
    /\ toClient = [c \in Clients |-> <<>>] /\ linked = Clients
    /\ entered = {} /\ serverKeys = [c \in Clients |-> {}] /\ down = [c \in Clients |-> {}]
    /\ excused = {} /\ doings = 0 /\ losses = 0

------------------------------------------------------------------------------
(* The queue of the server's thread.                                            *)

\* A message a hook posted, an event, and the mark at which the screen was changed.
Posted(what, arg) == [stage |-> "posted", what |-> what, arg |-> arg]
Happened(what, arg) == [stage |-> "event", what |-> what, arg |-> arg]
Mark == [stage |-> "posted", what |-> "mark", arg |-> Primary]

InQueue(m) == \E i \in DOMAIN queue : queue[i] = m
rest == Tail(queue)
head == Head(queue)

\* Messages from before the last change of screen are not for anybody.
ignore == InQueue(Mark)

\* Moving the cursor of the host removes the messages of the hooks that wait, keys among them.  A
\* removed message keeps its place here, and does nothing.
Removed == [stage |-> "posted", what |-> "removed", arg |-> Primary]
Purged(q) ==
    [n \in DOMAIN q |-> IF q[n].stage = "posted" /\ q[n] # Mark THEN Removed ELSE q[n]]

------------------------------------------------------------------------------
(* The user.                                                                    *)

Doing ==
    /\ doings < MaxDoings /\ Len(queue) < MaxQueue /\ doings' = doings + 1
    /\ UNCHANGED <<buttons, keysBefore, warped, serverVars, toClient, clientVars, excused, losses>>

\* The hook lets a key through to the host unless a client has the pointer, and posts it
\* anyway.
Press(i) ==
    /\ i \notin held /\ Doing
    /\ held' = held \cup {i} /\ hookKeys' = hookKeys \cup ({i} \cap Keys)
    /\ host' = IF active = Primary /\ i \in Keys THEN host \cup {i} ELSE host
    /\ queue' = Append(queue, Posted("down", i))

Release(i) ==
    /\ i \in held
    /\ held' = held \ {i} /\ hookKeys' = hookKeys \ {i}
    /\ host' = IF active = Primary THEN host \ {i} ELSE host
    /\ queue' = Append(queue, Posted("up", i))
    /\ UNCHANGED <<buttons, keysBefore, warped, serverVars, toClient, clientVars, excused, doings,
                   losses>>

\* A motion to a screen beyond an edge, and hot keys.
Motion(s) == Doing /\ queue' = Append(queue, Posted("motion", s)) /\ UNCHANGED <<held, hookKeys, host>>
HotKey(what, arg) ==
    Doing /\ queue' = Append(queue, Posted(what, arg)) /\ UNCHANGED <<held, hookKeys, host>>

User ==
    \/ \E i \in Inputs : Press(i) \/ Release(i)
    \/ \E s \in Screens : Motion(s) \/ HotKey("jump", s)
    \/ \E mode \in {"on", "off", "toggle"}, t \in BroadcastSets : HotKey("broadcast", <<mode, t>>)
    \/ HotKey("emergency", Primary)

------------------------------------------------------------------------------
(* The relay.                                                                   *)

\* Who is sent keys.
relayedTo == IF broadcasting THEN targets \cap clients ELSE {active} \cap clients

\* A message to the clients whose connection is up; that to a dead one is lost.
sent(channels, to, m) ==
    [c \in Clients |-> IF c \in to \cap linked THEN Append(channels[c], m) ELSE channels[c]]

\* What a client holds, or will when it has handled what is on its way.
Given(c) == down[c] \cup {i \in Inputs : \E n \in DOMAIN toClient[c] : toClient[c][n] = <<"down", i>>}

onKeyDown(k) == toClient' = sent(toClient, relayedTo, <<"down", k>>)

\* Mutant: a release goes to the screen with the pointer only, as buttons do.
onKeyUpActive(k) == toClient' = sent(toClient, {active}, <<"up", k>>)

onKeyUp(k) == toClient' = sent(toClient, relayedTo, <<"up", k>>)
onMouseDown == toClient' = sent(toClient, {active}, <<"down", Button>>)
onMouseUp == toClient' = sent(toClient, {active}, <<"up", Button>>)

\* Leaving the host keeps the list of the keys that were down, so that their releases are done
\* there; entering it forgets them.  Both have moved the cursor, and mark the queue.
leaveHost == UNCHANGED keysBefore
enterHost == keysBefore' = {}
nextMark(q) == Append(q, Mark)

\* Keys whose release is lost to the host: it is still in the queue when the list is forgotten.
Stranded == {k \in keysBefore \cap host : InQueue(Posted("up", k))}

\* Keys that went down on the host after the key state was read, and are not on the list.
Late == {k \in host \ keysBefore : InQueue(Posted("down", k))}

\* The list is of the keys that the hook has seen go down, not of those whose messages were
\* handled: leaving reads the key state again (Screen::leavePrimary, pollPressedKeys) before it
\* moves the cursor.
updateKeyState == keysBefore' = hookKeys

\* What nobody will let go of when the messages are removed: clients are not told of a release, the
\* host waits for it, or for that of a key it read the state too early for.
Unsaid ==
    (Clients \X {i \in Inputs : InQueue(Posted("up", i))})
        \cup ({Primary} \X (Stranded \cup (IF active = Primary THEN Late ELSE {})))

\* A client that is left lets go of its keys, but not of its button; the clients that are no
\* longer sent keys, and are not left, keep what they were given.
ButtonKept(c) == {<<c, Button>>} \cap ({c} \X Given(c))
KeysKept(cs) == {p \in cs \X Keys : p[2] \in Given(p[1])}

\* What the cursor of the host is moved for, when the screen is switched to s.
Moves(s) ==
    IF Primary \notin {active, s} THEN "no" ELSE IF s = Primary THEN "move" ELSE "leave"

\* switchScreen, from the channels and the queue as they are when the cursor has been moved.
switchScreen(s, q, channels) ==
    /\ warped = Moves(s) /\ warped' = "no"
    /\ \/ s = active /\ queue' = q /\ toClient' = channels /\ UNCHANGED <<active, keysBefore>>
       \/ /\ s # active /\ active' = s
          /\ toClient' = sent(sent(channels, {active}, <<"leave">>), {s}, <<"enter">>)
          /\ \/ active = Primary /\ leaveHost /\ queue' = nextMark(q)
             \/ s = Primary /\ enterHost /\ queue' = nextMark(q)
             \/ Primary \notin {active, s} /\ queue' = q /\ UNCHANGED keysBefore

\* What nobody will let go of after a switch from the active screen.
KeptBySwitch(s) ==
    IF s = active THEN {}
    ELSE (IF active = Primary THEN {Primary} \X Late ELSE ButtonKept(active))
         \cup (IF s = Primary THEN {Primary} \X Stranded ELSE {})

\* The screen refuses to be left.
refused(s) ==
    /\ active = Primary /\ Primary \in MayRefuse /\ s # active /\ warped = "no"
    /\ queue' = rest /\ UNCHANGED <<active, keysBefore, warped, toClient, excused>>

------------------------------------------------------------------------------
(* The server's thread.                                                         *)

\* A key's release that the host waits for is done there, and seen by the hook again, which takes
\* it for the user's; another key goes on to the relay unless the message is old.
onKey ==
    /\ head.stage = "posted" /\ head.what \in {"down", "up"} /\ head.arg \in Keys
    /\ LET k == head.arg IN
       \/ /\ head.what = "up" /\ active # Primary /\ k \in keysBefore
          /\ keysBefore' = keysBefore \ {k} /\ host' = host \ {k} /\ hookKeys' = hookKeys \ {k}
          /\ queue' = Append(rest, Posted("up", k))
          /\ UNCHANGED excused
       \/ /\ ~(head.what = "up" /\ active # Primary /\ k \in keysBefore)
          /\ queue' = IF ignore THEN rest ELSE Append(rest, Happened(head.what, k))
          /\ excused' = IF ignore /\ head.what = "up"
                        THEN excused \cup (Clients \X {k}) ELSE excused
          /\ UNCHANGED <<keysBefore, host, hookKeys>>
    /\ UNCHANGED <<held, buttons, warped, serverVars, toClient, clientVars, doings, losses>>

onMouseButton ==
    /\ head.stage = "posted" /\ head.what \in {"down", "up"} /\ head.arg = Button
    /\ buttons' = (head.what = "down")
    /\ queue' = IF ignore THEN rest ELSE Append(rest, Happened(head.what, Button))
    /\ excused' = IF ignore /\ head.what = "up" THEN excused \cup (Clients \X {Button}) ELSE excused
    /\ UNCHANGED <<held, hookKeys, host, keysBefore, warped, serverVars, toClient, clientVars, doings,
                   losses>>

\* A motion on the host and one on a client are different events.
onMouseMove ==
    /\ head.stage = "posted" /\ head.what = "motion"
    /\ queue' = IF ignore THEN rest
                ELSE Append(rest, Happened(IF active = Primary THEN "motionOnPrimary"
                                           ELSE "motionOnSecondary", head.arg))
    /\ UNCHANGED <<hostVars, serverVars, toClient, clientVars, excused, doings, losses>>

\* Hot keys are looked for before old messages are ignored.
onHotKey ==
    /\ head.stage = "posted" /\ head.what \in {"jump", "broadcast", "emergency"}
    /\ queue' = Append(rest, Happened(head.what, head.arg))
    /\ UNCHANGED <<hostVars, serverVars, toClient, clientVars, excused, doings, losses>>

onMark ==
    /\ head \in {Mark, Removed} /\ queue' = rest
    /\ UNCHANGED <<hostVars, serverVars, toClient, clientVars, excused, doings, losses>>

Relay ==
    /\ head.stage = "event" /\ head.what \in {"down", "up"} /\ queue' = rest
    /\ \/ head.what = "down" /\ head.arg \in Keys /\ onKeyDown(head.arg)
       \/ head.what = "up" /\ head.arg \in Keys /\ onKeyUp(head.arg)
       \/ head.what = "down" /\ head.arg = Button /\ onMouseDown
       \/ head.what = "up" /\ head.arg = Button /\ onMouseUp
    /\ UNCHANGED <<hostVars, serverVars, clientVars, excused, doings, losses>>

\* A motion crosses an edge if it is still that of the screen with the pointer and no button
\* is down; a hot key switches regardless.
stays ==
    \/ head.what = "motionOnPrimary" /\ active # Primary
    \/ head.what = "motionOnSecondary" /\ active = Primary
    \/ head.what # "jump" /\ buttons
    \/ head.arg \notin clients \cup {Primary}

\* The screen that the handler of the event will switch to.
goesTo ==
    {s \in Screens :
        \/ head.what \in {"motionOnPrimary", "motionOnSecondary", "jump"} /\ ~stays /\ s = head.arg
        \/ head.what = "emergency" /\ s = Primary
        \/ head.what = "gone" /\ active = head.arg /\ s = Primary}

\* A handler that leaves the host, enters it or puts its cursor elsewhere has parts that the user
\* may come between: first, to leave, the key state is read.
leavePrimary ==
    /\ head.stage = "event" /\ warped = "no"
    /\ \E s \in goesTo : Moves(s) = "leave"
    /\ warped' = "read" /\ updateKeyState
    /\ UNCHANGED <<held, hookKeys, host, buttons, queue, serverVars, toClient, clientVars, excused,
                   doings, losses>>

\* Then the cursor is moved, which removes the messages that wait; the rest of the handler is last.
warpCursor ==
    /\ head.stage = "event"
    /\ \E s \in goesTo :
        /\ Moves(s) # "no" /\ warped' = Moves(s)
        /\ warped = (IF Moves(s) = "leave" THEN "read" ELSE "no")
    /\ queue' = Purged(queue) /\ excused' = excused \cup Unsaid
    /\ UNCHANGED <<held, hookKeys, host, buttons, keysBefore, serverVars, toClient, clientVars, doings,
                   losses>>

\* The displays of the host have changed while a client has the pointer: its cursor is moved.
onDisplayChange ==
    /\ active # Primary /\ queue' = Purged(queue) /\ excused' = excused \cup Unsaid
    /\ UNCHANGED <<hostVars, serverVars, toClient, clientVars, doings, losses>>

Switch ==
    /\ head.stage = "event" /\ head.what \in {"motionOnPrimary", "motionOnSecondary", "jump"}
    /\ \/ stays /\ queue' = rest /\ UNCHANGED <<active, keysBefore, warped, toClient, excused>>
       \/ /\ ~stays /\ switchScreen(head.arg, rest, toClient)
          /\ excused' = excused \cup KeptBySwitch(head.arg)
       \/ ~stays /\ refused(head.arg)
    /\ UNCHANGED <<held, hookKeys, host, buttons, clients, broadcasting, targets, clientVars, doings,
                   losses>>

\* Broadcasting is turned on, turned off, or given other screens; those that are no longer
\* sent keys keep what they were given.
handleKeyboardBroadcastEvent ==
    /\ head.stage = "event" /\ head.what = "broadcast" /\ queue' = rest
    /\ LET mode == head.arg[1] IN
       broadcasting' = (mode = "on" \/ (mode = "toggle" /\ ~broadcasting))
    /\ targets' = head.arg[2]
    /\ UNCHANGED <<hostVars, active, clients, toClient, clientVars, doings, losses>>
    /\ excused' = excused \cup KeysKept(relayedTo \ relayedTo')

\* Back to the host, with buttons let go and nothing broadcast.
emergencyReturn ==
    /\ head.stage = "event" /\ head.what = "emergency"
    /\ broadcasting' = FALSE
    /\ switchScreen(Primary, rest, sent(toClient, {active}, <<"up", Button>>))
    /\ excused' = excused \cup ({Primary} \X Stranded) \cup KeysKept(relayedTo \ {active})
    /\ UNCHANGED <<held, hookKeys, host, buttons, clients, targets, clientVars, doings, losses>>

\* A client is gone: the pointer comes home, and the host's buttons are let go.
forceLeaveClient ==
    /\ head.stage = "event" /\ head.what = "gone"
    /\ clients' = clients \ {head.arg}
    /\ buttons' = FALSE
    /\ active' = IF active = head.arg THEN Primary ELSE active
    /\ IF active = head.arg
       THEN /\ warped = "move" /\ warped' = "no" /\ enterHost /\ queue' = nextMark(rest)
            /\ excused' = excused \cup ({Primary} \X Stranded)
       ELSE queue' = rest /\ UNCHANGED <<keysBefore, warped, excused>>
    /\ UNCHANGED <<held, hookKeys, host, broadcasting, targets, toClient, clientVars, doings, losses>>

\* A handler that has begun goes on.
Serve ==
    /\ queue # <<>>
    /\ \/ /\ warped = "no"
          /\ \/ onKey \/ onMouseButton \/ onMouseMove \/ onHotKey \/ onMark
             \/ Relay \/ handleKeyboardBroadcastEvent \/ onDisplayChange
       \/ leavePrimary \/ warpCursor \/ Switch \/ emergencyReturn \/ forceLeaveClient

------------------------------------------------------------------------------
(* A client.                                                                    *)

Take(c) ==
    /\ toClient[c] # <<>> /\ toClient' = [toClient EXCEPT ![c] = Tail(@)]
    /\ UNCHANGED <<hostVars, queue, serverVars, linked, doings, losses>>
got(c) == Head(toClient[c])

enter(c) ==
    /\ Take(c) /\ got(c) = <<"enter">>
    /\ entered' = entered \cup {c}
    /\ UNCHANGED <<serverKeys, down, excused>>

\* A key that is down already repeats; one that cannot be mapped does nothing.
fakeKeyDown(c) ==
    /\ Take(c) /\ got(c)[1] = "down" /\ got(c)[2] \in Keys
    /\ \/ /\ serverKeys' = [serverKeys EXCEPT ![c] = @ \cup {got(c)[2]}]
          /\ down' = [down EXCEPT ![c] = @ \cup {got(c)[2]}]
       \/ UNCHANGED <<serverKeys, down>>
    /\ UNCHANGED <<entered, excused>>

\* Only a key that went down goes up.
fakeKeyUp(c) ==
    /\ Take(c) /\ got(c)[1] = "up" /\ got(c)[2] \in Keys
    /\ IF got(c)[2] \in serverKeys[c]
       THEN /\ serverKeys' = [serverKeys EXCEPT ![c] = @ \ {got(c)[2]}]
            /\ down' = [down EXCEPT ![c] = @ \ {got(c)[2]}]
       ELSE UNCHANGED <<serverKeys, down>>
    /\ UNCHANGED <<entered, excused>>

fakeMouseButton(c) ==
    /\ Take(c) /\ got(c)[1] \in {"down", "up"} /\ got(c)[2] = Button
    /\ down' = [down EXCEPT ![c] = IF got(c)[1] = "down" THEN @ \cup {Button} ELSE @ \ {Button}]
    /\ UNCHANGED <<entered, serverKeys, excused>>

\* A screen that is left lets go of the keys it was sent, not of the buttons.
fakeAllKeysUp(c) ==
    /\ down' = [down EXCEPT ![c] = @ \ serverKeys[c]]
    /\ serverKeys' = [serverKeys EXCEPT ![c] = {}]
    /\ entered' = entered \ {c}

leave(c) ==
    /\ Take(c) /\ got(c) = <<"leave">>
    /\ \/ fakeAllKeysUp(c) /\ UNCHANGED excused
       \/ /\ c \in MayRefuse /\ excused' = excused \cup ({c} \X serverKeys[c])
          /\ UNCHANGED <<entered, serverKeys, down>>

\* The connection is lost: the client lets go of its buttons and leaves its screen if it is
\* entered, and the server will hear of it.
Lose(c) ==
    /\ losses < MaxLosses /\ c \in linked /\ c \in clients
    /\ losses' = losses + 1 /\ linked' = linked \ {c}
    /\ toClient' = [toClient EXCEPT ![c] = <<>>]
    /\ queue' = Append(queue, Happened("gone", c))
    /\ \/ /\ c \notin MayRefuse /\ c \in entered
          /\ down' = [down EXCEPT ![c] = (@ \ serverKeys[c]) \ {Button}]
          /\ serverKeys' = [serverKeys EXCEPT ![c] = {}]
          /\ entered' = entered \ {c}
          /\ UNCHANGED excused
       \/ /\ c \in MayRefuse \/ c \notin entered
          /\ down' = [down EXCEPT ![c] = @ \ {Button}]
          /\ excused' = excused \cup ({c} \X serverKeys[c])
          /\ UNCHANGED <<serverKeys, entered>>
    /\ UNCHANGED <<hostVars, serverVars, doings>>

\* It comes back: enabling the screen forgets which keys the server sent.
Rejoin(c) ==
    /\ c \notin linked /\ c \notin clients /\ warped = "no"
    /\ linked' = linked \cup {c} /\ clients' = clients \cup {c}
    /\ serverKeys' = [serverKeys EXCEPT ![c] = {}]
    /\ UNCHANGED <<hostVars, queue, active, broadcasting, targets, toClient, entered, down, excused,
                   doings, losses>>

Client ==
    \E c \in Clients :
        \/ enter(c) \/ leave(c) \/ fakeKeyDown(c) \/ fakeKeyUp(c) \/ fakeMouseButton(c)
        \/ Lose(c) \/ Rejoin(c)

Next == User \/ Serve \/ Client

Spec == Init /\ [][Next]_vars

------------------------------------------------------------------------------
(* Properties.                                                                  *)

TypeOK ==
    /\ held \subseteq Inputs /\ {hookKeys, host, keysBefore} \subseteq SUBSET Keys
    /\ warped \in {"no", "read", "leave", "move"} /\ buttons \in BOOLEAN /\ active \in Screens
    /\ clients \subseteq Clients /\ linked \subseteq Clients /\ entered \subseteq Clients
    /\ broadcasting \in BOOLEAN /\ targets \subseteq Clients
    /\ serverKeys \in [Clients -> SUBSET Keys] /\ down \in [Clients -> SUBSET Inputs]
    /\ excused \subseteq Screens \X Inputs

\* The user holds it, or its release has not been relayed yet.
ReleaseAhead(i) == i \in held \/ InQueue(Posted("up", i)) \/ InQueue(Happened("up", i))

\* A client that has handled everything holds a key only if it is sent keys and the release
\* is still to come; one that was left has let its keys go.  Keys stay down only where a screen
\* refused to be left, where broadcasting ended, or where the release was posted
\* before the pointer crossed or the host's cursor was moved (Server::onKeyUp,
\* KeyState::fakeAllKeysUp, MSWindowsScreen::ignore, warpCursor).
KeysLetGo ==
    \A c \in linked, k \in Keys :
        toClient[c] = <<>> /\ k \in down[c] /\ <<c, k>> \notin excused
            => c \in relayedTo /\ ReleaseAhead(k)

\* A button stays down only on a client that the pointer left, or where the release was posted
\* before it crossed or the host's cursor was moved.
ButtonLetGo ==
    \A c \in linked :
        toClient[c] = <<>> /\ Button \in down[c] /\ <<c, Button>> \notin excused
            => c = active /\ ReleaseAhead(Button)

\* A key that went down on the host goes up there, also when it is let go on a client and when its
\* messages were removed at the crossing, unless it went down while the host was being left, or
\* its release was removed or the pointer came home before it was handled
\* (MSWindowsScreen::m_primaryKeyDownList).
HostKeysLetGo ==
    \A k \in host \ held :
        <<Primary, k>> \notin excused => k \in keysBefore /\ InQueue(Posted("up", k))
=============================================================================
