------------------------------- MODULE Desks -------------------------------
(***************************************************************************)
(* The desktops of a Windows computer (MSWindowsDesks), one thread for each   *)
(* that had the input so far, which hides the cursor and installs the hooks;  *)
(* the screen that enters and leaves them (MSWindowsScreen); and its screen   *)
(* saver (MSWindowsScreenSaver).                                              *)
(*                                                                            *)
(* The main thread posts a message to the thread of the active desktop and    *)
(* waits until it was handled, so the two are one step.  A desktop with no    *)
(* window is sent nothing.  Windows changes the desktop that has the input at *)
(* any time, also between two steps of a look at it.  Relative positions, the *)
(* window of the foreground and the setting of the screen saver are left out. *)
(***************************************************************************)
EXTENDS Integers, Sequences, Functions

CONSTANTS
    Desktops, Home, Saver, \* the user's and the screen saver's
    Inaccessible,          \* those that cannot be opened: logging in, asking for consent
    Windowless,            \* those that can, but where no window can be made
    Locked, NoDesk,        \* the name of what cannot be opened, and the null desk
    MaxDoings              \* a bound on what users do

DesksAssumption ==
    /\ {Home, Saver} \subseteq Desktops /\ Home # Saver
    /\ Inaccessible \subseteq Desktops \ {Home} /\ Windowless \subseteq Desktops \ {Home}
    /\ {Locked, NoDesk} \cap Desktops = {} /\ Locked # NoDesk
    /\ MaxDoings \in Nat

VARIABLES
    input, saving, held,       \* Windows: desktop with the input, screen saver, a key
    primary, main, name,       \* what the main thread is at, and the name it read
    enabled, isOnScreen,       \* MSWindowsScreen
    screensaverActive, messages, \* and its DESKFLOW_MSG_SCREEN_SAVER messages
    desks, ready,              \* m_desks, and those whose threads have a message queue
    activeDesk, activeDeskName, deskOnScreen, \* MSWindowsDesks; the last is its m_isOnScreen
    hidden, hook,              \* desks that hide the cursor, the one that has the hooks
    down, relayed,             \* the key, for the key state and for the client
    saverActive, watch,        \* MSWindowsScreenSaver: m_active and m_watch
    dropped, blinked, restarted, overtaken, \* the named cases
    doings

windowsVars == <<input, saving, held>>
screenVars == <<enabled, isOnScreen>>
deskVars == <<desks, ready, activeDesk, activeDeskName, deskOnScreen, hidden, hook>>
keyVars == <<down, relayed>>
saverVars == <<screensaverActive, messages, saverActive, watch>>
caseVars == <<dropped, blinked, restarted, overtaken>>
vars == <<windowsVars, primary, main, name, screenVars, deskVars, keyVars, saverVars, caseVars, doings>>

NameOf(d) == IF d \in Inaccessible THEN Locked ELSE d
Names == {NameOf(d) : d \in Desktops} \cup {Locked}

\* A message to a desk with a window is handled before the main thread goes on.
reached(d) == d \notin Windowless \cup {Locked, NoDesk}

TypeOK ==
    /\ input \in Desktops /\ saving \in BOOLEAN /\ held \in BOOLEAN
    /\ primary \in BOOLEAN
    /\ main \in {"idle", "enabling", "checking", "checked", "starting", "stuck"}
    /\ name \in Names
    /\ enabled \in BOOLEAN /\ isOnScreen \in BOOLEAN
    /\ screensaverActive \in BOOLEAN /\ messages \in Seq(BOOLEAN)
    /\ desks \subseteq Names /\ ready \subseteq desks
    /\ activeDesk \in Names \cup {NoDesk} /\ activeDeskName \in Names
    /\ deskOnScreen \in BOOLEAN /\ hidden \subseteq desks /\ hook \in Names \cup {NoDesk}
    /\ down \in BOOLEAN /\ relayed \in BOOLEAN
    /\ saverActive \in BOOLEAN /\ watch \in {"none", "polling", "posting"}
    /\ dropped \in BOOLEAN /\ blinked \in BOOLEAN /\ restarted \in BOOLEAN /\ overtaken \in BOOLEAN
    /\ doings \in 0 .. MaxDoings

Init ==
    /\ input = Home /\ saving = FALSE /\ held = FALSE
    /\ primary \in BOOLEAN
    /\ main = "idle" /\ name = Locked
    /\ enabled = FALSE /\ isOnScreen = primary
    /\ screensaverActive = FALSE /\ messages = <<>>
    /\ desks = {} /\ ready = {} /\ activeDesk = NoDesk /\ activeDeskName = Locked
    /\ deskOnScreen = primary /\ hidden = {} /\ hook = NoDesk
    /\ down = FALSE /\ relayed = FALSE
    /\ saverActive = FALSE /\ watch = "none"
    /\ dropped = FALSE /\ blinked = FALSE /\ restarted = FALSE /\ overtaken = FALSE
    /\ doings = 0

------------------------------------------------------------------------------
(* Windows and its users.                                                      *)

\* The key state differs from the keyboard, and the desktop that is coming has the hooks.
returnsUnseen(d) == NameOf(d) = activeDeskName /\ down # held

switchDesktop(d) ==
    /\ doings < MaxDoings /\ ~saving /\ d \in Desktops \ {input, Saver}
    /\ input' = d /\ doings' = doings + 1
    /\ blinked' = (blinked \/ returnsUnseen(d))
    /\ UNCHANGED <<saving, held, primary, main, name, screenVars, deskVars, keyVars, saverVars,
                   dropped, restarted, overtaken>>

\* The hook of the desktop that had the input tells of it.
saverStarts ==
    /\ doings < MaxDoings /\ ~saving
    /\ saving' = TRUE /\ input' = Saver /\ doings' = doings + 1
    /\ messages' = IF primary /\ enabled /\ hook = input THEN Append(messages, TRUE) ELSE messages
    /\ restarted' = (watch \in {"polling", "posting"} \/ FALSE \in Range(messages))
    /\ blinked' = (blinked \/ returnsUnseen(Saver))
    /\ UNCHANGED <<held, primary, main, name, screenVars, deskVars, keyVars, screensaverActive,
                   saverActive, watch, dropped, overtaken>>

\* The screen saver ends on the user's desktop, or on one where the user logs in.
saverEnds ==
    /\ saving /\ saving' = FALSE
    /\ input' \in {Home} \cup Inaccessible
    /\ blinked' = (blinked \/ returnsUnseen(input')) /\ restarted' = FALSE
    /\ UNCHANGED <<held, primary, main, name, screenVars, deskVars, keyVars, saverVars, dropped,
                   overtaken, doings>>

\* The key goes down or up; the hook sees it if its desktop has the input, and relays it
\* while the pointer is on a client.
stroke ==
    /\ doings < MaxDoings /\ primary /\ held' = ~held /\ doings' = doings + 1
    /\ IF enabled /\ hook = input
       THEN down' = held' /\ relayed' = (IF isOnScreen THEN relayed ELSE held')
       ELSE UNCHANGED keyVars
    /\ UNCHANGED <<input, saving, primary, main, name, screenVars, deskVars, saverVars, caseVars>>

------------------------------------------------------------------------------
(* The active desktop.                                                         *)

\* The name is read first, and the screen saver asked about later.
openInputDesktop(then) == name' = NameOf(input) /\ main' = then

enable ==
    /\ main = "idle" /\ ~enabled /\ doings < MaxDoings
    /\ openInputDesktop("enabling")
    /\ doings' = doings + 1
    /\ UNCHANGED <<windowsVars, primary, screenVars, deskVars, keyVars, saverVars, caseVars>>

\* Timers are looked at while no message waits (EventQueue::processEvent).
handleCheckDesk ==
    /\ main = "idle" /\ enabled /\ messages = <<>>
    /\ openInputDesktop("checking")
    /\ UNCHANGED <<windowsVars, primary, screenVars, deskVars, keyVars, saverVars, caseVars,
                   doings>>

\* The keys are read anew, and a client is told of those that went up (updateKeysCB).
updateKeys ==
    /\ down' = (primary /\ held)
    /\ relayed' = (relayed /\ ~(primary /\ ~isOnScreen /\ down /\ ~held))
    /\ blinked' = FALSE

noKeysUpdated == UNCHANGED <<keyVars, blinked>>

\* The old desk shows the cursor, the new one gets the hooks and hides it again; each is sent
\* nothing if it has no window.
switchDesk ==
    LET away == ~deskOnScreen IN
    /\ activeDesk' = name /\ activeDeskName' = name
    /\ hook' = IF reached(name) THEN name ELSE hook
    /\ hidden' = (hidden \ (IF away /\ reached(activeDesk) THEN {activeDesk} ELSE {}))
                     \cup (IF away /\ reached(name) THEN {name} ELSE {})
    /\ deskOnScreen' = (IF away /\ reached(name) THEN FALSE
                        ELSE deskOnScreen \/ (away /\ reached(activeDesk)))
    /\ dropped' = ((dropped /\ ~(away /\ reached(name) /\ ~isOnScreen)) \/ (away /\ ~reached(name)))

checkDesk ==
    /\ main \in {"enabling", "checking"}
    /\ desks' = desks \cup {name}
    /\ ready' = ready \cup ({name} \ {Locked})
    /\ \/ /\ name # activeDeskName /\ ~saving
          /\ switchDesk
          /\ IF reached(name) THEN updateKeys ELSE noKeysUpdated
          /\ UNCHANGED messages
       \/ /\ name = activeDeskName \/ saving
          /\ messages' = IF name # activeDeskName THEN Append(messages, TRUE) ELSE messages
          /\ IF main = "enabling" /\ reached(activeDesk) THEN updateKeys ELSE noKeysUpdated
          /\ UNCHANGED <<activeDesk, activeDeskName, deskOnScreen, hidden, hook, dropped>>
    /\ enabled' = TRUE
    /\ main' = (IF main = "checking" /\ primary THEN "checked" ELSE "idle") /\ name' = Locked
    /\ UNCHANGED <<windowsVars, primary, isOnScreen, screensaverActive, saverActive, watch,
                   restarted, overtaken, doings>>

\* The primary asks Windows whether the screen saver runs.
pollScreensaver ==
    /\ main = "checked" /\ main' = "idle"
    /\ messages' = Append(messages, saving)
    /\ UNCHANGED <<windowsVars, primary, name, screenVars, deskVars, keyVars, screensaverActive,
                   saverActive, watch, caseVars, doings>>

\* The thread of a desk that cannot be opened has a message queue from its first GetMessage on.
deskThread ==
    /\ Locked \in desks \ ready
    /\ ready' = ready \cup {Locked}
    /\ UNCHANGED <<windowsVars, primary, main, name, screenVars, desks, activeDesk,
                   activeDeskName, deskOnScreen, hidden, hook, keyVars, saverVars, caseVars,
                   doings>>

\* The threads are told to end, and waited for; what is posted where no queue is, is lost.
disable ==
    /\ main = "idle" /\ enabled /\ enabled' = FALSE
    /\ \/ /\ desks \subseteq ready
          /\ desks' = {} /\ ready' = {} /\ activeDesk' = NoDesk /\ activeDeskName' = Locked
          /\ hidden' = {} /\ hook' = NoDesk /\ deskOnScreen' = primary
          /\ isOnScreen' = primary /\ relayed' = FALSE /\ dropped' = FALSE
          /\ UNCHANGED main
       \/ /\ ~(desks \subseteq ready)
          /\ main' = "stuck"
          /\ UNCHANGED <<isOnScreen, deskVars, relayed, dropped>>
    /\ UNCHANGED <<windowsVars, primary, name, down, saverVars, blinked, restarted, overtaken,
                   doings>>

------------------------------------------------------------------------------
(* Crossings.                                                                  *)

deskEnter == /\ deskOnScreen' = (deskOnScreen \/ reached(activeDesk))
             /\ hidden' = hidden \ {activeDesk}
deskLeave == /\ deskOnScreen' = (deskOnScreen /\ ~reached(activeDesk))
             /\ hidden' = hidden \cup (IF reached(activeDesk) THEN {activeDesk} ELSE {})

\* A secondary screen ends the screen saver it knows of.
enter ==
    /\ main = "idle" /\ enabled /\ ~isOnScreen /\ doings < MaxDoings
    /\ deskEnter
    /\ isOnScreen' = TRUE /\ relayed' = FALSE
    /\ dropped' = (~reached(activeDesk) /\ ~deskOnScreen)
    /\ screensaverActive' = (primary /\ screensaverActive)
    /\ doings' = doings + 1
    /\ UNCHANGED <<windowsVars, primary, main, name, enabled, desks, ready, activeDesk,
                   activeDeskName, hook, down, messages, saverActive, watch, blinked, restarted,
                   overtaken>>

\* Only where the position of the cursor can be read, on the main thread's own desktop (canLeave).
leave ==
    /\ main = "idle" /\ enabled /\ isOnScreen /\ input = Home /\ doings < MaxDoings
    /\ deskLeave
    /\ isOnScreen' = FALSE
    /\ dropped' = ~reached(activeDesk)
    /\ doings' = doings + 1
    /\ UNCHANGED <<windowsVars, primary, main, name, enabled, desks, ready, activeDesk,
                   activeDeskName, hook, keyVars, saverVars, blinked, restarted, overtaken>>

------------------------------------------------------------------------------
(* The screen saver.                                                           *)

\* A message is passed over if another one waits behind it.
onScreensaver ==
    /\ main = "idle" /\ messages # <<>>
    /\ messages' = Tail(messages)
    /\ \/ /\ Len(messages) > 1
          /\ overtaken' = (overtaken \/ (~Head(messages) /\ screensaverActive))
          /\ UNCHANGED <<main, screensaverActive>>
       \/ /\ Len(messages) = 1 /\ Head(messages)
          /\ main' = IF ~screensaverActive /\ ~saverActive THEN "starting" ELSE main
          /\ UNCHANGED <<screensaverActive, overtaken>>
       \/ /\ Len(messages) = 1 /\ ~Head(messages)
          /\ screensaverActive' = FALSE
          /\ UNCHANGED <<main, overtaken>>
    /\ UNCHANGED <<windowsVars, primary, name, screenVars, deskVars, keyVars, saverActive, watch,
                   dropped, blinked, restarted, doings>>

\* After a moment, if it did start, a thread watches for its end; the last one is waited for.
checkStarted ==
    /\ main = "starting" /\ main' = "idle"
    /\ \/ /\ ~saving
          /\ UNCHANGED <<screensaverActive, saverActive, watch, overtaken>>
       \/ /\ saving /\ watch # "posting"
          /\ screensaverActive' = TRUE /\ saverActive' = TRUE /\ watch' = "polling"
          /\ overtaken' = FALSE
    /\ UNCHANGED <<windowsVars, primary, name, screenVars, deskVars, keyVars, messages, dropped,
                   blinked, restarted, doings>>

watchDesktopThread ==
    /\ \/ /\ watch = "polling" /\ ~saving
          /\ saverActive' = FALSE /\ watch' = "posting"
          /\ UNCHANGED messages
       \/ /\ watch = "posting"
          /\ messages' = Append(messages, FALSE) /\ watch' = "none"
          /\ UNCHANGED saverActive
    /\ UNCHANGED <<windowsVars, primary, main, name, screenVars, deskVars, keyVars,
                   screensaverActive, caseVars, doings>>

------------------------------------------------------------------------------

Loop == handleCheckDesk \/ checkDesk \/ pollScreensaver \/ onScreensaver \/ checkStarted
Core == enable \/ disable \/ enter \/ leave
WindowsAndUsers == (\E d \in Desktops : switchDesktop(d)) \/ saverStarts \/ saverEnds \/ stroke
Next == WindowsAndUsers \/ Core \/ Loop \/ deskThread \/ watchDesktopThread

\* The main thread handles what waits and then looks at the desktop again (EventQueue::processEvent);
\* the threads it started run.
Fair == WF_vars(Loop) /\ WF_vars(deskThread) /\ WF_vars(watchDesktopThread)
Spec == Init /\ [][Next]_vars /\ Fair

------------------------------------------------------------------------------
(* Properties.                                                                 *)

Settled == main = "idle" /\ enabled

\* On screen no desktop hides the cursor, whichever had the input meanwhile; off screen the
\* active one does; unless the message that says so was sent to one without a window
\* (checkDesk, deskEnter, deskLeave).
CursorShown == main # "stuck" /\ isOnScreen /\ ~dropped => hidden = {}
CursorHidden == Settled /\ ~isOnScreen /\ reached(activeDesk) /\ ~dropped => hidden = {activeDesk}

\* Once the active desktop was looked at, the hooks are there and the key state is that of the
\* keyboard, whatever happened to it elsewhere, and a client is not left with a key that is
\* up; unless the input left and came back between two looks (checkDesk, updateKeysCB).
KeysFollow ==
    Settled /\ primary /\ reached(activeDesk) /\ activeDesk = input /\ ~blinked
        => hook = input /\ down = held /\ (relayed => held)

\* What the screen knows of the screen saver becomes true again; on a secondary, only that it
\* ended.  A saver that starts again before its last end was told may go unnoticed, and an end
\* does if another message comes behind it (watchDesktopThread, onScreensaver).
SaverKnown ==
    enabled /\ main # "stuck" =>
        /\ primary /\ ~restarted => screensaverActive = saving
        /\ ~primary /\ ~overtaken => (screensaverActive => saving)
=============================================================================
