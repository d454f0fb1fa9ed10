---------------------------- MODULE DoubleInsert ----------------------------
(***************************************************************************)
(* Two taps of Insert take the pointer back to the host                      *)
(* (MSWindowsScreen::onKey).  The hook posts keys as messages that are        *)
(* handled later, when the pointer may have crossed, or that a warp of the    *)
(* cursor throws away; and the release of a key that was down at a crossing is *)
(* injected anew for the host before the taps are looked at, so the hook       *)
(* posts it twice.  Where keys go is the matter of KeyRelay.                  *)
(***************************************************************************)
EXTENDS Integers, Sequences

CONSTANTS Window, MaxTime, MaxPresses, MaxQueue, MaxCrossings

DoubleInsertAssumption ==
    {Window, MaxTime, MaxPresses, MaxQueue, MaxCrossings} \subseteq Nat \ {0}

VARIABLES
    clock,        \* GetTickCount64(), in steps such that Window of them are 500 ms
    insertIsDown, \* the number of the press that holds Insert down, 0 when it is up
    keyMessages,  \* messages of the hook that wait
    lastDown,     \* m_lastDown is Insert
    insertInHook,         \* g_keyState of the hook has Insert down
    insertInState,        \* the key state has Insert down
    inPrimaryKeyDownList, \* Insert was down when the pointer left the host
    isOnScreen,   \* m_isOnScreen
    leaving,      \* Screen::leave is between updateKeyState and the warp
    insertPressedAt, insertHeld, swallowInsertRelease,
    returns,      \* events PrimaryScreenEmergencyReturn that wait
    presses, crossings,
    \* What happened, for the properties.
    counted,      \* the press the taps count from, and when it was handled
    otherPress,   \* the last press of another key that was handled
    returnedBy,   \* the press that took the pointer home
    downAsHeard,  \* the press of Insert that is down, by the messages handled or thrown away
    upLost,       \* a warp threw a release of Insert away, and none was handled since
    wrongReturn, missedReturn, eaten

tapVars == <<insertPressedAt, insertHeld, swallowInsertRelease>>
keyboardVars == <<insertIsDown, presses>>
screenVars == <<inPrimaryKeyDownList, isOnScreen, leaving, crossings>>
stateVars == <<lastDown, insertInState>>
heardVars == <<downAsHeard, upLost>>
wrongVars == <<wrongReturn, missedReturn, eaten>>
caseVars == <<counted, otherPress, returnedBy, heardVars, wrongVars>>
vars == <<clock, keyboardVars, keyMessages, insertInHook, stateVars, screenVars, tapVars, returns, caseVars>>

Init ==
    /\ clock = 1 /\ insertIsDown = 0 /\ keyMessages = <<>> /\ presses = 0
    /\ insertInHook = FALSE /\ lastDown = FALSE /\ insertInState = FALSE
    /\ isOnScreen = TRUE /\ leaving = FALSE /\ inPrimaryKeyDownList = FALSE /\ crossings = 0
    /\ insertPressedAt = 0 /\ insertHeld = FALSE /\ swallowInsertRelease = FALSE
    /\ returns = 0
    /\ counted = [press |-> 0, at |-> 0] /\ otherPress = 0 /\ returnedBy = 0
    /\ downAsHeard = 0 /\ upLost = FALSE
    /\ wrongReturn = FALSE /\ missedReturn = FALSE /\ eaten = FALSE

------------------------------------------------------------------------------
(* The keyboard, and the hook that posts its keys and keeps their state.       *)

keyboardHook(key, down, press) ==
    /\ Len(keyMessages) < MaxQueue
    /\ keyMessages' = Append(keyMessages, [key |-> key, down |-> down, press |-> press])
    /\ insertInHook' = IF key = "insert" THEN down ELSE insertInHook
    /\ UNCHANGED <<clock, stateVars, screenVars, tapVars, returns, caseVars>>

pressInsert ==
    /\ insertIsDown = 0 /\ presses < MaxPresses
    /\ presses' = presses + 1 /\ insertIsDown' = presses'
    /\ keyboardHook("insert", TRUE, presses')

\* The keyboard repeats the key that was pressed last.
repeatInsert ==
    /\ insertIsDown # 0 /\ insertIsDown = presses /\ UNCHANGED keyboardVars
    /\ keyboardHook("insert", TRUE, insertIsDown)

releaseInsert ==
    /\ insertIsDown # 0 /\ insertIsDown' = 0 /\ UNCHANGED presses
    /\ keyboardHook("insert", FALSE, insertIsDown)

pressOther ==
    /\ presses < MaxPresses /\ presses' = presses + 1 /\ UNCHANGED insertIsDown
    /\ keyboardHook("other", TRUE, presses')

Tick ==
    /\ clock < MaxTime /\ clock' = clock + 1
    /\ UNCHANGED <<keyboardVars, keyMessages, insertInHook, stateVars, screenVars, tapVars, returns,
                   caseVars>>

------------------------------------------------------------------------------
(* Crossings.                                                                  *)

\* MSWindowsScreen::warpCursor removes the input messages that wait.
warpCursor ==
    /\ keyMessages' = <<>>
    /\ downAsHeard' = insertIsDown
    /\ upLost' = (upLost \/ \E i \in 1..Len(keyMessages) :
                                keyMessages[i].key = "insert" /\ ~keyMessages[i].down)
    /\ UNCHANGED <<clock, keyboardVars, insertInHook, lastDown, tapVars, counted, otherPress,
                   returnedBy, wrongVars>>

\* Screen::leave asks the hook for the keys that are down ...
leavePrimary ==
    /\ isOnScreen /\ ~leaving /\ crossings < MaxCrossings
    /\ crossings' = crossings + 1 /\ leaving' = TRUE /\ insertInState' = insertInHook
    /\ UNCHANGED <<clock, keyboardVars, keyMessages, insertInHook, lastDown, inPrimaryKeyDownList,
                   isOnScreen, tapVars, returns, caseVars>>

\* ... and MSWindowsScreen::leave warps the cursor before it keeps them.
leave ==
    /\ leaving /\ leaving' = FALSE /\ isOnScreen' = FALSE
    /\ inPrimaryKeyDownList' = insertInState
    /\ warpCursor /\ UNCHANGED <<insertInState, crossings, returns>>

\* PrimaryClient::enter warps the cursor too.
enter ==
    /\ ~isOnScreen /\ crossings < MaxCrossings /\ crossings' = crossings + 1
    /\ isOnScreen' = TRUE /\ inPrimaryKeyDownList' = FALSE
    /\ warpCursor /\ UNCHANGED <<leaving, insertInState, returns>>

\* Server's handler: switchScreen(m_primaryClient), which does not enter the host again when
\* it has the pointer, and warps the cursor (PrimaryClient::mouseMove).
emergencyReturn ==
    /\ ~leaving /\ returns > 0 /\ returns' = returns - 1
    /\ isOnScreen' = TRUE
    /\ inPrimaryKeyDownList' = (isOnScreen /\ inPrimaryKeyDownList)
    /\ warpCursor /\ UNCHANGED <<leaving, insertInState, crossings>>

\* The cursor is warped without a crossing: a jump within the host, or the display changes
\* while the pointer is away.
jump ==
    /\ ~leaving /\ keyMessages # <<>>
    /\ warpCursor /\ UNCHANGED <<screenVars, insertInState, returns>>

------------------------------------------------------------------------------
(* onKey, by what the message is.                                              *)

\* The press of Insert that the taps take to be down.
heldBy == IF ~insertHeld THEN 0 ELSE IF counted.press # 0 THEN counted.press ELSE returnedBy

\* Named case: what the taps take to be down is not what the messages said.  A release was
\* thrown away, or it went to the host and is on its way again, or such a release came after
\* the next press.
mixed == heldBy # downAsHeard

\* m releases what is not heard to be down: the press was thrown away, or it was released.
wasUp(m) == m.press # downAsHeard

heardUp(m) == IF wasUp(m) THEN downAsHeard ELSE 0

\* The release of a key that was down at the crossing is injected for the host before the
\* taps are looked at, and the hook sees it again.
ReleaseForHost(m) ==
    /\ inPrimaryKeyDownList' = FALSE /\ insertInHook' = FALSE
    /\ keyMessages' = Append(Tail(keyMessages), m)
    /\ downAsHeard' = heardUp(m)
    /\ UNCHANGED <<tapVars, returns, counted, otherPress, returnedBy, upLost, wrongVars>>

Release(m) ==
    /\ insertHeld' = FALSE /\ swallowInsertRelease' = FALSE
    /\ eaten' = (eaten \/ (swallowInsertRelease /\ ~mixed /\ ~wasUp(m) /\ m.press # returnedBy))
    /\ downAsHeard' = heardUp(m) /\ upLost' = FALSE
    /\ keyMessages' = Tail(keyMessages)
    /\ UNCHANGED <<inPrimaryKeyDownList, insertInHook, insertPressedAt, returns, counted,
                   otherPress, returnedBy, wrongReturn, missedReturn>>

\* m counts from an earlier press, no other key having been pressed since.
tappedTwice(m) ==
    counted.press \in otherPress + 1..m.press - 1 /\ clock - counted.at <= Window

FirstPress(m) ==
    /\ insertHeld' = TRUE
    /\ IF insertPressedAt # 0 /\ clock - insertPressedAt <= Window
       THEN /\ insertPressedAt' = 0 /\ swallowInsertRelease' = TRUE /\ returns' = returns + 1
            /\ wrongReturn' = (wrongReturn \/ (~mixed /\ ~tappedTwice(m)))
            /\ counted' = [press |-> 0, at |-> 0] /\ returnedBy' = m.press
            /\ UNCHANGED missedReturn
       ELSE /\ insertPressedAt' = clock
            /\ missedReturn' = (missedReturn \/ tappedTwice(m))
            /\ counted' = [press |-> m.press, at |-> clock]
            /\ UNCHANGED <<swallowInsertRelease, returns, wrongReturn, returnedBy>>
    /\ downAsHeard' = m.press
    /\ keyMessages' = Tail(keyMessages)
    /\ UNCHANGED <<inPrimaryKeyDownList, insertInHook, otherPress, upLost, eaten>>

\* A repeat, or a press while Insert is taken for down: not relayed while a release is to be
\* swallowed.
Again(m) ==
    /\ missedReturn' = (missedReturn \/ (~mixed /\ tappedTwice(m)))
    /\ eaten' = (eaten \/ (swallowInsertRelease /\ ~mixed /\ m.press # returnedBy))
    /\ downAsHeard' = m.press
    /\ keyMessages' = Tail(keyMessages)
    /\ UNCHANGED <<inPrimaryKeyDownList, insertInHook, tapVars, returns, counted, otherPress,
                   returnedBy, upLost, wrongReturn>>

OtherKey(m) ==
    /\ insertPressedAt' = 0 /\ otherPress' = m.press
    /\ keyMessages' = Tail(keyMessages)
    /\ UNCHANGED <<inPrimaryKeyDownList, insertInHook, insertHeld, swallowInsertRelease, returns,
                   counted, returnedBy, heardVars, wrongVars>>

isFirst(m) == m.down /\ ~insertHeld /\ ~lastDown

onKey ==
    /\ keyMessages # <<>> /\ ~leaving
    /\ LET m == Head(keyMessages) IN
       /\ lastDown' = (m.down /\ m.key = "insert")
       /\ insertInState' = IF m.key = "insert" THEN m.down ELSE insertInState
       /\ IF m.key = "other" THEN OtherKey(m)
          ELSE IF ~m.down /\ ~isOnScreen /\ inPrimaryKeyDownList THEN ReleaseForHost(m)
          ELSE IF ~m.down THEN Release(m)
          ELSE IF isFirst(m) THEN FirstPress(m)
          ELSE Again(m)
    /\ UNCHANGED <<clock, keyboardVars, isOnScreen, leaving, crossings>>

Next ==
    \/ pressInsert \/ repeatInsert \/ releaseInsert \/ pressOther \/ Tick
    \/ leavePrimary \/ leave \/ enter \/ emergencyReturn \/ jump \/ onKey

Spec == Init /\ [][Next]_vars

------------------------------------------------------------------------------
(* Properties.                                                                 *)

TypeOK ==
    /\ clock \in 1..MaxTime /\ presses \in 0..MaxPresses /\ crossings \in 0..MaxCrossings
    /\ {insertIsDown, downAsHeard} \subseteq 0..MaxPresses /\ insertPressedAt \in 0..MaxTime /\ returns \in Nat
    /\ {insertInHook, lastDown, insertInState, inPrimaryKeyDownList, isOnScreen, leaving,
        insertHeld, swallowInsertRelease, upLost, wrongReturn, missedReturn, eaten} \subseteq BOOLEAN

\* The pointer comes home by two presses of Insert within the window and nothing else: no
\* repeat counts, and no key between them (README: "Key repeats do not trigger it"), of the
\* messages that no warp threw away, and where they are not mixed.
ReturnByTwoTaps == ~wrongReturn

\* Two such presses always take it home, unless the release of the first was thrown away or
\* is on its way a second time.
TwoTapsReturn == ~missedReturn

\* No other press or release of Insert is swallowed, with the same exception (README: "single
\* Insert retains its normal behavior").
SingleTapKept == ~eaten

\* The taps are not kept waiting for a release that was handled, also when it was handled
\* twice: only a warp that throws it away keeps them waiting.
HeldWhileDown ==
    keyMessages = <<>> /\ insertIsDown = 0 /\ ~upLost => ~insertHeld /\ ~swallowInsertRelease
=============================================================================
