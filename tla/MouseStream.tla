---------------------------- MODULE MouseStream ----------------------------
(***************************************************************************)
(* What a client does with motions that arrive together (ServerProxy): it    *)
(* keeps a motion back while more input is ready and hands it on before      *)
(* anything else.                                                            *)
(*                                                                           *)
(* A position is the last place a motion named and the number of relative    *)
(* motions since.                                                            *)
(***************************************************************************)
EXTENDS Integers

CONSTANT MaxMotions     \* bound on motions

MouseStreamAssumption == MaxMotions \in Nat

VARIABLES
    reading,        \* handleData is in its loop
    promised,       \* isReady said that another message is there
    compress,       \* m_compressMouse
    relative,       \* m_compressMouseRelative
    kept,           \* m_xMouse, m_yMouse
    keptBy,         \* m_dxMouse, m_dyMouse
    ignoring,       \* m_ignoreMouse: our shape changed and the server does not know yet
    pointer,        \* where the pointer of this screen is
    asked,          \* where the server wants it (not in the code)
    overtaken,      \* a motion passed one of the other kind (not in the code)
    motions         \* motions so far

keeping == <<compress, relative, kept, keptBy>>
vars == <<reading, promised, keeping, ignoring, pointer, asked, overtaken, motions>>

Place(n) == [at |-> n, by |-> 0]
Moved(p, n) == [p EXCEPT !.by = @ + n]

Init ==
    /\ reading = FALSE /\ promised = FALSE
    /\ compress = FALSE /\ relative = FALSE /\ kept = 0 /\ keptBy = 0
    /\ ignoring = FALSE /\ pointer = Place(0) /\ asked = Place(0)
    /\ overtaken = FALSE /\ motions = 0

\* A message is read; whether another is ready behind it is asked while it is handled.
Message(ready) ==
    /\ reading' = TRUE /\ promised' = ready

\* Where the pointer is when what was kept has been handed on.
Flushed ==
    LET there == IF compress THEN Place(kept) ELSE pointer IN
    IF relative THEN Moved(there, keptBy) ELSE there

flushCompressedMouse ==
    /\ pointer' = Flushed
    /\ compress' = FALSE /\ relative' = FALSE
    /\ keptBy' = (IF relative THEN 0 ELSE keptBy)
    /\ overtaken' = (overtaken /\ Flushed # asked)
    /\ UNCHANGED kept

mouseMove(ready) ==
    /\ motions < MaxMotions /\ motions' = motions + 1
    /\ Message(ready)
    /\ asked' = (IF ignoring THEN asked ELSE Place(motions'))
    /\ compress' = (compress \/ (~ignoring /\ ready))
    /\ IF compress'
       THEN /\ kept' = motions' /\ relative' = FALSE /\ keptBy' = 0
            /\ UNCHANGED <<pointer, overtaken>>
       ELSE /\ pointer' = (IF ignoring THEN pointer ELSE Place(motions'))
            /\ overtaken' = ((overtaken /\ ignoring) \/ (relative /\ ~ignoring))
            /\ UNCHANGED <<kept, relative, keptBy>>
    /\ UNCHANGED ignoring

mouseRelativeMove(ready) ==
    /\ motions < MaxMotions /\ motions' = motions + 1
    /\ Message(ready)
    /\ asked' = (IF ignoring THEN asked ELSE Moved(asked, 1))
    /\ relative' = (relative \/ (~ignoring /\ ready))
    /\ IF relative'
       THEN keptBy' = keptBy + 1 /\ UNCHANGED <<pointer, overtaken>>
       ELSE /\ pointer' = (IF ignoring THEN pointer ELSE Moved(pointer, 1))
            /\ overtaken' = (overtaken \/ (compress /\ ~ignoring))
            /\ UNCHANGED keptBy
    /\ UNCHANGED <<compress, kept, ignoring>>

\* Keys, buttons, the wheel and leaving find the pointer where it belongs.
keyDown(ready) ==
    /\ Message(ready) /\ flushCompressedMouse
    /\ UNCHANGED <<ignoring, asked, motions>>

\* Entering forgets what was kept.
enter(ready) ==
    /\ motions < MaxMotions /\ motions' = motions + 1
    /\ Message(ready)
    /\ compress' = FALSE /\ relative' = FALSE /\ keptBy' = 0
    /\ pointer' = Place(motions') /\ asked' = Place(motions') /\ overtaken' = FALSE
    /\ UNCHANGED <<kept, ignoring>>

\* The server knows our shape.
infoAcknowledgment(ready) ==
    /\ Message(ready) /\ ignoring /\ ignoring' = FALSE
    /\ UNCHANGED <<keeping, pointer, asked, overtaken, motions>>

\* The loop ends when there is nothing to read.
handled ==
    /\ reading /\ ~promised
    /\ reading' = FALSE /\ promised' = FALSE /\ flushCompressedMouse
    /\ UNCHANGED <<ignoring, asked, motions>>

\* Between two visits our shape changes; the server learns the pointer's place with it.
onInfoChanged ==
    /\ ~reading /\ ~ignoring /\ ignoring' = TRUE
    /\ asked' = pointer /\ overtaken' = FALSE
    /\ UNCHANGED <<reading, promised, keeping, pointer, motions>>

handleData ==
    \E ready \in BOOLEAN :
        \/ mouseMove(ready) \/ mouseRelativeMove(ready) \/ keyDown(ready) \/ enter(ready)
        \/ infoAcknowledgment(ready)

Next == handleData \/ handled \/ onInfoChanged

Spec == Init /\ [][Next]_vars

------------------------------------------------------------------------------
TypeOK ==
    /\ {reading, promised, compress, relative, ignoring, overtaken} \subseteq BOOLEAN
    /\ {kept, keptBy, motions} \subseteq 0..MaxMotions
    /\ {pointer, asked} \subseteq [at : 0..MaxMotions, by : 0..MaxMotions]

\* What was kept and what was handed on are the motions the server sent, in their order,
\* unless one of a kind was handed on while the other kind was kept
\* (ServerProxy::mouseMove, mouseRelativeMove, flushCompressedMouse).
NoMotionLost == overtaken \/ Flushed = asked

\* Between two visits nothing is kept, so that no event of the client finds the pointer behind.
NothingKept == ~reading => ~compress /\ ~relative
=============================================================================
