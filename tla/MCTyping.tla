----------------------------- MODULE MCTyping -----------------------------
(***************************************************************************)
(* Two parts of MCServices, each with variables of its own: KeySynthesis with *)
(* a small keyboard, and the hot keys of the server.                          *)
(* The keyboard has two groups, one Latin and one Cyrillic; both Shift keys,  *)
(* Control, Alt with Meta above it, AltGr, Caps Lock and no key for Super; a   *)
(* letter, a digit with three levels, a dead key, and Tab, whose shifted id   *)
(* is another one.                                                           *)
(***************************************************************************)
EXTENDS Integers, Sequences, MCParts

CONSTANTS BoundKey, LockKey, NoKey, Modifier      \* HotKeys

VARIABLES
    \* HotKeys
    ruleList, h_serving, hotKeys, hotKeyToIDMap, oldHotKeyIDs, foreign, config, heldKeys, modifiers,
    hotkeyQueue, engaged, replaced, loose, misfired, unpaired, strokes, starts,
    \* KeySynthesis
    keyMap, k_system, os, activeModifiers, mask, k_keys, syntheticKeys, k_serverKeys, typed,
    userHeld, k_cases, k_doings

hotKeyVars == <<ruleList, h_serving, hotKeys, hotKeyToIDMap, oldHotKeyIDs, foreign, config, heldKeys,
    modifiers, hotkeyQueue, engaged, replaced, loose, misfired, unpaired, strokes, starts>>
typingVars == <<keyMap, k_system, os, activeModifiers, mask, k_keys, syntheticKeys, k_serverKeys,
    typed, userHeld, k_cases, k_doings>>

Item(id, group, button, required, sensitive, generates) ==
    [id |-> id, group |-> group, button |-> button, required |-> required,
     sensitive |-> sensitive, generates |-> generates]
InBoth(id, button, generates) ==
    <<Item(id, 0, button, {}, {}, generates), Item(id, 1, button, {}, {}, generates)>>
Letter == {"shift", "capsLock"}
Digit == {"shift", "altGr"}
Plain(id, group, button, required, sensitive) ==
    <<Item(id, group, button, required, sensitive, "none")>>

SmallKeyboard ==
    InBoth("Shift_L", 10, "shift") \o InBoth("Shift_R", 11, "shift")
        \o InBoth("Control_L", 12, "control")
        \o <<Item("Alt_L", 0, 13, {}, {"shift"}, "alt"),
             Item("Meta_L", 0, 13, {"shift"}, {"shift"}, "meta")>>
        \o InBoth("AltGr", 14, "altGr") \o InBoth("CapsLock", 15, "capsLock")
        \o Plain("a", 0, 1, {}, Letter) \o Plain("A", 0, 1, {"shift"}, Letter)
        \o Plain("A", 0, 1, {"capsLock"}, Letter) \o Plain("a", 0, 1, Letter, Letter)
        \o Plain("ya", 1, 1, {}, {})
        \o Plain("one", 0, 2, {}, Digit) \o Plain("exclam", 0, 2, {"shift"}, Digit)
        \o Plain("at", 0, 2, {"altGr"}, Digit) \o Plain("at", 0, 2, Digit, Digit)
        \o Plain("one", 1, 2, {}, {"shift"}) \o Plain("exclam", 1, 2, {"shift"}, {"shift"})
        \o Plain("acute", 0, 4, {}, {})
        \o Plain("tab", 0, 5, {}, {"shift"}) \o Plain("leftTab", 0, 5, {"shift"}, {"shift"})
        \o Plain("tab", 1, 5, {}, {})

From(id, with, lang) == [id |-> id, mask |-> with, lang |-> lang]
KeysFromServer ==
    {From("A", {"shift"}, "any"), From("a", {"control"}, "any"), From("at", {"altGr"}, "any"),
     From("ya", {}, "ru"), From("aacute", {}, "any"), From("Shift_L", {}, "any"),
     From("Meta_L", {}, "any"), From("tab", {"shift"}, "any"),
     From("setModifiers", {"super", "altGr"}, "any"), From("clearModifiers", {"shift"}, "any")}

\* An X client, and a Windows client that does not keep the languages in step.
TwoSystems ==
    {[repeats |-> "none", across |-> TRUE, halfDuplex |-> {15}, syncs |-> TRUE],
     [repeats |-> "both", across |-> FALSE, halfDuplex |-> {}, syncs |-> FALSE]}

Typing == INSTANCE KeySynthesis WITH
    Keyboard <- SmallKeyboard,
    Modifiers <- <<"shift", "control", "alt", "meta", "super", "altGr", "capsLock">>,
    Locks <- {"capsLock"}, Commands <- {"control", "alt", "altGr", "meta"},
    NotRequired <- {"altGr"}, Dead <- {"acute"},
    Combinations <- <<[id |-> "aacute", keys |-> <<"acute", "a">>]>>,
    Aliases <- <<[target |-> "tab", source |-> "leftTab", required |-> {"shift"},
                  sensitive |-> {"shift"}, sourceRequired |-> {"shift"}]>>,
    NumGroups <- 2, Layouts <- <<"en", "ru">>, Systems <- TwoSystems, Inputs <- KeysFromServer,
    Buttons <- {1, 2}, UserKeys <- {10}, MaxDoings <- 3,
    system <- k_system, keys <- k_keys, serverKeys <- k_serverKeys, cases <- k_cases,
    doings <- k_doings

\* Two rules for one key with and without a modifier; a modifier alone, one key twice and a
\* lock of its own; and a file that leaves the host out.
TwoRules ==
    [rules |-> <<<<BoundKey, {}>>, <<BoundKey, {Modifier}>>>>, locks |-> FALSE, host |-> TRUE]
RuleFiles ==
    {TwoRules,
     [rules |-> <<<<NoKey, {Modifier}>>, <<BoundKey, {}>>, <<BoundKey, {}>>, <<LockKey, {}>>>>,
      locks |-> TRUE, host |-> TRUE],
     [rules |-> <<<<BoundKey, {}>>>>, locks |-> FALSE, host |-> FALSE]}

HotKeysOf == INSTANCE HotKeys WITH
    Keys <- {BoundKey, LockKey}, Modifiers <- {Modifier}, ScrollLock <- <<LockKey, {}>>,
    Configs <- RuleFiles, FirstConfig <- TwoRules, MaxReloads <- 1, MaxStrokes <- 3,
    MaxQueue <- 2, MaxStarts <- 2, serving <- h_serving

ASSUME Typing!KeySynthesisAssumption /\ HotKeysOf!HotKeysAssumption

------------------------------------------------------------------------------
(* Properties.                                                                 *)

\* A client types what it is asked, puts its modifiers back and lets go of what it pressed.
ClientTypes == part = "typing" =>
    /\ Typing!TypeOK /\ Typing!DownIsKnown /\ Typing!KnownIsDown /\ Typing!MaskIsTrue
    /\ Typing!TypedAsAsked /\ Typing!CommandAsAsked /\ Typing!Restored

\* A hot key fires its own rule, and what it started ends, however the rules are reloaded
\* (InputFilter::handleEvent, InputFilter::operator=).
HotKeysFire == part = "hotkeys" =>
    /\ HotKeysOf!TypeOK /\ HotKeysOf!TablesAgree /\ HotKeysOf!RegisteredHasRule
    /\ HotKeysOf!FiresItsRule /\ HotKeysOf!AllDisengaged /\ HotKeysOf!DeactivatedWasActive
=============================================================================
