---------------------------- MODULE KeySynthesis ----------------------------
(***************************************************************************)
(* How a client types what the server sends (KeyMap, KeyState): the key map  *)
(* made from the keys of the system, the keystrokes that type a key with the *)
(* modifiers it needs and put the others back, and the record of what is      *)
(* down.                                                                      *)
(*                                                                            *)
(* The system is external: it has a set of keys, each of which types one id   *)
(* per group and level; it keeps what is down, which locks are on and which   *)
(* group is active; and its own user may hold a modifier or toggle a lock.    *)
(***************************************************************************)
EXTENDS Integers, Sequences, FiniteSets, SequencesExt

CONSTANTS
    Keyboard,      \* the items the system lists: id, group, button, required, sensitive, generates
    Modifiers,     \* the modifiers, from the lowest bit to the highest
    Locks,         \* those that are toggled
    Commands,      \* those that make a key a command
    NotRequired,   \* those that are never matched to the server's
    Dead,          \* the ids of dead keys
    Combinations,  \* ids composed of other ids
    Aliases,       \* ids typed like others
    NumGroups,
    Layouts,       \* the languages of the groups
    Systems,       \* how systems differ: repeats, compose across groups, half-duplex, groups set
    Inputs,        \* what the server sends for a key: its id, modifiers and language
    Buttons,       \* the server's buttons, by number
    UserKeys,      \* what the system's own user may hold
    MaxDoings      \* bound on what server and user do

VARIABLES
    keyMap,        \* m_keyMap: the entries of each id and group, each a list of items
    system,        \* NoSystem until the screen is enabled
    os,            \* the system: what each button that is down generates, locks, group
    activeModifiers, mask, keys, syntheticKeys, serverKeys, \* m_...
    typed,         \* what the last key made the system see
    userHeld,      \* buttons the system's own user holds
    cases,         \* the cases so far that the properties leave out
    doings

\* What can spoil the record of what is down: the user holds a key; two server keys lead to one
\* button; a repeat leads to another button than the press; setting modifiers fails half way;
\* modifiers that server keys had pressed are let go.
Cases == {"user", "shared", "swapped", "halfDone", "cleared"}

NoSystem == [repeats |-> "unknown", across |-> FALSE, halfDuplex |-> {}, syncs |-> FALSE]
NoModifier == "none"
NoItem == [button |-> 0, required |-> {}, sensitive |-> {}, generates |-> NoModifier]
SetModifiers == "setModifiers"
ClearModifiers == "clearModifiers"

vars == <<keyMap, system, os, activeModifiers, mask, keys, syntheticKeys, serverKeys, typed, userHeld,
    cases, doings>>

Bits == ToSet(Modifiers)
Rank(m) == CHOOSE i \in DOMAIN Modifiers : Modifiers[i] = m
Groups == 0 .. NumGroups - 1
Local == {Keyboard[i].button : i \in DOMAIN Keyboard}
IDs == {Keyboard[i].id : i \in DOMAIN Keyboard} \cup {Combinations[i].id : i \in DOMAIN Combinations}
       \cup {Aliases[i].target : i \in DOMAIN Aliases}

KeySynthesisAssumption ==
    /\ IsInjective(Modifiers) /\ Locks \subseteq Bits /\ Commands \subseteq Bits /\ NotRequired \subseteq Bits
    /\ Buttons = 1 .. Cardinality(Buttons) /\ UserKeys \subseteq Local /\ MaxDoings \in Nat
    /\ NumGroups \in Nat \ {0} /\ Len(Layouts) \leq NumGroups
    /\ \A i \in DOMAIN Keyboard :
           /\ Keyboard[i].group \in Groups /\ Keyboard[i].button \in Nat \ {0}
           /\ Keyboard[i].required \subseteq Bits /\ Keyboard[i].sensitive \subseteq Bits
           /\ Keyboard[i].generates \in Bits \cup {NoModifier}
    /\ \A s \in Systems :
           s.repeats \in {"none", "both", "press"} /\ s.across \in BOOLEAN /\ s.syncs \in BOOLEAN
               /\ s.halfDuplex \subseteq Local

------------------------------------------------------------------------------
(* The key map.                                                                *)

locking(item) == item.generates \in Locks

addKeyEntry(table, item) ==
    LET new == [item EXCEPT !.required = @ \cap item.sensitive] IN
    IF <<new>> \in ToSet(table[item.id][item.group]) THEN table
    ELSE [table EXCEPT ![item.id][item.group] = Append(@, <<new>>)]

\* The first entry that is insensitive to the modifiers or requires them as asked.
Compatible(entry, required, sensitive) ==
    \/ Last(entry).sensitive \cap sensitive = {}
    \/ Last(entry).required \cap sensitive = required \cap sensitive
findCompatibleKey(table, id, group, required, sensitive) ==
    SelectInSeq(table[id][group], LAMBDA e : Compatible(e, required, sensitive))

getEffectiveGroup(group, offset) == (group + offset) % NumGroups

addKeyAliasEntry(table, group, alias) ==
    LET at(g) == findCompatibleKey(table, alias.source, g, alias.sourceRequired, alias.sensitive)
        usable(g) == at(g) # 0 /\ Len(table[alias.source][g][at(g)]) = 1
        order == [i \in 1 .. NumGroups |-> getEffectiveGroup(group, i - 1)]
        first == SelectInSeq(order, usable)
    IN IF findCompatibleKey(table, alias.target, group, alias.required, alias.sensitive) # 0 \/ first = 0
       THEN table
       ELSE LET g == order[first]
                item == table[alias.source][g][at(g)][1]
            IN addKeyEntry(table, [item EXCEPT !.id = alias.target, !.group = g])

addKeyCombinationEntry(table, group, combination, across) ==
    LET single(id, g) == SelectInSeq(table[id][g], LAMBDA e : Len(e) = 1)
        order == [i \in 1 .. (IF across THEN NumGroups ELSE 1) |-> getEffectiveGroup(group, i - 1)]
        first(id) == SelectInSeq(order, LAMBDA g : single(id, g) # 0)
        item(id) == LET g == order[first(id)] IN table[id][g][single(id, g)][1]
        parts == combination.keys
    IN IF table[combination.id][group] # <<>> \/ \E i \in DOMAIN parts : first(parts[i]) = 0
       THEN table
       ELSE [table EXCEPT ![combination.id][group] = <<FoldLeft(LAMBDA l, k : Append(l, item(k)), <<>>, parts)>>]

\* KeyState::updateKeyMap: the system's keys, then those that are made of them, group by group.
updateKeyMap(across) ==
    LET listed == FoldLeft(addKeyEntry, [id \in IDs |-> [g \in Groups |-> <<>>]], Keyboard)
        Each(op(_, _, _), table, list) ==
            FoldLeft(LAMBDA t, g : FoldLeft(LAMBDA u, x : op(u, g, x), t, list), table,
                     [i \in 1 .. NumGroups |-> i - 1])
        composed == Each(LAMBDA t, g, c : addKeyCombinationEntry(t, g, c, across), listed, Combinations)
    IN Each(addKeyAliasEntry, composed, Aliases)

\* The first key that generates the modifier in the group, with another button.
keyForModifier(button, group, modifier) ==
    LET fits(i) == i.group = group /\ i.generates = modifier /\ i.button # button
        n == SelectInSeq(Keyboard, fits)
    IN IF n = 0 THEN NoItem ELSE [Keyboard[n] EXCEPT !.required = @ \cap Keyboard[n].sensitive]

------------------------------------------------------------------------------
(* The keystrokes of a key.  Work in progress w: the active modifiers, the      *)
(* state, the group, the keystrokes so far, and whether all went well.          *)

Stroke(button, press, repeat) == [group |-> -1, button |-> button, press |-> press, repeat |-> repeat]
Switch(group) == [group |-> group, button |-> 0, press |-> FALSE, repeat |-> FALSE]
Types(w, strokes) == [w EXCEPT !.keys = @ \o strokes]
Click(button) == <<Stroke(button, TRUE, FALSE), Stroke(button, FALSE, FALSE)>>

On(w, item) == [w EXCEPT !.mods[item.generates] = Append(@, item), !.state = @ \cup {item.generates}]
Off(w, item) == [w EXCEPT !.mods[item.generates] = <<>>, !.state = @ \ {item.generates}]

\* addKeystrokes, one operator per kind of keystroke.
press(w, item) ==
    LET v == Types(w, <<Stroke(item.button, TRUE, FALSE)>>) IN
    IF item.generates = NoModifier THEN v
    ELSE IF locking(item) /\ item.generates \in w.state THEN Off(v, item) ELSE On(v, item)
release(w, item) ==
    LET v == Types(w, <<Stroke(item.button, FALSE, FALSE)>>)
        n == SelectInSeq(w.mods[item.generates], LAMBDA i : i.button = item.button)
        left == IF n = 0 THEN w.mods[item.generates] ELSE RemoveAt(w.mods[item.generates], n)
    IN IF left = <<>> THEN Off(v, item) ELSE [v EXCEPT !.mods[item.generates] = left]
repeat(w, item) ==
    Types(w, CASE system.repeats = "none" -> <<>>
               [] system.repeats = "both" -> <<Stroke(item.button, FALSE, TRUE), Stroke(item.button, TRUE, TRUE)>>
               [] system.repeats = "press" -> <<Stroke(item.button, TRUE, TRUE)>>)
modify(w, item) ==
    On(Types(w, IF locking(item) /\ item.button \notin system.halfDuplex THEN Click(item.button)
                ELSE <<Stroke(item.button, TRUE, FALSE)>>), item)
unmodify(w, item) ==
    LET down == w.mods[item.generates] IN
    Off(Types(w, IF ~locking(item) THEN [i \in DOMAIN down |-> Stroke(down[i].button, FALSE, FALSE)]
                 ELSE IF item.button \in system.halfDuplex THEN <<Stroke(item.button, FALSE, FALSE)>>
                 ELSE Click(item.button)), item)

\* A modifier is pressed or released when those its key depends on are as the key requires.
Toggled(w, item, on) ==
    LET affects == item.sensitive \ {item.generates} IN
    IF ~w.ok \/ w.state \cap affects # item.required \cap affects THEN [w EXCEPT !.ok = FALSE]
    ELSE IF on THEN modify(w, item) ELSE unmodify(w, item)

\* Presses or releases modifiers, from the highest, each after those it depends on.
RECURSIVE keysForModifierState(_, _, _, _, _)
keysForModifierState(button, w, required, sensitive, notRequired) ==
    LET flip == {m \in sensitive \ notRequired : (m \in w.state) # (m \in required)}
        FlipWith(v, m, item, affects) ==
            IF item = NoItem \/ \E a \in affects : Rank(a) > Rank(m) THEN [v EXCEPT !.ok = FALSE]
            ELSE Toggled(IF m \in required /\ affects # {}
                         THEN keysForModifierState(button, v, item.required, affects, notRequired)
                         ELSE v, item, m \in required)
        FlipBy(v, m, item) == FlipWith(v, m, item, item.sensitive \ {m})
        Flip(v, m) == IF v.ok THEN FlipBy(v, m, keyForModifier(button, v.group, m)) ELSE v
    IN FoldLeft(Flip, w, SelectSeq(Reverse(Modifiers), LAMBDA m : m \in flip))

getLanguageGroupID(group, lang) ==
    LET n == SelectInSeq(Layouts, LAMBDA l : l = lang) IN IF n = 0 THEN group ELSE n - 1

InGroup(w, item, g) == IF w.group = item.group THEN w ELSE Types([w EXCEPT !.group = g], <<Switch(g)>>)
Requiring(w, item, sensitive) == keysForModifierState(item.button, w, item.required, sensitive, {})
\* The modifiers the item is not sensitive to are matched to the server's.
Matching(w, item, desired, sensitive) ==
    IF w.ok THEN keysForModifierState(item.button, w, desired, Bits \ (sensitive \cup {item.generates}), NotRequired)
    ELSE w
Typing(w, item, isAutoRepeat) ==
    IF ~w.ok THEN w
    ELSE IF item.id \in Dead THEN Types(w, Click(item.button))
    ELSE IF isAutoRepeat THEN repeat(w, item) ELSE press(w, item)

keysForKeyItem(w, item, desired, override, isAutoRepeat, lang) ==
    LET v == InGroup(w, item, getLanguageGroupID(item.group, lang))
        sensitive == item.sensitive \ override
    IN Typing(IF item.id \in Dead THEN Requiring(v, item, item.sensitive)
              ELSE Matching(Requiring(v, item, sensitive), item, desired, sensitive),
              item, isAutoRepeat)

Listed(mods) == FoldLeft(LAMBDA l, m : l \o mods[m], <<>>, SelectSeq(Modifiers, LAMBDA m : mods[m] # <<>>))
ButtonsOf(mods) == UNION {{mods[m][i].button : i \in DOMAIN mods[m]} : m \in Bits}

keysToRestoreModifiers(w, item, desired) ==
    LET old == w.mods
        Undo(v, i) == IF i.button \in ButtonsOf(desired) \cup {item.button} THEN v
                      ELSE IF locking(i) THEN unmodify(v, i) ELSE release(v, i)
        Redo(v, i) == IF i.button \in ButtonsOf(old) \cup {item.button} THEN v
                      ELSE IF locking(i) THEN modify(v, i) ELSE press(v, i)
    IN FoldLeft(Redo, FoldLeft(Undo, w, Listed(old)), Listed(desired))

\* The exact entry, or else the first of those with the fewest modifiers to change.
findBestKey(entries, desired) ==
    LET exact(e) == Last(e).required \subseteq desired
                    /\ Last(e).required = Last(e).sensitive \cap desired
        changes(e) == Cardinality({m \in Last(e).sensitive : (m \in Last(e).required) # (m \in desired)})
        n == SelectInSeq(entries, exact)
    IN IF n # 0 THEN n
       ELSE SelectInSeq(entries, LAMBDA e : \A i \in DOMAIN entries : changes(e) \leq changes(entries[i]))

Offsets(group) == [i \in 1 .. NumGroups |-> getEffectiveGroup(group, i - 1)]

\* A list of items that types the id: the best entry of the first group that has one.
getKeyItemList(id, group, desired) ==
    LET order == Offsets(group)
        n == SelectInSeq(order, LAMBDA g : keyMap[id][g] # <<>>)
    IN IF n = 0 THEN <<>> ELSE keyMap[id][order[n]][findBestKey(keyMap[id][order[n]], desired)]

\* For a command the right button matters, not the character.
CommandItem(id, group, desired) ==
    LET shift == desired \cap {"shift"}
        fits(e) == /\ Len(e) = 1
                   /\ e[1].required \cap shift = e[1].sensitive \cap shift
                   /\ e[1].required \ {"shift"} \subseteq desired
        order == Offsets(group)
        at(g) == SelectInSeq(keyMap[id][g], fits)
        n == SelectInSeq(order, LAMBDA g : at(g) # 0)
    IN IF n = 0 THEN <<>> ELSE keyMap[id][order[n]][at(order[n])]

isModifier(id) == \E i \in DOMAIN Keyboard : Keyboard[i].id = id /\ Keyboard[i].generates # NoModifier
isCommand(input) == input.mask \cap Commands # {} /\ ~isModifier(input.id)

\* mapCommandKey and mapCharacterKey: the result is w.item, NoItem if there is none.
MappedTo(w, list, desired, override, isAutoRepeat, lang) ==
    LET Add(v, i) == IF v.ok THEN keysForKeyItem(v, i, desired, override, isAutoRepeat, lang) ELSE v
        Finish(v) == IF ~v.ok THEN w
                     ELSE [keysToRestoreModifiers(v, Last(list), w.mods) EXCEPT !.item = Last(list)]
    IN IF list = <<>> THEN w ELSE Finish(FoldLeft(Add, w, list))
Mapped(w, input, isAutoRepeat) ==
    IF isCommand(input)
    THEN MappedTo(w, CommandItem(input.id, w.group, input.mask),
             (input.mask \ {"capsLock"}) \cup (w.state \cap {"capsLock"}), Bits, isAutoRepeat, input.lang)
    ELSE MappedTo(w, getKeyItemList(input.id, getLanguageGroupID(w.group, input.lang), input.mask),
             input.mask, {}, isAutoRepeat, input.lang)

\* mapKey: setting modifiers works on the record itself, and has a button of its own.
mapKey(w, input, isAutoRepeat) ==
    IF input.id \in {SetModifiers, ClearModifiers}
    THEN LET required == IF input.id = SetModifiers THEN input.mask ELSE w.state \ input.mask
             Finish(v) == [v EXCEPT !.item = IF v.ok THEN [button |-> 0, id |-> input.id] ELSE NoItem]
         IN Finish(keysForModifierState(0, w, required, input.mask, {}))
    ELSE Mapped(w, input, isAutoRepeat)
------------------------------------------------------------------------------
(* The system.                                                                 *)

Up == "up"
modifiersOf(o) == ({o.down[b] : b \in Local} \cap Bits) \cup o.locks
\* What the key types now, as the system sees it: an item of the keyboard, or none.
SeenAs(o, button) ==
    LET n == SelectInSeq(Keyboard, LAMBDA i : /\ i.button = button /\ i.group = o.group
                                              /\ i.required = modifiersOf(o) \cap i.sensitive)
    IN IF n = 0 THEN [button |-> button, id |-> "nothing", generates |-> NoModifier] ELSE Keyboard[n]

\* A press types something; a repeated press types it again.  A half-duplex key is down while
\* its lock is on.
Pressed(o, button) ==
    LET item == SeenAs(o, button) IN
    IF button \in system.halfDuplex THEN [o EXCEPT !.locks = @ \cup {item.generates}]
    ELSE [o EXCEPT
        !.down[button] = IF @ # Up THEN @ ELSE IF item.generates = NoModifier THEN "plain" ELSE item.generates,
        !.locks = IF o.down[button] = Up /\ locking(item) THEN SymDiff(@, {item.generates}) ELSE @,
        !.seen = IF item.generates = NoModifier
                 THEN Append(@, [id |-> item.id, button |-> button, mods |-> modifiersOf(o)])
                 ELSE @]
Released(o, button) ==
    IF button \in system.halfDuplex THEN [o EXCEPT !.locks = @ \ {SeenAs(o, button).generates}]
    ELSE [o EXCEPT !.down[button] = Up]

\* fakeKey: groups are set if the languages are kept in step.
fakeKey(o, stroke) ==
    IF stroke.group >= 0 THEN (IF system.syncs THEN [o EXCEPT !.group = stroke.group] ELSE o)
    ELSE IF stroke.press THEN Pressed(o, stroke.button)
    ELSE IF stroke.repeat THEN o
    ELSE Released(o, stroke.button)
fakeKeys(strokes) == FoldLeft(fakeKey, [os EXCEPT !.seen = <<>>], strokes)

------------------------------------------------------------------------------
(* The client's keyboard (KeyState).                                            *)

NoModifiers == [m \in Bits |-> <<>>]
NothingDown == [b \in Local |-> 0]
Nothing == [asked |-> "nothing", command |-> FALSE, mask |-> {}, lang |-> "none", group |-> 0,
            before |-> {}, listed |-> {}]

TypeOK ==
    /\ system \in Systems \cup {NoSystem}
    /\ os.down \in [Local -> Bits \cup {Up, "plain"}] /\ os.locks \subseteq Locks /\ os.group \in Groups
    /\ \A m \in Bits : \A i \in DOMAIN activeModifiers[m] : activeModifiers[m][i].generates = m
    /\ mask \subseteq Bits
    /\ keys \in [Local -> Int] /\ syntheticKeys \in [Local -> Int]
    /\ serverKeys \in [Buttons -> Local \cup {0}]
    /\ userHeld \subseteq Local /\ cases \subseteq Cases

Init ==
    /\ keyMap = [id \in IDs |-> [g \in Groups |-> <<>>]] /\ system = NoSystem
    /\ os = [down |-> [b \in Local |-> Up], locks |-> {}, group |-> 0, seen |-> <<>>]
    /\ activeModifiers = NoModifiers /\ mask = {}
    /\ keys = NothingDown /\ syntheticKeys = NothingDown /\ serverKeys = [sb \in Buttons |-> 0]
    /\ typed = Nothing /\ userHeld = {} /\ cases = {} /\ doings = 0

Work == [mods |-> activeModifiers, state |-> mask, group |-> os.group, keys |-> <<>>,
         item |-> NoItem, ok |-> TRUE]

\* updateModifierKeyState
Noted(counts, button, new) ==
    LET was == ButtonsOf(activeModifiers)
        is == ButtonsOf(new)
    IN [b \in Local |-> IF b = button THEN counts[b]
                        ELSE IF b \in was \ is THEN 0
                        ELSE IF b \in is \ was THEN 1
                        ELSE counts[b]]

OneMore(counts, button) == IF button = 0 THEN counts ELSE [counts EXCEPT ![button] = @ + 1]

\* updateKeyState: every key that generates a modifier that is on counts as active.
updateKeyState(o) ==
    /\ keys' = [b \in Local |-> IF o.down[b] = Up THEN 0 ELSE 1]
    /\ syntheticKeys' = NothingDown /\ serverKeys' = [sb \in Buttons |-> 0]
    /\ mask' = modifiersOf(o)
    /\ activeModifiers' = [m \in Bits |->
           IF m \in modifiersOf(o)
           THEN SelectSeq(Keyboard, LAMBDA i : i.group = o.group /\ i.generates = m) ELSE <<>>]

\* Screen::enable: whatever locks are on.
Enable(s, locks) ==
    /\ system = NoSystem
    /\ system' = s /\ keyMap' = updateKeyMap(s.across) /\ os' = [os EXCEPT !.locks = locks]
    /\ updateKeyState([os EXCEPT !.locks = locks])
    /\ UNCHANGED <<typed, userHeld, cases, doings>>

Server == /\ system # NoSystem /\ doings < MaxDoings /\ doings' = doings + 1
          /\ UNCHANGED <<keyMap, system, userHeld>>

Asked(input) ==
    [asked |-> input.id, command |-> isCommand(input), mask |-> input.mask, lang |-> input.lang,
     group |-> os.group, before |-> modifiersOf(os),
     listed |-> {m \in Bits : activeModifiers[m] # <<>>}]

\* The server's modifiers include those whose keys it has sent.
Sent(input) ==
    LET held == {m \in Bits : \E i \in DOMAIN activeModifiers[m], sb \in Buttons :
                     activeModifiers[m][i].button = serverKeys[sb]}
    IN IF input.id \in {SetModifiers, ClearModifiers} THEN input ELSE [input EXCEPT !.mask = @ \cup held]

\* The toggles are never sent on.
isIgnoredKey(id) == \E i \in DOMAIN Keyboard : Keyboard[i].id = id /\ locking(Keyboard[i])

\* A server key whose button was pressed by it, and is let go by the modifiers of another.
Clears(new) == \E sb \in Buttons : serverKeys[sb] \in ButtonsOf(activeModifiers) \ ButtonsOf(new)
CasesOf(local, new) ==
    (IF local = 0 THEN {} ELSE IF keys[local] # 0 THEN {"shared"} ELSE {})
    \cup (IF Clears(new) THEN {"cleared"} ELSE {})

\* The server's buttons are interchangeable: the next key uses the lowest that is up.
FirstFree == SelectInSeq([sb \in 1 .. Cardinality(Buttons) |-> serverKeys[sb]], LAMBDA b : b = 0)

DownAs(w, local, input, sb) ==
    LET More(counts) == OneMore(Noted(counts, local, w.mods), local) IN
    /\ activeModifiers' = w.mods /\ mask' = w.state
    /\ IF w.item = NoItem
       THEN /\ cases' = cases \cup (IF w.keys = <<>> THEN {} ELSE {"halfDone"})
            /\ UNCHANGED <<os, keys, syntheticKeys, serverKeys, typed>>
       ELSE /\ keys' = More(keys) /\ syntheticKeys' = More(syntheticKeys)
            /\ serverKeys' = [serverKeys EXCEPT ![sb] = local]
            /\ os' = fakeKeys(w.keys) /\ typed' = Asked(input)
            /\ cases' = cases \cup CasesOf(local, w.mods)
fakeKeyDown(input, sb) ==
    /\ Server /\ sb = FirstFree
    /\ LET Down(w) == DownAs(w, w.item.button, input, sb) IN
       IF isIgnoredKey(input.id)
       THEN UNCHANGED <<os, activeModifiers, mask, keys, syntheticKeys, serverKeys, typed, cases>>
       ELSE Down(mapKey(Work, input, FALSE))

\* A repeat that leads to another button: the old one counts as up, and the first keystroke
\* of the new one goes to it instead.  A press of a button that is down is taken for a repeat.
RepeatAs(w, local, old, sb) ==
    LET n == SelectInSeq(w.keys, LAMBDA k : k.button = local)
        Less(counts) == [counts EXCEPT ![old] = @ - 1]
        More(counts) == OneMore(Noted(Less(counts), local, w.mods), local)
    IN /\ activeModifiers' = w.mods /\ mask' = w.state
       /\ typed' = Nothing
       /\ IF local = 0
          THEN /\ cases' = cases \cup (IF w.keys = <<>> THEN {} ELSE {"halfDone"})
               /\ UNCHANGED <<os, keys, syntheticKeys, serverKeys>>
          ELSE /\ os' = fakeKeys(IF local = old \/ n = 0 THEN w.keys
                                 ELSE [w.keys EXCEPT ![n].button = old])
               /\ IF local = old THEN UNCHANGED <<keys, syntheticKeys, serverKeys, cases>>
                  ELSE /\ keys' = More(keys) /\ syntheticKeys' = More(syntheticKeys)
                       /\ serverKeys' = [serverKeys EXCEPT ![sb] = local]
                       /\ cases' = cases \cup {"swapped"} \cup CasesOf(local, w.mods)
fakeKeyRepeat(input, sb) ==
    /\ Server /\ serverKeys[sb] # 0
    /\ LET Again(w) == RepeatAs(w, w.item.button, serverKeys[sb], sb) IN
       Again(mapKey(Work, input, TRUE))

fakeKeyUp(sb) ==
    LET local == serverKeys[sb]
        left(m) == SelectSeq(activeModifiers[m], LAMBDA i : i.button # local \/ locking(i))
    IN
    /\ Server /\ local # 0
    /\ keys' = [keys EXCEPT ![local] = @ - 1] /\ syntheticKeys' = [syntheticKeys EXCEPT ![local] = @ - 1]
    /\ serverKeys' = [serverKeys EXCEPT ![sb] = 0]
    /\ activeModifiers' = [m \in Bits |-> left(m)]
    /\ mask' = mask \ {m \in Bits : activeModifiers[m] # <<>> /\ left(m) = <<>>}
    /\ os' = fakeKeys(<<Stroke(local, FALSE, FALSE)>>)
    /\ typed' = Nothing /\ UNCHANGED cases

\* fakeAllKeysUp, when the screen is left.
AllUp ==
    LET down == SetToSeq({b \in Local : syntheticKeys[b] > 0}) IN
    fakeKeys([i \in DOMAIN down |-> Stroke(down[i], FALSE, FALSE)])
fakeAllKeysUp ==
    /\ Server
    /\ keys' = [b \in Local |-> IF syntheticKeys[b] > 0 THEN 0 ELSE keys[b]]
    /\ syntheticKeys' = NothingDown /\ serverKeys' = [sb \in Buttons |-> 0]
    /\ os' = AllUp /\ activeModifiers' = NoModifiers /\ mask' = modifiersOf(AllUp)
    /\ typed' = Nothing /\ cases' = cases \ {"shared"}

\* The system says that its keyboard changed, and it is read again: here it lists the same keys.
refreshKeyboard ==
    /\ Server
    /\ os' = AllUp /\ updateKeyState(AllUp)
    /\ typed' = Nothing /\ cases' = cases \ {"shared"}

\* The user at the client holds a key and lets it go.
UserHolds(button) ==
    /\ system # NoSystem /\ doings < MaxDoings /\ doings' = doings + 1
    /\ userHeld = {} /\ os.down[button] = Up
    /\ os' = [Pressed(os, button) EXCEPT !.seen = <<>>]
    /\ userHeld' = {button} /\ cases' = cases \cup {"user"} /\ typed' = Nothing
    /\ UNCHANGED <<keyMap, system, activeModifiers, mask, keys, syntheticKeys, serverKeys>>

Next ==
    \/ \E s \in Systems, l \in SUBSET Locks : Enable(s, l)
    \/ \E i \in Inputs, sb \in Buttons : fakeKeyDown(Sent(i), sb) \/ fakeKeyRepeat(Sent(i), sb)
    \/ \E sb \in Buttons : fakeKeyUp(sb)
    \/ fakeAllKeysUp \/ refreshKeyboard
    \/ \E b \in UserKeys : UserHolds(b)

Spec == Init /\ [][Next]_vars

------------------------------------------------------------------------------
(* Properties.                                                                 *)

\* What the client pressed it knows of, and so lets go when the pointer leaves
\* (KeyState::fakeAllKeysUp).
DownIsKnown == cases \subseteq {"shared"} =>
    \A b \in Local : os.down[b] # Up => syntheticKeys[b] > 0

\* What counts as down is down, unless two server keys lead to one button: the first to be
\* let go takes it up (KeyState::fakeKeyUp).
KnownIsDown == cases = {} =>
    /\ \A b \in Local \ system.halfDuplex : keys[b] > 0 => os.down[b] # Up
    /\ \A sb \in Buttons : serverKeys[sb] # 0 => keys[serverKeys[sb]] > 0

\* The modifiers the client takes for active are those of the system.
MaskIsTrue == cases = {} => mask = modifiersOf(os)

IsKey == cases = {} /\ typed.asked \notin {"nothing", SetModifiers, ClearModifiers} /\ ~isModifier(typed.asked)

\* A character types itself and nothing else, with the dead keys before it.
PartsOf(id) ==
    LET n == SelectInSeq(Combinations, LAMBDA c : c.id = id) IN
    IF n = 0 THEN <<id>> ELSE Combinations[n].keys
StandsFor(seen, id) == seen = id \/ \E i \in DOMAIN Aliases : Aliases[i].target = id /\ Aliases[i].source = seen
\* The key is in the active group; or groups can be set, and the key is in that of the language,
\* which is the one that is set whatever group the key was found in.
InReach(items) ==
    \/ \A i \in DOMAIN items : items[i].group = typed.group
    \/ system.syncs /\ \A i \in DOMAIN items : getLanguageGroupID(items[i].group, typed.lang) = items[i].group
ItemsFor == getKeyItemList(typed.asked, getLanguageGroupID(typed.group, typed.lang), typed.mask)
TypedAsAsked == IsKey /\ ~typed.command /\ InReach(ItemsFor) =>
    /\ Len(os.seen) = Len(PartsOf(typed.asked))
    /\ \A i \in DOMAIN os.seen : StandsFor(os.seen[i].id, PartsOf(typed.asked)[i])

\* A command presses a button of its key, with the server's modifiers.
CommandAsAsked == IsKey /\ typed.command =>
    /\ Len(os.seen) = 1
    /\ \E i \in DOMAIN Keyboard : Keyboard[i].id = typed.asked /\ Keyboard[i].button = os.seen[1].button
    /\ SymDiff(os.seen[1].mods, typed.mask) \subseteq NotRequired \cup {"capsLock"}

\* The modifiers are as before the key (KeyMap::keysToRestoreModifiers), but for a lock the
\* client does not know to be on, as after the screen was left: it may be turned off for good.
Restored == IsKey /\ typed.before = typed.listed => modifiersOf(os) = typed.before
=============================================================================
