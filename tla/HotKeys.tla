------------------------------ MODULE HotKeys ------------------------------
(***************************************************************************)
(* The keyboard rules of the configuration (InputFilter, owned by the        *)
(* Config that every server of the program shares) and the hot keys that the *)
(* host's screen registers for them (MSWindowsScreen).  A rule knows its hot *)
(* key by an id; the event of a hot key carries the id alone, and waits in   *)
(* the event queue while the configuration may be replaced.                  *)
(***************************************************************************)
EXTENDS Integers, Sequences, FiniteSets, SequencesExt, Functions

CONSTANTS
    Keys, NoKey,      \* keys that are not modifiers, and kKeyNone
    Modifiers,        \* modifier keys
    ScrollLock,       \* the hot key every server adds
    Configs,          \* what the file may hold: the rules' hot keys, whether one of them locks
                      \* the screen, whether the host is among the screens
    FirstConfig,      \* what it holds when the program starts
    MaxReloads, MaxStrokes, MaxQueue, MaxStarts

\* A hot key: a key and the modifiers held with it (HotKeyItem).
HotKeyItem == (Keys \cup {NoKey}) \X SUBSET Modifiers

HotKeysAssumption ==
    /\ NoKey \notin Keys /\ ScrollLock \in Keys \X {{}}
    /\ Configs \subseteq [rules : Seq(HotKeyItem \ {<<NoKey, {}>>}), locks : BOOLEAN, host : BOOLEAN]
    /\ FirstConfig \in Configs /\ FirstConfig.host
    /\ {MaxReloads, MaxStrokes, MaxQueue, MaxStarts} \subseteq Nat

VARIABLES
    ruleList,    \* the rules: hot key and id, 0 when it is not registered
    serving,     \* a server is there, so that the filter has its primary client
    hotKeys, hotKeyToIDMap, oldHotKeyIDs,   \* m_hotKeys, m_hotKeyToIDMap, m_oldHotKeyIDs
    foreign,     \* hot keys that another program registered with the system
    config,      \* the configuration that was read last
    heldKeys,    \* the keys that are down, with the modifiers they went down with
    modifiers,   \* the modifiers that are down
    hotkeyQueue, \* events PrimaryScreenHotkeyDown and PrimaryScreenHotkeyUp
    engaged,     \* hot keys whose rule was activated and not deactivated
    \* Named cases.
    replaced,    \* configurations read so far: older events may fire any rule
    loose,       \* hot keys whose release is never seen as theirs
    misfired, unpaired,
    strokes, starts

tableVars == <<hotKeys, hotKeyToIDMap, oldHotKeyIDs>>
userVars == <<heldKeys, modifiers, strokes>>
caseVars == <<misfired, unpaired>>
vars == <<ruleList, serving, tableVars, foreign, config, userVars, hotkeyQueue, engaged, replaced,
    loose, caseVars, starts>>

------------------------------------------------------------------------------
(* The hot keys of the screen.  The tables go from operator to operator.       *)

NoTables == [keys |-> <<>>, ids |-> <<>>, old |-> <<>>]
Tables == [keys |-> hotKeys, ids |-> hotKeyToIDMap, old |-> oldHotKeyIDs]
Without(f, x) == Restrict(f, DOMAIN f \ {x})

\* RegisterHotKey fails for what any program has registered; hot keys of modifiers alone are
\* not registered with the system.
refused(t, item) ==
    IF item[1] = NoKey THEN item \in DOMAIN t.ids
    ELSE item \in foreign \cup Range(t.keys)

chosenID(t) == IF t.old # <<>> THEN Last(t.old) ELSE Cardinality(DOMAIN t.keys) + 1
leftOver(t) == IF t.old # <<>> THEN Front(t.old) ELSE <<>>

\* The id of the hot key, 0 when it was refused, and the tables after it.
registerHotKey(t, item) ==
    LET id == chosenID(t) IN
    IF refused(t, item)
    THEN [id |-> 0, tables |-> [t EXCEPT !.old = Append(leftOver(t), id)]]
    ELSE [id |-> id,
          tables |-> [keys |-> t.keys @@ (id :> item), ids |-> (item :> id) @@ t.ids, old |-> leftOver(t)]]

unregisterHotKey(t, id) ==
    IF id \notin DOMAIN t.keys THEN t
    ELSE [keys |-> Without(t.keys, id), ids |-> Without(t.ids, t.keys[id]), old |-> Append(t.old, id)]

------------------------------------------------------------------------------
(* The rules.                                                                  *)

\* Rule::enable and Rule::disable for every rule, in their order.
enabled(t, rs) ==
    FoldLeft(LAMBDA a, r : LET n == registerHotKey(a.tables, r.item)
                           IN [tables |-> n.tables, rules |-> Append(a.rules, [r EXCEPT !.id = n.id])],
             [tables |-> t, rules |-> <<>>], rs)
disabled(t, rs) == FoldLeft(LAMBDA a, r : unregisterHotKey(a, r.id), t, rs)

\* A condition that is cloned has no id (KeystrokeCondition::clone).
clone(items) == [i \in DOMAIN items |-> [item |-> items[i], id |-> 0]]

\* InputFilter::operator=: the hot keys of the old rules are given back first.
assigned(rs) ==
    IF serving THEN enabled(disabled(Tables, ruleList), rs) ELSE [tables |-> Tables, rules |-> rs]

\* Server::setConfig: the lock by Scroll Lock, unless the configuration has a rule for it.
\* The rule is added again by every server, since the rules outlive it.
locked(a, c, here) ==
    IF c.locks \/ ~c.host THEN a
    ELSE LET rule == [item |-> ScrollLock, id |-> 0] IN
         IF ~here THEN [a EXCEPT !.rules = Append(a.rules, rule)]
         ELSE LET n == registerHotKey(a.tables, ScrollLock)
              IN [tables |-> n.tables, rules |-> Append(a.rules, [rule EXCEPT !.id = n.id])]

Adopt(a) ==
    /\ ruleList' = a.rules
    /\ hotKeys' = a.tables.keys /\ hotKeyToIDMap' = a.tables.ids /\ oldHotKeyIDs' = a.tables.old

Init ==
    /\ config = FirstConfig
    /\ ruleList = clone(config.rules) /\ serving = FALSE
    /\ hotKeys = <<>> /\ hotKeyToIDMap = <<>> /\ oldHotKeyIDs = <<>>
    /\ foreign = {}
    /\ heldKeys = <<>> /\ modifiers = {} /\ hotkeyQueue = <<>>
    /\ engaged = {} /\ replaced = 0 /\ loose = {} /\ misfired = FALSE /\ unpaired = FALSE
    /\ strokes = 0 /\ starts = 0

\* Server::Server: setConfig before the filter is given the primary client.
Start ==
    /\ ~serving /\ starts < MaxStarts /\ config.host
    /\ LET a == locked([tables |-> NoTables, rules |-> ruleList], config, FALSE)
       IN Adopt(enabled(NoTables, a.rules))
    /\ serving' = TRUE /\ starts' = starts + 1
    /\ loose' = loose \cup {<<k, heldKeys[k]>> : k \in DOMAIN heldKeys}
    /\ UNCHANGED <<foreign, config, userVars, hotkeyQueue, engaged, replaced, caseVars>>

\* Server::~Server; the screen goes with it, and the events of a screen that is gone have no
\* handler.
Stop ==
    /\ serving
    /\ ruleList' = [i \in DOMAIN ruleList |-> [ruleList[i] EXCEPT !.id = 0]]
    /\ serving' = FALSE
    /\ hotKeys' = <<>> /\ hotKeyToIDMap' = <<>> /\ oldHotKeyIDs' = <<>>
    /\ hotkeyQueue' = <<>>
    /\ loose' = loose \cup engaged
    /\ UNCHANGED <<foreign, config, userVars, engaged, replaced, caseVars, starts>>

\* ServerApp::reloadConfig: the rules are replaced as the file is read, before the server
\* looks whether the host is among the screens.
reloadConfig(c) ==
    /\ replaced < MaxReloads
    /\ config' = c /\ replaced' = replaced + 1
    /\ Adopt(LET a == assigned(clone(c.rules))
             IN IF serving THEN locked(a, c, TRUE) ELSE a)
    /\ loose' = loose \cup engaged \cup {hotkeyQueue[i].item : i \in DOMAIN hotkeyQueue}
                    \cup {<<k, heldKeys[k]>> : k \in DOMAIN heldKeys}
    /\ UNCHANGED <<serving, foreign, userVars, hotkeyQueue, engaged, caseVars, starts>>

------------------------------------------------------------------------------
(* Keys (MSWindowsScreen::onKey, onHotKey).                                    *)

mayStroke == strokes < MaxStrokes /\ Len(hotkeyQueue) < MaxQueue

\* onHotKey: the id is looked up as the key is handled.
onHotKey(item, down) ==
    hotkeyQueue' =
        IF serving /\ item \in DOMAIN hotKeyToIDMap
        THEN Append(hotkeyQueue, [id |-> hotKeyToIDMap[item], down |-> down, item |-> item,
                                  born |-> replaced])
        ELSE hotkeyQueue

pressKey(k) ==
    /\ mayStroke /\ k \notin DOMAIN heldKeys
    /\ heldKeys' = heldKeys @@ (k :> modifiers)
    /\ strokes' = strokes + 1
    /\ onHotKey(<<k, modifiers>>, TRUE)
    /\ UNCHANGED <<ruleList, serving, tableVars, foreign, config, modifiers, engaged, replaced,
                   loose, caseVars, starts>>

\* The release is looked up with the modifiers of its own time.
releaseKey(k) ==
    /\ k \in DOMAIN heldKeys /\ Len(hotkeyQueue) < MaxQueue
    /\ heldKeys' = Without(heldKeys, k)
    /\ onHotKey(<<k, modifiers>>, FALSE)
    /\ loose' = IF modifiers = heldKeys[k] THEN loose
                ELSE loose \cup {<<k, heldKeys[k]>>, <<k, modifiers>>}
    /\ UNCHANGED <<ruleList, serving, tableVars, foreign, config, modifiers, strokes, engaged,
                   replaced, caseVars, starts>>

\* The modifiers are looked up as they are after the key: a hot key of modifiers alone is
\* never released as such.
pressModifier(m) ==
    /\ mayStroke /\ m \notin modifiers
    /\ modifiers' = modifiers \cup {m} /\ strokes' = strokes + 1
    /\ onHotKey(<<NoKey, modifiers'>>, TRUE)
    /\ loose' = loose \cup {<<NoKey, modifiers'>>}
    /\ UNCHANGED <<ruleList, serving, tableVars, foreign, config, heldKeys, engaged, replaced,
                   caseVars, starts>>

releaseModifier(m) ==
    /\ m \in modifiers /\ Len(hotkeyQueue) < MaxQueue
    /\ modifiers' = modifiers \ {m}
    /\ onHotKey(<<NoKey, modifiers'>>, FALSE)
    /\ UNCHANGED <<ruleList, serving, tableVars, foreign, config, heldKeys, strokes, engaged,
                   replaced, loose, caseVars, starts>>

\* Another program registers a hot key, or gives it back.
otherProgram(item) ==
    /\ strokes < MaxStrokes /\ strokes' = strokes + 1
    /\ \/ /\ item \notin foreign \cup Range(hotKeys)
          /\ foreign' = foreign \cup {item}
       \/ /\ item \in foreign
          /\ foreign' = foreign \ {item}
    /\ UNCHANGED <<ruleList, serving, tableVars, config, heldKeys, modifiers, hotkeyQueue, engaged,
                   replaced, loose, caseVars, starts>>

\* KeystrokeCondition::match: by the id alone.
match(rule, e) == rule.id = e.id

\* InputFilter::handleEvent: the first rule that matches takes the event; an event that no
\* rule matches goes to the server, which has no use for it.
handleEvent ==
    /\ hotkeyQueue # <<>>
    /\ LET e == Head(hotkeyQueue)
           matching == {i \in DOMAIN ruleList : match(ruleList[i], e)}
           first == CHOOSE i \in matching : \A j \in matching : i <= j
           current == e.born = replaced
       IN IF matching = {}
          THEN /\ misfired' = (misfired \/ current)
               /\ UNCHANGED <<engaged, loose, unpaired>>
          ELSE LET item == ruleList[first].item IN
               /\ misfired' = (misfired \/ (current /\ item # e.item))
               /\ engaged' = IF e.down THEN engaged \cup {item} ELSE engaged \ {item}
               /\ loose' = IF current THEN loose ELSE loose \cup {item}
               /\ unpaired' = (unpaired \/ (~e.down /\ item \notin engaged \cup loose'))
    /\ hotkeyQueue' = Tail(hotkeyQueue)
    /\ UNCHANGED <<ruleList, serving, tableVars, foreign, config, userVars, replaced, starts>>

Next ==
    \/ Start \/ Stop \/ handleEvent
    \/ \E c \in Configs : reloadConfig(c)
    \/ \E k \in Keys : pressKey(k) \/ releaseKey(k)
    \/ \E m \in Modifiers : pressModifier(m) \/ releaseModifier(m)
    \/ otherProgram(ScrollLock)

Spec == Init /\ [][Next]_vars

------------------------------------------------------------------------------
(* Properties.                                                                 *)

TypeOK ==
    /\ Range(ruleList) \subseteq [item : HotKeyItem, id : Nat]
    /\ serving \in BOOLEAN /\ misfired \in BOOLEAN /\ unpaired \in BOOLEAN
    /\ DOMAIN hotKeys \subseteq Nat \ {0} /\ Range(hotKeys) \subseteq HotKeyItem
    /\ DOMAIN hotKeyToIDMap \subseteq HotKeyItem
    /\ foreign \subseteq HotKeyItem /\ modifiers \subseteq Modifiers /\ DOMAIN heldKeys \subseteq Keys
    /\ engaged \subseteq HotKeyItem /\ loose \subseteq HotKeyItem
    /\ replaced \in 0..MaxReloads /\ strokes \in 0..MaxStrokes /\ starts \in 0..MaxStarts

\* The two tables are inverse to each other, no id is both used and to be used again, and the
\* ids have no gaps, so that one more than their number is free (MSWindowsScreen::registerHotKey).
TablesAgree ==
    /\ \A i \in DOMAIN hotKeys : hotKeys[i] \in DOMAIN hotKeyToIDMap /\ hotKeyToIDMap[hotKeys[i]] = i
    /\ Range(hotKeyToIDMap) = DOMAIN hotKeys
    /\ IsInjective(oldHotKeyIDs) /\ DOMAIN hotKeys \cap Range(oldHotKeyIDs) = {}
    /\ DOMAIN hotKeys \cup Range(oldHotKeyIDs) = 1..(Cardinality(DOMAIN hotKeys) + Len(oldHotKeyIDs))

\* Every registered hot key has a rule that waits for it, and no hot key stays registered
\* without a server (InputFilter::setPrimaryClient, InputFilter::operator=).
RegisteredHasRule ==
    /\ \A i \in DOMAIN hotKeys : \E r \in DOMAIN ruleList :
           ruleList[r].id = i /\ ruleList[r].item = hotKeys[i]
    /\ \A r \in DOMAIN ruleList : ruleList[r].id # 0 => ruleList[r].id \in DOMAIN hotKeys
    /\ ~serving => hotKeys = <<>>

\* A hot key fires the rule that names it, unless the configuration was replaced while its
\* event waited: the ids are then given out in another order.
FiresItsRule == ~misfired

\* Once all keys are up every rule that was activated has been deactivated, but for hot keys
\* whose modifiers changed while they were held, that are modifiers alone, or whose
\* configuration or server went meanwhile.
AllDisengaged == heldKeys = <<>> /\ hotkeyQueue = <<>> => engaged \subseteq loose

\* No rule is deactivated that was not active, with the same exceptions.
DeactivatedWasActive == ~unpaired
=============================================================================
