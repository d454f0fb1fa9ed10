------------------------------ MODULE ConfigFile ------------------------------
(***************************************************************************)
(* The server's configuration file: how it is read (lib/server/Config.cpp), *)
(* and how the server itself rewrites sections of it when a new client is    *)
(* given a place and when an arrangement is asked for (adoptClient and       *)
(* applyLayout, lib/server/Server.cpp), while a user may edit it as well.    *)
(* A file is a sequence of sections, a section a sequence of lines.  A       *)
(* position on an edge is a number of thousandths.                           *)
(***************************************************************************)
EXTENDS Integers, Sequences, FiniteSets, SequencesExt, Functions, TLC

CONSTANTS
    Order,          \* the names, in the order in which a map of screens holds them
    Host, NoName,
    AliasesOf,      \* per name: its aliases, from the settings
    FirstFile,      \* what the program writes if there is no file
    Edited,         \* what the user may write
    Arrangements,   \* the lanes that may be asked for: per direction the names outward from the host
    MaxEdits, MaxSaves

Names == Range(Order)
Direction == {"left", "right", "up", "down"}
Opposite == [left |-> "right", right |-> "left", up |-> "down", down |-> "up"]
Whole == <<0, 1000>>
\* Two options stand for all that a screen may have.
ScreenOptions == {"switchCorners", "halfDuplexCapsLock"}

\* What the constants may be.
ConfigFileAssumption ==
    /\ Order \in Seq(Names) /\ Cardinality(Names) = Len(Order)
    /\ Host \in Names /\ NoName \notin Names
    /\ AliasesOf \in [Names -> SUBSET Names]
    /\ {MaxEdits, MaxSaves} \subseteq Nat
    /\ \A a \in Arrangements : a \in [Direction -> Seq(Names)]

VARIABLES
    file,
    live,           \* m_config of the server that runs, or that of none
    running,
    edits, saves,
    lastSave,       \* what the last rewriting of the file had before it
    strayed         \* named case: a client was given a place next to a screen of the file that is
                    \* not one of the live configuration

vars == <<file, live, running, edits, saves, lastSave, strayed>>

------------------------------------------------------------------------------
(* A configuration.                                                            *)

Empty == [ok |-> TRUE, names |-> <<>>, screens |-> {}, options |-> {}, links |-> {}, rules |-> <<>>,
          general |-> FALSE, hasLockToScreenAction |-> FALSE, here |-> NoName]

\* A ServerConfigReadException, or FALSE from an operation.
refused(c) == [c EXCEPT !.ok = FALSE]

getCanonicalName(c, n) == IF n \in DOMAIN c.names THEN c.names[n] ELSE NoName

\* An alias does not replace a name that is there.
addScreen(c, n) ==
    IF n \in DOMAIN c.names THEN refused(c)
    ELSE [c EXCEPT !.screens = @ \cup {n},
                   !.names = (@ @@ n :> n) @@ [a \in AliasesOf[n] |-> n]]

\* The first value of an option counts.
addOption(c, n, option, value) ==
    IF \E o \in c.options : o[1] = n /\ o[2] = option THEN c
    ELSE [c EXCEPT !.options = @ \cup {<<n, option, value>>}]

SameEdge(l, m) == l.from = m.from /\ l.side = m.side
Overlap(l, m) == SameEdge(l, m) /\ l.at[1] < m.at[2] /\ m.at[1] < l.at[2]

\* Config::connect.  All links of the edge are compared here; Neighbors shows that the two
\* that Cell::overlaps looks at are enough.
connect(c, l) ==
    LET k == [l EXCEPT !.from = getCanonicalName(c, @)]
        same == {m \in c.links : SameEdge(k, m) /\ k.at = m.at}
    IN  IF k.from = NoName \/ (same = {} /\ \E m \in c.links : Overlap(k, m)) THEN refused(c)
        ELSE [c EXCEPT !.links = (@ \ same) \cup {k}]

\* Config::disconnect, for all four sides.
disconnectAll(c, n) == [c EXCEPT !.links = {l \in @ : l.from # n}]

hasNeighbor(c, n, side) == \E l \in c.links : l.from = n /\ l.side = side

------------------------------------------------------------------------------
(* Reading.  A line that is refused ends it; the rest is not looked at.         *)

\* What readLine gives, without comments and blanks, and what parseNameWithArgs takes it
\* apart into.
screenLine(n) == [kind |-> "screen", name |-> n]
optionLine(o, v) == [kind |-> "option", option |-> o, value |-> v]
linkLine(d, at, to, toAt) == [kind |-> "link", side |-> d, at |-> at, to |-> to, toAt |-> toAt]
Section(title, lines) == [title |-> title, flush |-> TRUE, endFlush |-> TRUE, lines |-> lines]

\* parseBoolean, parseInt, parseModifierKey and parseCorners.
ValueValid(line) == line.value # "bad"

readScreensLine(c, line) ==
    CASE line.kind = "screen" -> [addScreen(c, line.name) EXCEPT !.here = line.name]
      [] line.kind = "option" /\ c.here # NoName /\ line.option \in ScreenOptions /\ ValueValid(line) ->
            addOption(c, c.here, line.option, line.value)
      [] OTHER -> refused(c)

\* parseInterval.
IntervalValid(i) == i[1] < i[2] /\ i[1] >= 0 /\ i[2] <= 1000

readLinksLine(c, line) ==
    CASE line.kind = "screen" /\ getCanonicalName(c, line.name) = line.name -> [c EXCEPT !.here = line.name]
      [] line.kind = "link" /\ c.here # NoName /\ IntervalValid(line.at) /\ IntervalValid(line.toAt)
            /\ line.to \in DOMAIN c.names ->
            connect(c, [from |-> c.here, side |-> line.side, at |-> line.at, to |-> line.to,
                        toAt |-> line.toAt])
      [] OTHER -> refused(c)

Action == {"keystroke", "keyDown", "keyUp", "mousebutton", "mouseDown", "mouseUp", "switchToScreen",
           "switchInDirection", "switchToNextScreen", "lockCursorToScreen", "restartServer",
           "keyboardBroadcast"}

\* InputFilter::Rule::adoptAction.
adoptAction(r, a, onActivation) ==
    IF onActivation THEN [r EXCEPT !.activate = Append(@, a)] ELSE [r EXCEPT !.deactivate = Append(@, a)]

\* parseScreens, and the names of the other actions: they must be known by now.
NamesKnown(c, a) == a.names \subseteq DOMAIN c.names
canonicalNames(c, a) == [a EXCEPT !.names = {c.names[n] : n \in @}]

\* A keystroke or a button stands for two actions, wherever in the rule it is.
parseAction(c, r, a, onActivation) ==
    CASE a.do \notin Action \/ ~NamesKnown(c, a) -> refused(r)
      [] NamesKnown(c, a) /\ a.do \in {"keystroke", "mousebutton"} ->
            adoptAction(adoptAction(r, [canonicalNames(c, a) EXCEPT !.mode = "down"], TRUE),
                        [canonicalNames(c, a) EXCEPT !.mode = "up"], FALSE)
      [] OTHER -> adoptAction(r, canonicalNames(c, a), onActivation)

parseActions(c, r, as, onActivation) == FoldLeft(LAMBDA q, a : parseAction(c, q, a, onActivation), r, as)

\* A line of a rule: its condition, and the actions before and after the semicolon.
ruleOf(c, line) ==
    parseActions(c, parseActions(c, [ok |-> TRUE, on |-> line.on, activate |-> <<>>, deactivate |-> <<>>],
                                 line.first, TRUE), line.second, FALSE)

\* hasLockToScreenAction: a rule that does not only release the lock.
LocksToScreen(line) ==
    \E a \in Range(line.first \o line.second) : a.do = "lockCursorToScreen" /\ a.mode # "off"

\* The lines of other conditions are passed over; parseCondition knows no mousepress.
readOptionsLine(c, line) ==
    CASE line.kind # "rule" \/ line.on \notin {"keystroke", "mousepress"} -> c
      [] line.kind = "rule" /\ line.on = "keystroke" /\ ruleOf(c, line).ok ->
            [c EXCEPT !.rules = Append(@, ruleOf(c, line)),
                      !.hasLockToScreenAction = @ \/ LocksToScreen(line)]
      [] OTHER -> refused(c)

readLine(title, c, line) ==
    IF ~c.ok THEN c
    ELSE CASE title = "screens" -> readScreensLine(c, line)
           [] title = "links" -> readLinksLine(c, line)
           [] title = "options" -> readOptionsLine(c, line)
           [] title = "aliases" -> c

\* The general options come from the settings, once there is a section of options.
readSection(c, s) ==
    IF ~c.ok THEN c
    ELSE IF s.title \notin {"screens", "links", "options", "aliases"} THEN refused(c)
    ELSE LET d == [c EXCEPT !.here = NoName, !.general = @ \/ s.title = "options"]
         IN  FoldLeft(LAMBDA e, line : readLine(s.title, e, line), d, s.lines)

\* Config::read: into a configuration of its own.
read(f) == [FoldLeft(readSection, Empty, f) EXCEPT !.here = NoName]

------------------------------------------------------------------------------
(* Writing: operator<< of the sections of screens and of links.                 *)

\* formatInterval: in whole hundredths.
formatInterval(i) == <<((i[1] + 5) \div 10) * 10, ((i[2] + 5) \div 10) * 10>>

inOrder(c) == SelectSeq(Order, LAMBDA n : n \in c.screens)

writtenScreens(c) ==
    LET lines(n) == SetToSeq({optionLine(o[2], o[3]) : o \in {p \in c.options : p[1] = n}})
    IN  Section("screens", FlattenSeq([i \in DOMAIN inOrder(c) |->
            <<screenLine(inOrder(c)[i])>> \o lines(inOrder(c)[i])]))

writtenLinks(c) ==
    LET lines(n) == SetToSeq({linkLine(l.side, formatInterval(l.at), l.to, formatInterval(l.toAt)) :
                              l \in {m \in c.links : m.from = n}})
    IN  Section("links", FlattenSeq([i \in DOMAIN inOrder(c) |->
            <<screenLine(inOrder(c)[i])>> \o lines(inOrder(c)[i])]))

\* The regular expression of both writers: from the first header that is not indented to the
\* next end that is not.
replaceSection(f, s) ==
    LET heads == {i \in DOMAIN f : f[i].title = s.title /\ f[i].flush}
        first == CHOOSE i \in heads : \A j \in heads : i <= j
        ends == {j \in DOMAIN f : j >= first /\ f[j].endFlush}
        upTo == CHOOSE j \in ends : \A k \in ends : j <= k
    IN  IF heads = {} \/ ends = {} THEN Append(f, s)
        ELSE SubSeq(f, 1, first - 1) \o <<s>> \o SubSeq(f, upTo + 1, Len(f))

------------------------------------------------------------------------------
(* Actions.                                                                    *)

NoSave == [what |-> "none", before |-> <<>>, had |-> Empty, left |-> Empty, name |-> NoName]

Init ==
    /\ file = FirstFile /\ live = Empty /\ running = FALSE
    /\ edits = 0 /\ saves = 0 /\ lastSave = NoSave /\ strayed = FALSE

writeFile(f) ==
    /\ edits < MaxEdits /\ f # file
    /\ edits' = edits + 1 /\ file' = f /\ lastSave' = NoSave
    /\ UNCHANGED <<live, running, saves, strayed>>

\* loadConfig and mainLoop: the program ends if the file cannot be read or leaves the host
\* out; a file without screens stands for the host alone.
start ==
    LET c == IF read(file).screens = {} THEN addScreen(read(file), Host) ELSE read(file)
    IN  /\ ~running
        /\ c.ok /\ Host \in DOMAIN c.names
        /\ running' = TRUE /\ live' = c /\ strayed' = FALSE
        /\ UNCHANGED <<file, edits, saves, lastSave>>

stop ==
    /\ running
    /\ running' = FALSE /\ live' = Empty /\ strayed' = FALSE
    /\ UNCHANGED <<file, edits, saves, lastSave>>

\* A file that cannot be read leaves the configuration as it was; one that leaves the host
\* out does not.
reloadConfig ==
    /\ running
    /\ read(file).ok /\ live' = read(file) /\ strayed' = FALSE
    /\ UNCHANGED <<file, running, edits, saves, lastSave>>

\* The first screen with a free side, and that side.
freeSide(c, n) ==
    LET sides == <<"right", "left", "down", "up">>
        i == CHOOSE j \in DOMAIN sides :
                 ~hasNeighbor(c, n, sides[j]) /\ \A k \in 1..j-1 : hasNeighbor(c, n, sides[k])
    IN  sides[i]
Roomy(c) == {n \in c.screens : \E d \in Direction : ~hasNeighbor(c, n, d)}
anchor(c) == SelectSeq(inOrder(c), LAMBDA n : n \in Roomy(c))[1]

link(a, d, b) == [from |-> a, side |-> d, at |-> Whole, to |-> b, toAt |-> Whole]

\* Changes to the live configuration whose result nobody looks at.
tryConnect(c, l) == IF connect(c, l).ok THEN connect(c, l) ELSE c

saved(what, f, now, n) ==
    /\ saves' = saves + 1
    /\ file' = f /\ live' = now
    /\ lastSave' = [what |-> what, before |-> file, had |-> live, left |-> now, name |-> n]

\* adoptClient of a screen that is not in the configuration.  The place is found in the
\* file as it is now.  A file that cannot be read ends the program: nothing catches the exception
\* before App does.
adoptClient(n) ==
    /\ running /\ saves < MaxSaves
    /\ n \notin DOMAIN live.names
    /\ LET c == read(file)
           a == anchor(c)
           d == freeSide(c, a)
           next == connect(connect(addScreen(c, n), link(a, d, n)), link(n, Opposite[d], a))
       IN  \/ /\ ~c.ok
              /\ running' = FALSE /\ live' = Empty /\ strayed' = FALSE
              /\ UNCHANGED <<file, edits, saves, lastSave>>
           \/ /\ c.ok /\ Roomy(c) # {} /\ n \notin DOMAIN c.names
              /\ saved("client",
                       replaceSection(replaceSection(file, writtenScreens(next)), writtenLinks(next)),
                       tryConnect(tryConnect(addScreen(live, n), link(a, d, n)), link(n, Opposite[d], a)), n)
              /\ strayed' = (strayed \/ a \notin live.screens)
              /\ UNCHANGED <<running, edits>>

\* The links of the lanes, in the order in which they are made.
linksOf(lanes) ==
    FoldLeft(LAMBDA s, d :
                 s \o FlattenSeq([i \in DOMAIN lanes[d] |->
                          LET previous == IF i = 1 THEN Host ELSE lanes[d][i-1]
                          IN  <<link(previous, d, lanes[d][i]), link(lanes[d][i], Opposite[d], previous)>>]),
             <<>>, <<"up", "down", "left", "right">>)

\* applyLayout.  What it refuses changes nothing.
applyLayout(lanes) ==
    LET c == read(file)
        names == FlattenSeq([i \in 1..4 |-> lanes[<<"up", "down", "left", "right">>[i]]])
        placed == {Host} \cup Range(names)
        all(d) == FoldLeft(connect, FoldLeft(disconnectAll, d, SetToSeq(placed)), linksOf(lanes))
    IN  /\ running /\ saves < MaxSaves
        /\ Cardinality(placed) = Len(names) + 1
        /\ placed \subseteq DOMAIN live.names /\ live.screens \subseteq placed
        /\ c.ok /\ placed \subseteq DOMAIN c.names /\ all(c).ok
        /\ saved("layout", replaceSection(file, writtenLinks(all(c))), all(live), NoName)
        /\ UNCHANGED <<running, edits, strayed>>

Next ==
    \/ \E f \in Edited : writeFile(f)
    \/ start
    \/ stop
    \/ reloadConfig
    \/ \E n \in Names : adoptClient(n)
    \/ \E lanes \in Arrangements : applyLayout(lanes)

Spec == Init /\ [][Next]_vars

------------------------------------------------------------------------------
(* Properties.                                                                 *)

\* Every variable has its type.
TypeOK ==
    /\ running \in BOOLEAN /\ (~running => live = Empty)
    /\ edits \in 0..MaxEdits /\ saves \in 0..MaxSaves /\ strayed \in BOOLEAN
    /\ live.ok

\* The configuration in use is one that can be used: links begin at screens and lead to known
\* ones, but for the named case; those of an edge do not overlap, and rules name screens.
LiveUsable ==
    /\ DOMAIN live.names \subseteq Names /\ {live.names[n] : n \in DOMAIN live.names} = live.screens
    /\ \A l \in live.links : l.from \in live.screens /\ (l.to \in DOMAIN live.names \/ strayed)
    /\ \A l, m \in live.links : l # m => ~Overlap(l, m)
    /\ \A r \in Range(live.rules) : \A a \in Range(r.activate \o r.deactivate) : a.names \subseteq live.screens
    /\ live.hasLockToScreenAction <=>
           \E r \in Range(live.rules) : \E a \in Range(r.activate \o r.deactivate) :
               a.do = "lockCursorToScreen" /\ a.mode # "off"

\* Named cases: what a file may hold that its rewriting does not keep.  A section that is
\* indented, or whose end is; two sections of the same kind; a stretch of an edge that is
\* too short to be written; an alias that is the name of a screen.
Indented(f) == \E i \in DOMAIN f : ~f[i].flush \/ ~f[i].endFlush
Doubled(f) == \E i, j \in DOMAIN f : i # j /\ f[i].title = f[j].title
Thin(f) == \E l \in read(f).links : \E i \in {l.at, l.toAt} : formatInterval(i)[1] = formatInterval(i)[2]
Aliased(f, n) == \E a, b \in (read(f).screens \cup {n}) \ {NoName} : a # b /\ b \in AliasesOf[a]
Regular == ~Indented(lastSave.before) /\ ~Doubled(lastSave.before) /\ ~Thin(lastSave.before)
           /\ ~Aliased(lastSave.before, lastSave.name)

InStep(c, d) == c.screens = d.screens /\ c.links = d.links

\* A file that the server has rewritten can be read by the next server, but for the named
\* cases, though whole sections of it were replaced by pattern and all others kept.
SavedIsReadable == lastSave.what # "none" /\ Regular => read(file).ok

\* If the file was the configuration in use, it is so after the server changed both: the
\* arrangement that was answered for is what the next start finds.
SavedIsLive ==
    lastSave.what # "none" /\ Regular /\ InStep(read(lastSave.before), lastSave.had) =>
        InStep(read(file), [lastSave.left EXCEPT !.links =
            {[l EXCEPT !.at = formatInterval(@), !.toAt = formatInterval(@)] : l \in @}])

\* Rewriting a file loses no screen, no option of a screen and no rule.
RestIsKept ==
    lastSave.what # "none" /\ Regular =>
        LET b == read(lastSave.before)
            a == read(file)
        IN  /\ b.screens \subseteq a.screens /\ b.options = a.options /\ b.rules = a.rules
            /\ b.general = a.general /\ b.hasLockToScreenAction = a.hasLockToScreenAction

\* A client that was given a place in a file that was in use can be reached.
PlacedIsReachable ==
    lastSave.what = "client" /\ InStep(read(lastSave.before), lastSave.had) =>
        \E l \in lastSave.left.links : l.to = lastSave.name /\ l.from \in lastSave.had.screens
=============================================================================
