------------------------------ MODULE MCPrograms ------------------------------
(***************************************************************************)
(* The parts of MCServices that deal with other programs: those that ask for  *)
(* the clipboard of an X11 screen, and those that write the configuration     *)
(* file.  Each has variables of its own; MCServices lets one part run at a    *)
(* time.                                                                      *)
(***************************************************************************)
EXTENDS Integers, Sequences, MCParts

CONSTANTS Windows, WindowProperties

VARIABLES
    \* XSelection
    clock, x, clip, x_events, replies_, masks, watched, alive, props, notices, x_requests, stale,
    early, deaf,
    \* ConfigFile
    file, live, running, edits, saves, lastSave, strayed

selectionVars == <<clock, x, clip, x_events, replies_, masks, watched, alive, props, notices,
    x_requests, stale, early, deaf>>
configVars == <<file, live, running, edits, saves, lastSave, strayed>>
programVars == <<selectionVars, configVars>>

\* Two clipboards, which share the windows of the programs.
Selection == INSTANCE XSelection WITH
    Selections <- <<"clipboard", "primary">>, Requestors <- Windows, Properties <- WindowProperties,
    MaxRequests <- 2, MaxChanges <- 2, MaxDoings <- 3, Wrap <- 16,
    events <- x_events, replies <- replies_, requests <- x_requests

\* The host h; the screens a, b and c, one of whose aliases is the name of another.
Written(title, lines) == [title |-> title, flush |-> TRUE, endFlush |-> TRUE, lines |-> lines]
Is(n) == [kind |-> "screen", name |-> n]
Sets(option) == [kind |-> "option", option |-> option, value |-> "on"]
Leads(side, at, to, toAt) == [kind |-> "link", side |-> side, at |-> at, to |-> to, toAt |-> toAt]
Rule(on, first, second) == [kind |-> "rule", on |-> on, first |-> first, second |-> second]
Does(do, names, mode) == [do |-> do, names |-> names, mode |-> mode]

HostAlone == <<Written("screens", <<Is("h")>>), Written("links", <<>>)>>
TwoScreens == Written("screens", <<Is("h"), Sets("switchCorners"), Is("b")>>)
TwoLinks == Written("links",
    <<Is("h"), Leads("right", <<0, 333>>, "b", <<0, 1000>>), Leads("right", <<667, 1000>>, "b", <<4, 500>>),
      Is("b"), Leads("left", <<0, 1000>>, "h", <<0, 1000>>)>>)
SomeRules == Written("options",
    <<Rule("keystroke", <<Does("switchToScreen", {"b"}, "on")>>, <<Does("keystroke", {"b"}, "on")>>),
      Rule("keystroke", <<Does("lockCursorToScreen", {}, "off")>>, <<>>),
      Rule("mousebutton", <<Does("lockCursorToScreen", {}, "toggle")>>, <<>>)>>)
MoreRules == Written("options", <<Rule("keystroke", <<Does("lockCursorToScreen", {}, "on")>>, <<>>)>>)

\* A whole file; one with a link too short to write; indented ends and headers; screens in two
\* sections; rules before the screens they name; no host; and screens in an order of its own.
UserFiles ==
    {<<TwoScreens, TwoLinks, SomeRules, MoreRules>>,
     <<TwoScreens, Written("links", <<Is("h"), Leads("right", <<331, 334>>, "b", <<0, 1000>>)>>), SomeRules>>,
     <<TwoScreens, [TwoLinks EXCEPT !.endFlush = FALSE], SomeRules>>,
     <<TwoScreens, [TwoLinks EXCEPT !.flush = FALSE], SomeRules>>,
     <<Written("screens", <<Is("h")>>), Written("screens", <<Is("b")>>), TwoLinks, MoreRules>>,
     <<SomeRules, TwoScreens, TwoLinks>>,
     <<Written("screens", <<Is("b")>>), SomeRules>>,
     <<Written("screens", <<Is("b"), Is("a"), Is("h")>>), Written("links", <<>>)>>}
NoLanes == [d \in {"left", "right", "up", "down"} |-> <<>>]

ConfigOf == INSTANCE ConfigFile WITH
    Order <- <<"a", "b", "c", "h">>, Host <- "h", NoName <- "none",
    AliasesOf <- [n \in {"a", "b", "c", "h"} |-> IF n = "a" THEN {"b"} ELSE {}],
    FirstFile <- HostAlone, Edited <- UserFiles,
    Arrangements <- {[NoLanes EXCEPT !["right"] = <<"b">>], [NoLanes EXCEPT !["up"] = <<"b", "a">>],
                     [NoLanes EXCEPT !["left"] = <<"a">>, !["right"] = <<"b">>]},
    MaxEdits <- 2, MaxSaves <- 3

ASSUME Selection!XSelectionAssumption /\ ConfigOf!ConfigFileAssumption

ProgramsInit == Selection!Init /\ ConfigOf!Init
SelectionNext == Selection!Next /\ UNCHANGED configVars
ConfigNext == ConfigOf!Next /\ UNCHANGED selectionVars

------------------------------------------------------------------------------
(* Properties.                                                                 *)

\* Programs that ask for a selection get what it held then, whole and in the order they
\* asked, and their requests come to an end, but for the named cases (XWindowsClipboard).
SelectionsAnswered == part = "selections" =>
    /\ Selection!TypeOK /\ Selection!RightContent /\ Selection!OwnerServes
    /\ Selection!TakenWhole /\ Selection!InOrder /\ Selection!Watching /\ Selection!AllAnswered

\* A configuration in use is a usable one, and what the server writes into its file is what it
\* uses, whole, and can be read again, but for the named cases (Config::read, operator<<,
\* Server::adoptClient, Server::applyLayout).
ConfigKept == part = "config" =>
    /\ ConfigOf!TypeOK /\ ConfigOf!LiveUsable /\ ConfigOf!SavedIsReadable /\ ConfigOf!SavedIsLive
    /\ ConfigOf!RestIsKept /\ ConfigOf!PlacedIsReachable
=============================================================================
