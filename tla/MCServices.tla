---------------------------- MODULE MCServices ----------------------------
(***************************************************************************)
(* Parts that share no state side by side for TLC: those of ServiceParts and  *)
(* InputParts, what a client types and the hot keys (MCTyping), and the        *)
(* programs and files around a core (MCPrograms).  In each behavior one part   *)
(* runs under its own specification and the others rest, so that one run       *)
(* checks them all.                                                          *)
(***************************************************************************)
EXTENDS ServiceParts, InputParts, MCTyping, MCPrograms

inputVars == <<relayVars, mouseVars, insertVars, desksVars, neighborVars>>
keyVars == <<hotKeyVars, typingVars>>
serviceVars == <<vars, captureVars, queueVars, appVars>>
allVars == <<serviceVars, inputVars, keyVars, programVars, part>>

\* The primary is two wide and two high; a is to its left, b lower and as wide.
ScreenShapes == [p |-> [x |-> 0, y |-> 0, w |-> 2, h |-> 2],
                 a |-> [x |-> -1, y |-> 0, w |-> 1, h |-> 2],
                 b |-> [x |-> 0, y |-> 1, w |-> 2, h |-> 1]]
Edge(n, s, i, j, k, u, v) ==
    [from |-> n, side |-> s, start |-> i, end |-> j, to |-> k, toStart |-> u, toEnd |-> v]

\* Links that overlap, that cover a part of an edge, that form rings, and one from a screen to
\* itself.
Edges ==
    {Edge("p", "Right", 0, 4, "a", 0, 4), Edge("p", "Right", 0, 2, "a", 0, 4),
     Edge("p", "Right", 1, 4, "b", 0, 4), Edge("a", "Right", 0, 4, "b", 0, 2),
     Edge("a", "Left", 0, 4, "p", 0, 4), Edge("b", "Right", 0, 4, "b", 0, 4),
     Edge("b", "Right", 0, 4, "p", 0, 4), Edge("b", "Left", 2, 4, "a", 0, 4)}

\* A part that rests is in one state.
PartsInit ==
    /\ part \in {"files", "capture", "neighbors", "queue", "app", "keys", "mouse", "hotkeys",
                "insert", "typing", "selections", "config", "desks"}
    /\ Init /\ Capture!Init /\ Queue!Init /\ App!Init
    /\ KeysTo!Init /\ Mouse!Init /\ Insert!Init /\ DesksOf!Init /\ Neighbor!Init
    /\ HotKeysOf!Init /\ Typing!Init /\ ProgramsInit
    /\ part # "desks" => primary

ServiceNext ==
    \/ part = "files" /\ Next /\ UNCHANGED <<captureVars, queueVars, appVars>>
    \/ part = "capture" /\ Capture!Next /\ UNCHANGED <<vars, queueVars, appVars>>
    \/ part = "queue" /\ Queue!Next /\ UNCHANGED <<vars, captureVars, appVars>>
    \/ part = "app" /\ App!Next /\ UNCHANGED <<vars, captureVars, queueVars>>

InputNext ==
    \/ part = "keys" /\ KeysTo!Next /\ UNCHANGED <<mouseVars, insertVars, desksVars, neighborVars>>
    \/ part = "mouse" /\ Mouse!Next /\ UNCHANGED <<relayVars, insertVars, desksVars, neighborVars>>
    \/ part = "insert" /\ Insert!Next /\ UNCHANGED <<relayVars, mouseVars, desksVars, neighborVars>>
    \/ part = "desks" /\ DesksOf!Next /\ UNCHANGED <<relayVars, mouseVars, insertVars, neighborVars>>
    \/ part = "neighbors" /\ Neighbor!Next /\ UNCHANGED <<relayVars, mouseVars, insertVars, desksVars>>

KeyNext ==
    \/ part = "hotkeys" /\ HotKeysOf!Next /\ UNCHANGED typingVars
    \/ part = "typing" /\ Typing!Next /\ UNCHANGED hotKeyVars

ProgramNext ==
    \/ part = "selections" /\ SelectionNext
    \/ part = "config" /\ ConfigNext

PartsNext ==
    /\ \/ ServiceNext /\ UNCHANGED <<inputVars, keyVars, programVars>>
       \/ InputNext /\ UNCHANGED <<serviceVars, keyVars, programVars>>
       \/ KeyNext /\ UNCHANGED <<serviceVars, inputVars, programVars>>
       \/ ProgramNext /\ UNCHANGED <<serviceVars, inputVars, keyVars>>
    /\ UNCHANGED part

\* Each part has the fairness of its own specification while it runs.
PartsFair ==
    /\ WF_vars(part = "files" /\ Serve) /\ WF_vars(part = "files" /\ Receive)
    /\ WF_neighborVars(part = "neighbors" /\ Neighbor!Search)
    /\ WF_appVars(part = "app" /\ App!Loop)
    /\ WF_desksVars(part = "desks" /\ DesksOf!Loop)
    /\ WF_desksVars(part = "desks" /\ DesksOf!deskThread)
    /\ WF_desksVars(part = "desks" /\ DesksOf!watchDesktopThread)

PartsSpec == PartsInit /\ [][PartsNext]_allVars /\ PartsFair

------------------------------------------------------------------------------
(* Properties.  A part that rests satisfies its own.                           *)

\* What others ask for is done as they asked: a program that wants a selection gets what it
\* held then, a file that the server rewrites is the configuration in use, a client types what it
\* is asked and puts its modifiers back, and a hot key fires its own rule (XWindowsClipboard,
\* Config::read, Server::applyLayout, KeyMap::mapKey, InputFilter::handleEvent).
DoneAsAsked == SelectionsAnswered /\ ConfigKept /\ ClientTypes /\ HotKeysFire

\* A paste is told to the source but for the cases of PasteKept, a search for a neighbor ends
\* where it can (all the links ahead of an Endless one lead to unconnected screens), a server
\* whose closing is waited for is closed, and a screen knows whether its saver runs
\* (FileClipboardTransfer, Server::getNeighbor, ServerApp::closeServer, MSWindowsDesks).
EverythingEnds ==
    /\ []<>(PasteTold /\ Neighbor!NotSearching /\ App!NotClosing /\ DesksOf!SaverKnown)
    /\ PasteKept
=============================================================================
