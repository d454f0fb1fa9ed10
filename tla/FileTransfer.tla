----------------------------- MODULE FileTransfer -----------------------------
(***************************************************************************)
(* Files copied on one computer and pasted on another                       *)
(* (lib/platform/FileClipboardTransfer.cpp): the copy is offered, fetched   *)
(* in chunks with retries over a connection of its own, published on the    *)
(* other clipboard, and cleared from both once it was pasted.               *)
(*                                                                         *)
(* On each side the event loop and a thread (serve, or the receiver) run    *)
(* beside the user and other programs.  The system's clipboard is locked    *)
(* while it is changed, so a change is one step; what was looked up before  *)
(* it was locked may be old.                                                *)
(***************************************************************************)
EXTENDS Naturals, Sequences, FiniteSets

CONSTANTS
    Chunks,         \* of the copied file
    MaxAttempts,    \* of a fetch
    MaxCopies,      \* files copied at the source
    MaxReceives,    \* contents sent to the receiver's clipboard
    MaxFailures,    \* times a connection breaks or the source's clipboard is busy
    MaxEdits,       \* times the copied file is changed
    MaxCaptures     \* captures to receive meanwhile

ASSUME FileTransferAssumption ==
    /\ {Chunks, MaxAttempts} \subseteq Nat \ {0}
    /\ {MaxCopies, MaxReceives, MaxFailures, MaxEdits, MaxCaptures} \subseteq Nat

Copies == 1..MaxCopies
\* What a receive job gets and publishes: the files of an offer, in a directory of their own.
Reception == [offer : Copies, generation : 1..(2 * MaxReceives)]
NoReception == [offer |-> 0, generation |-> 0]

VARIABLES
    copies, sourceClip, \* copies made so far, and the one on the source's clipboard (0: none)
    version,            \* of the copied file
    current,            \* the offer that is served
    identities,         \* per offer: the version first opened, or none
    pasted,             \* offers that are completed
    serving, toClear,   \* what the source's thread does, and the offer it clears
    offered,            \* the offer on its way to the receiver
    receives, generation,
    shown,              \* the reception whose files are on the receiver's clipboard
    ours,               \* the receiver's clipboard was last set by the program
    job, captureJobs,   \* what the receiver thread is to do
    fetching,           \* what it fetches: nothing, manifest, data, ready, pasted, capture
    reception, attempt,
    staged,             \* versions of the chunks written
    published,          \* publishedPaths
    pasting, moved,     \* receptions whose paste began, and whose files are gone
    failures, captures

sourceVars == <<copies, sourceClip, version, current, identities, pasted, offered>>
clipVars == <<receives, generation, shown, ours, job>>
fetchVars == <<fetching, reception, attempt, staged>>
pasteVars == <<published, pasting, moved>>
serveVars == <<serving, toClear>>
vars == <<sourceVars, serveVars, clipVars, fetchVars, pasteVars, captureJobs, failures, captures>>

NoVersion == MaxEdits + 1

\* Every variable has its type.
TypeOK ==
    /\ copies \in 0..MaxCopies /\ sourceClip \in 0..copies /\ version \in 0..MaxEdits
    /\ current \in 0..copies /\ offered \in 0..copies
    /\ identities \in [Copies -> 0..NoVersion] /\ pasted \subseteq Copies
    /\ serving \in {"idle", "asked", "streaming", "clearing", "unheard", "replying"}
    /\ toClear \in 0..MaxCopies
    /\ receives \in 0..MaxReceives /\ generation \in 0..(2 * MaxReceives)
    /\ {shown, job, reception, published} \subseteq Reception \cup {NoReception}
    /\ ours \in BOOLEAN /\ captureJobs \in 0..MaxCaptures
    /\ fetching \in {"nothing", "manifest", "data", "staged", "ready", "pasted", "capture"}
    /\ attempt \in 1..MaxAttempts /\ staged \in Seq(0..MaxEdits)
    /\ pasting \subseteq Reception /\ moved \subseteq pasting
    /\ failures \in 0..MaxFailures /\ captures \in 0..MaxCaptures

Init ==
    /\ copies = 0 /\ sourceClip = 0 /\ version = 0
    /\ current = 0 /\ identities = [c \in Copies |-> NoVersion] /\ pasted = {}
    /\ serving = "idle" /\ toClear = 0 /\ offered = 0
    /\ receives = 0 /\ generation = 0
    /\ shown = NoReception /\ ours = FALSE
    /\ job = NoReception /\ captureJobs = 0
    /\ fetching = "nothing" /\ reception = NoReception /\ attempt = 1 /\ staged = <<>>
    /\ published = NoReception /\ pasting = {} /\ moved = {}
    /\ failures = 0 /\ captures = 0

------------------------------------------------------------------------------
(* The source.                                                                 *)

userCopies ==
    /\ copies < MaxCopies
    /\ copies' = copies + 1 /\ sourceClip' = copies + 1
    /\ UNCHANGED <<version, current, identities, pasted, offered, serveVars, clipVars, fetchVars,
                   pasteVars, captureJobs, failures, captures>>

\* Nobody can write to the file while it is open to be read.
userEdits ==
    /\ version < MaxEdits /\ serving # "streaming"
    /\ version' = version + 1
    /\ UNCHANGED <<copies, sourceClip, current, identities, pasted, offered, serveVars, clipVars,
                   fetchVars, pasteVars, captureJobs, failures, captures>>

\* The clipboard is read to be sent: the same copy keeps its offer.
offer ==
    /\ sourceClip # 0 /\ offered = 0 /\ receives < MaxReceives
    /\ current' = sourceClip /\ offered' = sourceClip
    /\ UNCHANGED <<copies, sourceClip, version, identities, pasted, serveVars, clipVars, fetchVars,
                   pasteVars, captureJobs, failures, captures>>

------------------------------------------------------------------------------
(* The receiver's clipboard.                                                   *)

\* MSWindowsClipboard::empty: it is the program's, and receptions under way are cancelled.
empty == shown' = NoReception /\ ours' = TRUE /\ receives' = receives + 1

\* An offer arrives: the job takes the place of one that was not begun.
receiveAsync ==
    /\ offered # 0 /\ receives < MaxReceives
    /\ empty
    /\ generation' = generation + 2
    /\ job' = [offer |-> offered, generation |-> generation + 2]
    /\ offered' = 0
    /\ UNCHANGED <<copies, sourceClip, version, current, identities, pasted, serveVars, fetchVars,
                   pasteVars, captureJobs, failures, captures>>

\* Other data arrives.
cancelReceive ==
    /\ receives < MaxReceives
    /\ empty
    /\ generation' = generation + 1
    /\ UNCHANGED <<job, sourceVars, serveVars, fetchVars, pasteVars, captureJobs, failures, captures>>

localCopy ==
    /\ ours
    /\ ours' = FALSE /\ shown' = NoReception
    /\ UNCHANGED <<receives, generation, job, sourceVars, serveVars, fetchVars, pasteVars,
                   captureJobs, failures, captures>>

\* A program pastes, and moves the files when it comes to it.
paste ==
    /\ shown # NoReception /\ shown \notin pasting
    /\ pasting' = pasting \cup {shown}
    /\ UNCHANGED <<moved, published, sourceVars, serveVars, clipVars, fetchVars, captureJobs, failures, captures>>

filesMoved ==
    /\ \E p \in pasting \ moved : moved' = moved \cup {p}
    /\ UNCHANGED <<pasting, published, sourceVars, serveVars, clipVars, fetchVars, captureJobs, failures, captures>>

captureArrives ==
    /\ captures < MaxCaptures
    /\ captures' = captures + 1 /\ captureJobs' = captureJobs + 1
    /\ UNCHANGED <<sourceVars, serveVars, clipVars, fetchVars, pasteVars, failures>>

------------------------------------------------------------------------------
(* The receiver thread: fetching.                                              *)

fetch(what) == fetching' = what /\ attempt' = 1

\* A capture leaves the clipboard alone, and what was published to it.
keptByCapture == published

\* A capture first; its own fetch is not followed further.
takeJob ==
    /\ fetching = "nothing"
    /\ \/ /\ captureJobs > 0 /\ captureJobs' = captureJobs - 1
          /\ fetch("capture")
          /\ published' = keptByCapture
          /\ UNCHANGED <<job, reception>>
       \/ /\ captureJobs = 0 /\ job # NoReception
          /\ reception' = job /\ job' = NoReception
          /\ fetch("manifest")
          /\ published' = NoReception
          /\ UNCHANGED captureJobs
    /\ staged' = <<>>
    /\ UNCHANGED <<sourceVars, serveVars, receives, generation, shown, ours, pasting, moved, failures, captures>>

captureDone ==
    /\ fetching = "capture"
    /\ fetching' = "nothing"
    /\ UNCHANGED <<reception, attempt, staged, sourceVars, serveVars, clipVars, pasteVars, captureJobs,
                   failures, captures>>

\* The source's thread has one connection at a time.
connect ==
    /\ fetching \in {"manifest", "data", "ready", "pasted"} /\ serving = "idle"
    /\ serving' = "asked"
    /\ UNCHANGED <<toClear, sourceVars, clipVars, fetchVars, pasteVars, captureJobs, failures, captures>>

\* The end of a fetch; after telling of a paste it is forgotten.
ends ==
    /\ fetching' = "nothing"
    /\ published' = IF fetching = "pasted" THEN NoReception ELSE published
    /\ UNCHANGED <<reception, attempt, staged>>

\* An attempt failed: one more, or none; what was written stays for the next.
attemptFails ==
    IF attempt < MaxAttempts
    THEN attempt' = attempt + 1 /\ UNCHANGED <<fetching, reception, staged, published>>
    ELSE ends

\* The connection breaks: a chunk under way is dropped, and a source that clears its
\* clipboard goes on with that.
breaks ==
    /\ serving \in {"asked", "streaming", "clearing", "replying"} /\ failures < MaxFailures
    /\ failures' = failures + 1
    /\ serving' = IF serving = "clearing" THEN "unheard" ELSE "idle"
    /\ attemptFails
    /\ UNCHANGED <<toClear, sourceVars, clipVars, pasting, moved, captureJobs, captures>>

\* The job's offer is not the newest, or the clipboard was taken by another program.
Cancelled == generation # reception.generation \/ ~ours

\* cancelled() is asked all along; the source finds the connection closed.
cancels ==
    /\ fetching \in {"manifest", "data", "staged"} /\ Cancelled
    /\ serving' = IF serving = "unheard" THEN serving ELSE "idle"
    /\ ends
    /\ UNCHANGED <<toClear, sourceVars, clipVars, pasting, moved, captureJobs, failures, captures>>

------------------------------------------------------------------------------
(* The source's thread.                                                        *)

\* The offer is known, and not completed unless that is what is told.
Served == reception.offer = current /\ (fetching = "pasted" \/ reception.offer \notin pasted)

\* The source refuses, which the receiver takes for a broken connection.
refuses ==
    /\ serving' = "idle"
    /\ attemptFails
    /\ UNCHANGED <<toClear, sourceVars, pasting, moved>>

serveRefused ==
    /\ serving = "asked" /\ ~Served
    /\ refuses
    /\ UNCHANGED <<clipVars, captureJobs, failures, captures>>

serveManifest ==
    /\ serving = "asked" /\ fetching = "manifest" /\ Served
    /\ serving' = "idle"
    /\ fetch("data")
    /\ UNCHANGED <<toClear, reception, staged, sourceVars, clipVars, pasteVars, captureJobs, failures, captures>>

\* Mutant: any version will do.
sameAsAny(first) == TRUE

\* The file is the one that was opened first for this offer.
sameIdentity(first) == first \in {NoVersion, version}

serveFile ==
    /\ serving = "asked" /\ fetching = "data" /\ Served
    /\ LET first == identities[reception.offer]
       IN  \/ /\ ~sameIdentity(first)
              /\ refuses
           \/ /\ sameIdentity(first)
              /\ identities' = [identities EXCEPT ![reception.offer] = IF first = NoVersion THEN version ELSE first]
              /\ serving' = "streaming"
              /\ UNCHANGED <<toClear, copies, sourceClip, version, current, pasted, offered, fetchVars, pasteVars>>
    /\ UNCHANGED <<clipVars, captureJobs, failures, captures>>

\* Whole chunks are written; a request says how many there are already.
sendChunk ==
    /\ serving = "streaming"
    /\ staged' = Append(staged, version)
    /\ IF Len(staged') = Chunks
       THEN serving' = "idle" /\ fetch("staged")
       ELSE UNCHANGED <<serving, fetching, attempt>>
    /\ UNCHANGED <<toClear, reception, sourceVars, clipVars, pasteVars, captureJobs, failures, captures>>

serveReady ==
    /\ serving = "asked" /\ fetching = "ready" /\ Served
    /\ serving' = "replying"
    /\ UNCHANGED <<toClear, sourceVars, fetchVars, pasteVars, clipVars, captureJobs, failures, captures>>

\* Told of the paste: done before, or the copy is not on the clipboard any more, or it is
\* to be cleared.
servePasted ==
    /\ serving = "asked" /\ fetching = "pasted" /\ Served
    /\ IF reception.offer \in pasted \/ sourceClip # reception.offer
       THEN pasted' = pasted \cup {reception.offer} /\ serving' = "replying" /\ UNCHANGED toClear
       ELSE toClear' = reception.offer /\ serving' = "clearing" /\ UNCHANGED pasted
    /\ UNCHANGED <<copies, sourceClip, version, current, identities, offered, clipVars, fetchVars,
                   pasteVars, captureJobs, failures, captures>>

\* Mutant: the clipboard is cleared of what is on it.
clearedAnyway == 0

\* The copy is looked at again with the clipboard open: a newer one stays.
cleared == IF sourceClip = toClear THEN 0 ELSE sourceClip

clearSourceClipboard ==
    /\ serving \in {"clearing", "unheard"}
    /\ sourceClip' = cleared
    /\ pasted' = pasted \cup {toClear} /\ toClear' = 0
    /\ serving' = IF serving = "clearing" THEN "replying" ELSE "idle"
    /\ UNCHANGED <<copies, version, current, identities, offered, clipVars, fetchVars, pasteVars,
                   captureJobs, failures, captures>>

\* The clipboard cannot be opened, or the helper does not answer.
clearFails ==
    /\ serving \in {"clearing", "unheard"} /\ failures < MaxFailures
    /\ failures' = failures + 1
    /\ serving' = "idle" /\ toClear' = 0
    /\ IF serving = "unheard" THEN UNCHANGED <<fetchVars, published>> ELSE attemptFails
    /\ UNCHANGED <<sourceVars, clipVars, pasting, moved, captureJobs, captures>>

\* The reply arrives, and the fetch is over.
replied ==
    /\ serving = "replying" /\ serving' = "idle"
    /\ ends
    /\ UNCHANGED <<toClear, sourceVars, clipVars, pasting, moved, captureJobs, failures, captures>>

------------------------------------------------------------------------------
(* The receiver thread: publishing, and noticing the paste.                    *)

\* Mutant: not asked again once the clipboard is open.
publishable == TRUE

mayPublish == ~Cancelled

publish ==
    /\ fetching = "staged" /\ mayPublish
    /\ shown' = reception /\ ours' = TRUE
    /\ published' = reception
    /\ fetch("ready")
    /\ UNCHANGED <<reception, staged, receives, generation, job, sourceVars, serveVars, pasting, moved,
                   captureJobs, failures, captures>>

\* No user is there, the disk is full, the clipboard is busy: what was staged is removed.
jobFails ==
    /\ fetching \in {"manifest", "staged"} /\ serving = "idle" /\ failures < MaxFailures
    /\ failures' = failures + 1
    /\ ends
    /\ UNCHANGED <<sourceVars, serveVars, clipVars, pasting, moved, captureJobs, captures>>

\* Every half second: all files gone is a paste, also if something newer was copied, which
\* then stays.  Files that are there while another program has the clipboard are forgotten.
pasteCheck ==
    /\ fetching = "nothing" /\ job = NoReception /\ captureJobs = 0 /\ published # NoReception
    /\ \/ /\ published \in moved
          /\ shown' = IF shown = published THEN NoReception ELSE shown
          /\ reception' = published
          /\ fetch("pasted")
          /\ UNCHANGED published
       \/ /\ published \notin moved /\ ~ours
          /\ published' = NoReception
          /\ UNCHANGED <<shown, reception, fetching, attempt>>
    /\ UNCHANGED <<staged, receives, generation, ours, job, sourceVars, serveVars, pasting, moved,
                   captureJobs, failures, captures>>

------------------------------------------------------------------------------
Serve ==
    \/ serveRefused \/ serveManifest \/ serveFile \/ sendChunk \/ serveReady \/ servePasted
    \/ clearSourceClipboard \/ replied

Receive == takeJob \/ captureDone \/ connect \/ cancels \/ publish \/ pasteCheck

Next ==
    \/ Serve \/ Receive
    \/ breaks \/ clearFails \/ jobFails
    \/ userCopies \/ userEdits \/ offer \/ receiveAsync \/ cancelReceive
    \/ localCopy \/ paste \/ filesMoved \/ captureArrives

\* Both threads run; users and networks need not do anything.
Spec == Init /\ [][Next]_vars /\ WF_vars(Serve) /\ WF_vars(Receive)

------------------------------------------------------------------------------
(* Properties.                                                                 *)

\* Only a paste clears the source's clipboard, and only of the copy that was pasted: "a
\* newer copy, even of the same paths, belongs to the user and must survive".
SourceCopySurvives ==
    [][sourceClip' = 0 /\ sourceClip # 0 => \E p \in moved : p.offer = sourceClip]_vars

\* What the receiver's clipboard shows is what was sent to it last: files that come late
\* replace neither a newer offer nor what was copied there meanwhile.
NewestShown == shown # NoReception => ours /\ shown.generation = generation

\* However often the connection broke, a file is staged whole and all of one version.
StagedWhole ==
    /\ \A i, j \in DOMAIN staged : staged[i] = staged[j]
    /\ fetching = "staged" => Len(staged) = Chunks

\* No paste waits to be told to the source.
PasteTold == published \notin moved

\* A paste that waits to be told is given up only when the source knows of it or has offered
\* something newer, when a newer job was begun at the receiver, or when the connection broke
\* as often as a fetch tries.  (Files that go after another program's copy was noticed are not
\* waited for.)
PasteKept ==
    [][(published \in moved /\ published' # published) =>
         \/ published.offer \in pasted' \/ current' # published.offer
         \/ reception'.generation > published.generation
         \/ failures' >= MaxAttempts]_vars

\* So a paste is told to the source in the end, but for these cases.
PasteAcknowledged == []<>PasteTold /\ PasteKept
=============================================================================
