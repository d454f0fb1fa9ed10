--------------------------- MODULE ServicesProofs ---------------------------
(***************************************************************************)
(* Proofs about the files on the clipboard, the screen captures, the event    *)
(* queue and the application around the server, for any numbers of chunks,     *)
(* attempts, captures, threads, events and clients.                            *)
(***************************************************************************)
EXTENDS ServiceParts, FiniteSetTheorems, FunctionTheorems, SequenceTheorems, TLAPS

\* What is in a sequence over a set is of that set.
LEMMA Queued ==
    ASSUME NEW S, NEW q \in Seq(S)
    PROVE  \A i \in 1 .. Len(q) : q[i] \in S
  BY ElementOfSeq

LEMMA SeqWider == ASSUME NEW S, NEW T, S \subseteq T, NEW q \in Seq(S) PROVE q \in Seq(T)
  BY SeqDef

------------------------------------------------------------------------------
(* Sequences without repetition.                                               *)

Elements(q) == {q[i] : i \in 1 .. Len(q)}
Distinct(q) == \A i, j \in 1 .. Len(q) : q[i] = q[j] => i = j

\* There are as many elements as places, and no more places than things.
LEMMA DistinctSize ==
    ASSUME NEW S, NEW q \in Seq(S), Distinct(q)
    PROVE  /\ IsFiniteSet(Elements(q)) /\ Cardinality(Elements(q)) = Len(q)
           /\ IsFiniteSet(S) => Len(q) <= Cardinality(S)
<1>1. Len(q) \in Nat /\ q \in [1 .. Len(q) -> S]
  BY LenProperties
<1>2. IsFiniteSet(1 .. Len(q)) /\ Cardinality(1 .. Len(q)) = Len(q)
  <2>1. Len(q) \in Int /\ 1 \in Int /\ (IF 1 > Len(q) THEN 0 ELSE Len(q) - 1 + 1) = Len(q)
    BY <1>1
  <2>2. QED
    BY <2>1, FS_Interval
<1>3. q \in [1 .. Len(q) -> Elements(q)] /\ Elements(q) \subseteq S
  BY <1>1 DEF Elements
<1>4. q \in Bijection(1 .. Len(q), Elements(q))
  <2>1. \A e \in Elements(q) : \E i \in 1 .. Len(q) : q[i] = e
    BY DEF Elements
  <2>2. q \in Surjection(1 .. Len(q), Elements(q))
    BY <1>3, <2>1, Fun_IsSurj
  <2>3. \A i, j \in 1 .. Len(q) : q[i] = q[j] => i = j
    BY DEF Distinct
  <2>4. q \in Injection(1 .. Len(q), Elements(q))
    BY <1>3, <2>3, Fun_IsInj
  <2>5. QED
    BY <2>2, <2>4 DEF Bijection
<1>5. ExistsBijection(1 .. Len(q), Elements(q))
  BY <1>4 DEF ExistsBijection
<1>6. IsFiniteSet(Elements(q)) /\ Cardinality(Elements(q)) = Len(q)
  BY <1>2, <1>5, FS_Bijection
<1>7. QED
  BY <1>3, <1>6, FS_Subset

LEMMA DistinctAppend ==
    ASSUME NEW S, NEW q \in Seq(S), NEW e \in S
    PROVE  /\ Elements(Append(q, e)) = Elements(q) \cup {e}
           /\ Distinct(q) /\ e \notin Elements(q) => Distinct(Append(q, e))
<1> DEFINE r == Append(q, e)
<1>1. /\ Len(q) \in Nat /\ Len(r) = Len(q) + 1 /\ r[Len(q) + 1] = e
      /\ \A i \in 1 .. Len(q) : r[i] = q[i]
  BY LenProperties, AppendProperties
<1> HIDE DEF r
<1>2. /\ \A i \in 1 .. Len(r) : i \in 1 .. Len(q) \/ i = Len(q) + 1
      /\ \A i \in 1 .. Len(q) : i \in 1 .. Len(r) /\ i # Len(q) + 1
      /\ Len(q) + 1 \in 1 .. Len(r)
  BY <1>1
<1>3. Elements(r) = Elements(q) \cup {e}
  BY <1>1, <1>2 DEF Elements
<1>4. Distinct(q) /\ e \notin Elements(q) => Distinct(r)
  BY <1>1, <1>2 DEF Elements, Distinct
<1>5. QED
  BY <1>3, <1>4 DEF r

LEMMA DistinctTail ==
    ASSUME NEW S, NEW q \in Seq(S), q # <<>>, Distinct(q)
    PROVE  /\ Elements(Tail(q)) = Elements(q) \ {Head(q)} /\ Head(q) \in Elements(q)
           /\ Distinct(Tail(q))
<1> DEFINE r == Tail(q)
<1>1. /\ Len(q) \in Nat \ {0} /\ Len(r) = Len(q) - 1 /\ Head(q) = q[1]
      /\ \A i \in 1 .. Len(r) : r[i] = q[i + 1]
  BY LenProperties, HeadTailProperties, EmptySeq
<1> HIDE DEF r
<1>2. /\ \A i \in 1 .. Len(r) : i + 1 \in 1 .. Len(q) /\ i + 1 # 1 /\ i \in Nat
      /\ 1 \in 1 .. Len(q)
  BY <1>1
<1>3. \A i \in 1 .. Len(q) : i # 1 => i - 1 \in 1 .. Len(r) /\ (i - 1) + 1 = i
  BY <1>1
<1>4. Elements(r) \subseteq Elements(q) \ {Head(q)}
  BY <1>1, <1>2 DEF Elements, Distinct
<1>5. Elements(q) \ {Head(q)} \subseteq Elements(r)
  <2> SUFFICES ASSUME NEW e \in Elements(q), e # Head(q) PROVE e \in Elements(r)
    OBVIOUS
  <2>1. PICK i \in 1 .. Len(q) : e = q[i]
    BY DEF Elements
  <2>2. i - 1 \in 1 .. Len(r) /\ r[i - 1] = e
    BY <1>1, <1>3, <2>1
  <2>3. QED
    BY <2>2 DEF Elements
<1>6. Distinct(r)
  <2> SUFFICES ASSUME NEW i \in 1 .. Len(r), NEW j \in 1 .. Len(r), r[i] = r[j] PROVE i = j
    BY DEF Distinct
  <2>1. i + 1 = j + 1
    BY <1>1, <1>2 DEF Distinct
  <2>2. QED
    BY <1>2, <2>1
<1>7. Head(q) \in Elements(q)
  BY <1>1, <1>2 DEF Elements
<1>8. QED
  BY <1>4, <1>5, <1>6, <1>7 DEF r

\* All but the last.
LEMMA DistinctFront ==
    ASSUME NEW S, NEW q \in Seq(S), q # <<>>, Distinct(q), NEW r, r = SubSeq(q, 1, Len(q) - 1)
    PROVE  /\ r \in Seq(S) /\ Len(r) = Len(q) - 1 /\ Len(q) \in Nat \ {0}
           /\ q[Len(q)] \in Elements(q) /\ Elements(r) = Elements(q) \ {q[Len(q)]} /\ Distinct(r)
<1>1. Len(q) \in Nat \ {0} /\ \A i \in 1 .. Len(q) : q[i] \in S
  BY LenProperties, EmptySeq, Queued
<1>2. /\ Len(q) - 1 \in Int /\ 1 \in Int /\ \A i \in 1 .. (Len(q) - 1) : q[i] \in S
      /\ (IF 1 <= Len(q) - 1 THEN (Len(q) - 1) - 1 + 1 ELSE 0) = Len(q) - 1
  <2>1. \A i \in 1 .. (Len(q) - 1) : i \in 1 .. Len(q)
    BY <1>1
  <2>2. \A i \in 1 .. (Len(q) - 1) : q[i] \in S
    BY <1>1, <2>1
  <2>3. \A n \in Nat \ {0} : n - 1 \in Int /\ 1 \in Int
                          /\ (IF 1 <= n - 1 THEN (n - 1) - 1 + 1 ELSE 0) = n - 1
    OBVIOUS
  <2>4. QED
    BY <1>1, <2>2, <2>3
<1>3. r \in Seq(S) /\ Len(r) = Len(q) - 1 /\ \A i \in 1 .. Len(r) : r[i] = q[i]
  <2>1. /\ r \in Seq(S) /\ Len(r) = Len(q) - 1
        /\ \A i \in 1 .. ((Len(q) - 1) - 1 + 1) : r[i] = q[1 + i - 1]
    BY <1>2, SubSeqProperties
  <2>2. \A i \in 1 .. Len(r) : i \in 1 .. ((Len(q) - 1) - 1 + 1) /\ 1 + i - 1 = i
    BY <1>1, <2>1
  <2>3. QED
    BY <2>1, <2>2
<1>4. /\ \A i \in 1 .. Len(r) : i \in 1 .. Len(q) /\ i # Len(q)
      /\ \A i \in 1 .. Len(q) : i \in 1 .. Len(r) \/ i = Len(q)
      /\ Len(q) \in 1 .. Len(q)
  BY <1>1, <1>3
<1>5. Elements(r) = Elements(q) \ {q[Len(q)]}
  BY <1>3, <1>4 DEF Elements, Distinct
<1>6. Distinct(r)
  BY <1>3, <1>4 DEF Distinct
<1>7. q[Len(q)] \in Elements(q)
  BY <1>4 DEF Elements
<1>8. QED
  BY <1>1, <1>3, <1>5, <1>6, <1>7

------------------------------------------------------------------------------
(* What was fetched.  The source's thread and the receiver's agree on what they do with   *)
(* each other, and what is staged is of the version the offer has been given.              *)

Receptions == Reception \cup {NoReception}

\* The type of each group of variables.
SourceTypes ==
    /\ copies \in 0..MaxCopies /\ sourceClip \in 0..copies /\ version \in 0..MaxEdits
    /\ current \in 0..copies /\ offered \in 0..copies
    /\ identities \in [Copies -> 0..NoVersion] /\ pasted \subseteq Copies
ServeTypes ==
    /\ serving \in {"idle", "asked", "streaming", "clearing", "unheard", "replying"}
    /\ toClear \in 0..MaxCopies
ClipTypes ==
    /\ receives \in 0..MaxReceives /\ generation \in 0..(2 * MaxReceives)
    /\ shown \in Receptions /\ job \in Receptions /\ ours \in BOOLEAN
    /\ generation <= 2 * receives
FetchTypes ==
    /\ fetching \in {"nothing", "manifest", "data", "staged", "ready", "pasted", "capture"}
    /\ reception \in Receptions /\ attempt \in 1..MaxAttempts /\ staged \in Seq(0..MaxEdits)
PasteTypes == published \in Receptions /\ pasting \subseteq Reception /\ moved \subseteq pasting
CountTypes ==
    /\ captureJobs \in 0..captures /\ failures \in 0..MaxFailures /\ captures \in 0..MaxCaptures

\* What the two threads do together; a source that was not heard goes on alone.
ThreadsAgree ==
    /\ serving = "asked" => fetching \in {"manifest", "data", "ready", "pasted"}
    /\ serving = "streaming" => fetching = "data" /\ identities[reception.offer] = version
    /\ serving = "replying" => fetching \in {"ready", "pasted"}
    /\ serving = "clearing" => fetching = "pasted"
    /\ serving \in {"clearing", "unheard"} => toClear \in Copies
    /\ fetching \in {"manifest", "data", "staged", "ready", "pasted"} => reception \in Reception

\* What is staged, while more is fetched and afterwards.
StagedInv ==
    /\ fetching = "manifest" => staged = <<>>
    /\ fetching = "data" =>
           /\ Len(staged) < Chunks
           /\ \A i \in 1 .. Len(staged) : staged[i] = identities[reception.offer]
    /\ StagedWhole

FileInv ==
    /\ SourceTypes /\ ServeTypes /\ ClipTypes /\ FetchTypes /\ PasteTypes /\ CountTypes
    /\ ThreadsAgree /\ StagedInv

LEMMA FileBounds ==
    /\ Chunks \in Nat \ {0} /\ MaxAttempts \in Nat \ {0} /\ MaxCopies \in Nat /\ MaxReceives \in Nat
    /\ MaxFailures \in Nat /\ MaxEdits \in Nat /\ MaxCaptures \in Nat /\ NoVersion \in Nat
  BY FileTransferAssumption DEF NoVersion

LEMMA FileTyped == FileInv => TypeOK
<1> SUFFICES ASSUME FileInv PROVE TypeOK
  OBVIOUS
<1>1. captureJobs \in 0 .. MaxCaptures
  BY FileBounds DEF FileInv, CountTypes
<1>2. QED
  BY <1>1
     DEF FileInv, TypeOK, SourceTypes, ServeTypes, ClipTypes, FetchTypes, PasteTypes, CountTypes, Receptions

LEMMA FileInit == Init => FileInv
<1> SUFFICES ASSUME Init PROVE FileInv
  OBVIOUS
<1>1. staged \in Seq(0 .. MaxEdits) /\ DOMAIN staged = {} /\ Len(staged) = 0
  BY EmptySeq, LenProperties DEF Init
<1>2. SourceTypes
  BY FileBounds DEF Init, SourceTypes, NoVersion
<1>3. ServeTypes /\ ClipTypes
  <2>1. 0 \in 0 .. MaxReceives /\ 0 \in 0 .. (2 * MaxReceives) /\ 0 <= 2 * 0 /\ 0 \in 0 .. MaxCopies
    BY FileBounds
  <2>2. QED
    BY <2>1 DEF Init, ServeTypes, ClipTypes, Receptions
<1>4. FetchTypes /\ PasteTypes /\ CountTypes
  BY <1>1, FileBounds DEF Init, FetchTypes, PasteTypes, CountTypes, Receptions
<1>5. ThreadsAgree /\ StagedInv
  BY <1>1 DEF Init, ThreadsAgree, StagedInv, StagedWhole
<1>6. QED
  BY <1>2, <1>3, <1>4, <1>5 DEF FileInv

LEMMA GroupsKept ==
    ASSUME FileInv
    PROVE  /\ UNCHANGED sourceVars => SourceTypes'
           /\ UNCHANGED serveVars => ServeTypes'
           /\ UNCHANGED clipVars => ClipTypes'
           /\ UNCHANGED fetchVars => FetchTypes'
           /\ UNCHANGED pasteVars => PasteTypes'
           /\ UNCHANGED <<captureJobs, failures, captures>> => CountTypes'
<1> USE DEF FileInv
<1>1. UNCHANGED sourceVars => SourceTypes'
  BY DEF sourceVars, SourceTypes
<1>2. UNCHANGED serveVars => ServeTypes'
  BY DEF serveVars, ServeTypes
<1>3. UNCHANGED clipVars => ClipTypes'
  BY DEF clipVars, ClipTypes
<1>4. UNCHANGED fetchVars => FetchTypes'
  BY DEF fetchVars, FetchTypes
<1>5. UNCHANGED pasteVars => PasteTypes'
  BY DEF pasteVars, PasteTypes
<1>6. UNCHANGED <<captureJobs, failures, captures>> => CountTypes'
  BY DEF CountTypes
<1>7. QED
  BY <1>1, <1>2, <1>3, <1>4, <1>5, <1>6

\* What stays when an attempt, or the whole fetch, comes to its end.
FetchKept ==
    /\ reception' = reception /\ staged' = staged /\ fetching' \in {fetching, "nothing"}
    /\ FetchTypes' /\ published' \in Receptions

LEMMA EndsKept == FileInv /\ ends => FetchKept /\ fetching' = "nothing"
  BY DEF FileInv, ends, FetchKept, FetchTypes, PasteTypes, Receptions

LEMMA FailsKept == FileInv /\ attemptFails => FetchKept
<1> SUFFICES ASSUME FileInv, attemptFails PROVE FetchKept
  OBVIOUS
<1>1. CASE attempt < MaxAttempts
  <2>1. attempt' = attempt + 1 /\ UNCHANGED <<fetching, reception, staged, published>>
    BY <1>1 DEF attemptFails
  <2>2. attempt \in 1 .. MaxAttempts /\ MaxAttempts \in Nat
    BY FileBounds DEF FileInv, FetchTypes
  <2>3. attempt' \in 1 .. MaxAttempts
    BY <1>1, <2>1, <2>2
  <2>4. QED
    BY <2>1, <2>3 DEF FetchKept, FetchTypes, FileInv, PasteTypes
<1>2. CASE ~(attempt < MaxAttempts)
  BY <1>2, EndsKept DEF attemptFails
<1>3. QED
  BY <1>1, <1>2

\* What is staged stays as it is where nothing is fetched that was not.
LEMMA StagedKept ==
    ASSUME FileInv, reception' = reception, staged' = staged, fetching' \in {fetching, "nothing"},
           \A o \in Copies : identities[o] # NoVersion => identities'[o] = identities[o]
    PROVE  StagedInv'
<1>1. StagedWhole'
  BY DEF StagedWhole, FileInv, StagedInv
<1>2. fetching' = "data" => \A i \in 1 .. Len(staged) : staged[i] = identities'[reception.offer]
  <2> SUFFICES ASSUME fetching' = "data", NEW i \in 1 .. Len(staged)
               PROVE  staged[i] = identities'[reception.offer]
    OBVIOUS
  <2>1. staged[i] = identities[reception.offer] /\ staged[i] \in 0 .. MaxEdits
    BY Queued DEF FileInv, StagedInv, FetchTypes
  <2>2. reception.offer \in Copies
    BY DEF FileInv, ThreadsAgree, Reception
  <2>3. QED
    BY <2>1, <2>2, FileBounds DEF NoVersion
<1>3. QED
  BY <1>1, <1>2 DEF StagedInv, FileInv

\* Users and other programs, and what comes to the receiver's clipboard.
LEMMA FileUsers ==
    ASSUME FileInv,
           userCopies \/ userEdits \/ offer \/ receiveAsync \/ cancelReceive \/ localCopy \/ paste
               \/ filesMoved \/ captureArrives
    PROVE  FileInv'
<1>1. ASSUME UNCHANGED <<serveVars, fetchVars, identities, version>> PROVE ThreadsAgree' /\ StagedInv'
  <2>1. ThreadsAgree'
    BY <1>1 DEF FileInv, ThreadsAgree, serveVars, fetchVars
  <2>2. StagedInv'
    BY <1>1, StagedKept DEF fetchVars
  <2>3. QED
    BY <2>1, <2>2
<1>2. CASE userCopies
  <2>1. SourceTypes'
    BY <1>2, FileBounds DEF userCopies, FileInv, SourceTypes
  <2>2. QED
    BY <1>1, <1>2, <2>1, GroupsKept DEF userCopies, FileInv
<1>3. CASE userEdits
  <2>1. SourceTypes'
    BY <1>3, FileBounds DEF userEdits, FileInv, SourceTypes
  <2>2. ThreadsAgree' /\ StagedInv'
    <3>1. ThreadsAgree'
      BY <1>3 DEF userEdits, FileInv, ThreadsAgree, serveVars, fetchVars
    <3>2. StagedInv'
      BY <1>3, StagedKept DEF userEdits, fetchVars
    <3>3. QED
      BY <3>1, <3>2
  <2>3. QED
    BY <1>3, <2>1, <2>2, GroupsKept DEF userEdits, FileInv
<1>4. CASE offer
  <2>1. SourceTypes'
    BY <1>4, FileBounds DEF offer, FileInv, SourceTypes
  <2>2. QED
    BY <1>1, <1>4, <2>1, GroupsKept DEF offer, FileInv
<1>5. CASE receiveAsync
  <2> DEFINE r == [offer |-> offered, generation |-> generation + 2]
  <2>1. /\ receives' \in 0 .. MaxReceives /\ generation' <= 2 * receives'
        /\ generation' \in 1 .. (2 * MaxReceives) /\ generation' = generation + 2
        /\ offered \in Copies
    <3>1. /\ receives < MaxReceives /\ receives' = receives + 1 /\ generation' = generation + 2
          /\ offered # 0
      BY <1>5 DEF receiveAsync, empty
    <3>2. /\ receives \in Nat /\ generation \in Nat /\ generation <= 2 * receives
          /\ offered \in 0 .. copies /\ copies \in 0 .. MaxCopies
      BY FileBounds DEF FileInv, ClipTypes, SourceTypes
    <3>3. receives + 1 <= MaxReceives /\ 2 * (receives + 1) = 2 * receives + 2
      BY <3>1, <3>2, FileBounds
    <3>4. 2 * (receives + 1) <= 2 * MaxReceives
      BY <3>2, <3>3, FileBounds
    <3>5. QED
      BY <3>1, <3>2, <3>3, <3>4, FileBounds DEF Copies
  <2>2. r \in Reception
    BY <2>1 DEF Reception
  <2>3. ClipTypes'
    <3>1. generation' \in 0 .. (2 * MaxReceives)
      BY <2>1, FileBounds
    <3>2. shown' = NoReception /\ ours' = TRUE /\ job' = r
      BY <1>5 DEF receiveAsync, empty
    <3>3. QED
      BY <2>1, <2>2, <3>1, <3>2 DEF ClipTypes, Receptions
  <2>4. SourceTypes'
    BY <1>5, FileBounds DEF receiveAsync, FileInv, SourceTypes
  <2>5. QED
    BY <1>1, <1>5, <2>3, <2>4, GroupsKept DEF receiveAsync, FileInv
<1>6. CASE cancelReceive
  <2>1. /\ receives' \in 0 .. MaxReceives /\ generation' <= 2 * receives'
        /\ generation' \in 0 .. (2 * MaxReceives)
    <3>1. receives < MaxReceives /\ receives' = receives + 1 /\ generation' = generation + 1
      BY <1>6 DEF cancelReceive, empty
    <3>2. receives \in Nat /\ generation \in Nat /\ generation <= 2 * receives
      BY FileBounds DEF FileInv, ClipTypes
    <3>3. receives + 1 <= MaxReceives /\ 2 * (receives + 1) = 2 * receives + 2
      BY <3>1, <3>2, FileBounds
    <3>4. 2 * (receives + 1) <= 2 * MaxReceives
      BY <3>2, <3>3, FileBounds
    <3>5. QED
      BY <3>1, <3>2, <3>3, <3>4, FileBounds
  <2>2. ClipTypes'
    BY <1>6, <2>1 DEF cancelReceive, empty, FileInv, ClipTypes, Receptions
  <2>3. QED
    BY <1>1, <1>6, <2>2, GroupsKept DEF cancelReceive, FileInv, sourceVars
<1>7. CASE localCopy
  <2>1. ClipTypes'
    BY <1>7 DEF localCopy, FileInv, ClipTypes, Receptions
  <2>2. QED
    BY <1>1, <1>7, <2>1, GroupsKept DEF localCopy, FileInv, sourceVars
<1>8. CASE paste \/ filesMoved
  <2>1. PasteTypes'
    BY <1>8 DEF paste, filesMoved, FileInv, PasteTypes, ClipTypes, Receptions
  <2>2. QED
    BY <1>1, <1>8, <2>1, GroupsKept DEF paste, filesMoved, FileInv, sourceVars
<1>9. CASE captureArrives
  <2>1. CountTypes'
    <3>1. captures < MaxCaptures /\ captures' = captures + 1 /\ captureJobs' = captureJobs + 1
          /\ failures' = failures
      BY <1>9 DEF captureArrives
    <3>2. QED
      BY <3>1, FileBounds DEF FileInv, CountTypes
  <2>2. QED
    BY <1>1, <1>9, <2>1, GroupsKept DEF captureArrives, FileInv, sourceVars
<1>10. QED
  BY <1>2, <1>3, <1>4, <1>5, <1>6, <1>7, <1>8, <1>9

\* The receiver's thread.
LEMMA FileReceives ==
    ASSUME FileInv, Receive \/ jobFails
    PROVE  FileInv'
<1> USE DEF Receive
<1>1. ASSUME fetching' \in {"manifest", "capture", "nothing"}, reception' \in Receptions, attempt' = 1,
             staged' = <<>>
      PROVE  FetchTypes' /\ StagedInv'
  <2>1. <<>> \in Seq(0 .. MaxEdits) /\ DOMAIN <<>> = {} /\ 1 \in 1 .. MaxAttempts
    BY FileBounds, EmptySeq
  <2>2. FetchTypes'
    BY <1>1, <2>1 DEF FetchTypes
  <2>3. StagedInv'
    BY <1>1, <2>1 DEF StagedInv, StagedWhole
  <2>4. QED
    BY <2>2, <2>3
<1>2. CASE takeJob
  <2>1. serving \in {"idle", "unheard"}
    BY <1>2 DEF takeJob, FileInv, ThreadsAgree, ServeTypes
  <2>2. /\ fetching' \in {"manifest", "capture"} /\ attempt' = 1 /\ staged' = <<>>
        /\ UNCHANGED <<sourceVars, serveVars, receives, generation, shown, ours, pasting, moved, failures, captures>>
    BY <1>2 DEF takeJob, fetch
  <2>3. /\ fetching' = "manifest" => reception' \in Reception
        /\ reception' \in Receptions /\ job' \in Receptions
        /\ published' \in {published, NoReception}
        /\ captureJobs' \in 0 .. captures
    <3>1. CASE captureJobs > 0 /\ captureJobs' = captureJobs - 1 /\ fetch("capture")
               /\ published' = keptByCapture /\ UNCHANGED <<job, reception>>
      BY <3>1, FileBounds DEF fetch, keptByCapture, FileInv, CountTypes, ClipTypes, FetchTypes
    <3>2. CASE job # NoReception /\ reception' = job /\ job' = NoReception
               /\ published' = NoReception /\ UNCHANGED captureJobs
      BY <3>2 DEF FileInv, CountTypes, ClipTypes, Receptions
    <3>3. QED
      BY <1>2, <3>1, <3>2 DEF takeJob
  <2>4. FetchTypes' /\ StagedInv'
    BY <1>1, <2>2, <2>3
  <2>5. ThreadsAgree'
    BY <2>1, <2>2, <2>3 DEF FileInv, ThreadsAgree, serveVars
  <2>6. ClipTypes' /\ PasteTypes' /\ CountTypes'
    BY <2>2, <2>3 DEF FileInv, ClipTypes, PasteTypes, CountTypes, Receptions
  <2>7. QED
    BY <2>2, <2>4, <2>5, <2>6, GroupsKept DEF FileInv
<1>3. CASE captureDone
  <2>1. FetchTypes' /\ ThreadsAgree'
    BY <1>3 DEF captureDone, FileInv, FetchTypes, ThreadsAgree, sourceVars, serveVars
  <2>2. StagedInv'
    BY <1>3, StagedKept DEF captureDone, sourceVars
  <2>3. QED
    BY <1>3, <2>1, <2>2, GroupsKept DEF captureDone, FileInv
<1>4. CASE connect
  <2>1. ServeTypes' /\ ThreadsAgree'
    BY <1>4 DEF connect, FileInv, ServeTypes, ThreadsAgree, sourceVars, fetchVars
  <2>2. StagedInv'
    BY <1>4, StagedKept DEF connect, sourceVars, fetchVars
  <2>3. QED
    BY <1>4, <2>1, <2>2, GroupsKept DEF connect, FileInv
<1>5. CASE cancels
  <2>1. FetchKept /\ fetching' = "nothing"
    BY <1>5, EndsKept DEF cancels
  <2>2. StagedInv'
    BY <1>5, <2>1, StagedKept DEF cancels, FetchKept, sourceVars
  <2>3. serving' = (IF serving = "unheard" THEN serving ELSE "idle") /\ toClear' = toClear
    BY <1>5 DEF cancels
  <2>4. ServeTypes' /\ ThreadsAgree'
    BY <2>1, <2>3 DEF FileInv, ServeTypes, ThreadsAgree
  <2>5. PasteTypes'
    BY <1>5, <2>1 DEF cancels, FetchKept, FileInv, PasteTypes
  <2>6. QED
    BY <1>5, <2>1, <2>2, <2>4, <2>5, GroupsKept DEF cancels, FileInv, FetchKept
<1>6. CASE publish
  <2>1. /\ fetching = "staged" /\ fetching' = "ready" /\ attempt' = 1 /\ shown' = reception
        /\ ours' = TRUE /\ published' = reception
        /\ UNCHANGED <<reception, staged, receives, generation, job, sourceVars, serveVars, pasting, moved,
                       captureJobs, failures, captures>>
    BY <1>6 DEF publish, fetch
  <2>2. reception \in Reception
    BY <2>1 DEF FileInv, ThreadsAgree
  <2>3. FetchTypes'
    BY <2>1, FileBounds DEF FileInv, FetchTypes
  <2>4. ClipTypes' /\ PasteTypes'
    BY <2>1, <2>2 DEF FileInv, ClipTypes, PasteTypes, Receptions
  <2>5. ThreadsAgree'
    BY <2>1, <2>2 DEF FileInv, ThreadsAgree, serveVars
  <2>6. StagedInv'
    BY <2>1 DEF FileInv, StagedInv, StagedWhole
  <2>7. QED
    BY <2>1, <2>3, <2>4, <2>5, <2>6, GroupsKept DEF FileInv
<1>7. CASE jobFails
  <2>1. FetchKept /\ fetching' = "nothing"
    BY <1>7, EndsKept DEF jobFails
  <2>2. StagedInv'
    BY <1>7, <2>1, StagedKept DEF jobFails, FetchKept, sourceVars
  <2>3. UNCHANGED serveVars /\ serving = "idle"
    BY <1>7 DEF jobFails
  <2>4. ThreadsAgree'
    BY <2>1, <2>3 DEF FileInv, ThreadsAgree, serveVars
  <2>5. PasteTypes'
    BY <1>7, <2>1 DEF jobFails, FetchKept, FileInv, PasteTypes
  <2>6. CountTypes'
    BY <1>7, FileBounds DEF jobFails, FileInv, CountTypes
  <2>7. QED
    BY <1>7, <2>1, <2>2, <2>3, <2>4, <2>5, <2>6, GroupsKept DEF jobFails, FileInv, FetchKept
<1>8. CASE pasteCheck
  <2>1. /\ fetching = "nothing" /\ published # NoReception
        /\ shown' \in {shown, NoReception} /\ reception' \in {reception, published}
        /\ \/ fetching' = "pasted" /\ attempt' = 1 /\ reception' = published
           \/ UNCHANGED <<reception, fetching, attempt>>
        /\ published' \in {published, NoReception}
        /\ UNCHANGED <<staged, receives, generation, ours, job, sourceVars, serveVars, pasting, moved,
                   captureJobs, failures, captures>>
    BY <1>8 DEF pasteCheck, fetch
  <2>2. published \in Reception
    BY <2>1 DEF FileInv, PasteTypes, Receptions
  <2>3. FetchTypes'
    BY <2>1, <2>2, FileBounds DEF FileInv, FetchTypes, Receptions
  <2>4. ClipTypes' /\ PasteTypes'
    BY <2>1, <2>2 DEF FileInv, ClipTypes, PasteTypes, Receptions
  <2>5. ThreadsAgree'
    BY <2>1, <2>2 DEF FileInv, ThreadsAgree, serveVars
  <2>6. StagedInv'
    BY <2>1 DEF FileInv, StagedInv, StagedWhole
  <2>7. QED
    BY <2>1, <2>3, <2>4, <2>5, <2>6, GroupsKept DEF FileInv
<1>9. QED
  BY <1>2, <1>3, <1>4, <1>5, <1>6, <1>7, <1>8

\* The source's thread, and what breaks.
LEMMA FileServes ==
    ASSUME FileInv, Serve \/ breaks \/ clearFails
    PROVE  FileInv'
<1> USE DEF Serve
<1>1. ASSUME FetchKept, UNCHANGED <<pasting, moved>> PROVE PasteTypes'
  BY <1>1 DEF FetchKept, FileInv, PasteTypes
<1>2. ASSUME FetchKept, UNCHANGED sourceVars PROVE StagedInv'
  BY <1>2, StagedKept DEF FetchKept, sourceVars
<1>3. ASSUME FetchKept, UNCHANGED sourceVars, serving' = "idle" PROVE ThreadsAgree'
  BY <1>3 DEF FileInv, ThreadsAgree, FetchKept
<1>4. CASE serving = "asked" /\ refuses /\ UNCHANGED <<clipVars, captureJobs, failures, captures>>
  <2>1. FetchKept /\ serving' = "idle" /\ UNCHANGED <<toClear, sourceVars, pasting, moved>>
    BY <1>4, FailsKept DEF refuses
  <2>2. ServeTypes'
    BY <2>1 DEF FileInv, ServeTypes
  <2>3. QED
    BY <1>1, <1>2, <1>3, <1>4, <2>1, <2>2, GroupsKept DEF FileInv, FetchKept
<1>5. CASE serveRefused
  BY <1>4, <1>5 DEF serveRefused
<1>6. CASE serveManifest
  <2>1. /\ serving' = "idle" /\ fetching = "manifest" /\ fetching' = "data" /\ attempt' = 1
        /\ UNCHANGED <<toClear, reception, staged, sourceVars, clipVars, pasteVars, captureJobs, failures, captures>>
    BY <1>6 DEF serveManifest, fetch
  <2>2. ServeTypes' /\ FetchTypes'
    BY <2>1, FileBounds DEF FileInv, ServeTypes, FetchTypes
  <2>3. ThreadsAgree'
    BY <2>1 DEF FileInv, ThreadsAgree
  <2>4. StagedInv'
    <3>1. staged = <<>> /\ Len(staged) = 0 /\ 1 .. Len(staged) = {}
      <4>1. staged = <<>>
        BY <2>1 DEF FileInv, StagedInv
      <4>2. Len(staged) = 0
        BY <4>1, EmptySeq
      <4>3. QED
        BY <4>1, <4>2
    <3>2. QED
      BY <2>1, <3>1, FileBounds DEF StagedInv, FileInv, StagedWhole
  <2>5. QED
    BY <2>1, <2>2, <2>3, <2>4, GroupsKept DEF FileInv
<1>7. CASE serveFile
  <2> DEFINE first == identities[reception.offer]
  <2>1. serving = "asked" /\ fetching = "data" /\ UNCHANGED <<clipVars, captureJobs, failures, captures>>
    BY <1>7 DEF serveFile
  <2>2. reception.offer \in Copies /\ version \in 0 .. MaxEdits
    BY <2>1 DEF FileInv, ThreadsAgree, Reception, SourceTypes
  <2>3. CASE /\ sameIdentity(first) /\ serving' = "streaming"
             /\ identities' = [identities EXCEPT ![reception.offer] = IF first = NoVersion THEN version ELSE first]
             /\ UNCHANGED <<toClear, copies, sourceClip, version, current, pasted, offered, fetchVars, pasteVars>>
    <3>1. identities' = [identities EXCEPT ![reception.offer] = version]
          /\ (identities[reception.offer] \in {NoVersion, version})
      BY <2>3 DEF sameIdentity
    <3>2. version \in 0 .. NoVersion /\ version # NoVersion
      BY <2>2, FileBounds DEF NoVersion
    <3>3. SourceTypes'
      BY <2>2, <2>3, <3>1, <3>2 DEF FileInv, SourceTypes
    <3>4. ServeTypes'
      BY <2>3 DEF FileInv, ServeTypes
    <3>5. identities'[reception.offer] = version
      BY <2>2, <3>1 DEF FileInv, SourceTypes
    <3>6. ThreadsAgree'
      BY <2>1, <2>3, <3>5 DEF FileInv, ThreadsAgree, fetchVars
    <3>7. StagedInv'
      <4>1. \A o \in Copies : identities[o] # NoVersion => identities'[o] = identities[o]
        BY <2>2, <3>1 DEF FileInv, SourceTypes
      <4>2. QED
        BY <2>3, <4>1, StagedKept DEF fetchVars
    <3>8. QED
      BY <2>1, <2>3, <3>3, <3>4, <3>6, <3>7, GroupsKept DEF FileInv
  <2>4. QED
    BY <1>4, <1>7, <2>1, <2>3 DEF serveFile
<1>8. CASE sendChunk
  <2>1. /\ serving = "streaming" /\ staged' = Append(staged, version)
        /\ \/ Len(staged') = Chunks /\ serving' = "idle" /\ fetching' = "staged" /\ attempt' = 1
           \/ Len(staged') # Chunks /\ UNCHANGED <<serving, fetching, attempt>>
        /\ UNCHANGED <<toClear, reception, sourceVars, clipVars, pasteVars, captureJobs, failures, captures>>
    BY <1>8 DEF sendChunk, fetch
  <2>2. /\ fetching = "data" /\ identities[reception.offer] = version /\ version \in 0 .. MaxEdits
        /\ staged \in Seq(0 .. MaxEdits) /\ Len(staged) < Chunks /\ reception \in Reception
        /\ \A i \in 1 .. Len(staged) : staged[i] = version
    BY <2>1 DEF FileInv, ThreadsAgree, StagedInv, SourceTypes, FetchTypes
  <2>3. /\ staged' \in Seq(0 .. MaxEdits) /\ Len(staged') = Len(staged) + 1
        /\ DOMAIN staged' = 1 .. Len(staged') /\ Len(staged) \in Nat
        /\ \A i \in 1 .. Len(staged') : staged'[i] = version
    <3>1. /\ Append(staged, version) \in Seq(0 .. MaxEdits) /\ Len(Append(staged, version)) = Len(staged) + 1
          /\ \A i \in 1 .. Len(staged) : Append(staged, version)[i] = staged[i]
          /\ Append(staged, version)[Len(staged) + 1] = version /\ Len(staged) \in Nat
      BY <2>2, AppendProperties, LenProperties
    <3>2. DOMAIN Append(staged, version) = 1 .. Len(Append(staged, version))
      BY <3>1, LenProperties
    <3>3. \A i \in 1 .. Len(Append(staged, version)) : i \in 1 .. Len(staged) \/ i = Len(staged) + 1
      BY <3>1
    <3>4. QED
      BY <2>1, <2>2, <3>1, <3>2, <3>3
  <2>4. ServeTypes' /\ FetchTypes'
    BY <2>1, <2>2, <2>3, FileBounds DEF FileInv, ServeTypes, FetchTypes
  <2>5. ThreadsAgree'
    BY <2>1, <2>2 DEF FileInv, ThreadsAgree, sourceVars
  <2>6. StagedInv'
    <3>1. Len(staged') # Chunks => Len(staged') < Chunks
      BY <2>2, <2>3, FileBounds
    <3>2. identities'[reception'.offer] = version
      BY <2>1, <2>2 DEF sourceVars
    <3>3. fetching' # "manifest" /\ (fetching' = "data" => Len(staged') # Chunks)
          /\ (fetching' = "staged" => Len(staged') = Chunks)
      BY <2>1, <2>2
    <3>4. QED
      BY <2>3, <3>1, <3>2, <3>3 DEF StagedInv, StagedWhole
  <2>7. QED
    BY <2>1, <2>4, <2>5, <2>6, GroupsKept DEF FileInv
<1>9. CASE serveReady
  <2>1. ServeTypes' /\ ThreadsAgree'
    BY <1>9 DEF serveReady, FileInv, ServeTypes, ThreadsAgree, sourceVars, fetchVars
  <2>2. StagedInv'
    BY <1>9, StagedKept DEF serveReady, sourceVars, fetchVars
  <2>3. QED
    BY <1>9, <2>1, <2>2, GroupsKept DEF serveReady, FileInv
<1>10. CASE servePasted
  <2>1. /\ serving = "asked" /\ fetching = "pasted" /\ reception.offer \in Copies
        /\ \/ pasted' = pasted \cup {reception.offer} /\ serving' = "replying" /\ UNCHANGED toClear
           \/ toClear' = reception.offer /\ serving' = "clearing" /\ UNCHANGED pasted
        /\ UNCHANGED <<copies, sourceClip, version, current, identities, offered, clipVars, fetchVars,
                       pasteVars, captureJobs, failures, captures>>
    BY <1>10 DEF servePasted, FileInv, ThreadsAgree, Reception
  <2>2. SourceTypes'
    BY <2>1 DEF FileInv, SourceTypes
  <2>3. ServeTypes'
    BY <2>1, FileBounds DEF FileInv, ServeTypes, Copies
  <2>4. ThreadsAgree'
    BY <2>1 DEF FileInv, ThreadsAgree, fetchVars
  <2>5. StagedInv'
    BY <2>1, StagedKept DEF fetchVars
  <2>6. QED
    BY <2>1, <2>2, <2>3, <2>4, <2>5, GroupsKept DEF FileInv
<1>11. CASE clearSourceClipboard
  <2>1. /\ serving \in {"clearing", "unheard"} /\ sourceClip' \in {0, sourceClip}
        /\ pasted' = pasted \cup {toClear} /\ toClear' = 0
        /\ serving' = IF serving = "clearing" THEN "replying" ELSE "idle"
        /\ UNCHANGED <<copies, version, current, identities, offered, clipVars, fetchVars, pasteVars,
                       captureJobs, failures, captures>>
    BY <1>11 DEF clearSourceClipboard, cleared
  <2>2. toClear \in Copies
    BY <2>1 DEF FileInv, ThreadsAgree
  <2>3. SourceTypes'
    BY <2>1, <2>2, FileBounds DEF FileInv, SourceTypes
  <2>4. ServeTypes'
    BY <2>1, FileBounds DEF FileInv, ServeTypes
  <2>5. ThreadsAgree'
    BY <2>1 DEF FileInv, ThreadsAgree, fetchVars
  <2>6. StagedInv'
    BY <2>1, StagedKept DEF fetchVars
  <2>7. QED
    BY <2>1, <2>3, <2>4, <2>5, <2>6, GroupsKept DEF FileInv
<1>12. CASE replied
  <2>1. FetchKept /\ serving' = "idle" /\ UNCHANGED <<toClear, sourceVars, pasting, moved>>
    BY <1>12, EndsKept DEF replied
  <2>2. ServeTypes'
    BY <2>1 DEF FileInv, ServeTypes
  <2>3. QED
    BY <1>1, <1>2, <1>3, <1>12, <2>1, <2>2, GroupsKept DEF replied, FileInv, FetchKept
<1>13. CASE breaks
  <2>1. /\ FetchKept /\ UNCHANGED <<toClear, sourceVars, clipVars, pasting, moved, captureJobs, captures>>
        /\ failures < MaxFailures /\ failures' = failures + 1
        /\ serving' = IF serving = "clearing" THEN "unheard" ELSE "idle"
    BY <1>13, FailsKept DEF breaks
  <2>2. ServeTypes'
    BY <2>1 DEF FileInv, ServeTypes
  <2>3. ThreadsAgree'
    BY <2>1 DEF FileInv, ThreadsAgree, FetchKept
  <2>4. CountTypes'
    BY <2>1, FileBounds DEF FileInv, CountTypes
  <2>5. QED
    BY <1>1, <1>2, <2>1, <2>2, <2>3, <2>4, GroupsKept DEF FileInv, FetchKept
<1>14. CASE clearFails
  <2>1. /\ serving' = "idle" /\ toClear' = 0 /\ failures < MaxFailures /\ failures' = failures + 1
        /\ UNCHANGED <<sourceVars, clipVars, pasting, moved, captureJobs, captures>>
    BY <1>14 DEF clearFails
  <2>2. FetchKept
    <3>1. CASE serving = "unheard"
      BY <1>14, <3>1 DEF clearFails, FetchKept, fetchVars, FileInv, FetchTypes, PasteTypes
    <3>2. CASE serving # "unheard"
      BY <1>14, <3>2, FailsKept DEF clearFails
    <3>3. QED
      BY <3>1, <3>2
  <2>3. ServeTypes'
    BY <2>1, FileBounds DEF ServeTypes
  <2>4. CountTypes'
    BY <2>1, FileBounds DEF FileInv, CountTypes
  <2>5. QED
    BY <1>1, <1>2, <1>3, <2>1, <2>2, <2>3, <2>4, GroupsKept DEF FileInv, FetchKept
<1>15. QED
  BY <1>5, <1>6, <1>7, <1>8, <1>9, <1>10, <1>11, <1>12, <1>13, <1>14

LEMMA FileNext == FileInv /\ [Next]_vars => FileInv'
<1>1. FileInv /\ UNCHANGED vars => FileInv'
  BY DEF vars, sourceVars, serveVars, clipVars, fetchVars, pasteVars, FileInv, SourceTypes, ServeTypes,
         ClipTypes, FetchTypes, PasteTypes, CountTypes, ThreadsAgree, StagedInv, StagedWhole
<1>2. QED
  BY <1>1, FileUsers, FileReceives, FileServes DEF Next

\* However often the connection broke and the file was edited meanwhile, it is staged whole and
\* of one version (FileClipboardTransfer::fetch, serveFile).
THEOREM FilesAlwaysWhole == Spec => []FilesWhole
<1>1. FileInv => FilesWhole
  BY FileTyped DEF FilesWhole, FileInv, StagedInv
<1>2. QED
  BY <1>1, FileInit, FileNext, PTL DEF Spec

\* What the receiver's clipboard shows is what was sent to it last
\* (FileClipboardTransfer.cpp: publish asks once more with the clipboard open).
THEOREM Newest == Spec => []NewestShown
<1>1. Init => NewestShown
  BY DEF Init, NewestShown
<1>2. NewestShown /\ [Next]_vars => NewestShown'
  <2> SUFFICES ASSUME NewestShown, [Next]_vars PROVE NewestShown'
    OBVIOUS
  <2> USE DEF sourceVars, clipVars, fetchVars, pasteVars, serveVars, NewestShown
  <2>1. CASE publish
    BY <2>1 DEF publish, mayPublish, Cancelled
  <2>2. CASE pasteCheck
    BY <2>2 DEF pasteCheck
  <2>3. CASE receiveAsync
    BY <2>3 DEF receiveAsync, empty
  <2>4. CASE cancelReceive
    BY <2>4 DEF cancelReceive, empty
  <2>5. CASE localCopy
    BY <2>5 DEF localCopy
  <2>6. CASE takeJob \/ captureDone \/ connect \/ cancels
    BY <2>6 DEF takeJob, captureDone, connect, cancels
  <2>7. CASE Serve
    BY <2>7 DEF Serve, serveRefused, serveManifest, serveFile, sendChunk, serveReady, servePasted,
               clearSourceClipboard, replied
  <2>8. CASE breaks \/ clearFails \/ jobFails
    BY <2>8 DEF breaks, clearFails, jobFails
  <2>9. CASE userCopies \/ userEdits \/ offer \/ paste \/ filesMoved \/ captureArrives
    BY <2>9 DEF userCopies, userEdits, offer, paste, filesMoved, captureArrives
  <2>10. CASE UNCHANGED vars
    BY <2>10 DEF vars
  <2>11. QED
    BY <2>1, <2>2, <2>3, <2>4, <2>5, <2>6, <2>7, <2>8, <2>9, <2>10 DEF Next, Receive
<1>3. QED
  BY <1>1, <1>2, PTL DEF Spec

------------------------------------------------------------------------------
(* The source's copy.  It is cleared only after its thread was told of a paste; *)
(* the receiver tells of one only of files that are gone.                       *)

\* Of the offer, files were pasted and moved.
Pasted(o) == \E p \in moved : p.offer = o

ClearInv ==
    /\ copies \in Nat
    /\ fetching = "pasted" => reception \in moved
    /\ serving \in {"clearing", "unheard"} => Pasted(toClear)

LEMMA ClearNext == ClearInv /\ [Next]_vars => ClearInv'
<1> SUFFICES ASSUME ClearInv, [Next]_vars PROVE ClearInv'
  OBVIOUS
<1> USE DEF sourceVars, clipVars, fetchVars, pasteVars, serveVars, ClearInv, Pasted
<1>1. CASE pasteCheck
  BY <1>1 DEF pasteCheck, fetch
<1>2. CASE servePasted
  BY <1>2 DEF servePasted, Served
<1>3. CASE takeJob
  BY <1>3 DEF takeJob, fetch
<1>4. CASE captureDone \/ connect \/ publish
  BY <1>4 DEF captureDone, connect, publish, fetch
<1>5. CASE cancels
  BY <1>5 DEF cancels, ends
<1>6. CASE serveRefused
  BY <1>6 DEF serveRefused, refuses, attemptFails, ends
<1>7. CASE serveManifest \/ sendChunk \/ serveReady
  BY <1>7 DEF serveManifest, sendChunk, serveReady, fetch
<1>8. CASE serveFile
  <2>1. CASE refuses
    BY <1>8, <2>1 DEF serveFile, refuses, attemptFails, ends
  <2>2. CASE ~refuses
    BY <1>8, <2>2 DEF serveFile
  <2>3. QED
    BY <2>1, <2>2
<1>9. CASE clearSourceClipboard
  BY <1>9 DEF clearSourceClipboard
<1>10. CASE replied
  BY <1>10 DEF replied, ends
<1>11. CASE breaks
  BY <1>11 DEF breaks, attemptFails, ends
<1>12. CASE clearFails
  BY <1>12 DEF clearFails, attemptFails, ends
<1>13. CASE jobFails
  BY <1>13 DEF jobFails, ends
<1>14. CASE filesMoved
  BY <1>14 DEF filesMoved
<1>15. CASE userCopies \/ userEdits \/ offer \/ receiveAsync \/ cancelReceive
  BY <1>15 DEF userCopies, userEdits, offer, receiveAsync, cancelReceive
<1>16. CASE localCopy \/ paste \/ captureArrives
  BY <1>16 DEF localCopy, paste, captureArrives
<1>17. CASE UNCHANGED vars
  BY <1>17 DEF vars
<1>18. QED
  BY <1>1, <1>2, <1>3, <1>4, <1>5, <1>6, <1>7, <1>8, <1>9, <1>10, <1>11, <1>12, <1>13, <1>14, <1>15,
     <1>16, <1>17 DEF Next, Serve, Receive

\* Only the paste of the copy that is on the source's clipboard clears it
\* (clearSourceClipboard looks at the copy again with the clipboard open).
THEOREM CopySurvives == Spec => SourceCopySurvives
<1>1. Init => ClearInv
  BY DEF Init, ClearInv
<1>2. ClearInv /\ [Next]_vars =>
        [sourceClip' = 0 /\ sourceClip # 0 => \E p \in moved : p.offer = sourceClip]_vars
  <2> SUFFICES ASSUME ClearInv, [Next]_vars, sourceClip' = 0, sourceClip # 0
      PROVE  Pasted(sourceClip) \/ UNCHANGED vars
    BY DEF Pasted
  <2> USE DEF sourceVars
  <2>1. CASE clearSourceClipboard
    BY <2>1 DEF clearSourceClipboard, cleared, ClearInv
  <2>2. CASE Serve /\ ~clearSourceClipboard
    BY <2>2 DEF Serve, serveRefused, refuses, serveManifest, serveFile, sendChunk, serveReady,
               servePasted, replied
  <2>3. CASE Receive
    BY <2>3 DEF Receive, takeJob, captureDone, connect, cancels, publish, pasteCheck
  <2>4. CASE userCopies
    BY <2>4 DEF userCopies, ClearInv
  <2>5. CASE breaks \/ clearFails \/ jobFails
    BY <2>5 DEF breaks, clearFails, jobFails
  <2>6. CASE userEdits \/ offer \/ receiveAsync \/ cancelReceive \/ localCopy \/ paste \/ filesMoved
             \/ captureArrives
    BY <2>6 DEF userEdits, offer, receiveAsync, cancelReceive, localCopy, paste, filesMoved, captureArrives
  <2>7. QED
    BY <2>1, <2>2, <2>3, <2>4, <2>5, <2>6 DEF Next
<1>3. QED
  BY <1>1, <1>2, ClearNext, PTL DEF Spec, SourceCopySurvives

------------------------------------------------------------------------------
(* Numbers and answers of capture requests.                                     *)

\* What the module says of finite sets is what the library proves about.
LEMMA CapturesFinite ==
    /\ Capture!CaptureAssumption => IsFiniteSet(Captures)
    /\ Capture!Numbers = 1 .. Cardinality(Captures)
<1>1. \A S : Capture!IsFiniteSet(S) <=> IsFiniteSet(S)
  BY DEF Capture!IsFiniteSet, IsFiniteSet
<1>2. \A S : Capture!Cardinality(S) = Cardinality(S)
  BY DEF Capture!Cardinality, Cardinality
<1>3. QED
  BY <1>1, <1>2 DEF Capture!CaptureAssumption, Capture!Numbers

Asked == {c \in Captures : request[c] # 0}

\* Numbers are given once, in their order.
NumbersInv ==
    /\ told \in [Captures -> {"new", "offered", "waiting", "ok", "failed"}]
    /\ request \in [Captures -> Nat]
    /\ requests = Cardinality(Asked)
    /\ \A c \in Captures : request[c] <= requests
    /\ \A c, d \in Captures : request[c] = request[d] /\ request[c] # 0 => c = d
    /\ \A c \in Captures : told[c] \in {"new", "offered"} => request[c] = 0
    /\ \A c \in Captures : told[c] = "waiting" => request[c] # 0

\* Numbers of requests whose capture is known to the server.
KnownNumbers == {n \in Nat : \A c \in Captures : request[c] = n => c \in known}

\* What is on its way, and what has arrived.
AnswersInv ==
    /\ replies \in [Capture!Numbers -> {"absent", "empty", "ok", "refused"}]
    /\ toServer \in Seq(Capture!Message) /\ toClient \in Seq(Capture!Answer)
    /\ \A i \in 1..Len(toServer) : request[toServer[i].capture] = toServer[i].number
    /\ \A i \in 1..Len(toClient) :
        toClient[i].number <= requests /\ (toClient[i].ok => toClient[i].number \in KnownNumbers)
    /\ \A n \in Capture!Numbers : replies[n] = "ok" => n <= requests /\ n \in KnownNumbers
    /\ Capture!AnswerMatches

LEMMA NumbersInit == Capture!CaptureAssumption /\ Capture!Init => NumbersInv
<1> SUFFICES ASSUME Capture!CaptureAssumption, Capture!Init PROVE NumbersInv
  OBVIOUS
<1>1. Asked = {}
  BY DEF Asked, Capture!Init
<1>2. requests = Cardinality(Asked)
  BY <1>1, FS_EmptySet DEF Capture!Init
<1>3. QED
  BY <1>2 DEF Capture!Init, NumbersInv

\* A request that is made gets the next number, and a place for its answer.
LEMMA NextNumber ==
    ASSUME Capture!CaptureAssumption, NumbersInv, NEW c \in Captures, told[c] = "offered"
    PROVE  /\ requests \in Nat /\ requests + 1 \in Capture!Numbers
           /\ Cardinality(Asked \cup {c}) = requests + 1
<1>1. IsFiniteSet(Captures) /\ Asked \subseteq Captures
  BY CapturesFinite DEF Asked
<1>2. IsFiniteSet(Asked) /\ requests \in Nat
  BY <1>1, FS_Subset, FS_CardinalityType DEF NumbersInv
<1>3. c \notin Asked
  BY DEF Asked, NumbersInv
<1>4. Cardinality(Asked \cup {c}) = requests + 1
  BY <1>2, <1>3, FS_AddElement DEF NumbersInv
<1>5. Cardinality(Asked \cup {c}) <= Cardinality(Captures) /\ Cardinality(Captures) \in Nat
  BY <1>1, FS_Subset, FS_CardinalityType
<1>6. QED
  BY <1>2, <1>4, <1>5, CapturesFinite

LEMMA NumbersNext == Capture!CaptureAssumption /\ NumbersInv /\ [Capture!Next]_captureVars => NumbersInv'
<1> SUFFICES ASSUME Capture!CaptureAssumption, NumbersInv, [Capture!Next]_captureVars PROVE NumbersInv'
  OBVIOUS
<1> USE DEF Capture!clientVars, Capture!serverVars
<1>1. ASSUME NEW c \in Captures, Capture!requestCapture(c) PROVE NumbersInv'
  <2>1. CASE capturing
    <3>1. /\ told[c] = "offered" /\ told' = [told EXCEPT ![c] = "waiting"]
          /\ requests' = requests + 1 /\ request' = [request EXCEPT ![c] = requests + 1]
      BY <1>1, <2>1 DEF Capture!requestCapture, Capture!tell
    <3>2. requests \in Nat /\ Cardinality(Asked \cup {c}) = requests + 1
      BY <3>1, NextNumber
    <3>3. Asked' = Asked \cup {c}
      BY <3>1, <3>2 DEF Asked, NumbersInv
    <3>4. requests' = Cardinality(Asked)'
      BY <3>1, <3>2, <3>3
    <3>5. QED
      BY <3>1, <3>2, <3>4 DEF NumbersInv
  <2>2. CASE ~capturing
    <3>1. told' = [told EXCEPT ![c] = "failed"] /\ UNCHANGED <<request, requests>>
      BY <1>1, <2>2 DEF Capture!requestCapture, Capture!tell
    <3>2. Asked' = Asked
      BY <3>1 DEF Asked
    <3>3. QED
      BY <3>1, <3>2 DEF NumbersInv
  <2>3. QED
    BY <2>1, <2>2
<1>2. ASSUME UNCHANGED <<told, request, requests>> PROVE NumbersInv'
  BY <1>2 DEF NumbersInv, Asked
<1>3. ASSUME NEW c \in Captures, Capture!captureOffer(c) \/ Capture!requestReturns(c) PROVE NumbersInv'
  <2>1. UNCHANGED <<request, requests>>
    BY <1>3 DEF Capture!captureOffer, Capture!requestReturns
  <2>2. \E outcome \in {"offered", "ok", "failed"} :
            /\ told' = [told EXCEPT ![c] = outcome]
            /\ outcome = "offered" => told[c] = "new"
    BY <1>3 DEF Capture!captureOffer, Capture!requestReturns, Capture!tell
  <2>3. Asked' = Asked
    BY <2>1 DEF Asked
  <2>4. QED
    BY <2>1, <2>2, <2>3 DEF NumbersInv
<1>4. QED
  <2>1. CASE Capture!captureResponse \/ Capture!captureReceive \/ Capture!fetchCapture \/ Capture!setCaptureSender \/ Capture!clearCaptureSender
    BY <1>2, <2>1 DEF Capture!captureResponse, Capture!captureReceive, Capture!fetchCapture, Capture!setCaptureSender, Capture!clearCaptureSender
  <2>2. CASE UNCHANGED captureVars
    BY <1>2, <2>2 DEF captureVars
  <2>3. QED
    BY <1>1, <1>3, <2>1, <2>2 DEF Capture!Next

------------------------------------------------------------------------------

LEMMA AnswersNext == Capture!CaptureAssumption /\ NumbersInv /\ AnswersInv /\ [Capture!Next]_captureVars => AnswersInv'
<1> SUFFICES ASSUME Capture!CaptureAssumption, NumbersInv, AnswersInv, [Capture!Next]_captureVars PROVE AnswersInv'
  OBVIOUS
<1> USE DEF Capture!clientVars, Capture!serverVars
<1>1. ASSUME NEW c \in Captures, Capture!requestCapture(c) PROVE AnswersInv'
  <2>1. CASE capturing
    <3> DEFINE m == [number |-> requests + 1, capture |-> c]
    <3>1. /\ told[c] = "offered" /\ told' = [told EXCEPT ![c] = "waiting"]
          /\ requests' = requests + 1 /\ request' = [request EXCEPT ![c] = requests + 1]
          /\ replies' = [replies EXCEPT ![requests + 1] = "empty"]
          /\ toServer' = Append(toServer, m) /\ UNCHANGED <<toClient, known>>
      BY <1>1, <2>1 DEF Capture!requestCapture, Capture!tell
    <3>2. requests \in Nat /\ requests + 1 \in Capture!Numbers /\ request[c] = 0
      BY <3>1, NextNumber DEF NumbersInv
    <3>3. m \in Capture!Message
      BY <3>2 DEF Capture!Message
    <3>4. \A i \in 1..Len(toServer) : toServer[i] \in Capture!Message
      BY ElementOfSeq DEF AnswersInv
    <3>5. \A i \in 1..Len(toServer) : toServer[i].capture # c
      BY <3>2, <3>4 DEF AnswersInv, Capture!Message, Capture!Numbers
    <3>6. /\ toServer' \in Seq(Capture!Message)
          /\ \A i \in 1..Len(toServer') : request'[toServer'[i].capture] = toServer'[i].number
      <4>1. /\ Append(toServer, m) \in Seq(Capture!Message) /\ Len(Append(toServer, m)) = Len(toServer) + 1
            /\ \A i \in 1..Len(toServer) : Append(toServer, m)[i] = toServer[i]
            /\ Append(toServer, m)[Len(toServer) + 1] = m
        BY <3>3, AppendProperties DEF AnswersInv
      <4>2. \A i \in 1..Len(toServer) :
                request'[toServer[i].capture] = toServer[i].number
        BY <3>1, <3>4, <3>5 DEF AnswersInv, NumbersInv, Capture!Message
      <4>3. request'[m.capture] = m.number
        BY <3>1 DEF NumbersInv
      <4>4. Len(toServer) \in Nat
        BY LenProperties DEF AnswersInv
      <4>5. QED
        BY <3>1, <4>1, <4>2, <4>3, <4>4
    <3>7. \A n \in Nat : n <= requests /\ n \in KnownNumbers /\ n # 0 => n \in KnownNumbers'
      BY <3>1, <3>2 DEF KnownNumbers, NumbersInv
    <3>8. \A i \in 1..Len(toClient) : toClient[i] \in Capture!Answer
      BY ElementOfSeq DEF AnswersInv
    <3>9. \A i \in 1..Len(toClient') :
            toClient'[i].number <= requests' /\ (toClient'[i].ok => toClient'[i].number \in KnownNumbers')
      BY <3>1, <3>2, <3>7, <3>8 DEF AnswersInv, Capture!Answer, Capture!Numbers
    <3>10. \A n \in Capture!Numbers : replies'[n] = "ok" => n <= requests' /\ n \in KnownNumbers'
      BY <3>1, <3>2, <3>7 DEF AnswersInv, Capture!Numbers
    <3>11. Capture!AnswerMatches'
      BY <3>1 DEF AnswersInv, Capture!AnswerMatches, NumbersInv
    <3>12. replies' \in [Capture!Numbers -> {"absent", "empty", "ok", "refused"}]
      BY <3>1 DEF AnswersInv
    <3>13. QED
      BY <3>1, <3>6, <3>9, <3>10, <3>11, <3>12 DEF AnswersInv
  <2>2. CASE ~capturing
    <3>1. told' = [told EXCEPT ![c] = "failed"]
          /\ UNCHANGED <<request, requests, replies, toServer, toClient, known>>
      BY <1>1, <2>2 DEF Capture!requestCapture, Capture!tell
    <3>2. QED
      BY <3>1 DEF AnswersInv, KnownNumbers, Capture!AnswerMatches, NumbersInv
  <2>3. QED
    BY <2>1, <2>2
<1>2. ASSUME NEW c \in Captures, Capture!requestReturns(c) PROVE AnswersInv'
  <2>1. /\ told[c] = "waiting"
        /\ told' = [told EXCEPT ![c] = IF replies[request[c]] = "ok" THEN "ok" ELSE "failed"]
        /\ replies' = [replies EXCEPT ![request[c]] = "absent"]
        /\ UNCHANGED <<request, requests, toServer, toClient, known>>
    BY <1>2 DEF Capture!requestReturns, Capture!tell
  <2>2. requests <= Cardinality(Captures) /\ requests \in Nat /\ Cardinality(Captures) \in Nat
    <3>1. IsFiniteSet(Captures) /\ Asked \subseteq Captures
      BY CapturesFinite DEF Asked
    <3>2. QED
      BY <3>1, FS_Subset, FS_CardinalityType DEF NumbersInv
  <2>3. request[c] \in Capture!Numbers
    BY <2>1, <2>2, CapturesFinite DEF NumbersInv
  <2>4. replies[request[c]] = "ok" => c \in known
    BY <2>3 DEF AnswersInv, KnownNumbers
  <2>5. Capture!AnswerMatches'
    BY <2>1, <2>4 DEF AnswersInv, Capture!AnswerMatches, NumbersInv
  <2>6. QED
    BY <2>1, <2>5 DEF AnswersInv, KnownNumbers
<1>3. CASE Capture!captureResponse
  <2> DEFINE a == Head(toClient)
  <2>1. /\ toClient # <<>> /\ toClient' = Tail(toClient)
        /\ replies' = [n \in Capture!Numbers |-> IF Capture!answered(a, n) THEN IF a.ok THEN "ok" ELSE "refused"
                                         ELSE replies[n]]
        /\ UNCHANGED <<told, request, requests, toServer, known>>
    BY <1>3 DEF Capture!captureResponse
  <2>2. /\ Tail(toClient) \in Seq(Capture!Answer) /\ Len(Tail(toClient)) = Len(toClient) - 1
        /\ \A i \in 1..Len(Tail(toClient)) : Tail(toClient)[i] = toClient[i + 1]
        /\ Len(toClient) \in Nat \ {0} /\ a = toClient[1]
    BY <2>1, HeadTailProperties, EmptySeq DEF AnswersInv
  <2>3. KnownNumbers' = KnownNumbers
    BY <2>1 DEF KnownNumbers
  <2>4. \A i \in 1..Len(toClient') :
            toClient'[i].number <= requests /\ (toClient'[i].ok => toClient'[i].number \in KnownNumbers)
    BY <2>1, <2>2 DEF AnswersInv
  <2>5. a.number <= requests /\ (a.ok => a.number \in KnownNumbers)
    BY <2>2 DEF AnswersInv
  <2>6. \A n \in Capture!Numbers : replies'[n] = "ok" => n <= requests /\ n \in KnownNumbers
    BY <2>1, <2>5 DEF AnswersInv, Capture!answered
  <2>7. replies' \in [Capture!Numbers -> {"absent", "empty", "ok", "refused"}]
    BY <2>1 DEF AnswersInv
  <2>8. Capture!AnswerMatches'
    BY <2>1 DEF AnswersInv, Capture!AnswerMatches
  <2>9. QED
    BY <2>1, <2>2, <2>3, <2>4, <2>6, <2>7, <2>8 DEF AnswersInv
<1>4. CASE Capture!captureReceive
  <2> DEFINE m == Head(toServer)
             ok == m.capture \in known \/ Len(k_queue) < MaxPending
             a == [number |-> m.number, ok |-> ok]
  <2>1. /\ toServer # <<>> /\ toServer' = Tail(toServer) /\ toClient' = Append(toClient, a)
        /\ known \subseteq known' /\ (ok => m.capture \in known')
        /\ UNCHANGED <<told, request, requests, replies>>
    BY <1>4 DEF Capture!captureReceive
  <2>2. /\ Tail(toServer) \in Seq(Capture!Message) /\ Len(Tail(toServer)) = Len(toServer) - 1
        /\ \A i \in 1..Len(Tail(toServer)) : Tail(toServer)[i] = toServer[i + 1]
        /\ Len(toServer) \in Nat \ {0} /\ m = toServer[1] /\ m \in Capture!Message
    BY <2>1, HeadTailProperties, EmptySeq DEF AnswersInv
  <2>3. request[m.capture] = m.number
    BY <2>2 DEF AnswersInv
  <2>4. ok \in BOOLEAN /\ a \in Capture!Answer /\ m.number \in Capture!Numbers /\ m.capture \in Captures
    BY <2>2 DEF Capture!Message, Capture!Answer
  <2>5. /\ Append(toClient, a) \in Seq(Capture!Answer) /\ Len(Append(toClient, a)) = Len(toClient) + 1
        /\ \A i \in 1..Len(toClient) : Append(toClient, a)[i] = toClient[i]
        /\ Append(toClient, a)[Len(toClient) + 1] = a /\ Len(toClient) \in Nat
    BY <2>4, AppendProperties, LenProperties DEF AnswersInv
  <2>6. KnownNumbers \subseteq KnownNumbers'
    BY <2>1 DEF KnownNumbers
  <2>7. a.number <= requests /\ (a.ok => a.number \in KnownNumbers')
    <3>1. a.number = request[m.capture] /\ a.number # 0 /\ a.number <= requests
      BY <2>3, <2>4 DEF NumbersInv, Capture!Numbers
    <3>2. a.ok => m.capture \in known'
      BY <2>1
    <3>3. \A c \in Captures : request[c] = a.number => c = m.capture
      BY <2>4, <3>1 DEF NumbersInv
    <3>4. QED
      BY <2>1, <2>4, <3>1, <3>2, <3>3 DEF KnownNumbers, Capture!Numbers
  <2>8. \A i \in 1..Len(toClient') :
            toClient'[i].number <= requests /\ (toClient'[i].ok => toClient'[i].number \in KnownNumbers')
    <3> SUFFICES ASSUME NEW i \in 1..(Len(toClient) + 1)
                 PROVE  /\ Append(toClient, a)[i].number <= requests
                        /\ Append(toClient, a)[i].ok => Append(toClient, a)[i].number \in KnownNumbers'
      BY <2>1, <2>5
    <3>1. CASE i = Len(toClient) + 1
      BY <2>5, <2>7, <3>1
    <3>2. CASE i \in 1..Len(toClient)
      BY <2>5, <2>6, <3>2 DEF AnswersInv
    <3>3. QED
      BY <2>5, <3>1, <3>2
  <2>9. \A i \in 1..Len(toServer') : request'[toServer'[i].capture] = toServer'[i].number
    BY <2>1, <2>2 DEF AnswersInv
  <2>10. Capture!AnswerMatches'
    BY <2>1 DEF AnswersInv, Capture!AnswerMatches
  <2>11. QED
    BY <2>1, <2>2, <2>5, <2>6, <2>8, <2>9, <2>10 DEF AnswersInv
<1>5. CASE Capture!clearCaptureSender
  <2>1. /\ toServer' \in {toServer, <<>>} /\ toClient' \in {toClient, <<>>}
        /\ UNCHANGED <<told, request, requests, replies, known>>
    BY <1>5 DEF Capture!clearCaptureSender
  <2>2. toServer' \in Seq(Capture!Message) /\ toClient' \in Seq(Capture!Answer) /\ Len(<<>>) = 0
    BY <2>1, EmptySeq DEF AnswersInv
  <2>3. QED
    BY <2>1, <2>2 DEF AnswersInv, KnownNumbers, Capture!AnswerMatches
<1>6. ASSUME UNCHANGED <<request, requests, replies, toServer, toClient, known>>,
             \A c \in Captures : told'[c] = "ok" => told[c] = "ok"
      PROVE  AnswersInv'
  BY <1>6 DEF AnswersInv, KnownNumbers, Capture!AnswerMatches
<1>7. ASSUME NEW c \in Captures, Capture!captureOffer(c) PROVE AnswersInv'
  <2>1. \E outcome \in {"offered", "failed"} : told' = [told EXCEPT ![c] = outcome]
    BY <1>7 DEF Capture!captureOffer
  <2>2. UNCHANGED <<request, requests, replies, toServer, toClient, known>>
    BY <1>7 DEF Capture!captureOffer
  <2>3. QED
    BY <1>6, <2>1, <2>2 DEF NumbersInv
<1>8. CASE Capture!fetchCapture \/ Capture!setCaptureSender
  BY <1>6, <1>8 DEF Capture!fetchCapture, Capture!setCaptureSender
<1>9. CASE UNCHANGED captureVars
  BY <1>6, <1>9 DEF captureVars
<1>10. QED
  BY <1>1, <1>2, <1>3, <1>4, <1>5, <1>7, <1>8, <1>9 DEF Capture!Next

LEMMA AnswersInit == Capture!Init => AnswersInv
<1> SUFFICES ASSUME Capture!Init PROVE AnswersInv
  OBVIOUS
<1>1. toServer \in Seq(Capture!Message) /\ toClient \in Seq(Capture!Answer) /\ Len(<<>>) = 0
  BY EmptySeq DEF Capture!Init
<1>2. QED
  BY <1>1 DEF Capture!Init, AnswersInv, Capture!AnswerMatches

LEMMA AwaitedNext == NumbersInv /\ AnswersInv /\ Capture!RepliesAwaited /\ [Capture!Next]_captureVars => Capture!RepliesAwaited'
<1> SUFFICES ASSUME NumbersInv, AnswersInv, Capture!RepliesAwaited, [Capture!Next]_captureVars PROVE Capture!RepliesAwaited'
  OBVIOUS
<1> USE DEF Capture!clientVars, Capture!serverVars
<1>1. ASSUME NEW c \in Captures, Capture!requestCapture(c) PROVE Capture!RepliesAwaited'
  <2>1. CASE capturing
    BY <1>1, <2>1 DEF Capture!requestCapture, Capture!tell, Capture!RepliesAwaited, NumbersInv, AnswersInv
  <2>2. CASE ~capturing
    BY <1>1, <2>2 DEF Capture!requestCapture, Capture!tell, Capture!RepliesAwaited, NumbersInv
  <2>3. QED
    BY <2>1, <2>2
<1>2. ASSUME NEW c \in Captures, Capture!requestReturns(c) PROVE Capture!RepliesAwaited'
  <2>1. \E outcome \in {"ok", "failed"} : told' = [told EXCEPT ![c] = outcome]
    BY <1>2 DEF Capture!requestReturns, Capture!tell
  <2>2. replies' = [replies EXCEPT ![request[c]] = "absent"] /\ request' = request
    BY <1>2 DEF Capture!requestReturns
  <2>3. QED
    BY <2>1, <2>2 DEF Capture!RepliesAwaited, NumbersInv, AnswersInv
<1>3. CASE Capture!captureResponse
  BY <1>3 DEF Capture!captureResponse, Capture!answered, Capture!RepliesAwaited
<1>4. ASSUME NEW c \in Captures, Capture!captureOffer(c) PROVE Capture!RepliesAwaited'
  <2>1. told[c] = "new" /\ \E outcome \in {"offered", "failed"} : told' = [told EXCEPT ![c] = outcome]
    BY <1>4 DEF Capture!captureOffer
  <2>2. UNCHANGED <<request, replies>>
    BY <1>4 DEF Capture!captureOffer
  <2>3. QED
    BY <2>1, <2>2 DEF Capture!RepliesAwaited, NumbersInv
<1>5. CASE Capture!captureReceive \/ Capture!fetchCapture \/ Capture!setCaptureSender \/ Capture!clearCaptureSender
  BY <1>5 DEF Capture!captureReceive, Capture!fetchCapture, Capture!setCaptureSender, Capture!clearCaptureSender, Capture!RepliesAwaited
<1>6. CASE UNCHANGED captureVars
  BY <1>6 DEF captureVars, Capture!RepliesAwaited
<1>7. QED
  BY <1>1, <1>2, <1>3, <1>4, <1>5, <1>6 DEF Capture!Next

------------------------------------------------------------------------------
(* What the server is about to fetch.                                            *)

\* A command that goes on has an offer, unless its capture was saved; what waits to be
\* fetched is known, was not saved, and waits once.
FetchInv ==
    /\ status \in [Captures -> {"none", "preparing", "failed", "saved"}]
    /\ offers \subseteq Captures /\ capturing \in BOOLEAN /\ drops \in 0..MaxDrops
    /\ known \subseteq Captures /\ k_queue \in Seq(known) /\ saved \subseteq known
    /\ \A i \in 1..Len(k_queue) : k_queue[i] \notin saved
    /\ \A i, j \in 1..Len(k_queue) : k_queue[i] = k_queue[j] => i = j
    /\ \A c \in known : request[c] # 0
    /\ \A c \in Captures : status[c] = "failed" => told[c] = "failed"
    /\ \A c \in Captures : status[c] = "saved" => c \in saved
    /\ \A c \in Captures : told[c] \in {"offered", "waiting", "ok"} => c \in offers \cup saved

LEMMA FetchInit == Capture!CaptureAssumption /\ Capture!Init => FetchInv
<1> SUFFICES ASSUME Capture!CaptureAssumption, Capture!Init PROVE FetchInv
  OBVIOUS
<1>1. k_queue \in Seq(known) /\ 1 .. Len(k_queue) = {}
  <2>1. k_queue \in Seq(known) /\ Len(k_queue) = 0
    BY EmptySeq DEF Capture!Init
  <2>2. QED
    BY <2>1
<1>2. 0 \in 0 .. MaxDrops
  BY DEF Capture!CaptureAssumption
<1>3. QED
  BY <1>1, <1>2 DEF Capture!Init, FetchInv

\* The request, its number and what is told change nothing that was fetched.
LEMMA FetchTold ==
    ASSUME NumbersInv, FetchInv, NEW c \in Captures, NEW outcome \in {"waiting", "ok", "failed"},
           told[c] \in {"offered", "waiting"}, Capture!tell(c, outcome),
           \A d \in Captures : request'[d] = 0 => request[d] = 0,
           UNCHANGED <<offers, capturing, drops, known, k_queue, saved>>
    PROVE  FetchInv'
<1>1. /\ told' = [told EXCEPT ![c] = outcome]
      /\ status' = IF outcome = "failed" THEN [status EXCEPT ![c] = "failed"] ELSE status
  BY DEF Capture!tell
<1>2. status' \in [Captures -> {"none", "preparing", "failed", "saved"}]
  BY <1>1 DEF FetchInv
<1>3. \A d \in Captures : status'[d] = "failed" => told'[d] = "failed"
  BY <1>1 DEF FetchInv, NumbersInv
<1>4. \A d \in Captures : status'[d] = "saved" => d \in saved
  BY <1>1 DEF FetchInv
<1>5. \A d \in Captures : told'[d] \in {"offered", "waiting", "ok"} => d \in offers \cup saved
  BY <1>1 DEF FetchInv, NumbersInv
<1>6. QED
  BY <1>2, <1>3, <1>4, <1>5 DEF FetchInv

LEMMA FetchNext ==
    ASSUME Capture!CaptureAssumption, NumbersInv, AnswersInv, FetchInv, [Capture!Next]_captureVars
    PROVE  FetchInv'
<1> USE DEF Capture!clientVars, Capture!serverVars
<1>1. ASSUME NEW c \in Captures, Capture!captureOffer(c) PROVE FetchInv'
  <2> DEFINE kept == {o \in offers : ~Capture!finished(o)}
  <2>1. /\ told[c] = "new"
        /\ \/ /\ offers' = kept \cup {c} /\ told' = [told EXCEPT ![c] = "offered"]
              /\ status' = [status EXCEPT ![c] = "preparing"]
           \/ offers' = kept /\ told' = [told EXCEPT ![c] = "failed"] /\ status' = status
        /\ UNCHANGED <<request, capturing, drops, known, k_queue, saved>>
    BY <1>1 DEF Capture!captureOffer
  <2>2. \A o \in offers : o \notin kept => o \in saved \/ told[o] = "failed"
    BY DEF Capture!finished, FetchInv
  <2>3. kept \subseteq offers
    OBVIOUS
  <2> HIDE DEF kept
  <2>4. c \notin known
    BY <2>1 DEF FetchInv, NumbersInv
  <2>5. \A d \in Captures : told'[d] \in {"offered", "waiting", "ok"} => d \in offers' \cup saved
    BY <2>1, <2>2 DEF FetchInv, NumbersInv
  <2>6. \A d \in Captures : status'[d] = "failed" => told'[d] = "failed"
    BY <2>1 DEF FetchInv, NumbersInv
  <2>7. \A d \in Captures : status'[d] = "saved" => d \in saved
    BY <2>1 DEF FetchInv
  <2>8. status' \in [Captures -> {"none", "preparing", "failed", "saved"}] /\ offers' \subseteq Captures
    BY <2>1, <2>3 DEF FetchInv
  <2>9. QED
    BY <2>1, <2>5, <2>6, <2>7, <2>8 DEF FetchInv
<1>2. ASSUME NEW c \in Captures, Capture!requestCapture(c) PROVE FetchInv'
  <2>1. told[c] = "offered" /\ UNCHANGED <<offers, capturing, drops, known, k_queue, saved>>
    BY <1>2 DEF Capture!requestCapture
  <2>2. requests \in Nat
    BY <2>1, NextNumber
  <2>3. \A d \in Captures : request'[d] = 0 => request[d] = 0
    BY <1>2, <2>2 DEF Capture!requestCapture, NumbersInv
  <2>4. Capture!tell(c, "waiting") \/ Capture!tell(c, "failed")
    BY <1>2 DEF Capture!requestCapture
  <2>5. QED
    BY <2>1, <2>3, <2>4, FetchTold
<1>3. ASSUME NEW c \in Captures, Capture!requestReturns(c) PROVE FetchInv'
  <2>1. /\ told[c] = "waiting" /\ (Capture!tell(c, "ok") \/ Capture!tell(c, "failed"))
        /\ UNCHANGED <<request, offers, capturing, drops, known, k_queue, saved>>
    BY <1>3 DEF Capture!requestReturns
  <2>2. QED
    BY <2>1, FetchTold
<1>4. CASE Capture!captureResponse \/ Capture!setCaptureSender
  BY <1>4 DEF Capture!captureResponse, Capture!setCaptureSender, FetchInv
<1>5. CASE Capture!clearCaptureSender
  <2>1. capturing' = FALSE /\ drops' \in 0 .. MaxDrops
    BY <1>5 DEF Capture!clearCaptureSender, FetchInv, Capture!CaptureAssumption
  <2>2. UNCHANGED <<told, status, offers, request, known, k_queue, saved>>
    BY <1>5 DEF Capture!clearCaptureSender
  <2>3. QED
    BY <2>1, <2>2 DEF FetchInv
<1>6. CASE Capture!captureReceive
  <2> DEFINE c == Head(toServer).capture
  <2>1. /\ toServer # <<>> /\ UNCHANGED <<told, status, offers, request, capturing, saved, drops>>
        /\ \/ c \notin known /\ known' = known \cup {c} /\ k_queue' = Append(k_queue, c)
           \/ UNCHANGED <<known, k_queue>>
    BY <1>6 DEF Capture!captureReceive
  <2>2. c \in Captures /\ request[c] # 0
    <3>1. /\ Head(toServer) = toServer[1] /\ 1 \in 1 .. Len(toServer)
          /\ Head(toServer) \in Capture!Message
      BY <2>1, HeadTailProperties, EmptySeq, LenProperties DEF AnswersInv
    <3>2. request[c] = Head(toServer).number
      BY <3>1 DEF AnswersInv
    <3>3. QED
      BY <3>1, <3>2 DEF Capture!Message, Capture!Numbers
  <2> HIDE DEF c
  <2>3. CASE c \notin known /\ known' = known \cup {c} /\ k_queue' = Append(k_queue, c)
    <3>1. k_queue \in Seq(known') /\ \A i \in 1 .. Len(k_queue) : k_queue[i] \in known
      BY <2>3, SeqWider, Queued DEF FetchInv
    <3>2. /\ Append(k_queue, c) \in Seq(known') /\ Len(Append(k_queue, c)) = Len(k_queue) + 1
          /\ \A i \in 1 .. Len(k_queue) : Append(k_queue, c)[i] = k_queue[i]
          /\ Append(k_queue, c)[Len(k_queue) + 1] = c /\ Len(k_queue) \in Nat
      BY <2>3, <3>1, AppendProperties, LenProperties
    <3>3. c \notin saved
      BY <2>3 DEF FetchInv
    <3>4. \A i \in 1 .. Len(k_queue') : i \in 1 .. Len(k_queue) \/ i = Len(k_queue) + 1
      BY <2>3, <3>2
    <3>5. \A i \in 1 .. Len(k_queue') : k_queue'[i] \notin saved
      BY <2>3, <3>2, <3>3, <3>4 DEF FetchInv
    <3>6. \A i, j \in 1 .. Len(k_queue') : k_queue'[i] = k_queue'[j] => i = j
      BY <2>3, <3>1, <3>2, <3>4 DEF FetchInv
    <3>7. QED
      BY <2>1, <2>2, <2>3, <3>2, <3>5, <3>6 DEF FetchInv
  <2>4. CASE UNCHANGED <<known, k_queue>>
    BY <2>1, <2>4 DEF FetchInv
  <2>5. QED
    BY <2>1, <2>3, <2>4
<1>7. CASE Capture!fetchCapture
  <2> DEFINE c == Head(k_queue)
  <2>1. /\ k_queue # <<>> /\ k_queue' = Tail(k_queue)
        /\ UNCHANGED <<told, offers, request, capturing, known, drops>>
        /\ \/ saved' = saved \cup {c} /\ status' = [status EXCEPT ![c] = "saved"]
           \/ UNCHANGED <<saved, status>>
    BY <1>7 DEF Capture!fetchCapture
  <2>2. /\ Tail(k_queue) \in Seq(known) /\ Len(Tail(k_queue)) = Len(k_queue) - 1
        /\ \A i \in 1..Len(Tail(k_queue)) : Tail(k_queue)[i] = k_queue[i + 1]
        /\ Len(k_queue) \in Nat \ {0} /\ c = k_queue[1] /\ c \in known
    BY <2>1, HeadTailProperties, EmptySeq, LenProperties DEF FetchInv
  <2> HIDE DEF c
  <2>3. \A i \in 1 .. Len(k_queue') : i + 1 \in 1 .. Len(k_queue) /\ i + 1 # 1 /\ i \in Nat
    BY <2>1, <2>2
  <2>4. 1 \in 1 .. Len(k_queue)
    BY <2>2
  <2>5. \A i \in 1 .. Len(k_queue') : k_queue'[i] \notin saved /\ k_queue'[i] # c
    BY <2>1, <2>2, <2>3, <2>4 DEF FetchInv
  <2>6. \A i, j \in 1 .. Len(k_queue') : k_queue'[i] = k_queue'[j] => i = j
    <3> SUFFICES ASSUME NEW i \in 1 .. Len(k_queue'), NEW j \in 1 .. Len(k_queue'), k_queue'[i] = k_queue'[j]
                 PROVE  i = j
      OBVIOUS
    <3>1. i + 1 = j + 1
      BY <2>1, <2>2, <2>3 DEF FetchInv
    <3>2. QED
      BY <2>3, <3>1
  <2>7. \A i \in 1 .. Len(k_queue') : k_queue'[i] \notin saved'
    BY <2>1, <2>5
  <2>8. /\ saved' \subseteq known /\ saved \subseteq saved'
        /\ status' \in [Captures -> {"none", "preparing", "failed", "saved"}]
    BY <2>1, <2>2 DEF FetchInv
  <2>9. \A d \in Captures : /\ status'[d] = "failed" => told[d] = "failed"
                            /\ status'[d] = "saved" => d \in saved'
    BY <2>1, <2>2 DEF FetchInv
  <2>10. QED
    BY <2>1, <2>2, <2>6, <2>7, <2>8, <2>9 DEF FetchInv
<1>8. CASE UNCHANGED captureVars
  BY <1>8 DEF captureVars, FetchInv
<1>9. QED
  BY <1>1, <1>2, <1>3, <1>4, <1>5, <1>6, <1>7, <1>8 DEF Capture!Next

LEMMA QueueFetched ==
    ASSUME Capture!CaptureAssumption, NumbersInv, FetchInv
    PROVE  Capture!QueuedCanBeFetched
<1> SUFFICES ASSUME NEW i \in 1 .. Len(k_queue)
             PROVE  k_queue[i] \in offers \/ told[k_queue[i]] = "failed"
  BY LenProperties DEF Capture!QueuedCanBeFetched, FetchInv
<1>1. k_queue[i] \in known /\ k_queue[i] \in Captures /\ k_queue[i] \notin saved
  BY Queued DEF FetchInv
<1>2. QED
  BY <1>1 DEF FetchInv, NumbersInv

LEMMA CaptureTypes ==
    ASSUME Capture!CaptureAssumption, NumbersInv, AnswersInv, FetchInv
    PROVE  Capture!TypeOK
<1>1. IsFiniteSet(Captures) /\ Asked \subseteq Captures
  BY CapturesFinite DEF Asked
<1>2. requests \in Nat /\ requests <= Cardinality(Captures) /\ Cardinality(Captures) \in Nat
  BY <1>1, FS_Subset, FS_CardinalityType DEF NumbersInv
<1>3. requests \in 0 .. Cardinality(Captures)
  BY <1>2
<1>4. request \in [Captures -> 0 .. Cardinality(Captures)]
  BY <1>2 DEF NumbersInv
<1>5. \A S : Capture!Cardinality(S) = Cardinality(S)
  BY DEF Capture!Cardinality, Cardinality
<1>6. QED
  BY <1>3, <1>4, <1>5 DEF Capture!TypeOK, NumbersInv, AnswersInv, FetchInv

\* Whoever is told that the server receives a capture is told so of that capture, however late
\* the answers to other requests come; places for answers do not pile up; and what the server
\* is about to fetch is there, unless the client was told that it failed
\* (FileClipboardTransfer.cpp: requestCapture, captureResponse, capture-receive, captureOffer).
THEOREM CapturesAlways ==
    ASSUME Capture!CaptureAssumption PROVE Capture!Spec => []CapturesAnswered
<1> DEFINE Inv == NumbersInv /\ AnswersInv /\ Capture!RepliesAwaited /\ FetchInv
<1>1. Capture!Init => Inv
  BY NumbersInit, AnswersInit, FetchInit DEF Capture!Init, Capture!RepliesAwaited
<1>2. Inv /\ [Capture!Next]_(Capture!vars) => Inv'
  <2>1. [Capture!Next]_(Capture!vars) => [Capture!Next]_captureVars
    BY DEF Capture!vars, captureVars, Capture!clientVars, Capture!serverVars
  <2>2. QED
    BY <2>1, NumbersNext, AnswersNext, AwaitedNext, FetchNext
<1>3. Inv => CapturesAnswered
  BY CaptureTypes, QueueFetched DEF CapturesAnswered, AnswersInv
<1>4. QED
  BY <1>1, <1>2, <1>3, PTL DEF Capture!Spec

------------------------------------------------------------------------------
(* The event queue.                                                            *)

Sender(e) == e[1]
Number(e) == e[2]

\* Of two events of one thread the second is the newer one, or it is among those put aside.
Follows(f, e, late) ==
    Sender(e) = Sender(f) => Number(e) < Number(f) \/ (Number(e) > Number(f) /\ f \in late)

InTurn(q, late) == \A i, j \in 1 .. Len(q) : i < j => Follows(q[j], q[i], late)

\* What is stored, in the order of the ids that wait.
Stored == [i \in 1 .. Len(buffer) |-> events[buffer[i]]]

QueueTypes ==
    /\ ready \in BOOLEAN /\ draining \in BOOLEAN
    /\ pending \in Seq(Queue!Events) /\ dispatched \in Seq(Queue!Events)
    /\ buffer \in Seq(Nat) /\ oldIDs \in Seq(Nat)
    /\ events \in [DOMAIN events -> Queue!Events]
    /\ holding \in [Producers -> BOOLEAN] /\ sent \in [Producers -> 0 .. MaxEvents]
    /\ aside \subseteq Queue!Events /\ discarded \subseteq Queue!Events
    /\ adopts \in 0 .. MaxAdopts

\* The ids in use and the free ones are the first numbers, each once.
IDsKept ==
    /\ Distinct(buffer) /\ Distinct(oldIDs)
    /\ DOMAIN events = Elements(buffer)
    /\ Elements(buffer) \cap Elements(oldIDs) = {}
    /\ Elements(buffer) \cup Elements(oldIDs) = 0 .. (Len(buffer) + Len(oldIDs) - 1)

\* What the threads sent, and what they hold.
AllSent == {e \in Queue!Events : Number(e) <= sent[Sender(e)]}
HeldBack == {e \in Queue!Events : holding[Sender(e)] /\ sent[Sender(e)] = Number(e)}

\* The sets have no element in common, and together they are the whole.
Parted(whole, h, p, s, d, x) ==
    /\ h \cup p \cup s \cup d \cup x = whole
    /\ h \cap p = {} /\ h \cap s = {} /\ h \cap d = {} /\ h \cap x = {}
    /\ p \cap s = {} /\ p \cap d = {} /\ p \cap x = {}
    /\ s \cap d = {} /\ s \cap x = {} /\ d \cap x = {}

EventsParted ==
    /\ Parted(AllSent, HeldBack, Elements(pending), Elements(Stored), Elements(dispatched),
              discarded)
    /\ Distinct(pending) /\ Distinct(Stored) /\ Distinct(dispatched)
    /\ \A p \in Producers : holding[p] => sent[p] # 0
    /\ Len(oldIDs) <= Len(dispatched)

EventsInTurn ==
    /\ Elements(pending) \subseteq aside
    /\ InTurn(dispatched, aside) /\ InTurn(Stored, aside)
    /\ \A e \in Elements(dispatched), f \in Elements(Stored) : Follows(f, e, aside)

QueueInv == QueueTypes /\ IDsKept /\ EventsParted /\ EventsInTurn

\* What is stored is a sequence of events, and its elements are those of the table.
LEMMA StoredEvents ==
    ASSUME QueueTypes, DOMAIN events = Elements(buffer)
    PROVE  /\ Stored \in Seq(Queue!Events) /\ Len(Stored) = Len(buffer) /\ Len(buffer) \in Nat
           /\ \A i \in 1 .. Len(buffer) : Stored[i] = events[buffer[i]] /\ buffer[i] \in DOMAIN events
           /\ Elements(Stored) = {events[i] : i \in DOMAIN events}
<1>1. Len(buffer) \in Nat
  BY LenProperties DEF QueueTypes
<1>2. \A i \in 1 .. Len(buffer) : buffer[i] \in DOMAIN events
  BY DEF Elements
<1>3. \A i \in 1 .. Len(buffer) : events[buffer[i]] \in Queue!Events
  BY <1>2 DEF QueueTypes
<1>4. Stored \in Seq(Queue!Events) /\ Len(Stored) = Len(buffer)
  BY <1>1, <1>3, IsASeq, LenProperties DEF Stored
<1>5. \A i \in 1 .. Len(buffer) : Stored[i] = events[buffer[i]]
  BY DEF Stored
<1>6. Elements(Stored) = {events[i] : i \in DOMAIN events}
  BY <1>4, <1>5 DEF Elements
<1>7. QED
  BY <1>1, <1>2, <1>4, <1>5, <1>6

LEMMA QueueFinite ==
    /\ \A S : Queue!Cardinality(S) = Cardinality(S)
    /\ \A S : Queue!IsFiniteSet(S) <=> IsFiniteSet(S)
  BY DEF Queue!Cardinality, Cardinality, Queue!IsFiniteSet, IsFiniteSet

\* The identifiers after an event was stored (saveEvent), and what is stored.
LEMMA Saved ==
    ASSUME QueueTypes, IDsKept, NEW e \in Queue!Events, Queue!addEventToBuffer(e)
    PROVE  /\ IDsKept' /\ Stored' = Append(Stored, e)
           /\ buffer' \in Seq(Nat) /\ oldIDs' \in Seq(Nat)
           /\ events' \in [DOMAIN events' -> Queue!Events]
           /\ Len(oldIDs') <= Len(oldIDs) /\ Len(oldIDs') \in Nat /\ Len(oldIDs) \in Nat
<1> DEFINE n == Queue!saveID
<1>1. /\ events' = [i \in DOMAIN events \cup {n} |-> IF i = n THEN e ELSE events[i]]
      /\ buffer' = Append(buffer, n)
      /\ oldIDs' = IF oldIDs # <<>> THEN SubSeq(oldIDs, 1, Len(oldIDs) - 1) ELSE oldIDs
  BY DEF Queue!addEventToBuffer
<1>2. /\ buffer \in Seq(Nat) /\ oldIDs \in Seq(Nat) /\ Len(buffer) \in Nat /\ Len(oldIDs) \in Nat
      /\ Distinct(buffer) /\ Distinct(oldIDs) /\ DOMAIN events = Elements(buffer)
      /\ Elements(buffer) \cap Elements(oldIDs) = {}
      /\ Elements(buffer) \cup Elements(oldIDs) = 0 .. (Len(buffer) + Len(oldIDs) - 1)
  BY LenProperties DEF QueueTypes, IDsKept
<1>3. /\ n \in Nat /\ n \notin Elements(buffer) /\ n \notin Elements(oldIDs')
      /\ oldIDs' \in Seq(Nat) /\ Len(oldIDs') \in Nat /\ Len(oldIDs') <= Len(oldIDs)
      /\ Distinct(oldIDs') /\ Elements(oldIDs') \subseteq Elements(oldIDs)
      /\ Elements(buffer) \cup {n} \cup Elements(oldIDs') = 0 .. (Len(buffer) + 1 + Len(oldIDs') - 1)
  <2>1. CASE oldIDs # <<>>
    <3>1. n = oldIDs[Len(oldIDs)]
      BY <2>1 DEF Queue!saveID, Queue!Last
    <3>2. oldIDs' = SubSeq(oldIDs, 1, Len(oldIDs) - 1)
      BY <1>1, <2>1
    <3>3. /\ oldIDs' \in Seq(Nat) /\ Len(oldIDs') = Len(oldIDs) - 1 /\ Len(oldIDs) \in Nat \ {0}
          /\ n \in Elements(oldIDs) /\ Elements(oldIDs') = Elements(oldIDs) \ {n}
          /\ Distinct(oldIDs')
      BY <1>2, <2>1, <3>1, <3>2, DistinctFront
    <3>4. \A i \in 1 .. Len(oldIDs) : oldIDs[i] \in Nat
      BY <1>2, Queued
    <3>5. n \in Nat
      BY <3>3, <3>4 DEF Elements
    <3>6. Len(buffer) + 1 + Len(oldIDs') - 1 = Len(buffer) + Len(oldIDs) - 1
      BY <1>2, <3>3
    <3>7. Len(oldIDs') \in Nat /\ Len(oldIDs') <= Len(oldIDs)
      BY <3>3
    <3> HIDE DEF n
    <3>8. QED
      BY <1>2, <3>3, <3>5, <3>6, <3>7
  <2>2. CASE oldIDs = <<>>
    <3>1. Len(oldIDs) = 0 /\ Elements(oldIDs) = {} /\ oldIDs' = oldIDs
      BY <1>1, <2>2 DEF Elements
    <3>2. n = Cardinality(Elements(buffer))
      BY <1>2, <2>2, QueueFinite DEF Queue!saveID
    <3>3. n = Len(buffer)
      BY <1>2, <3>2, DistinctSize
    <3>4. Elements(buffer) = 0 .. (Len(buffer) - 1)
      BY <1>2, <3>1
    <3>5. \A k \in Nat : /\ 0 .. (k + 1 + 0 - 1) = (0 .. (k - 1)) \cup {k}
                         /\ k \notin 0 .. (k - 1) /\ 0 <= 0
      OBVIOUS
    <3> HIDE DEF n
    <3>6. QED
      BY <1>2, <3>1, <3>3, <3>4, <3>5
  <2>3. QED
    BY <2>1, <2>2
<1> HIDE DEF n
<1>4. /\ buffer' \in Seq(Nat) /\ Len(buffer') = Len(buffer) + 1
      /\ buffer'[Len(buffer) + 1] = n /\ \A i \in 1 .. Len(buffer) : buffer'[i] = buffer[i]
  BY <1>1, <1>2, <1>3, AppendProperties
<1>5. Elements(buffer') = Elements(buffer) \cup {n} /\ Distinct(buffer')
  BY <1>1, <1>2, <1>3, DistinctAppend
<1>6. /\ DOMAIN events' = Elements(buffer') /\ events'[n] = e
      /\ \A i \in DOMAIN events : events'[i] = events[i]
  BY <1>1, <1>2, <1>3, <1>5
<1>7. IDsKept'
  <2>1. Elements(buffer') \cap Elements(oldIDs') = {}
    BY <1>2, <1>3, <1>5
  <2>2. Elements(buffer') \cup Elements(oldIDs') = 0 .. (Len(buffer') + Len(oldIDs') - 1)
    BY <1>3, <1>4, <1>5
  <2>3. QED
    BY <1>3, <1>5, <1>6, <2>1, <2>2 DEF IDsKept, Elements, Distinct
<1>8. events' \in [DOMAIN events' -> Queue!Events]
  <2>1. \A i \in DOMAIN events : events[i] \in Queue!Events
    BY DEF QueueTypes
  <2>2. QED
    BY <1>1, <2>1
<1>9. Stored' = Append(Stored, e)
  <2>1. /\ Stored \in Seq(Queue!Events) /\ Len(Stored) = Len(buffer)
        /\ \A i \in 1 .. Len(buffer) : Stored[i] = events[buffer[i]] /\ buffer[i] \in DOMAIN events
    BY <1>2, StoredEvents
  <2> DEFINE s == Append(Stored, e)
             t == [i \in 1 .. Len(buffer') |-> events'[buffer'[i]]]
  <2>2. /\ s \in Seq(Queue!Events) /\ Len(s) = Len(buffer) + 1
        /\ \A i \in 1 .. Len(buffer) : s[i] = Stored[i]
        /\ s[Len(buffer) + 1] = e
    BY <2>1, AppendProperties
  <2> HIDE DEF s
  <2>3. \A i \in 1 .. (Len(buffer) + 1) : i \in 1 .. Len(buffer) \/ i = Len(buffer) + 1
    BY <1>2
  <2>4. \A i \in 1 .. (Len(buffer) + 1) : events'[buffer'[i]] = s[i]
    BY <1>4, <1>6, <2>1, <2>2, <2>3
  <2>5. \A i \in 1 .. (Len(buffer) + 1) : s[i] \in Queue!Events
    BY <2>2, Queued
  <2>6. \A i \in 1 .. Len(buffer') : events'[buffer'[i]] \in Queue!Events
    BY <1>4, <2>4, <2>5
  <2>7. Len(buffer') \in Nat
    BY <1>2, <1>4
  <2>8. t \in Seq(Queue!Events) /\ Len(t) = Len(buffer')
    BY <2>6, <2>7, IsASeq, LenProperties
  <2>9. \A i \in 1 .. Len(t) : t[i] = s[i]
    BY <1>4, <2>4, <2>8
  <2> HIDE DEF t
  <2>10. t = s
    BY <1>4, <2>2, <2>8, <2>9, SeqEqual
  <2>11. QED
    BY <2>10 DEF s, t, Stored
<1>10. QED
  BY <1>2, <1>3, <1>4, <1>7, <1>8, <1>9

LEMMA EventPairs ==
    /\ \A e \in Queue!Events :
          /\ Sender(e) \in Producers /\ Number(e) \in 1 .. MaxEvents
          /\ e = <<Sender(e), Number(e)>>
    /\ \A p \in Producers : \A n \in 1 .. MaxEvents :
          /\ <<p, n>> \in Queue!Events /\ Sender(<<p, n>>) = p /\ Number(<<p, n>>) = n
  BY DEF Queue!Events, Sender, Number

LEMMA TurnAppend ==
    ASSUME NEW S, NEW q \in Seq(S), NEW e \in S, NEW late, InTurn(q, late),
           \A f \in Elements(q) : Follows(e, f, late)
    PROVE  InTurn(Append(q, e), late)
<1> DEFINE r == Append(q, e)
<1>1. /\ Len(q) \in Nat /\ Len(r) = Len(q) + 1 /\ r[Len(q) + 1] = e
      /\ \A i \in 1 .. Len(q) : r[i] = q[i]
  BY LenProperties, AppendProperties
<1> HIDE DEF r
<1>2. /\ \A i, j \in 1 .. Len(r) : i < j => i \in 1 .. Len(q) /\ (j \in 1 .. Len(q) \/ j = Len(q) + 1)
  BY <1>1
<1> SUFFICES ASSUME NEW i \in 1 .. Len(r), NEW j \in 1 .. Len(r), i < j
             PROVE  Follows(r[j], r[i], late)
  BY DEF InTurn, r
<1>3. CASE j \in 1 .. Len(q)
  BY <1>1, <1>2, <1>3 DEF InTurn
<1>4. CASE j = Len(q) + 1
  <2>1. r[i] \in Elements(q)
    BY <1>1, <1>2 DEF Elements
  <2>2. QED
    BY <1>1, <1>4, <2>1
<1>5. QED
  BY <1>2, <1>3, <1>4

LEMMA TurnTail ==
    ASSUME NEW S, NEW q \in Seq(S), q # <<>>, NEW late, InTurn(q, late)
    PROVE  /\ InTurn(Tail(q), late)
           /\ \A f \in Elements(Tail(q)) : Follows(f, Head(q), late)
<1> DEFINE r == Tail(q)
<1>1. /\ Len(q) \in Nat \ {0} /\ Len(r) = Len(q) - 1 /\ Head(q) = q[1]
      /\ \A i \in 1 .. Len(r) : r[i] = q[i + 1]
  BY LenProperties, HeadTailProperties, EmptySeq
<1> HIDE DEF r
<1>2. /\ \A i \in 1 .. Len(r) : i + 1 \in 1 .. Len(q) /\ 1 < i + 1 /\ 1 \in 1 .. Len(q)
      /\ \A i, j \in 1 .. Len(r) : i < j => i + 1 < j + 1
  BY <1>1
<1>3. InTurn(r, late)
  BY <1>1, <1>2 DEF InTurn
<1>4. \A i \in 1 .. Len(r) : Follows(r[i], Head(q), late)
  BY <1>1, <1>2 DEF InTurn
<1>5. QED
  BY <1>3, <1>4 DEF Elements, r

\* What a thread adds is new.
LEMMA AddedEvent ==
    ASSUME QueueTypes, MaxEvents \in Nat, NEW p \in Producers, Queue!addEvent(p),
           NEW e, e = <<p, sent[p] + 1>>
    PROVE  /\ e \in Queue!Events /\ e \notin AllSent /\ AllSent' = AllSent \cup {e}
           /\ e = <<p, sent'[p]>> /\ sent' \in [Producers -> 0 .. MaxEvents]
           /\ \A f \in AllSent : Follows(e, f, aside)
           /\ ready => HeldBack' = HeldBack
           /\ ~ready => HeldBack' = HeldBack \cup {e}
           /\ (\A q \in Producers : holding[q] => sent[q] # 0)
                 => \A q \in Producers : holding'[q] => sent'[q] # 0
<1>1. /\ sent \in [Producers -> 0 .. MaxEvents] /\ holding \in [Producers -> BOOLEAN]
      /\ ~holding[p] /\ sent[p] < MaxEvents /\ sent' = [sent EXCEPT ![p] = @ + 1]
      /\ ready => holding' = holding
      /\ ~ready => holding' = [holding EXCEPT ![p] = TRUE]
  BY DEF QueueTypes, Queue!addEvent
<1>2. /\ sent[p] \in Nat /\ sent[p] + 1 \in 1 .. MaxEvents /\ sent'[p] = sent[p] + 1
      /\ \A q \in Producers : q # p => sent'[q] = sent[q]
      /\ sent' \in [Producers -> 0 .. MaxEvents]
  BY <1>1
<1>3. e \in Queue!Events /\ Sender(e) = p /\ Number(e) = sent[p] + 1
  BY <1>2, EventPairs
<1>4. \A f \in Queue!Events : /\ Number(f) \in Nat
                              /\ Sender(f) = p /\ Number(f) = sent[p] + 1 => f = e
                              /\ Sender(f) \in Producers
  BY EventPairs
<1>5. \A k \in Nat, m \in Nat : /\ k <= m + 1 <=> k <= m \/ k = m + 1
                                /\ ~ (m + 1 <= m) /\ (k <= m => k < m + 1) /\ m + 1 # 0
  OBVIOUS
<1>6. e \notin AllSent
  BY <1>2, <1>3, <1>5 DEF AllSent
<1>7. \A f \in AllSent : Follows(e, f, aside)
  BY <1>2, <1>3, <1>4, <1>5 DEF AllSent, Follows
<1>8. AllSent' = AllSent \cup {e}
  <2>1. AllSent' = {f \in Queue!Events : Number(f) <= sent'[Sender(f)]}
    BY DEF AllSent, Queue!Events, Sender, Number
  <2>2. \A f \in Queue!Events :
           Number(f) <= sent'[Sender(f)] <=> Number(f) <= sent[Sender(f)] \/ f = e
    <3> SUFFICES ASSUME NEW f \in Queue!Events
                 PROVE  Number(f) <= sent'[Sender(f)] <=> Number(f) <= sent[Sender(f)] \/ f = e
      OBVIOUS
    <3>1. CASE Sender(f) = p
      BY <1>2, <1>3, <1>4, <1>5, <3>1
    <3>2. CASE Sender(f) # p
      BY <1>2, <1>3, <1>4, <3>2
    <3>3. QED
      BY <3>1, <3>2
  <2>3. QED
    BY <1>3, <2>1, <2>2 DEF AllSent
<1>9. HeldBack' = {f \in Queue!Events : holding'[Sender(f)] /\ sent'[Sender(f)] = Number(f)}
  BY DEF HeldBack, Queue!Events, Sender, Number
<1>10. ASSUME ready PROVE HeldBack' = HeldBack
  <2>1. \A f \in Queue!Events : (holding'[Sender(f)] /\ sent'[Sender(f)] = Number(f))
                              <=> (holding[Sender(f)] /\ sent[Sender(f)] = Number(f))
    <3> SUFFICES ASSUME NEW f \in Queue!Events
                 PROVE  (holding'[Sender(f)] /\ sent'[Sender(f)] = Number(f))
                              <=> (holding[Sender(f)] /\ sent[Sender(f)] = Number(f))
      OBVIOUS
    <3>1. holding' = holding /\ Sender(f) \in Producers
      BY <1>1, <1>4, <1>10
    <3>2. CASE Sender(f) = p
      BY <1>1, <3>1, <3>2
    <3>3. CASE Sender(f) # p
      BY <1>2, <3>1, <3>3
    <3>4. QED
      BY <3>2, <3>3
  <2>2. QED
    BY <1>9, <2>1 DEF HeldBack
<1>11. ASSUME ~ready PROVE HeldBack' = HeldBack \cup {e}
  <2>1. \A f \in Queue!Events : (holding'[Sender(f)] /\ sent'[Sender(f)] = Number(f))
                              <=> ((holding[Sender(f)] /\ sent[Sender(f)] = Number(f)) \/ f = e)
    <3> SUFFICES ASSUME NEW f \in Queue!Events
                 PROVE  (holding'[Sender(f)] /\ sent'[Sender(f)] = Number(f))
                              <=> ((holding[Sender(f)] /\ sent[Sender(f)] = Number(f)) \/ f = e)
      OBVIOUS
    <3>1. /\ Sender(f) \in Producers /\ holding'[p]
          /\ \A q \in Producers : q # p => holding'[q] = holding[q]
      BY <1>1, <1>4, <1>11
    <3>2. CASE Sender(f) = p
      <4>1. ~holding[Sender(f)] /\ holding'[Sender(f)] /\ sent'[Sender(f)] = sent[p] + 1
        BY <1>1, <1>2, <3>1, <3>2
      <4>2. sent[p] + 1 = Number(f) <=> f = e
        BY <1>3, <1>4, <3>2
      <4>3. QED
        BY <4>1, <4>2
    <3>3. CASE Sender(f) # p
      BY <1>2, <1>3, <3>1, <3>3
    <3>4. QED
      BY <3>2, <3>3
  <2>2. QED
    BY <1>3, <1>9, <2>1 DEF HeldBack
<1>12. ASSUME \A q \in Producers : holding[q] => sent[q] # 0, NEW q \in Producers, holding'[q]
       PROVE  sent'[q] # 0
  <2>1. CASE q = p
    BY <1>2, <1>5, <2>1
  <2>2. CASE q # p
    BY <1>1, <1>2, <1>12, <2>2
  <2>3. QED
    BY <2>1, <2>2
<1>13. QED
  BY <1>2, <1>3, <1>6, <1>7, <1>8, <1>10, <1>11, <1>12

\* What a thread held back is pushed.
LEMMA PushedEvent ==
    ASSUME QueueTypes, NEW p \in Producers, Queue!push(p), sent[p] # 0, MaxEvents \in Nat,
           NEW e, e = <<p, sent[p]>>
    PROVE  /\ e \in HeldBack /\ HeldBack' = HeldBack \ {e} /\ AllSent' = AllSent
           /\ e \in Queue!Events /\ holding' \in [Producers -> BOOLEAN]
           /\ \A q \in Producers : holding'[q] => holding[q]
<1>1. /\ sent \in [Producers -> 0 .. MaxEvents] /\ holding \in [Producers -> BOOLEAN]
      /\ holding[p] /\ holding' = [holding EXCEPT ![p] = FALSE] /\ sent' = sent
  BY DEF QueueTypes, Queue!push
<1>2. /\ ~holding'[p] /\ holding' \in [Producers -> BOOLEAN]
      /\ \A q \in Producers : q # p => holding'[q] = holding[q]
      /\ sent[p] \in 1 .. MaxEvents
  BY <1>1
<1>3. e \in Queue!Events /\ Sender(e) = p /\ Number(e) = sent[p]
  BY <1>2, EventPairs
<1>4. \A f \in Queue!Events : /\ Sender(f) = p /\ Number(f) = sent[p] => f = e
                              /\ Sender(f) \in Producers
  BY EventPairs
<1>5. HeldBack' = {f \in Queue!Events : holding'[Sender(f)] /\ sent[Sender(f)] = Number(f)}
  BY <1>1 DEF HeldBack, Queue!Events, Sender, Number
<1>6. e \in HeldBack
  BY <1>1, <1>3 DEF HeldBack
<1>7. \A f \in Queue!Events : (holding'[Sender(f)] /\ sent[Sender(f)] = Number(f))
                            <=> ((holding[Sender(f)] /\ sent[Sender(f)] = Number(f)) /\ f # e)
  BY <1>1, <1>2, <1>3, <1>4
<1>8. HeldBack' = HeldBack \ {e}
  BY <1>5, <1>7 DEF HeldBack
<1>9. AllSent' = AllSent
  BY <1>1 DEF AllSent, Queue!Events, Sender, Number
<1>10. QED
  BY <1>1, <1>2, <1>3, <1>6, <1>8, <1>9

LEMMA QueueInit == ASSUME Queue!EventQueueAssumption PROVE Queue!Init => QueueInv
<1> SUFFICES ASSUME Queue!Init PROVE QueueInv
  OBVIOUS
<1> USE DEF Queue!Init, Queue!EventQueueAssumption
<1>1. Len(<<>>) = 0 /\ <<>> \in Seq(Nat) /\ <<>> \in Seq(Queue!Events)
  BY EmptySeq
<1>2. QueueTypes
  <2>1. [i \in {} |-> 0] \in [DOMAIN [i \in {} |-> 0] -> Queue!Events]
    OBVIOUS
  <2>2. events \in [DOMAIN events -> Queue!Events]
    BY <2>1
  <2>3. 0 \in 0 .. MaxEvents /\ 0 \in 0 .. MaxAdopts
    OBVIOUS
  <2>4. holding \in [Producers -> BOOLEAN] /\ sent \in [Producers -> 0 .. MaxEvents]
    BY <2>3
  <2>5. QED
    BY <1>1, <2>2, <2>3, <2>4 DEF QueueTypes
<1>3. /\ Elements(<<>>) = {} /\ Distinct(<<>>)
      /\ \A late : InTurn(<<>>, late)
  BY <1>1 DEF Elements, Distinct, InTurn
<1>4. DOMAIN events = {}
  OBVIOUS
<1>5. 0 .. (0 + 0 - 1) = {}
  OBVIOUS
<1>6. IDsKept
  BY <1>1, <1>3, <1>4, <1>5 DEF IDsKept
<1>7. Stored \in Seq(Queue!Events) /\ Len(Stored) = 0
  BY <1>1, <1>2, <1>3, <1>4, StoredEvents
<1>8. Stored = <<>>
  BY <1>7, EmptySeq
<1>9. HeldBack = {} /\ AllSent = {}
  <2>1. \A e \in Queue!Events : Sender(e) \in Producers /\ ~ (Number(e) <= 0)
    BY EventPairs
  <2>2. QED
    BY <2>1 DEF HeldBack, AllSent
<1>10. EventsParted
  BY <1>1, <1>3, <1>8, <1>9 DEF EventsParted, Parted
<1>11. EventsInTurn
  BY <1>3, <1>8 DEF EventsInTurn
<1>12. QED
  BY <1>2, <1>6, <1>10, <1>11 DEF QueueInv

LEMMA IDsSame ==
    ASSUME IDsKept, buffer' = buffer, events' = events, oldIDs' = oldIDs
    PROVE  Stored' = Stored /\ IDsKept'
<1>1. Stored' = Stored
  BY DEF Stored
<1>2. IDsKept'
  BY DEF IDsKept
<1>3. QED
  BY <1>1, <1>2

LEMMA QueueAdd ==
    ASSUME Queue!EventQueueAssumption, QueueInv, NEW p \in Producers, Queue!addEvent(p)
    PROVE  QueueInv'
<1>0. MaxEvents \in Nat /\ QueueTypes /\ IDsKept /\ EventsParted /\ EventsInTurn
  BY DEF Queue!EventQueueAssumption, QueueInv
<1> DEFINE e == <<p, sent[p] + 1>>
<1>1. /\ e \in Queue!Events /\ e \notin AllSent /\ AllSent' = AllSent \cup {e}
      /\ e = <<p, sent'[p]>> /\ sent' \in [Producers -> 0 .. MaxEvents]
      /\ \A f \in AllSent : Follows(e, f, aside)
      /\ ready => HeldBack' = HeldBack
      /\ ~ready => HeldBack' = HeldBack \cup {e}
      /\ (\A q \in Producers : holding[q] => sent[q] # 0)
            => \A q \in Producers : holding'[q] => sent'[q] # 0
  BY <1>0, AddedEvent
<1>2. /\ ready => Queue!addEventToBuffer(<<p, sent'[p]>>) /\ holding' = holding
      /\ ~ready => /\ holding' = [holding EXCEPT ![p] = TRUE]
                   /\ buffer' = buffer /\ events' = events /\ oldIDs' = oldIDs
      /\ ready' = ready /\ draining' = draining /\ pending' = pending
      /\ dispatched' = dispatched /\ aside' = aside /\ discarded' = discarded
      /\ adopts' = adopts
  BY DEF Queue!addEvent
<1> HIDE DEF e
<1>3. /\ Parted(AllSent, HeldBack, Elements(pending), Elements(Stored), Elements(dispatched),
                discarded)
      /\ Stored \in Seq(Queue!Events)
  BY <1>0, StoredEvents DEF EventsParted, IDsKept
<1>4. CASE ready
  <2>1. /\ IDsKept' /\ Stored' = Append(Stored, e)
        /\ buffer' \in Seq(Nat) /\ oldIDs' \in Seq(Nat)
        /\ events' \in [DOMAIN events' -> Queue!Events]
        /\ Len(oldIDs') <= Len(oldIDs) /\ Len(oldIDs') \in Nat /\ Len(oldIDs) \in Nat
    <3>1. Queue!addEventToBuffer(e)
      BY <1>1, <1>2, <1>4
    <3>2. QED
      BY <1>0, <1>1, <3>1, Saved
  <2>2. QueueTypes'
    BY <1>0, <1>1, <1>2, <1>4, <2>1 DEF QueueTypes, Queue!Events
  <2>3. e \notin Elements(Stored) /\ e \notin HeldBack /\ e \notin Elements(pending)
        /\ e \notin Elements(dispatched) /\ e \notin discarded
    BY <1>1, <1>3 DEF Parted
  <2>4. /\ Elements(Stored') = Elements(Stored) \cup {e}
        /\ Distinct(Stored')
    <3>1. Distinct(Stored)
      BY <1>0 DEF EventsParted
    <3>2. QED
      BY <1>1, <1>3, <2>1, <2>3, <3>1, DistinctAppend
  <2>5. Parted(AllSent', HeldBack', Elements(pending'), Elements(Stored'), Elements(dispatched'),
               discarded')
    BY <1>1, <1>2, <1>3, <1>4, <2>3, <2>4 DEF Parted
  <2>6. Len(oldIDs') <= Len(dispatched')
    <3>1. Len(dispatched) \in Nat /\ Len(oldIDs) <= Len(dispatched)
      BY <1>0, LenProperties DEF QueueTypes, EventsParted
    <3>2. QED
      BY <1>2, <2>1, <3>1
  <2>7. EventsParted'
    BY <1>0, <1>1, <1>2, <2>4, <2>5, <2>6 DEF EventsParted, Elements, Distinct
  <2>8. InTurn(Stored', aside)
    <3>1. \A f \in Elements(Stored) : Follows(e, f, aside)
      BY <1>1, <1>3 DEF Parted
    <3>2. InTurn(Stored, aside)
      BY <1>0 DEF EventsInTurn
    <3>3. QED
      BY <1>1, <1>3, <2>1, <3>1, <3>2, TurnAppend
  <2>9. \A f \in Elements(dispatched), g \in Elements(Stored') : Follows(g, f, aside)
    <3>1. \A f \in Elements(dispatched) : Follows(e, f, aside)
      BY <1>1, <1>3 DEF Parted
    <3>2. QED
      BY <1>0, <2>4, <3>1 DEF EventsInTurn
  <2>10. EventsInTurn'
    <3>1. Elements(pending) \subseteq aside /\ InTurn(dispatched, aside)
      BY <1>0 DEF EventsInTurn
    <3>2. QED
      BY <1>2, <2>8, <2>9, <3>1 DEF EventsInTurn, Elements, InTurn, Follows, Sender, Number
  <2>11. QED
    BY <2>1, <2>2, <2>7, <2>10 DEF QueueInv
<1>5. CASE ~ready
  <2>1. Stored' = Stored /\ IDsKept'
    BY <1>0, <1>2, <1>5, IDsSame
  <2>2. holding' \in [Producers -> BOOLEAN]
    BY <1>0, <1>2, <1>5 DEF QueueTypes
  <2>3. QueueTypes'
    BY <1>0, <1>1, <1>2, <1>5, <2>2 DEF QueueTypes, Queue!Events
  <2>4. Parted(AllSent', HeldBack', Elements(pending'), Elements(Stored'), Elements(dispatched'),
               discarded')
    BY <1>1, <1>2, <1>3, <1>5, <2>1 DEF Parted
  <2>5. EventsParted'
    BY <1>0, <1>1, <1>2, <1>5, <2>1, <2>4 DEF EventsParted, Elements, Distinct
  <2>6. EventsInTurn'
    BY <1>0, <1>2, <2>1 DEF EventsInTurn, Elements, InTurn, Follows, Sender, Number
  <2>7. QED
    BY <2>1, <2>3, <2>5, <2>6 DEF QueueInv
<1>6. QED
  BY <1>4, <1>5

LEMMA QueuePush ==
    ASSUME Queue!EventQueueAssumption, QueueInv, NEW p \in Producers, Queue!push(p)
    PROVE  QueueInv'
<1>0. MaxEvents \in Nat /\ QueueTypes /\ IDsKept /\ EventsParted /\ EventsInTurn
  BY DEF Queue!EventQueueAssumption, QueueInv
<1> DEFINE e == <<p, sent[p]>>
<1>1. /\ holding[p] /\ pending' = Append(pending, e) /\ aside' = aside \cup {e}
      /\ ready' = ready /\ draining' = draining /\ buffer' = buffer /\ events' = events
      /\ oldIDs' = oldIDs /\ sent' = sent /\ dispatched' = dispatched
      /\ discarded' = discarded /\ adopts' = adopts
  BY DEF Queue!push
<1>2. sent[p] # 0
  BY <1>0, <1>1 DEF EventsParted
<1>3. /\ e \in HeldBack /\ HeldBack' = HeldBack \ {e} /\ AllSent' = AllSent
      /\ e \in Queue!Events /\ holding' \in [Producers -> BOOLEAN]
      /\ \A q \in Producers : holding'[q] => holding[q]
  BY <1>0, <1>2, PushedEvent
<1> HIDE DEF e
<1>4. Stored' = Stored /\ IDsKept'
  BY <1>0, <1>1, IDsSame
<1>5. pending \in Seq(Queue!Events) /\ Distinct(pending)
  BY <1>0 DEF QueueTypes, EventsParted
<1>6. Parted(AllSent, HeldBack, Elements(pending), Elements(Stored), Elements(dispatched),
             discarded)
  BY <1>0 DEF EventsParted
<1>7. e \notin Elements(pending)
  BY <1>3, <1>6 DEF Parted
<1>8. Elements(pending') = Elements(pending) \cup {e} /\ Distinct(pending')
  BY <1>1, <1>3, <1>5, <1>7, DistinctAppend
<1>9. pending' \in Seq(Queue!Events)
  BY <1>1, <1>3, <1>5, AppendProperties
<1>10. QueueTypes'
  BY <1>0, <1>1, <1>3, <1>9 DEF QueueTypes, Queue!Events
<1>11. Parted(AllSent', HeldBack', Elements(pending'), Elements(Stored'), Elements(dispatched'),
              discarded')
  BY <1>1, <1>3, <1>4, <1>6, <1>8 DEF Parted
<1>12. EventsParted'
  BY <1>0, <1>1, <1>3, <1>4, <1>8, <1>11 DEF EventsParted, Elements, Distinct
<1>13. \A f, g : Follows(g, f, aside) => Follows(g, f, aside')
  BY <1>1 DEF Follows
<1>14. EventsInTurn'
  <2>1. /\ Elements(pending) \subseteq aside
        /\ InTurn(dispatched, aside) /\ InTurn(Stored, aside)
        /\ \A f \in Elements(dispatched), g \in Elements(Stored) : Follows(g, f, aside)
    BY <1>0 DEF EventsInTurn
  <2>2. InTurn(dispatched, aside') /\ InTurn(Stored, aside')
    BY <1>13, <2>1 DEF InTurn
  <2>3. Elements(pending') \subseteq aside'
    BY <1>1, <1>8, <2>1
  <2>4. \A f \in Elements(dispatched), g \in Elements(Stored) : Follows(g, f, aside')
    BY <1>13, <2>1
  <2>5. QED
    BY <1>1, <1>4, <2>2, <2>3, <2>4 DEF EventsInTurn
<1>15. QED
  BY <1>4, <1>10, <1>12, <1>14 DEF QueueInv

\* The steps of the loop that move no event.
LEMMA QueueSame ==
    ASSUME QueueInv, ready' \in BOOLEAN, draining' \in BOOLEAN,
           UNCHANGED <<pending, buffer, events, oldIDs, holding, sent, dispatched, aside, discarded,
                       adopts>>
    PROVE  QueueInv'
<1>1. QueueTypes'
  BY DEF QueueInv, QueueTypes, Queue!Events
<1>2. Stored' = Stored /\ IDsKept'
  BY IDsSame DEF QueueInv
<1>3. AllSent' = AllSent /\ HeldBack' = HeldBack
  BY DEF AllSent, HeldBack, Queue!Events, Sender, Number
<1>4. EventsParted'
  <2>1. EventsParted
    BY DEF QueueInv
  <2>2. QED
    BY <1>2, <1>3, <2>1 DEF EventsParted
<1>5. EventsInTurn'
  BY <1>2 DEF QueueInv, EventsInTurn, Elements, InTurn, Follows, Sender, Number
<1>6. QED
  BY <1>1, <1>2, <1>4, <1>5 DEF QueueInv

LEMMA QueueDrain ==
    ASSUME Queue!EventQueueAssumption, QueueInv, Queue!drain
    PROVE  QueueInv'
<1>0. MaxEvents \in Nat /\ QueueTypes /\ IDsKept /\ EventsParted /\ EventsInTurn
  BY DEF Queue!EventQueueAssumption, QueueInv
<1> DEFINE e == Head(pending)
<1>1. /\ pending # <<>> /\ Queue!addEventToBuffer(e) /\ pending' = Tail(pending)
      /\ ready' = ready /\ draining' = draining /\ holding' = holding
      /\ sent' = sent /\ dispatched' = dispatched /\ aside' = aside
      /\ discarded' = discarded /\ adopts' = adopts
  BY DEF Queue!drain
<1> HIDE DEF e
<1>2. pending \in Seq(Queue!Events) /\ Distinct(pending)
  BY <1>0 DEF QueueTypes, EventsParted
<1>3. /\ Elements(pending') = Elements(pending) \ {e} /\ e \in Elements(pending)
      /\ Distinct(pending')
  BY <1>1, <1>2, DistinctTail DEF e
<1>4. e \in Queue!Events /\ pending' \in Seq(Queue!Events)
  BY <1>1, <1>2, HeadTailProperties DEF e
<1>5. /\ IDsKept' /\ Stored' = Append(Stored, e)
      /\ buffer' \in Seq(Nat) /\ oldIDs' \in Seq(Nat)
      /\ events' \in [DOMAIN events' -> Queue!Events]
      /\ Len(oldIDs') <= Len(oldIDs) /\ Len(oldIDs') \in Nat /\ Len(oldIDs) \in Nat
  BY <1>0, <1>1, <1>4, Saved
<1>6. QueueTypes'
  BY <1>0, <1>1, <1>4, <1>5 DEF QueueTypes, Queue!Events
<1>7. AllSent' = AllSent /\ HeldBack' = HeldBack
  BY <1>1 DEF AllSent, HeldBack, Queue!Events, Sender, Number
<1>8. /\ Parted(AllSent, HeldBack, Elements(pending), Elements(Stored), Elements(dispatched),
                discarded)
      /\ Stored \in Seq(Queue!Events) /\ Distinct(Stored)
  BY <1>0, StoredEvents DEF EventsParted, IDsKept
<1>9. e \notin Elements(Stored) /\ e \notin Elements(dispatched)
  BY <1>3, <1>8 DEF Parted
<1>10. Elements(Stored') = Elements(Stored) \cup {e} /\ Distinct(Stored')
  BY <1>4, <1>5, <1>8, <1>9, DistinctAppend
<1>11. Parted(AllSent', HeldBack', Elements(pending'), Elements(Stored'), Elements(dispatched'),
              discarded')
  BY <1>1, <1>3, <1>7, <1>8, <1>10 DEF Parted
<1>12. Len(oldIDs') <= Len(dispatched')
  <2>1. Len(dispatched) \in Nat /\ Len(oldIDs) <= Len(dispatched)
    BY <1>0, LenProperties DEF QueueTypes, EventsParted
  <2>2. QED
    BY <1>1, <1>5, <2>1
<1>13. EventsParted'
  BY <1>0, <1>1, <1>3, <1>10, <1>11, <1>12 DEF EventsParted, Elements, Distinct
<1>14. e \in aside /\ Elements(pending') \subseteq aside
  BY <1>0, <1>3 DEF EventsInTurn
<1>15. \A f \in Queue!Events : f # e => Follows(e, f, aside)
  <2>1. \A f \in Queue!Events :
           /\ Number(f) \in Nat
           /\ Sender(f) = Sender(e) /\ Number(f) = Number(e) => f = e
    BY <1>4, EventPairs
  <2>2. \A m, n \in Nat : m < n \/ m > n \/ m = n
    OBVIOUS
  <2>3. QED
    BY <1>4, <1>14, <2>1, <2>2 DEF Follows
<1>16. InTurn(Stored', aside)
  <2>1. \A f \in Elements(Stored) : f \in Queue!Events
    BY <1>8, Queued DEF Elements
  <2>2. \A f \in Elements(Stored) : Follows(e, f, aside)
    BY <1>9, <1>15, <2>1
  <2>3. InTurn(Stored, aside)
    BY <1>0 DEF EventsInTurn
  <2>4. QED
    BY <1>4, <1>5, <1>8, <2>2, <2>3, TurnAppend
<1>17. \A f \in Elements(dispatched), g \in Elements(Stored') : Follows(g, f, aside)
  <2>1. \A f \in Elements(dispatched) : f \in Queue!Events
    BY <1>0, Queued DEF Elements, QueueTypes
  <2>2. \A f \in Elements(dispatched) : Follows(e, f, aside)
    BY <1>9, <1>15, <2>1
  <2>3. QED
    BY <1>0, <1>10, <2>2 DEF EventsInTurn
<1>18. EventsInTurn'
  <2>1. InTurn(dispatched, aside)
    BY <1>0 DEF EventsInTurn
  <2>2. QED
    BY <1>1, <1>14, <1>16, <1>17, <2>1 DEF EventsInTurn
<1>19. QED
  BY <1>5, <1>6, <1>13, <1>18 DEF QueueInv

LEMMA QueueDispatch ==
    ASSUME Queue!EventQueueAssumption, QueueInv, Queue!dispatchEvent
    PROVE  QueueInv'
<1>0. MaxEvents \in Nat /\ QueueTypes /\ IDsKept /\ EventsParted /\ EventsInTurn
  BY DEF Queue!EventQueueAssumption, QueueInv
<1> DEFINE n == Head(buffer)
           e == events[n]
<1>1. /\ buffer # <<>> /\ dispatched' = Append(dispatched, e)
      /\ events' = [j \in DOMAIN events \ {n} |-> events[j]]
      /\ oldIDs' = Append(oldIDs, n) /\ buffer' = Tail(buffer)
      /\ ready' = ready /\ draining' = draining /\ pending' = pending /\ holding' = holding
      /\ sent' = sent /\ aside' = aside /\ discarded' = discarded /\ adopts' = adopts
  BY DEF Queue!dispatchEvent, Queue!removedEvent
<1> HIDE DEF n
<1>2. /\ buffer \in Seq(Nat) /\ oldIDs \in Seq(Nat) /\ dispatched \in Seq(Queue!Events)
      /\ Distinct(buffer) /\ Distinct(oldIDs) /\ DOMAIN events = Elements(buffer)
      /\ Elements(buffer) \cap Elements(oldIDs) = {}
      /\ Elements(buffer) \cup Elements(oldIDs) = 0 .. (Len(buffer) + Len(oldIDs) - 1)
      /\ Len(oldIDs) \in Nat /\ Len(dispatched) \in Nat /\ Len(oldIDs) <= Len(dispatched)
      /\ Distinct(dispatched) /\ Distinct(Stored)
  BY <1>0, LenProperties DEF QueueTypes, IDsKept, EventsParted
<1>3. /\ Elements(buffer') = Elements(buffer) \ {n} /\ n \in Elements(buffer)
      /\ Distinct(buffer')
  BY <1>1, <1>2, DistinctTail DEF n
<1>4. /\ n \in Nat /\ buffer' \in Seq(Nat) /\ Len(buffer') = Len(buffer) - 1
      /\ Len(buffer) \in Nat \ {0} /\ buffer[1] = n
      /\ \A i \in 1 .. Len(buffer') : buffer'[i] = buffer[i + 1]
  BY <1>1, <1>2, HeadTailProperties, LenProperties, EmptySeq DEF n
<1>5. e \in Queue!Events
  BY <1>0, <1>2, <1>3 DEF QueueTypes
<1>6. /\ oldIDs' \in Seq(Nat) /\ Len(oldIDs') = Len(oldIDs) + 1
      /\ dispatched' \in Seq(Queue!Events) /\ Len(dispatched') = Len(dispatched) + 1
  BY <1>1, <1>2, <1>4, <1>5, AppendProperties
<1>7. Elements(oldIDs') = Elements(oldIDs) \cup {n} /\ Distinct(oldIDs')
  <2>1. n \notin Elements(oldIDs)
    BY <1>2, <1>3
  <2>2. QED
    BY <1>1, <1>2, <1>4, <2>1, DistinctAppend
<1>8. IDsKept'
  <2>1. DOMAIN events' = Elements(buffer')
    BY <1>1, <1>2, <1>3
  <2>2. Len(buffer') + Len(oldIDs') - 1 = Len(buffer) + Len(oldIDs) - 1
    BY <1>2, <1>4, <1>6
  <2>3. Elements(buffer') \cap Elements(oldIDs') = {}
    BY <1>2, <1>3, <1>7
  <2>4. Elements(buffer') \cup Elements(oldIDs') = 0 .. (Len(buffer') + Len(oldIDs') - 1)
    BY <1>2, <1>3, <1>7, <2>2
  <2>5. QED
    BY <1>3, <1>7, <2>1, <2>3, <2>4 DEF IDsKept, Elements, Distinct
<1>9. events' \in [DOMAIN events' -> Queue!Events]
  <2>1. \A i \in DOMAIN events : events[i] \in Queue!Events
    BY <1>0 DEF QueueTypes
  <2>2. QED
    BY <1>1, <2>1
<1>10. QueueTypes'
  BY <1>0, <1>1, <1>4, <1>6, <1>9 DEF QueueTypes, Queue!Events
<1>11. /\ Stored \in Seq(Queue!Events) /\ Len(Stored) = Len(buffer)
       /\ \A i \in 1 .. Len(buffer) : Stored[i] = events[buffer[i]] /\ buffer[i] \in DOMAIN events
  BY <1>0, <1>2, StoredEvents
<1>12. Stored # <<>> /\ Head(Stored) = e
  <2>1. Stored # <<>>
    BY <1>4, <1>11, EmptySeq
  <2>2. 1 \in 1 .. Len(buffer)
    BY <1>4
  <2>3. QED
    BY <1>4, <1>11, <2>1, <2>2
<1>13. Stored' = Tail(Stored)
  <2> DEFINE s == Tail(Stored)
             t == [i \in 1 .. Len(buffer') |-> events'[buffer'[i]]]
  <2>1. /\ s \in Seq(Queue!Events) /\ Len(s) = Len(buffer')
        /\ \A i \in 1 .. Len(buffer') : s[i] = Stored[i + 1]
    BY <1>4, <1>11, <1>12, HeadTailProperties
  <2> HIDE DEF s
  <2>2. \A i \in 1 .. Len(buffer') : i + 1 \in 1 .. Len(buffer) /\ i + 1 # 1 /\ 1 \in 1 .. Len(buffer)
    BY <1>4
  <2>3. \A i \in 1 .. Len(buffer') : buffer'[i] \in DOMAIN events /\ buffer'[i] # n
    <3> SUFFICES ASSUME NEW i \in 1 .. Len(buffer') PROVE buffer'[i] \in DOMAIN events /\ buffer'[i] # n
      OBVIOUS
    <3>1. i + 1 \in 1 .. Len(buffer) /\ i + 1 # 1 /\ 1 \in 1 .. Len(buffer)
      BY <2>2
    <3>2. buffer'[i] = buffer[i + 1] /\ buffer[1] = n
      BY <1>4
    <3>3. buffer[i + 1] # buffer[1]
      BY <1>2, <3>1 DEF Distinct
    <3>4. QED
      BY <1>11, <3>1, <3>2, <3>3
  <2>4. \A i \in 1 .. Len(buffer') : events'[buffer'[i]] = s[i]
    <3> SUFFICES ASSUME NEW i \in 1 .. Len(buffer') PROVE events'[buffer'[i]] = s[i]
      OBVIOUS
    <3>1. events'[buffer'[i]] = events[buffer'[i]]
      BY <1>1, <2>3
    <3>2. s[i] = events[buffer[i + 1]]
      BY <1>11, <2>1, <2>2
    <3>3. QED
      BY <1>4, <3>1, <3>2
  <2>5. \A i \in 1 .. Len(buffer') : s[i] \in Queue!Events
    BY <2>1, Queued
  <2>6. Len(buffer') \in Nat
    BY <1>4
  <2>7. t \in Seq(Queue!Events) /\ Len(t) = Len(buffer')
    BY <2>4, <2>5, <2>6, IsASeq, LenProperties
  <2>8. \A i \in 1 .. Len(t) : t[i] = s[i]
    BY <2>4, <2>7
  <2> HIDE DEF t
  <2>9. t = s
    BY <2>1, <2>7, <2>8, SeqEqual
  <2>10. QED
    BY <2>9 DEF s, t, Stored
<1>14. /\ Elements(Stored') = Elements(Stored) \ {e} /\ e \in Elements(Stored)
       /\ Distinct(Stored')
  BY <1>2, <1>11, <1>12, <1>13, DistinctTail
<1>15. Parted(AllSent, HeldBack, Elements(pending), Elements(Stored), Elements(dispatched),
              discarded)
  BY <1>0 DEF EventsParted
<1>16. e \notin Elements(dispatched)
  BY <1>14, <1>15 DEF Parted
<1>17. Elements(dispatched') = Elements(dispatched) \cup {e} /\ Distinct(dispatched')
  BY <1>1, <1>2, <1>5, <1>16, DistinctAppend
<1>18. AllSent' = AllSent /\ HeldBack' = HeldBack
  BY <1>1 DEF AllSent, HeldBack, Queue!Events, Sender, Number
<1>19. Parted(AllSent', HeldBack', Elements(pending'), Elements(Stored'), Elements(dispatched'),
              discarded')
  BY <1>1, <1>14, <1>15, <1>17, <1>18 DEF Parted
<1>20. EventsParted'
  <2>1. Len(oldIDs') <= Len(dispatched')
    BY <1>2, <1>6
  <2>2. QED
    BY <1>0, <1>1, <1>14, <1>17, <1>19, <2>1 DEF EventsParted, Elements, Distinct
<1>21. /\ Elements(pending) \subseteq aside
       /\ InTurn(dispatched, aside) /\ InTurn(Stored, aside)
       /\ \A f \in Elements(dispatched), g \in Elements(Stored) : Follows(g, f, aside)
  BY <1>0 DEF EventsInTurn
<1>22. InTurn(dispatched', aside)
  <2>1. \A f \in Elements(dispatched) : Follows(e, f, aside)
    BY <1>14, <1>21
  <2>2. QED
    BY <1>1, <1>2, <1>5, <1>21, <2>1, TurnAppend
<1>23. InTurn(Stored', aside) /\ \A g \in Elements(Stored') : Follows(g, e, aside)
  BY <1>11, <1>12, <1>13, <1>21, TurnTail
<1>24. EventsInTurn'
  <2>1. \A f \in Elements(dispatched'), g \in Elements(Stored') : Follows(g, f, aside)
    BY <1>14, <1>17, <1>21, <1>23
  <2>2. QED
    BY <1>1, <1>21, <1>22, <1>23, <2>1 DEF EventsInTurn
<1>25. QED
  BY <1>8, <1>10, <1>20, <1>24 DEF QueueInv

LEMMA QueueAdopt ==
    ASSUME Queue!EventQueueAssumption, QueueInv, Queue!adoptBuffer
    PROVE  QueueInv'
<1>0. QueueTypes /\ IDsKept /\ EventsParted /\ EventsInTurn /\ MaxAdopts \in Nat
  BY DEF Queue!EventQueueAssumption, QueueInv
<1>1. /\ adopts < MaxAdopts /\ adopts' = adopts + 1
      /\ discarded' = discarded \cup {events[i] : i \in DOMAIN events}
      /\ buffer' = <<>> /\ events' = [i \in {} |-> 0] /\ oldIDs' = <<>>
      /\ ready' = ready /\ draining' = draining /\ pending' = pending /\ holding' = holding
      /\ sent' = sent /\ dispatched' = dispatched /\ aside' = aside
  BY DEF Queue!adoptBuffer
<1>2. /\ Len(<<>>) = 0 /\ <<>> \in Seq(Nat) /\ <<>> \in Seq(Queue!Events)
      /\ Elements(<<>>) = {} /\ Distinct(<<>>) /\ \A late : InTurn(<<>>, late)
  BY EmptySeq DEF Elements, Distinct, InTurn
<1>3. Elements(Stored) = {events[i] : i \in DOMAIN events}
  BY <1>0, StoredEvents DEF IDsKept
<1>4. Stored' = <<>>
  <2>1. Stored' = [i \in 1 .. Len(buffer') |-> events'[buffer'[i]]]
    BY DEF Stored
  <2>2. 1 .. Len(buffer') = {}
    BY <1>1, <1>2
  <2>3. [i \in {} |-> events'[buffer'[i]]] \in Seq(Nat) /\ Len([i \in {} |-> events'[buffer'[i]]]) = 0
    <3>1. 1 .. 0 = {} /\ 0 \in Nat
      OBVIOUS
    <3>2. \A i \in 1 .. 0 : events'[buffer'[i]] \in Nat
      BY <3>1
    <3>3. [i \in 1 .. 0 |-> events'[buffer'[i]]] \in Seq(Nat)
      BY <3>1, <3>2, IsASeq
    <3>4. QED
      BY <3>1, <3>3, LenProperties
  <2>4. QED
    BY <2>1, <2>2, <2>3, EmptySeq
<1>5. Elements(Stored) \subseteq Queue!Events
  BY <1>0, <1>3 DEF QueueTypes
<1>6. QueueTypes'
  <2>1. events' \in [DOMAIN events' -> Queue!Events]
    BY <1>1
  <2>2. adopts' \in 0 .. MaxAdopts
    BY <1>0, <1>1 DEF QueueTypes
  <2>3. discarded' \subseteq Queue!Events
    BY <1>0, <1>1, <1>3, <1>5 DEF QueueTypes
  <2>4. QED
    BY <1>0, <1>1, <1>2, <2>1, <2>2, <2>3 DEF QueueTypes, Queue!Events
<1>7. IDsKept'
  <2>1. DOMAIN events' = {}
    BY <1>1
  <2>2. 0 .. (0 + 0 - 1) = {}
    OBVIOUS
  <2>3. QED
    BY <1>1, <1>2, <2>1, <2>2 DEF IDsKept
<1>8. AllSent' = AllSent /\ HeldBack' = HeldBack
  BY <1>1 DEF AllSent, HeldBack, Queue!Events, Sender, Number
<1>9. Parted(AllSent, HeldBack, Elements(pending), Elements(Stored), Elements(dispatched),
             discarded)
  BY <1>0 DEF EventsParted
<1>10. Parted(AllSent', HeldBack', Elements(pending'), Elements(Stored'), Elements(dispatched'),
              discarded')
  BY <1>1, <1>2, <1>3, <1>4, <1>8, <1>9 DEF Parted
<1>11. EventsParted'
  <2>1. Len(oldIDs') <= Len(dispatched')
    BY <1>0, <1>1, <1>2, LenProperties DEF QueueTypes
  <2>2. QED
    BY <1>0, <1>1, <1>2, <1>4, <1>10, <2>1 DEF EventsParted
<1>12. EventsInTurn'
  BY <1>0, <1>1, <1>2, <1>4 DEF EventsInTurn
<1>13. QED
  BY <1>6, <1>7, <1>11, <1>12 DEF QueueInv

LEMMA QueueNext ==
    ASSUME Queue!EventQueueAssumption, QueueInv, [Queue!Next]_queueVars
    PROVE  QueueInv'
<1>1. ASSUME NEW p \in Producers, Queue!addEvent(p) PROVE QueueInv'
  BY <1>1, QueueAdd
<1>2. ASSUME NEW p \in Producers, Queue!push(p) PROVE QueueInv'
  BY <1>2, QueuePush
<1>3. CASE Queue!loop
  BY <1>3, QueueSame DEF Queue!loop
<1>4. CASE Queue!drain
  BY <1>4, QueueDrain
<1>5. CASE Queue!drained
  BY <1>5, QueueSame DEF Queue!drained, QueueInv, QueueTypes
<1>6. CASE Queue!dispatchEvent
  BY <1>6, QueueDispatch
<1>7. CASE Queue!adoptBuffer
  BY <1>7, QueueAdopt
<1>8. CASE UNCHANGED queueVars
  BY <1>8, QueueSame DEF queueVars, QueueInv, QueueTypes
<1>9. QED
  BY <1>1, <1>2, <1>3, <1>4, <1>5, <1>6, <1>7, <1>8 DEF Queue!Next, Queue!Main

\* No more ids are ever needed than there are events.
LEMMA FewIDs ==
    ASSUME Queue!EventQueueAssumption, QueueInv
    PROVE  Elements(buffer) \cup Elements(oldIDs) \subseteq Queue!IDs
<1>1. /\ QueueTypes /\ IDsKept /\ EventsParted
      /\ IsFiniteSet(Producers) /\ MaxEvents \in Nat
      /\ DOMAIN events = Elements(buffer)
      /\ Len(oldIDs) <= Len(dispatched) /\ Distinct(Stored) /\ Distinct(dispatched)
      /\ dispatched \in Seq(Queue!Events)
      /\ Elements(Stored) \cap Elements(dispatched) = {}
      /\ Elements(buffer) \cup Elements(oldIDs) = 0 .. (Len(buffer) + Len(oldIDs) - 1)
  BY QueueFinite DEF QueueInv, QueueTypes, IDsKept, EventsParted, Parted, Queue!EventQueueAssumption
<1>2. Stored \in Seq(Queue!Events) /\ Len(Stored) = Len(buffer)
  BY <1>1, StoredEvents
<1>3. IsFiniteSet(1 .. MaxEvents) /\ Cardinality(1 .. MaxEvents) = MaxEvents
  <2>1. MaxEvents \in Int /\ 1 \in Int /\ (IF 1 > MaxEvents THEN 0 ELSE MaxEvents - 1 + 1) = MaxEvents
    BY <1>1
  <2>2. QED
    BY <2>1, FS_Interval
<1>4. /\ IsFiniteSet(Queue!Events)
      /\ Cardinality(Queue!Events) = Cardinality(Producers) * MaxEvents
  BY <1>1, <1>3, FS_Product DEF Queue!Events
<1>5. /\ IsFiniteSet(Elements(Stored)) /\ Cardinality(Elements(Stored)) = Len(buffer)
      /\ IsFiniteSet(Elements(dispatched)) /\ Cardinality(Elements(dispatched)) = Len(dispatched)
  BY <1>1, <1>2, DistinctSize
<1>6. Elements(Stored) \cup Elements(dispatched) \subseteq Queue!Events
  BY <1>1, <1>2, Queued DEF Elements
<1>7. Cardinality(Elements(Stored) \cup Elements(dispatched)) = Len(buffer) + Len(dispatched)
  <2>1. Cardinality({}) = 0
    BY FS_EmptySet
  <2>2. Len(buffer) \in Nat /\ Len(dispatched) \in Nat
    BY <1>1, LenProperties DEF QueueTypes
  <2>3. Cardinality(Elements(Stored) \cup Elements(dispatched))
           = Len(buffer) + Len(dispatched) - Cardinality({})
    BY <1>1, <1>5, FS_Union
  <2>4. QED
    BY <2>1, <2>2, <2>3
<1>8. Len(buffer) + Len(dispatched) <= Cardinality(Producers) * MaxEvents
  BY <1>4, <1>6, <1>7, FS_Subset
<1>9. Cardinality(Producers) * MaxEvents \in Nat
  BY <1>4, FS_CardinalityType
<1>10. Len(buffer) + Len(oldIDs) <= Cardinality(Producers) * MaxEvents
       /\ Len(buffer) + Len(oldIDs) \in Nat
  BY <1>1, <1>8, <1>9, LenProperties DEF QueueTypes
<1>11. Queue!IDs = 0 .. (Cardinality(Producers) * MaxEvents)
  BY QueueFinite DEF Queue!IDs
<1>12. QED
  BY <1>1, <1>9, <1>10, <1>11

LEMMA QueueProperties ==
    ASSUME Queue!EventQueueAssumption, QueueInv
    PROVE  Queue!TypeOK /\ Queue!IdsInUse /\ Queue!InOrder /\ Queue!OnePlace
<1>1. QueueTypes /\ IDsKept /\ EventsParted /\ EventsInTurn
  BY DEF QueueInv
<1>2. \A q : Queue!Held(q) = Elements(q)
  BY DEF Queue!Held, Elements
<1>3. Elements(pending) \subseteq Queue!Events /\ Elements(dispatched) \subseteq Queue!Events
  BY <1>1, Queued DEF QueueTypes, Elements
<1>4. Queue!TypeOK
  <2>1. DOMAIN events \subseteq Queue!IDs
    BY <1>1, FewIDs DEF IDsKept
  <2>2. \A i \in DOMAIN events : events[i] \in Queue!Events
    BY <1>1 DEF QueueTypes
  <2>3. QED
    BY <1>1, <1>2, <1>3, <2>1, <2>2, FewIDs DEF QueueTypes, Queue!TypeOK
<1>5. Queue!IdsInUse
  <2>1. /\ buffer \in Seq(Nat) /\ oldIDs \in Seq(Nat) /\ Distinct(buffer) /\ Distinct(oldIDs)
        /\ DOMAIN events = Elements(buffer) /\ Elements(buffer) \cap Elements(oldIDs) = {}
    BY <1>1 DEF QueueTypes, IDsKept
  <2>2. Cardinality(Elements(buffer)) = Len(buffer) /\ Cardinality(Elements(oldIDs)) = Len(oldIDs)
    BY <2>1, DistinctSize
  <2>3. QED
    BY <1>2, <2>1, <2>2, QueueFinite DEF Queue!IdsInUse
<1>6. Queue!InOrder
  <2>1. InTurn(dispatched, aside)
    BY <1>1 DEF EventsInTurn
  <2>2. QED
    BY <2>1 DEF Queue!InOrder, InTurn, Follows, Sender, Number
<1>7. Queue!OnePlace
  <2> SUFFICES ASSUME NEW e \in Queue!Events, sent[e[1]] >= e[2]
               PROVE  /\ Queue!Cardinality({i \in 1 .. 5 : Queue!Places(e)[i]}) = 1
                      /\ Queue!Cardinality({i \in 1 .. Len(dispatched) : dispatched[i] = e}) <= 1
    BY DEF Queue!OnePlace
  <2>1. e \in AllSent
    <3>1. e[1] \in Producers /\ e[2] \in Nat /\ e[1] = Sender(e) /\ e[2] = Number(e)
      BY EventPairs DEF Sender, Number
    <3>2. sent[e[1]] \in Nat
      BY <1>1, <3>1 DEF QueueTypes
    <3>3. QED
      BY <3>1, <3>2 DEF AllSent
  <2> DEFINE p == Queue!Places(e)
  <2>2. /\ p[1] <=> e \in HeldBack
        /\ p[2] <=> e \in Elements(pending)
        /\ p[3] <=> e \in Elements(Stored)
        /\ p[4] <=> e \in Elements(dispatched)
        /\ p[5] <=> e \in discarded
    <3>1. p[1] <=> e \in HeldBack
      BY DEF Queue!Places, HeldBack, Sender, Number
    <3>2. p[2] <=> e \in Elements(pending)
      BY <1>2 DEF Queue!Places
    <3>3. p[3] <=> e \in Elements(Stored)
      BY <1>1, StoredEvents DEF Queue!Places, IDsKept
    <3>4. p[4] <=> e \in Elements(dispatched)
      BY <1>2 DEF Queue!Places
    <3>5. p[5] <=> e \in discarded
      BY DEF Queue!Places
    <3>6. QED
      BY <3>1, <3>2, <3>3, <3>4, <3>5
  <2> HIDE DEF p
  <2>3. \E k \in 1 .. 5 : {i \in 1 .. 5 : p[i]} = {k}
    <3>1. Parted(AllSent, HeldBack, Elements(pending), Elements(Stored), Elements(dispatched),
                 discarded)
      BY <1>1 DEF EventsParted
    <3>2. 1 .. 5 = {1, 2, 3, 4, 5}
      OBVIOUS
    <3>3. \/ p[1] /\ ~p[2] /\ ~p[3] /\ ~p[4] /\ ~p[5]
          \/ ~p[1] /\ p[2] /\ ~p[3] /\ ~p[4] /\ ~p[5]
          \/ ~p[1] /\ ~p[2] /\ p[3] /\ ~p[4] /\ ~p[5]
          \/ ~p[1] /\ ~p[2] /\ ~p[3] /\ p[4] /\ ~p[5]
          \/ ~p[1] /\ ~p[2] /\ ~p[3] /\ ~p[4] /\ p[5]
      BY <2>1, <2>2, <3>1 DEF Parted
    <3>4. QED
      BY <3>2, <3>3
  <2>4. Cardinality({i \in 1 .. 5 : p[i]}) = 1
    BY <2>3, FS_Singleton
  <2>5. Cardinality({i \in 1 .. Len(dispatched) : dispatched[i] = e}) <= 1
    <3> DEFINE d == {i \in 1 .. Len(dispatched) : dispatched[i] = e}
    <3>1. \A i, j \in d : i = j
      BY <1>1 DEF EventsParted, Distinct
    <3>2. d = {} \/ \E k : d = {k}
      BY <3>1
    <3>3. Cardinality(d) = 0 \/ Cardinality(d) = 1
      BY <3>2, FS_EmptySet, FS_Singleton
    <3>4. QED
      BY <3>3
  <2>6. QED
    BY <2>4, <2>5, QueueFinite DEF p
<1>8. QED
  BY <1>4, <1>5, <1>6, <1>7

\* However the threads and the loop interleave, and however often a new buffer is adopted, an
\* event that was added is at one place and handled once at most, under an id that no other
\* stored event has; only an event that was put aside is overtaken by a newer one of its thread
\* (EventQueue::addEvent, loop, saveEvent, removeEvent, adoptBuffer).
THEOREM EventsAlways == ASSUME Queue!EventQueueAssumption PROVE Queue!Spec => []EventsKept
<1>1. Queue!Init => QueueInv
  BY QueueInit
<1>2. QueueInv /\ [Queue!Next]_(Queue!vars) => QueueInv'
  <2>1. [Queue!Next]_(Queue!vars) => [Queue!Next]_queueVars
    BY DEF Queue!vars, queueVars
  <2>2. QED
    BY <2>1, QueueNext
<1>3. QueueInv => EventsKept
  BY QueueProperties DEF EventsKept
<1>4. QED
  BY <1>1, <1>2, <1>3, PTL DEF Queue!Spec

------------------------------------------------------------------------------
(* The application around the server.                                          *)

Kinds == {"quit", "closed", "disconnected"}
Closing == [by : {"suspend", "reset", "exit"}, timer : BOOLEAN]

\* A call of closeServer whose server was not deleted waits for one that is started; one that
\* is not started has left nothing; a server that is started although its suspension was noted,
\* or although the computer sleeps, was started by a reset.
AppInv ==
    /\ App!TypeOK /\ a_queue \in Seq(Kinds) /\ closing \in Seq(Closing)
    /\ App!Closes => state = "Started"
    /\ state = "Started" => server = "live" /\ (suspended => resetSuspended)
    /\ state # "Started" => server = "none" /\ clients = {} /\ oldClients = {}
    /\ asleep /\ ~App!Closes /\ main = "running" /\ ~resetSuspended => state # "Started"

LEMMA AppInit == ASSUME App!ServerAppAssumption, App!Init PROVE AppInv
<1>1. a_queue \in Seq(Kinds) /\ closing \in Seq(Closing) /\ Len(a_queue) = 0 /\ Len(closing) = 0
  BY EmptySeq DEF App!Init
<1>2. App!TypeOK
  <2>1. 1 .. Len(a_queue) = {} /\ 1 .. Len(closing) = {}
    BY <1>1
  <2>2. 0 \in 0 .. MaxSuspends /\ 0 \in 0 .. MaxJoins /\ 0 \in 0 .. MaxResets /\ 0 \in 0 .. Len(closing)
    BY <1>1 DEF App!ServerAppAssumption
  <2>3. /\ \A i \in 1 .. Len(a_queue) : a_queue[i] \in {"quit", "closed", "disconnected"}
        /\ \A i \in 1 .. Len(closing) : closing[i] \in [by : {"suspend", "reset", "exit"}, timer : BOOLEAN]
    BY <2>1
  <2>4. QED
    BY <2>2, <2>3 DEF App!Init, App!TypeOK
<1>3. ~App!Closes
  BY DEF App!Init, App!Closes
<1>4. QED
  BY <1>1, <1>2, <1>3 DEF App!Init, AppInv

LEMMA AppNext ==
    ASSUME App!ServerAppAssumption, AppInv, [App!Next]_appVars
    PROVE  AppInv'
<1> DEFINE Typed ==
      /\ main' \in {"running", "leaving", "gone"}
      /\ state' \in {"Uninitialized", "Initialized", "Started"}
      /\ server' \in {"none", "live"}
      /\ clients' \subseteq AppClients /\ oldClients' \subseteq AppClients
      /\ suspended' \in BOOLEAN /\ asleep' \in BOOLEAN /\ resetSuspended' \in BOOLEAN /\ asked' \in BOOLEAN
      /\ a_queue' \in Seq(Kinds) /\ closing' \in Seq(Closing) /\ a_stale' \in 0..Len(closing')
      /\ suspends' \in 0..MaxSuspends /\ joins' \in 0..MaxJoins /\ resets' \in 0..MaxResets
<1>1. ASSUME Typed PROVE App!TypeOK'
  <2>1. /\ \A i \in 1..Len(a_queue') : a_queue'[i] \in Kinds
        /\ \A i \in 1..Len(closing') : closing'[i] \in Closing
    BY <1>1, Queued
  <2>2. QED
    BY <1>1, <2>1 DEF App!TypeOK, Kinds, Closing
<1>2. /\ \A k \in Kinds : Append(a_queue, k) \in Seq(Kinds)
      /\ a_queue # <<>> => /\ Tail(a_queue) \in Seq(Kinds)
                           /\ \A k \in Kinds : Append(Tail(a_queue), k) \in Seq(Kinds)
      /\ \A k \in Kinds : <<k>> \in Seq(Kinds)
  BY AppendProperties, HeadTailProperties DEF AppInv
<1>3. /\ Len(closing) \in Nat /\ a_stale \in 0 .. Len(closing)
      /\ closing # <<>> => Len(closing) - 1 \in Nat
      /\ \A i \in 1 .. Len(closing) : closing[i] \in Closing
  <2>1. Len(closing) \in Nat /\ \A i \in 1 .. Len(closing) : closing[i] \in Closing
    BY LenProperties, Queued DEF AppInv
  <2>2. closing # <<>> => Len(closing) # 0
    BY EmptySeq DEF AppInv
  <2>3. QED
    BY <2>1, <2>2 DEF AppInv, App!TypeOK
<1>4. \A by \in {"suspend", "reset", "exit"} :
        LET r == Append(closing, [by |-> by, timer |-> TRUE])
        IN  r \in Seq(Closing) /\ Len(r) = Len(closing) + 1 /\ r # <<>>
  <2> SUFFICES ASSUME NEW by \in {"suspend", "reset", "exit"}
               PROVE  LET r == Append(closing, [by |-> by, timer |-> TRUE])
                      IN  r \in Seq(Closing) /\ Len(r) = Len(closing) + 1 /\ r # <<>>
    OBVIOUS
  <2> DEFINE k == [by |-> by, timer |-> TRUE]
  <2>1. k \in Closing
    BY DEF Closing
  <2> HIDE DEF k
  <2>2. Append(closing, k) \in Seq(Closing) /\ Len(Append(closing, k)) = Len(closing) + 1
    BY <1>3, <2>1, AppendProperties DEF AppInv
  <2>3. Len(closing) + 1 # 0
    BY <1>3
  <2>4. QED
    BY <2>2, <2>3, EmptySeq DEF k
\* A call of closeServer that waits, by whom does not matter.
<1>5. ASSUME NEW by \in {"suspend", "reset", "exit"}, App!waits(by)
      PROVE  closing' \in Seq(Closing) /\ a_stale' \in 0 .. Len(closing') /\ App!Closes'
  <2>1. /\ closing' \in Seq(Closing) /\ Len(closing') = Len(closing) + 1 /\ closing' # <<>>
        /\ a_stale' = a_stale
    BY <1>4, <1>5 DEF App!waits
  <2>2. a_stale' \in 0 .. Len(closing') /\ a_stale' < Len(closing')
    BY <1>3, <2>1
  <2>3. QED
    BY <2>1, <2>2 DEF App!Closes
<1>6. UNCHANGED <<closing, a_stale>> =>
        closing' \in Seq(Closing) /\ a_stale' \in 0 .. Len(closing') /\ App!Closes' = App!Closes
  BY <1>3 DEF AppInv, App!Closes
<1> HIDE DEF Typed
<1> USE DEF AppInv, App!TypeOK, App!ServerAppAssumption
<1>7. ASSUME NEW c \in AppClients, App!handleClientConnected(c) PROVE AppInv'
  <2>1. Typed
    BY <1>6, <1>7 DEF App!handleClientConnected, App!closingVars, App!powerVars, Typed
  <2>2. QED
    BY <1>1, <1>6, <1>7, <2>1 DEF App!handleClientConnected, App!closingVars, App!powerVars, Typed
<1>8. ASSUME NEW c \in AppClients, App!removeActiveClient(c) PROVE AppInv'
  <2>1. Typed
    BY <1>2, <1>6, <1>8 DEF App!removeActiveClient, App!Posted, App!closingVars, App!powerVars,
                            App!boundVars, Typed, Kinds
  <2>2. QED
    BY <1>1, <1>6, <1>8, <2>1 DEF App!removeActiveClient, App!closingVars, App!powerVars, Typed
<1>9. ASSUME NEW c \in AppClients, App!removeOldClient(c) PROVE AppInv'
  <2>1. Typed
    BY <1>2, <1>6, <1>9 DEF App!removeOldClient, App!Posted, App!closingVars, App!powerVars,
                            App!boundVars, Typed, Kinds
  <2>2. QED
    BY <1>1, <1>6, <1>9, <2>1 DEF App!removeOldClient, App!closingVars, App!powerVars, Typed
<1>10. ASSUME NEW c \in AppClients, App!closeClient(c) PROVE AppInv'
  <2>1. Typed
    BY <1>6, <1>10 DEF App!closeClient, App!closingVars, App!powerVars, App!boundVars, Typed
  <2>2. QED
    BY <1>1, <1>6, <1>10, <2>1 DEF App!closeClient, App!closingVars, App!powerVars, Typed
<1>11. CASE App!forceReconnect
  <2>1. Typed
    BY <1>2, <1>6, <1>11 DEF App!forceReconnect, App!disconnect, App!Posted, App!closingVars,
                             App!powerVars, Typed, Kinds
  <2>2. QED
    BY <1>1, <1>6, <1>11, <2>1 DEF App!forceReconnect, App!closingVars, App!powerVars, Typed
<1>12. CASE App!handleSuspend
  <2>1. /\ suspends' \in 0 .. MaxSuspends /\ asleep'
        /\ UNCHANGED <<main, state, server, resetSuspended, asked, joins, resets>>
    BY <1>12 DEF App!handleSuspend
  <2>2. CASE ~suspended /\ state = "Started"
    <3>1. /\ App!disconnect /\ App!waits("suspend") /\ UNCHANGED suspended
      BY <1>12, <2>2 DEF App!handleSuspend, App!closeServer
    <3>2. /\ closing' \in Seq(Closing) /\ a_stale' \in 0 .. Len(closing') /\ App!Closes'
      BY <1>5, <3>1
    <3>3. Typed
      BY <1>2, <2>1, <3>1, <3>2 DEF App!disconnect, App!Posted, Typed, Kinds
    <3>4. QED
      BY <1>1, <2>1, <2>2, <3>1, <3>2, <3>3 DEF Typed
  <2>3. CASE suspended \/ state # "Started"
    <3>1. /\ UNCHANGED <<clients, oldClients, a_queue, closing, a_stale>> /\ suspended'
      BY <1>12, <2>3 DEF App!handleSuspend, App!clientVars, App!closingVars
    <3>2. Typed
      BY <1>6, <2>1, <3>1 DEF Typed
    <3>3. QED
      BY <1>1, <1>6, <2>1, <2>3, <3>1, <3>2 DEF Typed
  <2>4. QED
    BY <2>2, <2>3
<1>13. CASE App!handleResume
  <2>1. Typed
    BY <1>6, <1>13 DEF App!handleResume, App!clientVars, App!closingVars, App!boundVars, Typed
  <2>2. QED
    BY <1>1, <1>6, <1>13, <2>1
       DEF App!handleResume, App!starts, App!clientVars, App!closingVars, Typed
\* What is left when the rest of resetServer has run.
<1>14. ASSUME App!startsAgain, UNCHANGED suspended, UNCHANGED asleep
       PROVE  /\ state' \in {"Uninitialized", "Initialized", "Started"} /\ server' \in {"none", "live"}
              /\ resetSuspended' \in BOOLEAN
              /\ state' = "Started" => server' = "live"
              /\ state' # "Started" => server' = "none"
              /\ suspended' \/ asleep' => resetSuspended'
  BY <1>14 DEF App!startsAgain
<1>15. CASE App!resetServer
  <2>1. /\ resets' \in 0 .. MaxResets /\ UNCHANGED <<main, suspended, asleep, asked, suspends, joins>>
    BY <1>15 DEF App!resetServer
  <2>2. CASE state = "Started" /\ App!closeServer("reset") /\ UNCHANGED <<state, server, resetSuspended>>
    <3>1. /\ App!disconnect /\ App!waits("reset")
      BY <2>2 DEF App!closeServer
    <3>2. /\ closing' \in Seq(Closing) /\ a_stale' \in 0 .. Len(closing') /\ App!Closes'
      BY <1>5, <3>1
    <3>3. Typed
      BY <1>2, <2>1, <2>2, <3>1, <3>2 DEF App!disconnect, App!Posted, Typed, Kinds
    <3>4. QED
      BY <1>1, <2>1, <2>2, <3>2, <3>3 DEF Typed
  <2>3. CASE state # "Started" /\ App!startsAgain /\ UNCHANGED <<clients, oldClients, a_queue, closing, a_stale>>
    <3>1. Typed
      BY <1>6, <1>14, <2>1, <2>3 DEF Typed
    <3>2. QED
      BY <1>1, <1>6, <1>14, <2>1, <2>3, <3>1 DEF Typed
  <2>4. QED
    BY <1>15, <2>2, <2>3 DEF App!resetServer, App!clientVars, App!closingVars
<1>16. CASE App!userQuits
  <2>1. Typed
    BY <1>2, <1>6, <1>16 DEF App!userQuits, App!clientVars, App!powerVars, App!closingVars,
                             App!boundVars, Typed, Kinds
  <2>2. QED
    BY <1>1, <1>6, <1>16, <2>1 DEF App!userQuits, App!clientVars, App!powerVars, App!closingVars, Typed
<1>17. CASE App!handleDisconnected
  <2>1. Typed
    BY <1>2, <1>6, <1>17 DEF App!handleDisconnected, App!clientVars, App!powerVars,
                             App!closingVars, App!boundVars, Typed, Kinds
  <2>2. QED
    BY <1>1, <1>6, <1>17, <2>1
       DEF App!handleDisconnected, App!clientVars, App!powerVars, App!closingVars, Typed
<1>18. CASE App!handleTimer
  <2>1. PICK i \in 1 .. Len(closing) :
           closing[i].timer /\ closing' = [closing EXCEPT ![i].timer = FALSE]
    BY <1>18 DEF App!handleTimer
  <2>2. closing' \in Seq(Closing) /\ Len(closing') = Len(closing) /\ (closing' # <<>>) = (closing # <<>>)
    <3>1. [closing[i] EXCEPT !.timer = FALSE] \in Closing
      BY <1>3 DEF Closing
    <3>2. closing' = [closing EXCEPT ![i] = [closing[i] EXCEPT !.timer = FALSE]]
      BY <2>1
    <3>3. closing' \in Seq(Closing) /\ Len(closing') = Len(closing)
      BY <3>1, <3>2, ExceptSeq
    <3>4. QED
      BY <3>3, EmptySeq
  <2>3. a_stale' = a_stale /\ App!Closes' = App!Closes /\ a_stale' \in 0 .. Len(closing')
    BY <1>3, <1>18, <2>2 DEF App!handleTimer, App!Closes
  <2>4. Typed
    BY <1>2, <1>18, <2>2, <2>3 DEF App!handleTimer, App!clientVars, App!powerVars,
                                   App!boundVars, Typed, Kinds
  <2>5. QED
    BY <1>1, <1>18, <2>2, <2>3, <2>4 DEF App!handleTimer, App!clientVars, App!powerVars, Typed
<1>19. CASE App!serverClosed
  <2> DEFINE by == closing[Len(closing)].by
  <2>1. closing # <<>> /\ a_queue # <<>> /\ state = "Started" /\ server = "live"
    BY <1>19 DEF App!serverClosed, App!Quits, App!Closes
  <2>2. closing' = SubSeq(closing, 1, Len(closing) - 1) /\ a_stale' = Len(closing) - 1
    BY <1>19 DEF App!serverClosed
  <2>3. /\ closing' \in Seq(Closing) /\ Len(closing') = Len(closing) - 1
        /\ a_stale' \in 0 .. Len(closing') /\ ~App!Closes'
    <3>1. Len(closing) - 1 \in Nat /\ Len(closing) - 1 <= Len(closing)
      BY <1>3, <2>1
    <3>2. closing' \in Seq(Closing) /\ Len(closing') = Len(closing) - 1
      <4>1. \A i \in 1 .. Len(closing) - 1 : closing[i] \in Closing
        BY <1>3, <3>1
      <4> DEFINE n == Len(closing) - 1
      <4>2. n \in Nat /\ (IF 1 <= n THEN n - 1 + 1 ELSE 0) = n
        <5>1. \A k \in Nat : (IF 1 <= k THEN k - 1 + 1 ELSE 0) = k
          OBVIOUS
        <5>2. QED
          BY <3>1, <5>1, Zenon
      <4> HIDE DEF n
      <4>3. SubSeq(closing, 1, n) \in Seq(Closing) /\ Len(SubSeq(closing, 1, n)) = n
        BY <4>1, <4>2, SubSeqProperties DEF n
      <4>4. QED
        BY <2>2, <4>3 DEF n
    <3>3. QED
      BY <2>2, <3>1, <3>2 DEF App!Closes
  <2>4. /\ clients' = {} /\ oldClients' = {} /\ a_queue' = Tail(a_queue)
        /\ UNCHANGED <<asleep, asked, suspends, joins, resets>>
    BY <1>19 DEF App!serverClosed, App!boundVars
  <2>5. CASE /\ main' = "gone" /\ state' = "Uninitialized" /\ server' = "none"
             /\ UNCHANGED <<suspended, resetSuspended>>
    <3>1. Typed
      BY <1>2, <2>1, <2>3, <2>4, <2>5 DEF Typed
    <3>2. QED
      BY <1>1, <2>3, <2>4, <2>5, <3>1 DEF Typed
  <2>6. CASE /\ suspended' = TRUE /\ state' = "Initialized" /\ server' = "none"
             /\ UNCHANGED <<main, resetSuspended>>
    <3>1. Typed
      BY <1>2, <2>1, <2>3, <2>4, <2>6 DEF Typed
    <3>2. QED
      BY <1>1, <2>3, <2>4, <2>6, <3>1 DEF Typed
  <2>7. CASE App!startsAgain /\ UNCHANGED <<main, suspended>>
    <3>1. Typed
      BY <1>2, <1>14, <2>1, <2>3, <2>4, <2>7 DEF Typed
    <3>2. QED
      BY <1>1, <1>14, <2>3, <2>4, <2>7, <3>1 DEF Typed
  <2>8. QED
    BY <1>19, <2>5, <2>6, <2>7 DEF App!serverClosed
<1>20. CASE App!deletedTwice
  <2>1. Typed
    BY <1>2, <1>6, <1>20 DEF App!deletedTwice, App!Quits, App!clientVars, App!powerVars,
                             App!closingVars, App!boundVars, Typed
  <2>2. QED
    BY <1>1, <1>6, <1>20, <2>1
       DEF App!deletedTwice, App!clientVars, App!powerVars, App!closingVars, Typed
<1>21. CASE App!leave
  <2>1. /\ closing = <<>> /\ a_queue # <<>> /\ main = "running"
        /\ UNCHANGED <<server, suspended, asleep, resetSuspended, asked, suspends, joins, resets>>
    BY <1>21 DEF App!leave, App!Quits, App!powerVars, App!boundVars
  <2>2. CASE state = "Started"
    <3>1. main' = "leaving" /\ App!waits("exit") /\ UNCHANGED state
      BY <1>21, <2>2 DEF App!leave
    <3>2. /\ closing' \in Seq(Closing) /\ a_stale' \in 0 .. Len(closing') /\ App!Closes'
      BY <1>5, <3>1
    <3>3. Typed
      BY <1>2, <1>21, <2>1, <2>2, <3>1, <3>2 DEF App!leave, Typed, Kinds
    <3>4. QED
      BY <1>1, <2>1, <2>2, <3>1, <3>2, <3>3 DEF Typed
  <2>3. CASE state # "Started"
    <3>1. /\ main' = "gone" /\ state' = "Uninitialized" /\ a_queue' = Tail(a_queue)
          /\ UNCHANGED <<clients, oldClients, closing, a_stale>>
      BY <1>21, <2>3 DEF App!leave, App!clientVars, App!closingVars
    <3>2. Typed
      BY <1>2, <1>6, <2>1, <3>1 DEF Typed
    <3>3. QED
      BY <1>1, <1>6, <2>1, <2>3, <3>1, <3>2 DEF Typed
  <2>4. QED
    BY <2>2, <2>3
<1>22. CASE UNCHANGED appVars
  BY <1>6, <1>22 DEF appVars, App!Closes
<1>23. QED
  BY <1>7, <1>8, <1>9, <1>10, <1>11, <1>12, <1>13, <1>15, <1>16, <1>17, <1>18, <1>19, <1>20,
     <1>21, <1>22 DEF App!Next, App!Loop

\* A computer that sleeps does not serve, however often it was told to sleep and to wake and
\* whatever came while the server was being stopped, another suspend or a reset too, unless a
\* reset started the server while it slept or the suspension was noted; and a server that is
\* not started has left nothing (ServerApp::handleSuspend, resetServer, stopServer, closeServer).
THEOREM AsleepAlways ==
    ASSUME App!ServerAppAssumption
    PROVE  App!Spec => []AsleepStopped
<1>1. AppInv => AsleepStopped
  BY DEF AppInv, AsleepStopped, App!AsleepStopped, App!NothingLeft
<1>2. App!Init => AppInv
  BY AppInit
<1>3. AppInv /\ [App!Next]_(App!vars) => AppInv'
  <2>1. [App!Next]_(App!vars) => [App!Next]_appVars
    BY DEF App!vars, appVars, App!clientVars, App!powerVars, App!closingVars, App!boundVars
  <2>2. QED
    BY <2>1, AppNext
<1>4. QED
  BY <1>1, <1>2, <1>3, PTL DEF App!Spec
==============================================================================
