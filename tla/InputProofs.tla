------------------------------ MODULE InputProofs ------------------------------
(***************************************************************************)
(* Proofs about the parts of InputParts, for any screens, keys, desktops and *)
(* links and any bounds: what went down goes up, no motion is lost, two taps   *)
(* and nothing else take the pointer home, the cursor and the keys are right    *)
(* whichever desktop had the input, and a search for a neighbor ends on the      *)
(* screen it enters.                                                           *)
(***************************************************************************)
EXTENDS InputParts, WellFoundedInduction, SequenceTheorems, TLAPS

------------------------------------------------------------------------------
(* Queues.                                                                     *)

LEMMA Appended ==
    ASSUME NEW S, NEW q \in Seq(S), NEW e \in S
    PROVE  LET r == Append(q, e) IN
           /\ r \in Seq(S) /\ Len(r) = Len(q) + 1 /\ r[Len(q) + 1] = e /\ Len(q) \in Nat
           /\ \A i \in 1 .. Len(q) : r[i] = q[i]
  BY AppendProperties, LenProperties

LEMMA Behind ==
    ASSUME NEW S, NEW q \in Seq(S), q # <<>>
    PROVE  LET r == Tail(q) IN
           /\ r \in Seq(S) /\ Len(r) = Len(q) - 1 /\ Len(q) \in Nat \ {0} /\ Head(q) = q[1]
           /\ Head(q) \in S /\ \A i \in 1 .. Len(r) : r[i] = q[i + 1]
  BY HeadTailProperties, LenProperties, ElementOfSeq, EmptySeq

Has(q, m) == \E i \in 1 .. Len(q) : q[i] = m
Once(q, m) == \A i, j \in 1 .. Len(q) : q[i] = m /\ q[j] = m => i = j

\* Each d is followed by u, unless ok.
Follows(q, d, u, ok) ==
    \A i \in 1 .. Len(q) : q[i] = d => ok \/ \E j \in 1 .. Len(q) : j > i /\ q[j] = u

\* When q was handled, what x begins may last: it did already or does by q, and nothing of E comes
\* after it.
MayLast(q, x, E, already) ==
    \/ already /\ \A i \in 1 .. Len(q) : q[i] \notin E
    \/ \E i \in 1 .. Len(q) : q[i] = x /\ \A j \in 1 .. Len(q) : j > i => q[j] \notin E

LEMMA HasAppend ==
    ASSUME NEW S, NEW q \in Seq(S), NEW e \in S, NEW m
    PROVE  Has(Append(q, e), m) <=> Has(q, m) \/ e = m
<1> DEFINE r == Append(q, e)
<1>1. /\ Len(r) = Len(q) + 1 /\ r[Len(q) + 1] = e /\ Len(q) \in Nat
      /\ \A i \in 1 .. Len(q) : r[i] = q[i]
  BY Appended
<1> HIDE DEF r
<1>2. Has(r, m) <=> Has(q, m) \/ e = m
  BY <1>1 DEF Has
<1>3. QED
  BY <1>2 DEF r

LEMMA HasTail ==
    ASSUME NEW S, NEW q \in Seq(S), q # <<>>, NEW m
    PROVE  Has(q, m) <=> Has(Tail(q), m) \/ Head(q) = m
<1> DEFINE r == Tail(q)
<1>1. /\ Len(r) = Len(q) - 1 /\ Len(q) \in Nat \ {0} /\ Head(q) = q[1]
      /\ \A i \in 1 .. Len(r) : r[i] = q[i + 1]
  BY Behind
<1> HIDE DEF r
<1>2. ASSUME Has(q, m) PROVE Has(r, m) \/ Head(q) = m
  <2>1. PICK i \in 1 .. Len(q) : q[i] = m
    BY <1>2 DEF Has
  <2>2. CASE i = 1
    BY <1>1, <2>1, <2>2
  <2>3. CASE i # 1
    <3>1. i - 1 \in 1 .. Len(r) /\ r[i - 1] = q[(i - 1) + 1] /\ (i - 1) + 1 = i
      BY <1>1, <2>3
    <3>2. QED
      BY <2>1, <3>1 DEF Has
  <2>4. QED
    BY <2>2, <2>3
<1>3. ASSUME Has(r, m) PROVE Has(q, m)
  BY <1>1, <1>3 DEF Has
<1>4. ASSUME Head(q) = m PROVE Has(q, m)
  <2>1. 1 \in 1 .. Len(q)
    BY <1>1
  <2>2. QED
    BY <1>1, <1>4, <2>1 DEF Has
<1>5. QED
  BY <1>2, <1>3, <1>4 DEF r

LEMMA OnceAppend ==
    ASSUME NEW S, NEW q \in Seq(S), NEW e \in S, NEW m, Once(q, m), e # m \/ ~Has(q, m)
    PROVE  Once(Append(q, e), m)
<1> DEFINE r == Append(q, e)
<1>1. /\ Len(r) = Len(q) + 1 /\ r[Len(q) + 1] = e /\ Len(q) \in Nat
      /\ \A i \in 1 .. Len(q) : r[i] = q[i]
  BY Appended
<1> HIDE DEF r
<1>2. Once(r, m)
  BY <1>1 DEF Once, Has
<1>3. QED
  BY <1>2 DEF r

LEMMA OnceTail ==
    ASSUME NEW S, NEW q \in Seq(S), q # <<>>, NEW m, Once(q, m)
    PROVE  Once(Tail(q), m) /\ (Head(q) = m => ~Has(Tail(q), m))
<1> DEFINE r == Tail(q)
<1>1. /\ Len(r) = Len(q) - 1 /\ Len(q) \in Nat \ {0} /\ Head(q) = q[1]
      /\ \A i \in 1 .. Len(r) : r[i] = q[i + 1]
  BY Behind
<1> HIDE DEF r
<1>2. /\ \A i \in 1 .. Len(r) : i + 1 \in 1 .. Len(q) /\ i + 1 # 1
      /\ 1 \in 1 .. Len(q) /\ \A i, j \in 1 .. Len(r) : i + 1 = j + 1 => i = j
  BY <1>1
<1>3. Once(r, m) /\ (Head(q) = m => ~Has(r, m))
  BY <1>1, <1>2 DEF Once, Has
<1>4. QED
  BY <1>3 DEF r

LEMMA FollowsAppend ==
    ASSUME NEW S, NEW q \in Seq(S), NEW e \in S, NEW d, NEW u, NEW ok \in BOOLEAN, NEW ok2 \in BOOLEAN,
           Follows(q, d, u, ok), e = d => ok2, ok => ok2 \/ e = u
    PROVE  Follows(Append(q, e), d, u, ok2)
<1> DEFINE r == Append(q, e)
<1>1. /\ Len(r) = Len(q) + 1 /\ r[Len(q) + 1] = e /\ Len(q) \in Nat
      /\ \A i \in 1 .. Len(q) : r[i] = q[i]
  BY Appended
<1> HIDE DEF r
<1>2. /\ \A i \in 1 .. Len(q) : i \in 1 .. Len(r) /\ Len(q) + 1 > i
      /\ Len(q) + 1 \in 1 .. Len(r) /\ \A i \in 1 .. Len(r) : i \in 1 .. Len(q) \/ i = Len(q) + 1
  BY <1>1
<1>3. Follows(r, d, u, ok2)
  BY <1>1, <1>2 DEF Follows
<1>4. QED
  BY <1>3 DEF r

LEMMA FollowsTail ==
    ASSUME NEW S, NEW q \in Seq(S), q # <<>>, NEW d, NEW u, NEW ok \in BOOLEAN, NEW ok2 \in BOOLEAN,
           Follows(q, d, u, ok), ok => ok2
    PROVE  /\ Follows(Tail(q), d, u, ok2)
           /\ Head(q) = d => ok \/ Has(Tail(q), u)
<1> DEFINE r == Tail(q)
<1>1. /\ Len(r) = Len(q) - 1 /\ Len(q) \in Nat \ {0} /\ Head(q) = q[1]
      /\ \A i \in 1 .. Len(r) : r[i] = q[i + 1]
  BY Behind
<1> HIDE DEF r
<1>2. /\ \A i \in 1 .. Len(r) : i + 1 \in 1 .. Len(q) /\ 1 \in 1 .. Len(q)
      /\ \A i \in 1 .. Len(q) : i > 1 => i - 1 \in 1 .. Len(r) /\ r[i - 1] = q[i]
      /\ \A i \in 1 .. Len(r), j \in 1 .. Len(q) : j > i + 1 => j > 1 /\ j - 1 > i
  BY <1>1
<1>3. Follows(r, d, u, ok2)
  <2> SUFFICES ASSUME NEW i \in 1 .. Len(r), r[i] = d, ~ok2
               PROVE  \E j \in 1 .. Len(r) : j > i /\ r[j] = u
    BY DEF Follows
  <2>1. PICK j \in 1 .. Len(q) : j > i + 1 /\ q[j] = u
    BY <1>1, <1>2 DEF Follows
  <2>2. QED
    BY <1>2, <2>1
<1>4. Head(q) = d => ok \/ Has(r, u)
  <2> SUFFICES ASSUME q[1] = d, ~ok PROVE Has(r, u)
    BY <1>1
  <2>1. PICK j \in 1 .. Len(q) : j > 1 /\ q[j] = u
    BY <1>1 DEF Follows
  <2>2. QED
    BY <1>2, <2>1 DEF Has
<1>5. QED
  BY <1>3, <1>4 DEF r

LEMMA LastsAppend ==
    ASSUME NEW S, NEW q \in Seq(S), NEW e \in S, NEW x, NEW E, NEW already \in BOOLEAN,
           MayLast(Append(q, e), x, E, already)
    PROVE  e = x \/ (e \notin E /\ MayLast(q, x, E, already))
<1> DEFINE r == Append(q, e)
<1>1. /\ Len(r) = Len(q) + 1 /\ r[Len(q) + 1] = e /\ Len(q) \in Nat
      /\ \A i \in 1 .. Len(q) : r[i] = q[i]
  BY Appended
<1>2. MayLast(r, x, E, already)
  OBVIOUS
<1> HIDE DEF r
<1>3. /\ \A i \in 1 .. Len(q) : i \in 1 .. Len(r) /\ Len(q) + 1 > i
      /\ Len(q) + 1 \in 1 .. Len(r) /\ \A i \in 1 .. Len(r) : i \in 1 .. Len(q) \/ i = Len(q) + 1
  BY <1>1
<1>4. QED
  BY <1>1, <1>2, <1>3 DEF MayLast

LEMMA LastsTail ==
    ASSUME NEW S, NEW q \in Seq(S), q # <<>>, NEW x, NEW E, NEW already \in BOOLEAN,
           NEW before \in BOOLEAN, MayLast(Tail(q), x, E, already),
           already => Head(q) = x \/ (before /\ Head(q) \notin E)
    PROVE  MayLast(q, x, E, before)
<1> DEFINE r == Tail(q)
<1>1. /\ Len(r) = Len(q) - 1 /\ Len(q) \in Nat \ {0} /\ Head(q) = q[1]
      /\ \A i \in 1 .. Len(r) : r[i] = q[i + 1]
  BY Behind
<1>2. MayLast(r, x, E, already)
  OBVIOUS
<1> HIDE DEF r
<1>3. /\ 1 \in 1 .. Len(q) /\ \A i \in 1 .. Len(q) : i = 1 \/ (i > 1 /\ i - 1 \in 1 .. Len(r) /\ r[i - 1] = q[i])
      /\ \A i \in 1 .. Len(r) : i + 1 \in 1 .. Len(q) /\ q[i + 1] = r[i]
      /\ \A i \in 1 .. Len(r), j \in 1 .. Len(q) : j > i + 1 => j - 1 > i /\ j # 1
  BY <1>1
<1>4. CASE already /\ \A i \in 1 .. Len(r) : r[i] \notin E
  <2>1. \A i \in 1 .. Len(q) : i > 1 => q[i] \notin E
    BY <1>3, <1>4
  <2>2. CASE q[1] = x
    BY <1>3, <2>1, <2>2 DEF MayLast
  <2>3. CASE before /\ q[1] \notin E
    BY <1>3, <2>1, <2>3 DEF MayLast
  <2>4. QED
    BY <1>1, <1>4, <2>2, <2>3
<1>5. ASSUME NEW i \in 1 .. Len(r), r[i] = x, \A j \in 1 .. Len(r) : j > i => r[j] \notin E
      PROVE  MayLast(q, x, E, before)
  <2>1. i + 1 \in 1 .. Len(q) /\ q[i + 1] = x
    BY <1>3, <1>5
  <2>2. \A j \in 1 .. Len(q) : j > i + 1 => q[j] \notin E
    BY <1>3, <1>5
  <2>3. QED
    BY <2>1, <2>2 DEF MayLast
<1>6. QED
  BY <1>2, <1>4, <1>5 DEF MayLast

------------------------------------------------------------------------------
(* KeyRelay: its types.                                                        *)

\* What waits in the server's thread, and on the way to a client.
KeyMessage == [stage : {"posted", "event"}, what : {"down", "up"}, arg : KeysTo!Inputs]
OtherMessage ==
    [stage : {"posted", "event"},
     what : {"motion", "motionOnPrimary", "motionOnSecondary", "jump", "emergency", "mark", "removed"},
     arg : KeysTo!Screens]
ModeMessage ==
    [stage : {"posted", "event"}, what : {"broadcast"}, arg : {"on", "off", "toggle"} \X SUBSET RelayClients]
GoneMessage == [stage : {"event"}, what : {"gone"}, arg : RelayClients]
QueueMessage == KeyMessage \cup OtherMessage \cup ModeMessage \cup GoneMessage
ClientMessage == {<<"enter">>, <<"leave">>} \cup ({"down", "up"} \X KeysTo!Inputs)

RelayTyped ==
    /\ KeysTo!TypeOK
    /\ r_queue \in Seq(QueueMessage)
    /\ r_toClient \in [RelayClients -> Seq(ClientMessage)]

LEMMA MessageTypes ==
    ASSUME NEW m \in QueueMessage
    PROVE  /\ m = [stage |-> m.stage, what |-> m.what, arg |-> m.arg]
           /\ m.stage \in {"posted", "event"}
           /\ m.what \in {"down", "up"} => m.arg \in KeysTo!Inputs
           /\ m.what = "broadcast" => m.arg[2] \in SUBSET RelayClients
           /\ m.what = "gone" => m.arg \in RelayClients /\ m.stage = "event"
           /\ m.what \in {"motion", "motionOnPrimary", "motionOnSecondary", "jump", "emergency", "mark", "removed"}
                => m.arg \in KeysTo!Screens
  BY DEF QueueMessage, KeyMessage, OtherMessage, ModeMessage, GoneMessage

LEMMA KeyMessages ==
    ASSUME NEW i \in KeysTo!Inputs, NEW what \in {"down", "up"}
    PROVE  KeysTo!Posted(what, i) \in QueueMessage /\ KeysTo!Happened(what, i) \in QueueMessage
  BY DEF QueueMessage, KeyMessage, KeysTo!Posted, KeysTo!Happened

LEMMA OtherMessages ==
    ASSUME NEW s \in KeysTo!Screens,
           NEW what \in {"motion", "motionOnPrimary", "motionOnSecondary", "jump", "emergency", "mark"}
    PROVE  KeysTo!Posted(what, s) \in QueueMessage /\ KeysTo!Happened(what, s) \in QueueMessage
  BY DEF QueueMessage, OtherMessage, KeysTo!Posted, KeysTo!Happened

LEMMA MarkMessage == KeysTo!Mark \in QueueMessage /\ KeysTo!Removed \in QueueMessage
  BY DEF QueueMessage, OtherMessage, KeysTo!Mark, KeysTo!Removed, KeysTo!Screens

LEMMA GoneMessages == ASSUME NEW c \in RelayClients PROVE KeysTo!Happened("gone", c) \in QueueMessage
  BY DEF QueueMessage, GoneMessage, KeysTo!Happened

LEMMA ModeMessages ==
    ASSUME KeysTo!KeyRelayAssumption, NEW mode \in {"on", "off", "toggle"}, NEW to \in Broadcasts
    PROVE  /\ KeysTo!Posted("broadcast", <<mode, to>>) \in QueueMessage
           /\ KeysTo!Happened("broadcast", <<mode, to>>) \in QueueMessage
<1>1. to \in SUBSET RelayClients
  BY DEF KeysTo!KeyRelayAssumption
<1>2. QED
  BY <1>1 DEF QueueMessage, ModeMessage, KeysTo!Posted, KeysTo!Happened

\* The message that is handled, and what is behind it.
LEMMA HeadTyped ==
    ASSUME r_queue \in Seq(QueueMessage), r_queue # <<>>
    PROVE  KeysTo!head \in QueueMessage /\ KeysTo!rest \in Seq(QueueMessage)
  BY Behind DEF KeysTo!head, KeysTo!rest

LEMMA QueueGrows ==
    ASSUME NEW q \in Seq(QueueMessage), NEW m \in QueueMessage
    PROVE  Append(q, m) \in Seq(QueueMessage)
  BY AppendProperties

\* Removing messages keeps the places of those that stay.
LEMMA PurgedTyped ==
    ASSUME NEW q \in Seq(QueueMessage)
    PROVE  /\ KeysTo!Purged(q) \in Seq(QueueMessage) /\ Len(KeysTo!Purged(q)) = Len(q) /\ Len(q) \in Nat
           /\ \A n \in 1 .. Len(q) :
                  KeysTo!Purged(q)[n] = IF q[n].stage = "posted" /\ q[n] # KeysTo!Mark THEN KeysTo!Removed ELSE q[n]
<1>1. DOMAIN q = 1 .. Len(q) /\ Len(q) \in Nat /\ \A n \in 1 .. Len(q) : q[n] \in QueueMessage
  BY LenProperties, ElementOfSeq
<1> DEFINE r == [n \in 1 .. Len(q) |->
                    IF q[n].stage = "posted" /\ q[n] # KeysTo!Mark THEN KeysTo!Removed ELSE q[n]]
<1>2. KeysTo!Purged(q) = r
  BY <1>1 DEF KeysTo!Purged
<1>3. r \in [1 .. Len(q) -> QueueMessage]
  BY <1>1, MarkMessage
<1>4. \A n \in 1 .. Len(q) :
          r[n] = IF q[n].stage = "posted" /\ q[n] # KeysTo!Mark THEN KeysTo!Removed ELSE q[n]
  OBVIOUS
<1> HIDE DEF r
<1>5. r \in Seq(QueueMessage) /\ DOMAIN r = 1 .. Len(q)
  BY <1>1, <1>3, IsASeq
<1>6. Len(r) = Len(q)
  BY <1>1, <1>5, LenProperties
<1>7. QED
  BY <1>1, <1>2, <1>4, <1>5, <1>6

LEMMA SentTyped ==
    ASSUME NEW channels \in [RelayClients -> Seq(ClientMessage)], NEW to, NEW m \in ClientMessage
    PROVE  /\ KeysTo!sent(channels, to, m) \in [RelayClients -> Seq(ClientMessage)]
           /\ \A c \in RelayClients :
                  KeysTo!sent(channels, to, m)[c] =
                      IF c \in to \cap linked THEN Append(channels[c], m) ELSE channels[c]
  BY AppendProperties DEF KeysTo!sent

\* What a switch of screens does to the queue and to what is on its way.
LEMMA SwitchTyped ==
    ASSUME KeysTo!KeyRelayAssumption, RelayTyped, NEW s \in KeysTo!Screens,
           NEW q \in Seq(QueueMessage), NEW channels \in [RelayClients -> Seq(ClientMessage)],
           KeysTo!switchScreen(s, q, channels)
    PROVE  /\ r_queue' \in Seq(QueueMessage) /\ r_toClient' \in [RelayClients -> Seq(ClientMessage)]
           /\ active' \in KeysTo!Screens /\ keysBefore' \subseteq RelayKeys /\ warped' = "no"
<1>1. Append(q, KeysTo!Mark) \in Seq(QueueMessage)
  BY QueueGrows, MarkMessage
<1>2. <<"enter">> \in ClientMessage /\ <<"leave">> \in ClientMessage
  BY DEF ClientMessage
<1>3. KeysTo!sent(channels, {active}, <<"leave">>) \in [RelayClients -> Seq(ClientMessage)]
  BY <1>2, SentTyped
<1>4. KeysTo!sent(KeysTo!sent(channels, {active}, <<"leave">>), {s}, <<"enter">>)
        \in [RelayClients -> Seq(ClientMessage)]
  BY <1>2, <1>3, SentTyped
<1>5. active \in KeysTo!Screens /\ keysBefore \subseteq RelayKeys
  BY DEF RelayTyped, KeysTo!TypeOK
<1>6. QED
  BY <1>1, <1>4, <1>5 DEF KeysTo!switchScreen, KeysTo!leaveHost, KeysTo!enterHost, KeysTo!nextMark

LEMMA ExcusedTyped ==
    ASSUME KeysTo!TypeOK
    PROVE  /\ \A i \in KeysTo!Inputs : RelayClients \X {i} \subseteq KeysTo!Screens \X KeysTo!Inputs
           /\ {RelayPrimary} \X KeysTo!Stranded \subseteq KeysTo!Screens \X KeysTo!Inputs
           /\ \A cs \in SUBSET RelayClients : KeysTo!KeysKept(cs) \subseteq KeysTo!Screens \X KeysTo!Inputs
           /\ \A c \in KeysTo!Screens : KeysTo!ButtonKept(c) \subseteq KeysTo!Screens \X KeysTo!Inputs
           /\ \A c \in RelayClients : {c} \X serverKeys[c] \subseteq KeysTo!Screens \X KeysTo!Inputs
           /\ \A s \in KeysTo!Screens : KeysTo!KeptBySwitch(s) \subseteq KeysTo!Screens \X KeysTo!Inputs
           /\ KeysTo!Unsaid \subseteq KeysTo!Screens \X KeysTo!Inputs
<1>1. /\ RelayClients \subseteq KeysTo!Screens /\ RelayPrimary \in KeysTo!Screens
      /\ RelayKeys \subseteq KeysTo!Inputs /\ RelayButton \in KeysTo!Inputs
  BY DEF KeysTo!Screens, KeysTo!Inputs
<1>2. /\ keysBefore \subseteq RelayKeys /\ host \subseteq RelayKeys /\ active \in KeysTo!Screens
      /\ serverKeys \in [RelayClients -> SUBSET RelayKeys]
  BY DEF KeysTo!TypeOK
<1>3. /\ {RelayPrimary} \X KeysTo!Stranded \subseteq KeysTo!Screens \X KeysTo!Inputs
      /\ {RelayPrimary} \X KeysTo!Late \subseteq KeysTo!Screens \X KeysTo!Inputs
  BY <1>1, <1>2 DEF KeysTo!Stranded, KeysTo!Late
<1>4. \A c \in KeysTo!Screens : KeysTo!ButtonKept(c) \subseteq KeysTo!Screens \X KeysTo!Inputs
  BY <1>1 DEF KeysTo!ButtonKept
<1>5. \A cs \in SUBSET RelayClients : KeysTo!KeysKept(cs) \subseteq KeysTo!Screens \X KeysTo!Inputs
  BY <1>1 DEF KeysTo!KeysKept
<1>6. \A i \in KeysTo!Inputs : RelayClients \X {i} \subseteq KeysTo!Screens \X KeysTo!Inputs
  BY <1>1
<1>7. \A c \in RelayClients : {c} \X serverKeys[c] \subseteq KeysTo!Screens \X KeysTo!Inputs
  BY <1>1, <1>2
<1>8. \A s \in KeysTo!Screens : KeysTo!KeptBySwitch(s) \subseteq KeysTo!Screens \X KeysTo!Inputs
  BY <1>2, <1>3, <1>4 DEF KeysTo!KeptBySwitch
<1>9. KeysTo!Unsaid \subseteq KeysTo!Screens \X KeysTo!Inputs
  <2>1. {RelayPrimary} \X (KeysTo!Stranded \cup (IF active = RelayPrimary THEN KeysTo!Late ELSE {}))
            \subseteq KeysTo!Screens \X KeysTo!Inputs
    BY <1>3
  <2>2. RelayClients \X {i \in KeysTo!Inputs : KeysTo!InQueue(KeysTo!Posted("up", i))}
            \subseteq KeysTo!Screens \X KeysTo!Inputs
    BY <1>1
  <2>3. QED
    BY <2>1, <2>2 DEF KeysTo!Unsaid
<1>10. QED
  BY <1>3, <1>4, <1>5, <1>6, <1>7, <1>8, <1>9

LEMMA RelayTypedUser ==
    ASSUME KeysTo!KeyRelayAssumption, RelayTyped, KeysTo!User PROVE RelayTyped'
<1> USE DEF RelayTyped
<1>1. held \subseteq KeysTo!Inputs /\ host \subseteq RelayKeys /\ hookKeys \subseteq RelayKeys
  BY DEF KeysTo!TypeOK
<1>2. ASSUME NEW i \in KeysTo!Inputs, KeysTo!Press(i) PROVE RelayTyped'
  <2>1. KeysTo!Posted("down", i) \in QueueMessage
    BY KeyMessages
  <2>2. r_queue' \in Seq(QueueMessage)
    BY <1>2, <2>1, QueueGrows DEF KeysTo!Press
  <2>3. held' \subseteq KeysTo!Inputs /\ host' \subseteq RelayKeys /\ hookKeys' \subseteq RelayKeys
    BY <1>1, <1>2 DEF KeysTo!Press
  <2>4. QED
    BY <1>2, <2>2, <2>3 DEF KeysTo!Press, KeysTo!Doing, KeysTo!TypeOK, KeysTo!serverVars, KeysTo!clientVars,
       KeysTo!Screens, KeysTo!Inputs
<1>3. ASSUME NEW i \in KeysTo!Inputs, KeysTo!Release(i) PROVE RelayTyped'
  <2>1. KeysTo!Posted("up", i) \in QueueMessage
    BY KeyMessages
  <2>2. r_queue' \in Seq(QueueMessage)
    BY <1>3, <2>1, QueueGrows DEF KeysTo!Release
  <2>3. held' \subseteq KeysTo!Inputs /\ host' \subseteq RelayKeys /\ hookKeys' \subseteq RelayKeys
    BY <1>1, <1>3 DEF KeysTo!Release
  <2>4. QED
    BY <1>3, <2>2, <2>3 DEF KeysTo!Release, KeysTo!TypeOK, KeysTo!serverVars, KeysTo!clientVars,
       KeysTo!Screens, KeysTo!Inputs
<1>4. ASSUME NEW m \in QueueMessage, r_queue' = Append(r_queue, m), KeysTo!Doing, UNCHANGED <<held, hookKeys, host>>
      PROVE  RelayTyped'
  <2>1. r_queue' \in Seq(QueueMessage)
    BY <1>4, QueueGrows
  <2>2. QED
    BY <1>4, <2>1 DEF KeysTo!Doing, KeysTo!TypeOK, KeysTo!serverVars, KeysTo!clientVars,
       KeysTo!Screens, KeysTo!Inputs
<1>5. ASSUME NEW s \in KeysTo!Screens, KeysTo!Motion(s) \/ KeysTo!HotKey("jump", s) PROVE RelayTyped'
  <2>1. KeysTo!Posted("motion", s) \in QueueMessage /\ KeysTo!Posted("jump", s) \in QueueMessage
    BY OtherMessages
  <2>2. QED
    BY <1>4, <1>5, <2>1 DEF KeysTo!Motion, KeysTo!HotKey
<1>6. ASSUME KeysTo!HotKey("emergency", RelayPrimary) PROVE RelayTyped'
  <2>1. RelayPrimary \in KeysTo!Screens
    BY DEF KeysTo!Screens
  <2>2. KeysTo!Posted("emergency", RelayPrimary) \in QueueMessage
    BY <2>1, OtherMessages
  <2>3. QED
    BY <1>4, <1>6, <2>2 DEF KeysTo!HotKey
<1>7. ASSUME NEW mode \in {"on", "off", "toggle"}, NEW to \in Broadcasts, KeysTo!HotKey("broadcast", <<mode, to>>)
      PROVE  RelayTyped'
  <2>1. KeysTo!Posted("broadcast", <<mode, to>>) \in QueueMessage
    BY ModeMessages
  <2>2. QED
    BY <1>4, <1>7, <2>1 DEF KeysTo!HotKey
<1>8. QED
  BY <1>2, <1>3, <1>5, <1>6, <1>7 DEF KeysTo!User

LEMMA RelayTypedServe ==
    ASSUME KeysTo!KeyRelayAssumption, RelayTyped, KeysTo!Serve PROVE RelayTyped'
<1> USE DEF RelayTyped
<1>1. r_queue # <<>> /\ KeysTo!head \in QueueMessage /\ KeysTo!rest \in Seq(QueueMessage)
  BY HeadTyped DEF KeysTo!Serve
<1>2. \A m \in QueueMessage : Append(KeysTo!rest, m) \in Seq(QueueMessage)
  BY <1>1, QueueGrows
<1>3. /\ KeysTo!head.what \in {"down", "up"} => KeysTo!head.arg \in KeysTo!Inputs
      /\ KeysTo!head.what = "broadcast" => KeysTo!head.arg[2] \in SUBSET RelayClients
      /\ KeysTo!head.what = "gone" => KeysTo!head.arg \in RelayClients
      /\ KeysTo!head.what \in {"motion", "motionOnPrimary", "motionOnSecondary", "jump", "emergency"}
            => KeysTo!head.arg \in KeysTo!Screens
      /\ KeysTo!head.stage \in {"posted", "event"}
  BY <1>1, MessageTypes
<1>4. /\ RelayKeys \subseteq KeysTo!Inputs /\ RelayButton \in KeysTo!Inputs
      /\ RelayClients \subseteq KeysTo!Screens /\ RelayPrimary \in KeysTo!Screens
  BY DEF KeysTo!Inputs, KeysTo!Screens
<1>5. \A w \in {"down", "up"}, i \in KeysTo!Inputs :
          KeysTo!Posted(w, i) \in QueueMessage /\ KeysTo!Happened(w, i) \in QueueMessage
  BY KeyMessages
<1>6. excused \subseteq KeysTo!Screens \X KeysTo!Inputs
  BY DEF KeysTo!TypeOK
<1>7. ASSUME KeysTo!onKey PROVE RelayTyped'
  <2>1. r_queue' \in Seq(QueueMessage)
    BY <1>1, <1>2, <1>3, <1>5, <1>7 DEF KeysTo!onKey
  <2>2. keysBefore' \subseteq RelayKeys /\ host' \subseteq RelayKeys /\ hookKeys' \subseteq RelayKeys
    BY <1>7 DEF KeysTo!onKey, KeysTo!TypeOK
  <2>3. excused' \subseteq KeysTo!Screens \X KeysTo!Inputs
    BY <1>3, <1>4, <1>6, <1>7, ExcusedTyped DEF KeysTo!onKey
  <2>4. QED
    BY <1>7, <2>1, <2>2, <2>3 DEF KeysTo!onKey, KeysTo!TypeOK, KeysTo!serverVars, KeysTo!clientVars,
       KeysTo!Screens, KeysTo!Inputs
<1>8. ASSUME KeysTo!onMouseButton PROVE RelayTyped'
  <2>1. r_queue' \in Seq(QueueMessage)
    BY <1>1, <1>2, <1>3, <1>4, <1>5, <1>8 DEF KeysTo!onMouseButton
  <2>2. excused' \subseteq KeysTo!Screens \X KeysTo!Inputs
    BY <1>3, <1>4, <1>6, <1>8, ExcusedTyped DEF KeysTo!onMouseButton
  <2>3. buttons' \in BOOLEAN
    BY <1>8 DEF KeysTo!onMouseButton
  <2>4. QED
    BY <1>8, <2>1, <2>2, <2>3 DEF KeysTo!onMouseButton, KeysTo!TypeOK, KeysTo!serverVars, KeysTo!clientVars,
       KeysTo!Screens, KeysTo!Inputs
<1>9. ASSUME KeysTo!onMouseMove \/ KeysTo!onHotKey \/ KeysTo!onMark PROVE RelayTyped'
  <2>1. CASE KeysTo!onMouseMove
    <3>1. /\ KeysTo!Happened("motionOnPrimary", KeysTo!head.arg) \in QueueMessage
          /\ KeysTo!Happened("motionOnSecondary", KeysTo!head.arg) \in QueueMessage
      BY <1>3, <2>1, OtherMessages DEF KeysTo!onMouseMove
    <3>2. r_queue' \in Seq(QueueMessage)
      BY <1>1, <1>2, <2>1, <3>1 DEF KeysTo!onMouseMove
    <3>3. QED
      BY <2>1, <3>2 DEF KeysTo!onMouseMove, KeysTo!TypeOK, KeysTo!serverVars, KeysTo!clientVars, KeysTo!hostVars,
         KeysTo!Screens, KeysTo!Inputs
  <2>2. CASE KeysTo!onHotKey
    <3>1. KeysTo!head.what \in {"jump", "emergency"} =>
            KeysTo!Happened(KeysTo!head.what, KeysTo!head.arg) \in QueueMessage
      BY <1>3, OtherMessages
    <3>2. KeysTo!head.what = "broadcast" => KeysTo!Happened("broadcast", KeysTo!head.arg) \in QueueMessage
      BY <1>1 DEF QueueMessage, KeyMessage, OtherMessage, ModeMessage, GoneMessage, KeysTo!Happened
    <3>3. r_queue' \in Seq(QueueMessage)
      BY <1>1, <1>2, <2>2, <3>1, <3>2 DEF KeysTo!onHotKey
    <3>4. QED
      BY <2>2, <3>3 DEF KeysTo!onHotKey, KeysTo!TypeOK, KeysTo!serverVars, KeysTo!clientVars, KeysTo!hostVars,
         KeysTo!Screens, KeysTo!Inputs
  <2>3. CASE KeysTo!onMark
    BY <1>1, <2>3 DEF KeysTo!onMark, KeysTo!TypeOK, KeysTo!serverVars, KeysTo!clientVars, KeysTo!hostVars,
       KeysTo!Screens, KeysTo!Inputs
  <2>4. QED
    BY <1>9, <2>1, <2>2, <2>3
<1>10. ASSUME KeysTo!Relay PROVE RelayTyped'
  <2>1. \A w \in {"down", "up"}, i \in KeysTo!Inputs : <<w, i>> \in ClientMessage
    BY DEF ClientMessage
  <2>2. ASSUME NEW to, NEW w \in {"down", "up"}, NEW i \in KeysTo!Inputs
        PROVE  KeysTo!sent(r_toClient, to, <<w, i>>) \in [RelayClients -> Seq(ClientMessage)]
    BY <2>1, SentTyped
  <2>3. r_toClient' \in [RelayClients -> Seq(ClientMessage)]
    <3>1. ASSUME KeysTo!head.arg \in RelayKeys, KeysTo!onKeyDown(KeysTo!head.arg) \/ KeysTo!onKeyUp(KeysTo!head.arg)
          PROVE  r_toClient' \in [RelayClients -> Seq(ClientMessage)]
      BY <1>4, <2>2, <3>1 DEF KeysTo!onKeyDown, KeysTo!onKeyUp
    <3>2. ASSUME KeysTo!onMouseDown \/ KeysTo!onMouseUp PROVE r_toClient' \in [RelayClients -> Seq(ClientMessage)]
      <4>1. /\ KeysTo!sent(r_toClient, {active}, <<"down", RelayButton>>) \in [RelayClients -> Seq(ClientMessage)]
            /\ KeysTo!sent(r_toClient, {active}, <<"up", RelayButton>>) \in [RelayClients -> Seq(ClientMessage)]
        BY <1>4, <2>2
      <4>2. QED
        BY <3>2, <4>1 DEF KeysTo!onMouseDown, KeysTo!onMouseUp
    <3>3. QED
      BY <1>10, <3>1, <3>2 DEF KeysTo!Relay
  <2>4. QED
    BY <1>1, <1>10, <2>3 DEF KeysTo!Relay, KeysTo!TypeOK, KeysTo!serverVars, KeysTo!clientVars, KeysTo!hostVars,
       KeysTo!Screens, KeysTo!Inputs
<1>11. ASSUME KeysTo!Switch PROVE RelayTyped'
  <2>1. KeysTo!head.arg \in KeysTo!Screens
    BY <1>3, <1>11 DEF KeysTo!Switch
  <2>2. /\ r_queue' \in Seq(QueueMessage) /\ r_toClient' \in [RelayClients -> Seq(ClientMessage)]
        /\ active' \in KeysTo!Screens /\ keysBefore' \subseteq RelayKeys /\ warped' \in {"no", warped}
    <3>1. CASE KeysTo!switchScreen(KeysTo!head.arg, KeysTo!rest, r_toClient)
      BY <1>1, <2>1, <3>1, SwitchTyped
    <3>2. CASE r_queue' = KeysTo!rest /\ UNCHANGED <<active, keysBefore, warped, r_toClient>>
      BY <1>1, <3>2 DEF KeysTo!TypeOK
    <3>3. QED
      BY <1>11, <3>1, <3>2 DEF KeysTo!Switch, KeysTo!refused
  <2>3. KeysTo!KeptBySwitch(KeysTo!head.arg) \subseteq KeysTo!Screens \X KeysTo!Inputs
    BY <2>1, ExcusedTyped
  <2>4. excused' = excused \/ excused' = excused \cup KeysTo!KeptBySwitch(KeysTo!head.arg)
    BY <1>11 DEF KeysTo!Switch, KeysTo!refused
  <2>5. excused' \subseteq KeysTo!Screens \X KeysTo!Inputs
    BY <1>6, <2>3, <2>4
  <2>6. QED
    BY <1>11, <2>2, <2>5 DEF KeysTo!Switch, KeysTo!TypeOK, KeysTo!clientVars, KeysTo!Screens, KeysTo!Inputs
<1>12. ASSUME KeysTo!handleKeyboardBroadcastEvent PROVE RelayTyped'
  <2>1. targets' \subseteq RelayClients
    BY <1>3, <1>12 DEF KeysTo!handleKeyboardBroadcastEvent
  <2>2. KeysTo!relayedTo \in SUBSET RelayClients
    BY DEF KeysTo!relayedTo, KeysTo!TypeOK
  <2>3. KeysTo!relayedTo \ KeysTo!relayedTo' \in SUBSET RelayClients
    BY <2>2
  <2>4. KeysTo!KeysKept(KeysTo!relayedTo \ KeysTo!relayedTo') \subseteq KeysTo!Screens \X KeysTo!Inputs
    BY <2>3, ExcusedTyped
  <2>5. excused' \subseteq KeysTo!Screens \X KeysTo!Inputs
    BY <1>6, <1>12, <2>4 DEF KeysTo!handleKeyboardBroadcastEvent
  <2>6. broadcasting' \in BOOLEAN
    BY <1>12 DEF KeysTo!handleKeyboardBroadcastEvent
  <2>7. QED
    BY <1>1, <1>12, <2>1, <2>5, <2>6 DEF KeysTo!handleKeyboardBroadcastEvent, KeysTo!TypeOK, KeysTo!clientVars,
       KeysTo!hostVars, KeysTo!Screens, KeysTo!Inputs
<1>13. ASSUME KeysTo!emergencyReturn PROVE RelayTyped'
  <2>1. <<"up", RelayButton>> \in ClientMessage
    BY <1>4 DEF ClientMessage
  <2>2. KeysTo!sent(r_toClient, {active}, <<"up", RelayButton>>) \in [RelayClients -> Seq(ClientMessage)]
    BY <2>1, SentTyped
  <2>3. /\ r_queue' \in Seq(QueueMessage) /\ r_toClient' \in [RelayClients -> Seq(ClientMessage)]
        /\ active' \in KeysTo!Screens /\ keysBefore' \subseteq RelayKeys /\ warped' = "no"
    BY <1>1, <1>4, <1>13, <2>2, SwitchTyped DEF KeysTo!emergencyReturn
  <2>4. KeysTo!relayedTo \ {active} \in SUBSET RelayClients
    BY DEF KeysTo!relayedTo, KeysTo!TypeOK
  <2>5. KeysTo!KeysKept(KeysTo!relayedTo \ {active}) \subseteq KeysTo!Screens \X KeysTo!Inputs
    BY <2>4, ExcusedTyped
  <2>6. excused' \subseteq KeysTo!Screens \X KeysTo!Inputs
    BY <1>6, <1>13, <2>5, ExcusedTyped DEF KeysTo!emergencyReturn
  <2>7. QED
    BY <1>13, <2>3, <2>6 DEF KeysTo!emergencyReturn, KeysTo!TypeOK, KeysTo!clientVars,
       KeysTo!Screens, KeysTo!Inputs
<1>14. ASSUME KeysTo!forceLeaveClient PROVE RelayTyped'
  <2>1. r_queue' \in Seq(QueueMessage)
    BY <1>1, <1>2, <1>14, MarkMessage DEF KeysTo!forceLeaveClient, KeysTo!nextMark
  <2>2. excused' \subseteq KeysTo!Screens \X KeysTo!Inputs
    BY <1>6, <1>14, ExcusedTyped DEF KeysTo!forceLeaveClient
  <2>3. /\ active' \in KeysTo!Screens /\ keysBefore' \subseteq RelayKeys /\ r_clients' \subseteq RelayClients
        /\ warped' \in {"no", warped}
    BY <1>4, <1>14 DEF KeysTo!forceLeaveClient, KeysTo!enterHost, KeysTo!TypeOK
  <2>4. QED
    BY <1>14, <2>1, <2>2, <2>3 DEF KeysTo!forceLeaveClient, KeysTo!TypeOK, KeysTo!clientVars,
       KeysTo!Screens, KeysTo!Inputs
<1>15. ASSUME KeysTo!leavePrimary PROVE RelayTyped'
  BY <1>15 DEF KeysTo!leavePrimary, KeysTo!updateKeyState, KeysTo!TypeOK, KeysTo!serverVars, KeysTo!clientVars,
     KeysTo!Screens, KeysTo!Inputs
<1>16. ASSUME KeysTo!warpCursor \/ KeysTo!onDisplayChange PROVE RelayTyped'
  <2>1. r_queue' \in Seq(QueueMessage)
    BY <1>16, PurgedTyped DEF KeysTo!warpCursor, KeysTo!onDisplayChange
  <2>2. excused' \subseteq KeysTo!Screens \X KeysTo!Inputs
    BY <1>6, <1>16, ExcusedTyped DEF KeysTo!warpCursor, KeysTo!onDisplayChange
  <2>3. warped' \in {"no", "read", "leave", "move"}
    BY <1>16 DEF KeysTo!warpCursor, KeysTo!onDisplayChange, KeysTo!Moves, KeysTo!hostVars, KeysTo!TypeOK
  <2>4. QED
    BY <1>16, <2>1, <2>2, <2>3 DEF KeysTo!warpCursor, KeysTo!onDisplayChange, KeysTo!TypeOK, KeysTo!hostVars,
       KeysTo!serverVars, KeysTo!clientVars, KeysTo!Screens, KeysTo!Inputs
<1>17. QED
  BY <1>7, <1>8, <1>9, <1>10, <1>11, <1>12, <1>13, <1>14, <1>15, <1>16 DEF KeysTo!Serve

LEMMA RelayTypedClient ==
    ASSUME KeysTo!KeyRelayAssumption, RelayTyped, KeysTo!Client PROVE RelayTyped'
<1> USE DEF RelayTyped
<1>1. PICK c \in RelayClients :
        \/ KeysTo!enter(c) \/ KeysTo!leave(c) \/ KeysTo!fakeKeyDown(c) \/ KeysTo!fakeKeyUp(c)
        \/ KeysTo!fakeMouseButton(c) \/ KeysTo!Lose(c) \/ KeysTo!Rejoin(c)
  BY DEF KeysTo!Client
<1>2. {c} \X serverKeys[c] \subseteq KeysTo!Screens \X KeysTo!Inputs
  BY ExcusedTyped
<1>3. /\ excused \subseteq KeysTo!Screens \X KeysTo!Inputs /\ entered \subseteq RelayClients
      /\ serverKeys \in [RelayClients -> SUBSET RelayKeys]
      /\ down \in [RelayClients -> SUBSET KeysTo!Inputs]
  BY DEF KeysTo!TypeOK
<1>4. RelayKeys \subseteq KeysTo!Inputs /\ RelayButton \in KeysTo!Inputs
  BY DEF KeysTo!Inputs
<1>5. ASSUME r_toClient[c] # <<>> PROVE Tail(r_toClient[c]) \in Seq(ClientMessage)
  BY <1>5, Behind
<1>6. ASSUME KeysTo!Take(c), serverKeys' \in [RelayClients -> SUBSET RelayKeys],
             down' \in [RelayClients -> SUBSET KeysTo!Inputs], entered' \subseteq RelayClients,
             excused' \subseteq KeysTo!Screens \X KeysTo!Inputs
      PROVE  RelayTyped'
  <2>1. r_toClient' \in [RelayClients -> Seq(ClientMessage)]
    BY <1>5, <1>6 DEF KeysTo!Take
  <2>2. QED
    BY <1>6, <2>1 DEF KeysTo!Take, KeysTo!TypeOK, KeysTo!hostVars, KeysTo!serverVars, KeysTo!Screens, KeysTo!Inputs
<1>7. CASE KeysTo!enter(c)
  BY <1>3, <1>6, <1>7 DEF KeysTo!enter
<1>8. CASE KeysTo!leave(c)
  <2>1. serverKeys' \in [RelayClients -> SUBSET RelayKeys] /\ down' \in [RelayClients -> SUBSET KeysTo!Inputs]
    BY <1>3, <1>8 DEF KeysTo!leave, KeysTo!fakeAllKeysUp
  <2>2. entered' \subseteq RelayClients /\ excused' \subseteq KeysTo!Screens \X KeysTo!Inputs
    BY <1>2, <1>3, <1>8 DEF KeysTo!leave, KeysTo!fakeAllKeysUp
  <2>3. QED
    BY <1>6, <1>8, <2>1, <2>2 DEF KeysTo!leave
<1>9. CASE KeysTo!fakeKeyDown(c)
  <2>1. serverKeys' \in [RelayClients -> SUBSET RelayKeys] /\ down' \in [RelayClients -> SUBSET KeysTo!Inputs]
    <3> DEFINE k == KeysTo!got(c)[2]
    <3>1. /\ k \in RelayKeys /\ k \in KeysTo!Inputs
          /\ \/ /\ serverKeys' = [serverKeys EXCEPT ![c] = serverKeys[c] \cup {k}]
                /\ down' = [down EXCEPT ![c] = down[c] \cup {k}]
             \/ UNCHANGED <<serverKeys, down>>
      BY <1>4, <1>9 DEF KeysTo!fakeKeyDown
    <3> HIDE DEF k
    <3>2. QED
      BY <1>3, <3>1
  <2>2. QED
    BY <1>3, <1>6, <1>9, <2>1 DEF KeysTo!fakeKeyDown
<1>10. CASE KeysTo!fakeKeyUp(c)
  <2>1. serverKeys' \in [RelayClients -> SUBSET RelayKeys] /\ down' \in [RelayClients -> SUBSET KeysTo!Inputs]
    BY <1>3, <1>4, <1>10 DEF KeysTo!fakeKeyUp
  <2>2. QED
    BY <1>3, <1>6, <1>10, <2>1 DEF KeysTo!fakeKeyUp
<1>11. CASE KeysTo!fakeMouseButton(c)
  <2>1. down' \in [RelayClients -> SUBSET KeysTo!Inputs]
    BY <1>3, <1>4, <1>11 DEF KeysTo!fakeMouseButton
  <2>2. QED
    BY <1>3, <1>6, <1>11, <2>1 DEF KeysTo!fakeMouseButton
<1>12. CASE KeysTo!Lose(c)
  <2>1. r_queue' \in Seq(QueueMessage)
    BY <1>12, GoneMessages, QueueGrows DEF KeysTo!Lose
  <2>2. r_toClient' \in [RelayClients -> Seq(ClientMessage)]
    BY <1>12 DEF KeysTo!Lose
  <2>3. serverKeys' \in [RelayClients -> SUBSET RelayKeys] /\ down' \in [RelayClients -> SUBSET KeysTo!Inputs]
    BY <1>3, <1>12 DEF KeysTo!Lose
  <2>4. entered' \subseteq RelayClients /\ excused' \subseteq KeysTo!Screens \X KeysTo!Inputs
    BY <1>2, <1>3, <1>12 DEF KeysTo!Lose
  <2>5. linked' \subseteq RelayClients
    BY <1>12 DEF KeysTo!Lose, KeysTo!TypeOK
  <2>6. QED
    BY <1>12, <2>1, <2>2, <2>3, <2>4, <2>5
    DEF KeysTo!Lose, KeysTo!TypeOK, KeysTo!hostVars, KeysTo!serverVars, KeysTo!Screens, KeysTo!Inputs
<1>13. CASE KeysTo!Rejoin(c)
  <2>1. /\ serverKeys' \in [RelayClients -> SUBSET RelayKeys]
        /\ linked' \subseteq RelayClients /\ r_clients' \subseteq RelayClients
    BY <1>3, <1>13 DEF KeysTo!Rejoin, KeysTo!TypeOK
  <2>2. QED
    BY <1>13, <2>1 DEF KeysTo!Rejoin, KeysTo!TypeOK, KeysTo!hostVars, KeysTo!Screens, KeysTo!Inputs
<1>14. QED
  BY <1>1, <1>7, <1>8, <1>9, <1>10, <1>11, <1>12, <1>13

LEMMA RelayTypedNext ==
    ASSUME KeysTo!KeyRelayAssumption, RelayTyped, [KeysTo!Next]_relayVars PROVE RelayTyped'
<1>1. CASE KeysTo!Next
  BY <1>1, RelayTypedUser, RelayTypedServe, RelayTypedClient DEF KeysTo!Next
<1>2. CASE UNCHANGED relayVars
  BY <1>2 DEF relayVars, RelayTyped, KeysTo!TypeOK, KeysTo!Screens, KeysTo!Inputs
<1>3. QED
  BY <1>1, <1>2

------------------------------------------------------------------------------
(* KeyRelay: the order of what waits.                                          *)

Watched == {m \in QueueMessage : m.what \in {"down", "up", "gone"}}

\* Nothing changes about presses, releases and lost clients that wait.
SameAhead(q, r) ==
    /\ \A m \in Watched : (Has(r, m) <=> Has(q, m)) /\ (Once(q, m) => Once(r, m))
    /\ \A d, u \in Watched, ok \in BOOLEAN : Follows(q, d, u, ok) => Follows(r, d, u, ok)

LEMMA SameAppend ==
    ASSUME NEW q \in Seq(QueueMessage), NEW e \in QueueMessage \ Watched
    PROVE  SameAhead(q, Append(q, e))
<1>1. \A m \in Watched : m # e
  OBVIOUS
<1>2. ASSUME NEW m \in Watched PROVE Has(Append(q, e), m) <=> Has(q, m)
  BY <1>1, HasAppend DEF Watched
<1>3. ASSUME NEW m \in Watched, Once(q, m) PROVE Once(Append(q, e), m)
  BY <1>1, <1>3, OnceAppend DEF Watched
<1>4. ASSUME NEW d \in Watched, NEW u \in Watched, NEW ok \in BOOLEAN, Follows(q, d, u, ok)
      PROVE  Follows(Append(q, e), d, u, ok)
  BY <1>1, <1>4, FollowsAppend DEF Watched
<1>5. QED
  BY <1>2, <1>3, <1>4 DEF SameAhead

LEMMA SameTail ==
    ASSUME NEW q \in Seq(QueueMessage), q # <<>>, Head(q) \notin Watched
    PROVE  SameAhead(q, Tail(q))
<1>1. \A m \in Watched : m # Head(q)
  OBVIOUS
<1>2. ASSUME NEW m \in Watched PROVE Has(Tail(q), m) <=> Has(q, m)
  BY <1>1, HasTail DEF Watched
<1>3. ASSUME NEW m \in Watched, Once(q, m) PROVE Once(Tail(q), m)
  BY <1>3, OnceTail
<1>4. ASSUME NEW d \in Watched, NEW u \in Watched, NEW ok \in BOOLEAN, Follows(q, d, u, ok)
      PROVE  Follows(Tail(q), d, u, ok)
  BY <1>4, FollowsTail
<1>5. QED
  BY <1>2, <1>3, <1>4 DEF SameAhead

LEMMA SameBoth ==
    ASSUME NEW p, NEW q, NEW r, SameAhead(p, q), SameAhead(q, r) PROVE SameAhead(p, r)
  BY DEF SameAhead

LEMMA SameSelf == ASSUME NEW q PROVE SameAhead(q, q)
  BY DEF SameAhead

LEMMA SameTailAppend ==
    ASSUME NEW q \in Seq(QueueMessage), q # <<>>, Head(q) \notin Watched, NEW e \in QueueMessage \ Watched
    PROVE  SameAhead(q, Append(Tail(q), e))
<1>1. Tail(q) \in Seq(QueueMessage)
  BY Behind
<1>2. SameAhead(q, Tail(q)) /\ SameAhead(Tail(q), Append(Tail(q), e))
  BY <1>1, SameTail, SameAppend
<1>3. QED
  BY <1>2, SameBoth

\* Steps after which the same presses and releases are ahead, for the same clients, and nothing that
\* the user or a client holds has changed.
QuietHost == \/ \E s \in KeysTo!Screens : KeysTo!Motion(s) \/ KeysTo!HotKey("jump", s)
             \/ \E mode \in {"on", "off", "toggle"}, to \in Broadcasts : KeysTo!HotKey("broadcast", <<mode, to>>)
             \/ KeysTo!HotKey("emergency", RelayPrimary)
QuietServe == \/ KeysTo!onMouseMove \/ KeysTo!onHotKey \/ KeysTo!onMark \/ KeysTo!Switch
              \/ KeysTo!handleKeyboardBroadcastEvent \/ KeysTo!emergencyReturn \/ KeysTo!leavePrimary

Quiet ==
    /\ SameAhead(r_queue, r_queue')
    /\ UNCHANGED <<held, hookKeys, host, r_clients, linked, entered, serverKeys, down>>
    /\ excused \subseteq excused'
    /\ \A c \in RelayClients \ linked : r_toClient'[c] = r_toClient[c]

LEMMA SentLinked ==
    ASSUME NEW channels \in [RelayClients -> Seq(ClientMessage)], NEW to, NEW m, NEW c \in RelayClients \ linked
    PROVE  KeysTo!sent(channels, to, m)[c] = channels[c]
  BY DEF KeysTo!sent

LEMMA SwitchQuiet ==
    ASSUME KeysTo!KeyRelayAssumption, RelayTyped, NEW s \in KeysTo!Screens,
           NEW q \in Seq(QueueMessage), NEW channels \in [RelayClients -> Seq(ClientMessage)],
           KeysTo!switchScreen(s, q, channels)
    PROVE  /\ SameAhead(q, r_queue')
           /\ \A c \in RelayClients \ linked : r_toClient'[c] = channels[c]
<1>1. KeysTo!Mark \in QueueMessage \ Watched
  BY MarkMessage DEF Watched, KeysTo!Mark
<1>2. SameAhead(q, q) /\ SameAhead(q, Append(q, KeysTo!Mark))
  BY <1>1, SameAppend, SameSelf
<1>3. SameAhead(q, r_queue')
  BY <1>2 DEF KeysTo!switchScreen, KeysTo!nextMark
<1>4. ASSUME NEW c \in RelayClients \ linked PROVE r_toClient'[c] = channels[c]
  <2>1. <<"enter">> \in ClientMessage /\ <<"leave">> \in ClientMessage
    BY DEF ClientMessage
  <2>2. KeysTo!sent(channels, {active}, <<"leave">>) \in [RelayClients -> Seq(ClientMessage)]
    BY <2>1, SentTyped
  <2>3. KeysTo!sent(KeysTo!sent(channels, {active}, <<"leave">>), {s}, <<"enter">>)[c] = channels[c]
    <3>1. KeysTo!sent(channels, {active}, <<"leave">>)[c] = channels[c]
      BY <1>4, SentLinked
    <3> DEFINE then == KeysTo!sent(channels, {active}, <<"leave">>)
    <3>2. then \in [RelayClients -> Seq(ClientMessage)]
      BY <2>2
    <3> HIDE DEF then
    <3>3. KeysTo!sent(then, {s}, <<"enter">>)[c] = then[c]
      BY <1>4, <3>2, SentLinked
    <3>4. QED
      BY <3>1, <3>3 DEF then
  <2>4. QED
    BY <2>3 DEF KeysTo!switchScreen
<1>5. QED
  BY <1>3, <1>4

LEMMA QuietUser == ASSUME KeysTo!KeyRelayAssumption, RelayTyped, QuietHost PROVE Quiet
<1>1. r_queue \in Seq(QueueMessage)
  BY DEF RelayTyped
<1>2. ASSUME NEW m \in QueueMessage, m.what \in {"motion", "jump", "broadcast", "emergency"},
             r_queue' = Append(r_queue, m), KeysTo!Doing, UNCHANGED <<held, hookKeys, host>>
      PROVE  Quiet
  <2>1. m \in QueueMessage \ Watched
    BY <1>2 DEF Watched
  <2>2. SameAhead(r_queue, r_queue')
    BY <1>1, <1>2, <2>1, SameAppend
  <2>3. QED
    BY <1>2, <2>2 DEF Quiet, KeysTo!Doing, KeysTo!serverVars, KeysTo!clientVars
<1>3. ASSUME NEW s \in KeysTo!Screens, KeysTo!Motion(s) \/ KeysTo!HotKey("jump", s) PROVE Quiet
  <2>1. KeysTo!Posted("motion", s) \in QueueMessage /\ KeysTo!Posted("jump", s) \in QueueMessage
    BY OtherMessages
  <2>2. KeysTo!Posted("motion", s).what = "motion" /\ KeysTo!Posted("jump", s).what = "jump"
    BY DEF KeysTo!Posted
  <2>3. QED
    BY <1>2, <1>3, <2>1, <2>2 DEF KeysTo!Motion, KeysTo!HotKey
<1>4. ASSUME NEW mode \in {"on", "off", "toggle"}, NEW to \in Broadcasts, KeysTo!HotKey("broadcast", <<mode, to>>)
      PROVE  Quiet
  <2>1. KeysTo!Posted("broadcast", <<mode, to>>) \in QueueMessage
    BY ModeMessages
  <2>2. KeysTo!Posted("broadcast", <<mode, to>>).what = "broadcast"
    BY DEF KeysTo!Posted
  <2>3. QED
    BY <1>2, <1>4, <2>1, <2>2 DEF KeysTo!HotKey
<1>5. ASSUME KeysTo!HotKey("emergency", RelayPrimary) PROVE Quiet
  <2>1. KeysTo!Posted("emergency", RelayPrimary) \in QueueMessage
    BY OtherMessages DEF KeysTo!Screens
  <2>2. KeysTo!Posted("emergency", RelayPrimary).what = "emergency"
    BY DEF KeysTo!Posted
  <2>3. QED
    BY <1>2, <1>5, <2>1, <2>2 DEF KeysTo!HotKey
<1>6. QED
  BY <1>3, <1>4, <1>5 DEF QuietHost

LEMMA QuietServes ==
    ASSUME KeysTo!KeyRelayAssumption, RelayTyped, r_queue # <<>>, QuietServe PROVE Quiet
<1>1. /\ r_queue \in Seq(QueueMessage) /\ KeysTo!head \in QueueMessage /\ KeysTo!rest \in Seq(QueueMessage)
      /\ r_toClient \in [RelayClients -> Seq(ClientMessage)]
  BY HeadTyped DEF RelayTyped
<1>2. ASSUME KeysTo!head \notin Watched
      PROVE  /\ SameAhead(r_queue, KeysTo!rest)
             /\ \A e \in QueueMessage : e \notin Watched => SameAhead(r_queue, Append(KeysTo!rest, e))
  BY <1>1, <1>2, SameTail, SameTailAppend DEF KeysTo!head, KeysTo!rest
<1>3. KeysTo!head.what \notin {"down", "up", "gone"} => KeysTo!head \notin Watched
  BY DEF Watched
<1>4. /\ KeysTo!head.what \in {"motion", "motionOnPrimary", "motionOnSecondary", "jump", "emergency"}
            => KeysTo!head.arg \in KeysTo!Screens
      /\ RelayPrimary \in KeysTo!Screens
  BY <1>1, MessageTypes DEF KeysTo!Screens
<1>5. CASE KeysTo!onMouseMove
  <2>1. /\ KeysTo!Happened("motionOnPrimary", KeysTo!head.arg) \in QueueMessage
        /\ KeysTo!Happened("motionOnSecondary", KeysTo!head.arg) \in QueueMessage
    BY <1>4, <1>5, OtherMessages DEF KeysTo!onMouseMove
  <2>2. /\ KeysTo!Happened("motionOnPrimary", KeysTo!head.arg) \notin Watched
        /\ KeysTo!Happened("motionOnSecondary", KeysTo!head.arg) \notin Watched
    BY DEF Watched, KeysTo!Happened
  <2>3. KeysTo!head \notin Watched
    BY <1>3, <1>5 DEF KeysTo!onMouseMove
  <2>4. SameAhead(r_queue, r_queue')
    BY <1>2, <1>5, <2>1, <2>2, <2>3 DEF KeysTo!onMouseMove
  <2>5. QED
    BY <1>5, <2>4 DEF KeysTo!onMouseMove, Quiet, KeysTo!hostVars, KeysTo!serverVars, KeysTo!clientVars
<1>6. CASE KeysTo!onHotKey
  <2> DEFINE m == KeysTo!Happened(KeysTo!head.what, KeysTo!head.arg)
  <2>1. m \in QueueMessage
    BY <1>1, <1>6 DEF KeysTo!onHotKey, QueueMessage, KeyMessage, OtherMessage, ModeMessage, GoneMessage,
       KeysTo!Happened
  <2>2. m \notin Watched
    BY <1>6 DEF Watched, KeysTo!Happened, KeysTo!onHotKey
  <2>3. KeysTo!head \notin Watched
    BY <1>3, <1>6 DEF KeysTo!onHotKey
  <2>4. r_queue' = Append(KeysTo!rest, m)
    BY <1>6 DEF KeysTo!onHotKey
  <2>5. SameAhead(r_queue, r_queue')
    BY <1>2, <2>1, <2>2, <2>3, <2>4
  <2>6. QED
    BY <1>6, <2>5 DEF KeysTo!onHotKey, Quiet, KeysTo!hostVars, KeysTo!serverVars, KeysTo!clientVars
<1>7. CASE KeysTo!onMark
  <2>1. KeysTo!head \notin Watched
    BY <1>3, <1>7 DEF KeysTo!onMark, KeysTo!Mark, KeysTo!Removed
  <2>2. SameAhead(r_queue, r_queue')
    BY <1>2, <1>7, <2>1 DEF KeysTo!onMark
  <2>3. QED
    BY <1>7, <2>2 DEF KeysTo!onMark, Quiet, KeysTo!hostVars, KeysTo!serverVars, KeysTo!clientVars
<1>8. CASE KeysTo!Switch
  <2>1. KeysTo!head \notin Watched /\ KeysTo!head.arg \in KeysTo!Screens
    BY <1>3, <1>4, <1>8 DEF KeysTo!Switch
  <2>2. SameAhead(r_queue, r_queue') /\ \A c \in RelayClients \ linked : r_toClient'[c] = r_toClient[c]
    <3>1. CASE KeysTo!switchScreen(KeysTo!head.arg, KeysTo!rest, r_toClient)
      BY <1>1, <1>2, <2>1, <3>1, SwitchQuiet, SameBoth
    <3>2. CASE r_queue' = KeysTo!rest /\ UNCHANGED r_toClient
      BY <1>2, <2>1, <3>2
    <3>3. QED
      BY <1>8, <3>1, <3>2 DEF KeysTo!Switch, KeysTo!refused
  <2>3. excused \subseteq excused'
    BY <1>8 DEF KeysTo!Switch, KeysTo!refused
  <2>4. QED
    BY <1>8, <2>2, <2>3 DEF KeysTo!Switch, Quiet, KeysTo!clientVars
<1>9. CASE KeysTo!handleKeyboardBroadcastEvent
  <2>1. KeysTo!head \notin Watched
    BY <1>3, <1>9 DEF KeysTo!handleKeyboardBroadcastEvent
  <2>2. SameAhead(r_queue, r_queue')
    BY <1>2, <1>9, <2>1 DEF KeysTo!handleKeyboardBroadcastEvent
  <2>3. excused \subseteq excused'
    BY <1>9 DEF KeysTo!handleKeyboardBroadcastEvent
  <2>4. QED
    BY <1>9, <2>2, <2>3 DEF KeysTo!handleKeyboardBroadcastEvent, Quiet, KeysTo!hostVars, KeysTo!clientVars
<1>10. CASE KeysTo!emergencyReturn
  <2> DEFINE m == <<"up", RelayButton>>
             channels == KeysTo!sent(r_toClient, {active}, m)
  <2>1. KeysTo!head \notin Watched
    BY <1>3, <1>10 DEF KeysTo!emergencyReturn
  <2>2. m \in ClientMessage
    BY DEF ClientMessage, KeysTo!Inputs
  <2>3. /\ channels \in [RelayClients -> Seq(ClientMessage)]
        /\ \A c \in RelayClients \ linked : channels[c] = r_toClient[c]
    <3>1. channels \in [RelayClients -> Seq(ClientMessage)]
      BY <1>1, <2>2, SentTyped
    <3>2. ASSUME NEW c \in RelayClients \ linked PROVE channels[c] = r_toClient[c]
      BY <1>1, <3>2, SentLinked
    <3>3. QED
      BY <3>1, <3>2
  <2>4. KeysTo!switchScreen(RelayPrimary, KeysTo!rest, channels)
    BY <1>10 DEF KeysTo!emergencyReturn
  <2> HIDE DEF channels
  <2>5. SameAhead(KeysTo!rest, r_queue') /\ \A c \in RelayClients \ linked : r_toClient'[c] = channels[c]
    BY <1>1, <1>4, <2>3, <2>4, SwitchQuiet
  <2>6. SameAhead(r_queue, r_queue')
    BY <1>2, <2>1, <2>5, SameBoth
  <2>7. excused \subseteq excused'
    BY <1>10 DEF KeysTo!emergencyReturn
  <2>8. QED
    BY <1>10, <2>3, <2>5, <2>6, <2>7 DEF KeysTo!emergencyReturn, Quiet, KeysTo!clientVars
<1>11. CASE KeysTo!leavePrimary
  BY <1>11, SameSelf DEF KeysTo!leavePrimary, Quiet, KeysTo!serverVars, KeysTo!clientVars
<1>12. QED
  BY <1>5, <1>6, <1>7, <1>8, <1>9, <1>10, <1>11 DEF QuietServe

PressPosted(i) == KeysTo!Posted("down", i)
ReleasePosted(i) == KeysTo!Posted("up", i)
PressEvent(i) == KeysTo!Happened("down", i)
ReleaseEvent(i) == KeysTo!Happened("up", i)
GoneEvent(c) == KeysTo!Happened("gone", c)

LEMMA WatchedMessages ==
    /\ \A i \in KeysTo!Inputs :
           {PressPosted(i), ReleasePosted(i), PressEvent(i), ReleaseEvent(i)} \subseteq Watched
    /\ \A c \in RelayClients : GoneEvent(c) \in Watched
  BY KeyMessages, GoneMessages
  DEF Watched, PressPosted, ReleasePosted, PressEvent, ReleaseEvent, GoneEvent, KeysTo!Posted, KeysTo!Happened

LEMMA MessagesDiffer ==
    /\ \A i, j : /\ PressPosted(i) # ReleasePosted(j) /\ PressPosted(i) # PressEvent(j)
                 /\ PressPosted(i) # ReleaseEvent(j) /\ ReleasePosted(i) # PressEvent(j)
                 /\ ReleasePosted(i) # ReleaseEvent(j) /\ PressEvent(i) # ReleaseEvent(j)
                 /\ (PressPosted(i) = PressPosted(j) \/ ReleasePosted(i) = ReleasePosted(j)
                       \/ PressEvent(i) = PressEvent(j) \/ ReleaseEvent(i) = ReleaseEvent(j)
                       \/ GoneEvent(i) = GoneEvent(j)) => i = j
                 /\ GoneEvent(i) \notin {PressPosted(j), ReleasePosted(j), PressEvent(j), ReleaseEvent(j)}
  BY DEF PressPosted, ReleasePosted, PressEvent, ReleaseEvent, GoneEvent, KeysTo!Posted, KeysTo!Happened

GivenTo(i) == IF i = RelayButton THEN {active} ELSE KeysTo!relayedTo

\* A press or release that a hook posted is handled: the host waited for it, it goes on, or it is old.
Waited(k) ==
    /\ active # RelayPrimary /\ k \in keysBefore
    /\ keysBefore' = keysBefore \ {k} /\ host' = host \ {k} /\ hookKeys' = hookKeys \ {k}
    /\ r_queue' = Append(KeysTo!rest, ReleasePosted(k)) /\ UNCHANGED excused
PassedOn(what, k) ==
    /\ what = "up" => active = RelayPrimary \/ k \notin keysBefore
    /\ r_queue' = Append(KeysTo!rest, KeysTo!Happened(what, k)) /\ UNCHANGED <<keysBefore, hookKeys, host, excused>>
Ignored(what, k) ==
    /\ what = "up" => active = RelayPrimary \/ k \notin keysBefore
    /\ r_queue' = KeysTo!rest /\ UNCHANGED <<keysBefore, hookKeys, host>>
    /\ excused' = IF what = "up" THEN excused \cup (RelayClients \X {k}) ELSE excused
Handles(what, k) ==
    /\ KeysTo!head = KeysTo!Posted(what, k)
    /\ UNCHANGED <<held, warped, active, r_clients, broadcasting, targets, r_toClient, linked, entered,
                   serverKeys, down>>
    /\ (what = "up" /\ Waited(k)) \/ PassedOn(what, k) \/ Ignored(what, k)

LEMMA KeyHandled ==
    ASSUME KeysTo!KeyRelayAssumption, RelayTyped, r_queue # <<>>, KeysTo!onKey \/ KeysTo!onMouseButton
    PROVE  \E what \in {"down", "up"}, k \in KeysTo!Inputs : Handles(what, k)
<1> DEFINE what == KeysTo!head.what
           k == KeysTo!head.arg
<1>1. KeysTo!head \in QueueMessage
  BY HeadTyped DEF RelayTyped
<1>2. KeysTo!head.stage = "posted" /\ what \in {"down", "up"}
  BY DEF KeysTo!onKey, KeysTo!onMouseButton
<1>3. k \in KeysTo!Inputs
  BY <1>1, <1>2, MessageTypes
<1>4. KeysTo!head = KeysTo!Posted(what, k)
  BY <1>1, <1>2, MessageTypes DEF KeysTo!Posted
<1>5. RelayButton \notin keysBefore
  BY DEF KeysTo!KeyRelayAssumption, RelayTyped, KeysTo!TypeOK
<1>6. UNCHANGED <<held, warped, active, r_clients, broadcasting, targets, r_toClient, linked, entered,
                  serverKeys, down>>
  BY DEF KeysTo!onKey, KeysTo!onMouseButton, KeysTo!serverVars, KeysTo!clientVars
<1>7. (what = "up" /\ Waited(k)) \/ PassedOn(what, k) \/ Ignored(what, k)
  <2>1. CASE KeysTo!onKey
    <3>1. CASE what = "up" /\ active # RelayPrimary /\ k \in keysBefore
      BY <1>2, <2>1, <3>1 DEF KeysTo!onKey, Waited, ReleasePosted
    <3>2. ASSUME ~(what = "up" /\ active # RelayPrimary /\ k \in keysBefore), KeysTo!ignore
          PROVE  Ignored(what, k)
      BY <1>2, <2>1, <3>2 DEF KeysTo!onKey, Ignored
    <3>3. ASSUME ~(what = "up" /\ active # RelayPrimary /\ k \in keysBefore), ~KeysTo!ignore
          PROVE  PassedOn(what, k)
      BY <1>2, <2>1, <3>3 DEF KeysTo!onKey, PassedOn
    <3>4. QED
      BY <3>1, <3>2, <3>3
  <2>2. CASE KeysTo!onMouseButton
    <3>1. k = RelayButton /\ UNCHANGED <<keysBefore, hookKeys, host>>
      BY <2>2 DEF KeysTo!onMouseButton
    <3>2. CASE KeysTo!ignore
      BY <1>2, <1>5, <2>2, <3>1, <3>2 DEF KeysTo!onMouseButton, Ignored
    <3>3. CASE ~KeysTo!ignore
      BY <1>2, <1>5, <2>2, <3>1, <3>3 DEF KeysTo!onMouseButton, PassedOn
    <3>4. QED
      BY <3>2, <3>3
  <2>3. QED
    BY <2>1, <2>2
<1> HIDE DEF what, k
<1>8. Handles(what, k)
  BY <1>4, <1>6, <1>7 DEF Handles
<1>9. what \in {"down", "up"}
  BY <1>2
<1>10. QED
  BY <1>3, <1>8, <1>9

\* An event is relayed to those who are given such.
Relays(what, k) ==
    /\ KeysTo!head = KeysTo!Happened(what, k) /\ r_queue' = KeysTo!rest
    /\ r_toClient' = KeysTo!sent(r_toClient, GivenTo(k), <<what, k>>)
    /\ UNCHANGED <<held, hookKeys, host, keysBefore, warped, active, r_clients, broadcasting, targets, linked,
                   entered, serverKeys, down, excused>>

LEMMA KeyRelayed ==
    ASSUME KeysTo!KeyRelayAssumption, RelayTyped, r_queue # <<>>, KeysTo!Relay
    PROVE  \E what \in {"down", "up"}, k \in KeysTo!Inputs : Relays(what, k)
<1> DEFINE what == KeysTo!head.what
           k == KeysTo!head.arg
<1>1. KeysTo!head \in QueueMessage
  BY HeadTyped DEF RelayTyped
<1>2. KeysTo!head.stage = "event" /\ what \in {"down", "up"}
  BY DEF KeysTo!Relay
<1>3. k \in KeysTo!Inputs
  BY <1>1, <1>2, MessageTypes
<1>4. KeysTo!head = KeysTo!Happened(what, k)
  BY <1>1, <1>2, MessageTypes DEF KeysTo!Happened
<1>5. RelayButton \notin RelayKeys
  BY DEF KeysTo!KeyRelayAssumption
<1>6. r_toClient' = KeysTo!sent(r_toClient, GivenTo(k), <<what, k>>)
  BY <1>5 DEF KeysTo!Relay, KeysTo!onKeyDown, KeysTo!onKeyUp, KeysTo!onMouseDown, KeysTo!onMouseUp, GivenTo
<1>7. Relays(what, k)
  BY <1>4, <1>6 DEF Relays, KeysTo!Relay, KeysTo!hostVars, KeysTo!serverVars, KeysTo!clientVars
<1>8. QED
  BY <1>2, <1>3, <1>7

\* The messages that wait are removed: what the server will be told of is still ahead.
Purges ==
    /\ r_queue' = KeysTo!Purged(r_queue) /\ excused' = excused \cup KeysTo!Unsaid
    /\ UNCHANGED <<held, hookKeys, host, keysBefore, active, r_clients, broadcasting, targets, r_toClient, linked,
                   entered, serverKeys, down>>

LEMMA Purging ==
    /\ KeysTo!warpCursor => Purges
    /\ KeysTo!onDisplayChange => Purges /\ active # RelayPrimary /\ UNCHANGED warped
  BY DEF KeysTo!warpCursor, KeysTo!onDisplayChange, Purges, KeysTo!hostVars, KeysTo!serverVars, KeysTo!clientVars

LEMMA AfterPurge ==
    ASSUME NEW q \in Seq(QueueMessage)
    PROVE  /\ \A what, arg : LET m == KeysTo!Happened(what, arg) IN
                  (Has(KeysTo!Purged(q), m) <=> Has(q, m)) /\ (Once(q, m) => Once(KeysTo!Purged(q), m))
           /\ \A i, ok : Follows(q, PressEvent(i), ReleaseEvent(i), ok)
                            => Follows(KeysTo!Purged(q), PressEvent(i), ReleaseEvent(i), ok)
           /\ \A i : ~Has(KeysTo!Purged(q), PressPosted(i)) /\ ~Has(KeysTo!Purged(q), ReleasePosted(i))
<1> DEFINE r == KeysTo!Purged(q)
<1>1. /\ Len(r) = Len(q) /\ Len(q) \in Nat
      /\ \A n \in 1 .. Len(q) :
            r[n] = IF q[n].stage = "posted" /\ q[n] # KeysTo!Mark THEN KeysTo!Removed ELSE q[n]
  BY PurgedTyped
<1> HIDE DEF r
<1>2. ASSUME NEW m, m.stage = "event", m # KeysTo!Removed PROVE \A n \in 1 .. Len(q) : r[n] = m <=> q[n] = m
  BY <1>1, <1>2
<1>3. ASSUME NEW m, m.stage = "posted", m.what \notin {"mark", "removed"} PROVE \A n \in 1 .. Len(q) : r[n] # m
  BY <1>1, <1>3 DEF KeysTo!Mark, KeysTo!Removed
<1>4. ASSUME NEW what, NEW arg
      PROVE  \A n \in 1 .. Len(q) : r[n] = KeysTo!Happened(what, arg) <=> q[n] = KeysTo!Happened(what, arg)
  BY <1>2 DEF KeysTo!Happened, KeysTo!Removed
<1>5. \A what, arg : LET m == KeysTo!Happened(what, arg) IN (Has(r, m) <=> Has(q, m)) /\ (Once(q, m) => Once(r, m))
  BY <1>1, <1>4 DEF Has, Once
<1>6. ASSUME NEW i, NEW ok, Follows(q, PressEvent(i), ReleaseEvent(i), ok)
      PROVE  Follows(r, PressEvent(i), ReleaseEvent(i), ok)
  BY <1>1, <1>4, <1>6 DEF Follows, PressEvent, ReleaseEvent
<1>7. ASSUME NEW i PROVE ~Has(r, PressPosted(i)) /\ ~Has(r, ReleasePosted(i))
  BY <1>1, <1>3 DEF Has, PressPosted, ReleasePosted, KeysTo!Posted
<1>8. QED
  BY <1>5, <1>6, <1>7 DEF r

\* A release that is removed is nobody's any more.
LEMMA PurgeForgives ==
    ASSUME RelayTyped, Purges, NEW i \in KeysTo!Inputs, Has(r_queue, ReleasePosted(i))
    PROVE  RelayClients \X {i} \subseteq excused'
<1>1. KeysTo!InQueue(KeysTo!Posted("up", i))
  BY LenProperties DEF RelayTyped, Has, KeysTo!InQueue, ReleasePosted
<1>2. QED
  BY <1>1 DEF Purges, KeysTo!Unsaid

------------------------------------------------------------------------------
\* What is on its way to a lost client is lost, and the server hears once that it is gone.
GoneInv == \A c \in RelayClients :
    /\ Once(r_queue, GoneEvent(c))
    /\ Has(r_queue, GoneEvent(c)) => c \in r_clients /\ c \notin linked
    /\ c \notin linked => r_toClient[c] = <<>>

LEMMA GoneUnchanged ==
    ASSUME GoneInv, UNCHANGED <<r_clients, linked>>,
           \A c \in RelayClients : Once(r_queue, GoneEvent(c)) => Once(r_queue', GoneEvent(c)),
           \A c \in RelayClients : Has(r_queue', GoneEvent(c)) => Has(r_queue, GoneEvent(c)),
           \A c \in RelayClients \ linked : r_toClient'[c] = r_toClient[c]
    PROVE  GoneInv'
  BY DEF GoneInv

LEMMA GoneKept ==
    ASSUME GoneInv, RelayTyped, NEW e \in QueueMessage, NEW q,
           q = r_queue \/ (q = KeysTo!rest /\ r_queue # <<>>),
           r_queue' = q \/ (r_queue' = Append(q, e) /\ \A c \in RelayClients : e # GoneEvent(c)),
           UNCHANGED <<r_clients, linked>>,
           \A c \in RelayClients \ linked : r_toClient'[c] = r_toClient[c]
    PROVE  GoneInv'
<1>1. r_queue \in Seq(QueueMessage) /\ q \in Seq(QueueMessage)
  BY HeadTyped DEF RelayTyped
<1>2. ASSUME NEW c \in RelayClients
      PROVE  /\ Once(r_queue, GoneEvent(c)) => Once(r_queue', GoneEvent(c))
             /\ Has(r_queue', GoneEvent(c)) => Has(r_queue, GoneEvent(c))
  <2>1. /\ Once(r_queue, GoneEvent(c)) => Once(q, GoneEvent(c))
        /\ Has(q, GoneEvent(c)) => Has(r_queue, GoneEvent(c))
    <3>1. CASE q = r_queue
      BY <3>1
    <3>2. CASE q = Tail(r_queue) /\ r_queue # <<>>
      BY <1>1, <3>2, OnceTail, HasTail
    <3>3. QED
      BY <3>1, <3>2 DEF KeysTo!rest
  <2>2. /\ Once(q, GoneEvent(c)) => Once(r_queue', GoneEvent(c))
        /\ Has(r_queue', GoneEvent(c)) => Has(q, GoneEvent(c))
    <3>1. CASE r_queue' = q
      BY <3>1
    <3>2. CASE r_queue' = Append(q, e) /\ e # GoneEvent(c)
      BY <1>1, <3>2, OnceAppend, HasAppend
    <3>3. QED
      BY <3>1, <3>2
  <2>3. QED
    BY <2>1, <2>2
<1>3. QED
  BY <1>2, GoneUnchanged

LEMMA GoneNext ==
    ASSUME KeysTo!KeyRelayAssumption, RelayTyped, GoneInv, [KeysTo!Next]_relayVars PROVE GoneInv'
<1>1. r_queue \in Seq(QueueMessage) /\ r_toClient \in [RelayClients -> Seq(ClientMessage)]
  BY DEF RelayTyped
<1>2. r_queue # <<>> => KeysTo!head \in QueueMessage /\ KeysTo!rest \in Seq(QueueMessage)
  BY <1>1, HeadTyped
<1>3. \A c \in RelayClients : \A i : PressPosted(i) # GoneEvent(c) /\ ReleasePosted(i) # GoneEvent(c)
          /\ PressEvent(i) # GoneEvent(c) /\ ReleaseEvent(i) # GoneEvent(c)
  BY MessagesDiffer
<1>4. \A i \in KeysTo!Inputs : {PressPosted(i), ReleasePosted(i), PressEvent(i), ReleaseEvent(i)} \subseteq QueueMessage
  BY WatchedMessages DEF Watched
<1>5. ASSUME Quiet PROVE GoneInv'
  BY <1>5, WatchedMessages, GoneUnchanged DEF Quiet, SameAhead
<1>6. ASSUME NEW i \in KeysTo!Inputs, KeysTo!Press(i) PROVE GoneInv'
  <2>1. r_queue' = Append(r_queue, PressPosted(i)) /\ UNCHANGED <<r_clients, linked, r_toClient>>
    BY <1>6 DEF KeysTo!Press, KeysTo!Doing, KeysTo!serverVars, KeysTo!clientVars, PressPosted
  <2>2. QED
    BY <1>3, <1>4, <2>1, GoneKept
<1>7. ASSUME NEW i \in KeysTo!Inputs, KeysTo!Release(i) PROVE GoneInv'
  <2>1. r_queue' = Append(r_queue, ReleasePosted(i)) /\ UNCHANGED <<r_clients, linked, r_toClient>>
    BY <1>7 DEF KeysTo!Release, KeysTo!serverVars, KeysTo!clientVars, ReleasePosted
  <2>2. QED
    BY <1>3, <1>4, <2>1, GoneKept
<1>8. ASSUME r_queue # <<>>, NEW what \in {"down", "up"}, NEW k \in KeysTo!Inputs, Handles(what, k) PROVE GoneInv'
  <2>1. \E e \in QueueMessage : /\ \A c \in RelayClients : e # GoneEvent(c)
                                /\ r_queue' \in {KeysTo!rest, Append(KeysTo!rest, e)}
    BY <1>3, <1>4, <1>8 DEF Handles, Waited, PassedOn, Ignored, PressEvent, ReleaseEvent
  <2>2. UNCHANGED <<r_clients, linked, r_toClient>>
    BY <1>8 DEF Handles
  <2>3. QED
    BY <1>8, <2>1, <2>2, GoneKept
<1>9. ASSUME r_queue # <<>>, NEW what \in {"down", "up"}, NEW k \in KeysTo!Inputs, Relays(what, k) PROVE GoneInv'
  <2>1. \A c \in RelayClients \ linked : r_toClient'[c] = r_toClient[c]
    BY <1>1, <1>9, SentLinked DEF Relays
  <2>2. r_queue' = KeysTo!rest /\ UNCHANGED <<r_clients, linked>>
    BY <1>9 DEF Relays
  <2>3. QED
    BY <1>2, <1>9, <2>1, <2>2, GoneKept
<1>10. ASSUME r_queue # <<>>, KeysTo!forceLeaveClient PROVE GoneInv'
  <2> DEFINE a == KeysTo!head.arg
  <2>1. a \in RelayClients /\ KeysTo!head = GoneEvent(a)
    BY <1>2, <1>10, MessageTypes DEF KeysTo!forceLeaveClient, GoneEvent, KeysTo!Happened
  <2>2. KeysTo!Mark \in QueueMessage /\ \A c \in RelayClients : KeysTo!Mark # GoneEvent(c)
    BY MarkMessage DEF GoneEvent, KeysTo!Happened, KeysTo!Mark
  <2>3. r_queue' = KeysTo!rest \/ r_queue' = Append(KeysTo!rest, KeysTo!Mark)
    BY <1>10 DEF KeysTo!forceLeaveClient, KeysTo!nextMark
  <2>4. ASSUME NEW c \in RelayClients
        PROVE  /\ Once(r_queue', GoneEvent(c))
               /\ Has(r_queue', GoneEvent(c)) => Has(r_queue, GoneEvent(c)) /\ c # a
    <3>1. /\ Once(KeysTo!rest, GoneEvent(c))
          /\ Has(KeysTo!rest, GoneEvent(c)) => Has(r_queue, GoneEvent(c))
          /\ c = a => ~Has(KeysTo!rest, GoneEvent(c))
      BY <1>1, <1>10, <2>1, OnceTail, HasTail DEF KeysTo!rest, KeysTo!head, GoneInv
    <3>2. Once(r_queue', GoneEvent(c)) /\ (Has(r_queue', GoneEvent(c)) => Has(KeysTo!rest, GoneEvent(c)))
      <4>1. CASE r_queue' = KeysTo!rest
        BY <3>1, <4>1
      <4>2. CASE r_queue' = Append(KeysTo!rest, KeysTo!Mark)
        BY <1>2, <1>10, <2>2, <3>1, <4>2, OnceAppend, HasAppend
      <4>3. QED
        BY <2>3, <4>1, <4>2
    <3>3. QED
      BY <3>1, <3>2
  <2>5. r_clients' = r_clients \ {a} /\ UNCHANGED <<linked, r_toClient>>
    BY <1>10 DEF KeysTo!forceLeaveClient, KeysTo!clientVars
  <2>6. QED
    BY <2>4, <2>5 DEF GoneInv
<1>11. ASSUME NEW c \in RelayClients, KeysTo!Take(c) PROVE GoneInv'
  <2>1. \A d \in RelayClients \ linked : r_toClient'[d] = r_toClient[d]
    BY <1>1, <1>11 DEF KeysTo!Take, GoneInv
  <2>2. UNCHANGED <<r_queue, r_clients, linked>>
    BY <1>11 DEF KeysTo!Take, KeysTo!serverVars
  <2>3. QED
    BY <2>1, <2>2 DEF GoneInv
<1>12. ASSUME NEW c \in RelayClients, KeysTo!Lose(c) PROVE GoneInv'
  <2>1. /\ c \in linked /\ c \in r_clients /\ r_queue' = Append(r_queue, GoneEvent(c))
        /\ linked' = linked \ {c} /\ UNCHANGED r_clients
        /\ r_toClient' = [r_toClient EXCEPT ![c] = <<>>]
    BY <1>12 DEF KeysTo!Lose, KeysTo!serverVars, GoneEvent
  <2>2. GoneEvent(c) \in QueueMessage
    BY WatchedMessages DEF Watched
  <2>3. ASSUME NEW d \in RelayClients
        PROVE  /\ Once(r_queue', GoneEvent(d))
               /\ Has(r_queue', GoneEvent(d)) => Has(r_queue, GoneEvent(d)) \/ d = c
    <3>1. Once(r_queue, GoneEvent(d)) /\ (d = c => ~Has(r_queue, GoneEvent(d)))
      BY <2>1 DEF GoneInv
    <3>2. GoneEvent(c) = GoneEvent(d) => d = c
      BY MessagesDiffer
    <3>3. QED
      BY <1>1, <2>1, <2>2, <3>1, <3>2, OnceAppend, HasAppend
  <2>4. ASSUME NEW d \in RelayClients, d \notin linked' PROVE r_toClient'[d] = <<>>
    BY <1>1, <2>1, <2>4 DEF GoneInv
  <2>5. QED
    BY <2>1, <2>3, <2>4 DEF GoneInv
<1>13. ASSUME NEW c \in RelayClients, KeysTo!Rejoin(c) PROVE GoneInv'
  BY <1>13 DEF KeysTo!Rejoin, GoneInv
<1>14. CASE UNCHANGED relayVars
  BY <1>14 DEF relayVars, GoneInv
<1>15. ASSUME Purges PROVE GoneInv'
  <2>1. \A c \in RelayClients :
            /\ Once(r_queue, GoneEvent(c)) => Once(r_queue', GoneEvent(c))
            /\ Has(r_queue', GoneEvent(c)) => Has(r_queue, GoneEvent(c))
    BY <1>1, <1>15, AfterPurge DEF Purges, GoneEvent
  <2>2. QED
    BY <1>15, <2>1, GoneUnchanged DEF Purges
<1>16. CASE KeysTo!User
  BY <1>5, <1>6, <1>7, <1>16, QuietUser DEF KeysTo!User, QuietHost
<1>17. CASE KeysTo!Serve
  BY <1>5, <1>8, <1>9, <1>10, <1>17, <1>15, QuietServes, KeyHandled, KeyRelayed, Purging DEF KeysTo!Serve, QuietServe
<1>18. CASE KeysTo!Client
  BY <1>11, <1>12, <1>13, <1>18 DEF KeysTo!Client, KeysTo!enter, KeysTo!leave, KeysTo!fakeKeyDown,
     KeysTo!fakeKeyUp, KeysTo!fakeMouseButton
<1>19. QED
  BY <1>14, <1>16, <1>17, <1>18 DEF KeysTo!Next

------------------------------------------------------------------------------
\* A press that waits is of an input that is still held, or its release comes behind it, or was
\* dropped.
Forgiven(i) == RelayClients \X {i} \subseteq excused
NotLost(i) == i \in held \/ Forgiven(i)
AheadInv == \A i \in KeysTo!Inputs :
    /\ Follows(r_queue, PressPosted(i), ReleasePosted(i), NotLost(i))
    /\ Follows(r_queue, PressEvent(i), ReleaseEvent(i), NotLost(i) \/ Has(r_queue, ReleasePosted(i)))

LEMMA FollowsWeaker ==
    ASSUME NEW q, NEW d, NEW u, NEW ok, NEW ok2, Follows(q, d, u, ok), ok => ok2
    PROVE  Follows(q, d, u, ok2)
  BY DEF Follows

LEMMA NotLostBoolean == ASSUME NEW i PROVE NotLost(i) \in BOOLEAN /\ NotLost(i)' \in BOOLEAN
  BY DEF NotLost

LEMMA AheadUnchanged ==
    ASSUME AheadInv, UNCHANGED <<r_queue, held>>, excused \subseteq excused' PROVE AheadInv'
<1> SUFFICES ASSUME NEW i \in KeysTo!Inputs
             PROVE  /\ Follows(r_queue, PressPosted(i), ReleasePosted(i), NotLost(i)')
                    /\ Follows(r_queue, PressEvent(i), ReleaseEvent(i),
                               NotLost(i)' \/ Has(r_queue, ReleasePosted(i)))
  BY DEF AheadInv, KeysTo!Inputs, PressPosted, ReleasePosted, PressEvent, ReleaseEvent, KeysTo!Posted, KeysTo!Happened
<1>1. NotLost(i) => NotLost(i)'
  BY DEF NotLost, Forgiven
<1>2. QED
  BY <1>1, ZenonT(30) DEF AheadInv, Follows

LEMMA AheadNext ==
    ASSUME KeysTo!KeyRelayAssumption, RelayTyped, AheadInv, [KeysTo!Next]_relayVars PROVE AheadInv'
<1>1. r_queue \in Seq(QueueMessage) /\ r_toClient \in [RelayClients -> Seq(ClientMessage)]
  BY DEF RelayTyped
<1>2. r_queue # <<>> => KeysTo!head \in QueueMessage /\ KeysTo!rest \in Seq(QueueMessage)
  BY <1>1, HeadTyped
<1>3. \A i \in KeysTo!Inputs : {PressPosted(i), ReleasePosted(i), PressEvent(i), ReleaseEvent(i)} \subseteq QueueMessage
  BY WatchedMessages DEF Watched
<1> DEFINE Goal(i) ==
        /\ Follows(r_queue', PressPosted(i), ReleasePosted(i), NotLost(i)')
        /\ Follows(r_queue', PressEvent(i), ReleaseEvent(i), NotLost(i)' \/ Has(r_queue', ReleasePosted(i)))
<1>4. (\A i \in KeysTo!Inputs : Goal(i)) => AheadInv'
  BY DEF AheadInv, KeysTo!Inputs, PressPosted, ReleasePosted, PressEvent, ReleaseEvent, KeysTo!Posted, KeysTo!Happened
<1>5. ASSUME NEW i \in KeysTo!Inputs
      PROVE  /\ Follows(r_queue, PressPosted(i), ReleasePosted(i), NotLost(i))
             /\ Follows(r_queue, PressEvent(i), ReleaseEvent(i), NotLost(i) \/ Has(r_queue, ReleasePosted(i)))
  BY DEF AheadInv
<1>6. ASSUME Quiet PROVE AheadInv'
  <2>1. ASSUME NEW i \in KeysTo!Inputs PROVE Goal(i)
    <3>1. NotLost(i) => NotLost(i)'
      BY <1>6 DEF NotLost, Forgiven, Quiet
    <3>2. /\ Follows(r_queue', PressPosted(i), ReleasePosted(i), NotLost(i))
          /\ Follows(r_queue', PressEvent(i), ReleaseEvent(i), NotLost(i) \/ Has(r_queue, ReleasePosted(i)))
      BY <1>5, <1>6, WatchedMessages, NotLostBoolean DEF Quiet, SameAhead
    <3>3. Has(r_queue', ReleasePosted(i)) <=> Has(r_queue, ReleasePosted(i))
      BY <1>6, WatchedMessages DEF Quiet, SameAhead
    <3>4. QED
      BY <3>1, <3>2, <3>3, ZenonT(30) DEF Follows
  <2>2. QED
    BY <1>4, <2>1
\* What appending, and taking the head, do for one input.
<1>7. ASSUME NEW q \in Seq(QueueMessage), NEW e \in QueueMessage, NEW i \in KeysTo!Inputs,
             NEW ok \in BOOLEAN, NEW ok2 \in BOOLEAN,
             Follows(q, PressPosted(i), ReleasePosted(i), ok),
             Follows(q, PressEvent(i), ReleaseEvent(i), ok \/ Has(q, ReleasePosted(i))),
             ok => ok2 \/ e = ReleasePosted(i), e = PressPosted(i) => ok2,
             e = PressEvent(i) => ok2 \/ Has(q, ReleasePosted(i))
      PROVE  /\ Follows(Append(q, e), PressPosted(i), ReleasePosted(i), ok2)
             /\ Follows(Append(q, e), PressEvent(i), ReleaseEvent(i), ok2 \/ Has(Append(q, e), ReleasePosted(i)))
  <2> DEFINE has == ok \/ Has(q, ReleasePosted(i))
             has2 == ok2 \/ Has(Append(q, e), ReleasePosted(i))
  <2>1. has \in BOOLEAN /\ has2 \in BOOLEAN
    OBVIOUS
  <2>2. Has(Append(q, e), ReleasePosted(i)) <=> Has(q, ReleasePosted(i)) \/ e = ReleasePosted(i)
    BY HasAppend
  <2>3. (e = PressEvent(i) => has2) /\ (has => has2)
    BY <1>7, <2>2
  <2>4. Follows(Append(q, e), PressPosted(i), ReleasePosted(i), ok2)
    BY <1>7, FollowsAppend
  <2>5. Follows(q, PressEvent(i), ReleaseEvent(i), has)
    BY <1>7
  <2> HIDE DEF has, has2
  <2>6. Follows(Append(q, e), PressEvent(i), ReleaseEvent(i), has2)
    BY <2>1, <2>3, <2>5, FollowsAppend
  <2>7. QED
    BY <2>4, <2>6 DEF has2
<1>8. ASSUME r_queue # <<>>, NEW i \in KeysTo!Inputs, KeysTo!head # ReleasePosted(i)
      PROVE  /\ Follows(KeysTo!rest, PressPosted(i), ReleasePosted(i), NotLost(i))
             /\ Follows(KeysTo!rest, PressEvent(i), ReleaseEvent(i), NotLost(i) \/ Has(KeysTo!rest, ReleasePosted(i)))
             /\ KeysTo!head = PressPosted(i) => NotLost(i) \/ Has(KeysTo!rest, ReleasePosted(i))
  <2> DEFINE has == NotLost(i) \/ Has(r_queue, ReleasePosted(i))
  <2>1. Has(r_queue, ReleasePosted(i)) <=> Has(KeysTo!rest, ReleasePosted(i))
    BY <1>1, <1>8, HasTail DEF KeysTo!head, KeysTo!rest
  <2>2. has \in BOOLEAN /\ NotLost(i) \in BOOLEAN
    BY NotLostBoolean
  <2>3. /\ Follows(Tail(r_queue), PressPosted(i), ReleasePosted(i), NotLost(i))
        /\ Head(r_queue) = PressPosted(i) => NotLost(i) \/ Has(Tail(r_queue), ReleasePosted(i))
    BY <1>1, <1>5, <1>8, <2>2, FollowsTail
  <2>4. Follows(r_queue, PressEvent(i), ReleaseEvent(i), has)
    BY <1>5
  <2> HIDE DEF has
  <2>5. Follows(Tail(r_queue), PressEvent(i), ReleaseEvent(i), has)
    BY <1>1, <1>8, <2>2, <2>4, FollowsTail
  <2>6. QED
    BY <2>1, <2>3, <2>5 DEF has, KeysTo!head, KeysTo!rest
\* When its release is taken, it was let through, or dropped.
<1>9. ASSUME r_queue # <<>>, NEW i \in KeysTo!Inputs
      PROVE  /\ Follows(KeysTo!rest, PressPosted(i), ReleasePosted(i), NotLost(i))
             /\ Follows(KeysTo!rest, PressEvent(i), ReleaseEvent(i), TRUE)
  BY <1>1, <1>5, <1>9, FollowsTail, NotLostBoolean DEF Follows, KeysTo!rest
<1>10. ASSUME NEW i \in KeysTo!Inputs, KeysTo!Press(i) PROVE AheadInv'
  <2>1. r_queue' = Append(r_queue, PressPosted(i)) /\ held' = held \cup {i} /\ UNCHANGED excused
    BY <1>10 DEF KeysTo!Press, KeysTo!Doing, PressPosted
  <2>2. ASSUME NEW j \in KeysTo!Inputs PROVE Goal(j)
    <3>1. (NotLost(j) => NotLost(j)') /\ NotLost(i)'
      BY <2>1 DEF NotLost, Forgiven
    <3>2. /\ PressPosted(i) # ReleasePosted(j) /\ PressPosted(i) # PressEvent(j)
          /\ PressPosted(i) = PressPosted(j) => i = j
      BY MessagesDiffer
    <3>3. PressPosted(i) \in QueueMessage /\ NotLost(j) \in BOOLEAN /\ NotLost(j)' \in BOOLEAN
      BY <1>3, NotLostBoolean
    <3>4. QED
      BY <1>1, <1>5, <1>7, <2>1, <3>1, <3>2, <3>3
  <2>3. QED
    BY <1>4, <2>2
<1>11. ASSUME NEW i \in KeysTo!Inputs, KeysTo!Release(i) PROVE AheadInv'
  <2>1. r_queue' = Append(r_queue, ReleasePosted(i)) /\ held' = held \ {i} /\ UNCHANGED excused
    BY <1>11 DEF KeysTo!Release, ReleasePosted
  <2>2. ASSUME NEW j \in KeysTo!Inputs PROVE Goal(j)
    <3>1. NotLost(j) => NotLost(j)' \/ ReleasePosted(i) = ReleasePosted(j)
      BY <2>1 DEF NotLost, Forgiven
    <3>2. ReleasePosted(i) # PressPosted(j) /\ ReleasePosted(i) # PressEvent(j)
      BY MessagesDiffer
    <3>3. ReleasePosted(i) \in QueueMessage /\ NotLost(j) \in BOOLEAN /\ NotLost(j)' \in BOOLEAN
      BY <1>3, NotLostBoolean
    <3>4. QED
      BY <1>1, <1>5, <1>7, <2>1, <3>1, <3>2, <3>3
  <2>3. QED
    BY <1>4, <2>2
<1>12. ASSUME r_queue # <<>>, NEW what \in {"down", "up"}, NEW k \in KeysTo!Inputs, Handles(what, k) PROVE AheadInv'
  <2>1. held' = held /\ excused \subseteq excused' /\ KeysTo!head = KeysTo!Posted(what, k)
    BY <1>12 DEF Handles, Waited, PassedOn, Ignored
  <2>2. ASSUME NEW j \in KeysTo!Inputs PROVE Goal(j)
    <3>1. (NotLost(j) => NotLost(j)') /\ NotLost(j) \in BOOLEAN /\ NotLost(j)' \in BOOLEAN
      BY <2>1, NotLostBoolean DEF NotLost, Forgiven
    <3>2. /\ KeysTo!head = ReleasePosted(j) => what = "up" /\ j = k
          /\ KeysTo!head = PressPosted(k) <=> what = "down"
      BY <2>1 DEF ReleasePosted, PressPosted, KeysTo!Posted
    <3>3. CASE Waited(k)
      <4>1. r_queue' = Append(KeysTo!rest, ReleasePosted(k))
        BY <3>3 DEF Waited
      <4>2. ReleasePosted(k) # PressPosted(j) /\ ReleasePosted(k) # PressEvent(j)
        BY MessagesDiffer
      <4>3. CASE j # k
        BY <1>2, <1>3, <1>7, <1>8, <1>12, <3>1, <3>2, <4>1, <4>2, <4>3
      <4>4. CASE j = k
        <5>1. Follows(KeysTo!rest, PressPosted(j), ReleasePosted(j), NotLost(j))
          BY <1>9, <1>12
        <5>2. Follows(r_queue', PressPosted(j), ReleasePosted(j), NotLost(j)')
          BY <1>2, <1>3, <1>12, <3>1, <4>1, <4>2, <5>1, FollowsAppend
        <5>3. Has(r_queue', ReleasePosted(j))
          BY <1>2, <1>3, <1>12, <4>1, <4>4, HasAppend
        <5>4. QED
          BY <5>2, <5>3 DEF Follows
      <4>5. QED
        BY <4>3, <4>4
    <3>4. CASE PassedOn(what, k)
      <4> DEFINE e == KeysTo!Happened(what, k)
      <4>1. r_queue' = Append(KeysTo!rest, e)
        BY <3>4 DEF PassedOn
      <4>2. /\ e \in QueueMessage /\ e # PressPosted(j) /\ e # ReleasePosted(j)
            /\ e = PressEvent(j) => what = "down" /\ j = k
            /\ what = "up" /\ j = k => e = ReleaseEvent(j) /\ e # PressEvent(j)
        BY KeyMessages DEF PressPosted, PressEvent, ReleaseEvent, ReleasePosted, KeysTo!Posted, KeysTo!Happened
      <4> HIDE DEF e
      <4>3. CASE ~(j = k /\ what = "up")
        <5>1. e = PressEvent(j) => NotLost(j) \/ Has(KeysTo!rest, ReleasePosted(j))
          BY <1>8, <1>12, <3>2, <4>2, <4>3
        <5>2. QED
          BY <1>2, <1>7, <1>8, <1>12, <3>1, <3>2, <4>1, <4>2, <4>3, <5>1
      <4>4. CASE j = k /\ what = "up"
        <5> DEFINE any == TRUE
                   has == NotLost(j)' \/ Has(r_queue', ReleasePosted(j))
        <5>1. /\ Follows(KeysTo!rest, PressPosted(j), ReleasePosted(j), NotLost(j))
              /\ Follows(KeysTo!rest, PressEvent(j), ReleaseEvent(j), any)
          BY <1>9, <1>12
        <5>2. Follows(r_queue', PressPosted(j), ReleasePosted(j), NotLost(j)')
          BY <1>2, <1>12, <3>1, <4>1, <4>2, <5>1, FollowsAppend
        <5>3. any \in BOOLEAN /\ has \in BOOLEAN
          OBVIOUS
        <5> HIDE DEF any, has
        <5>4. Follows(Append(KeysTo!rest, e), PressEvent(j), ReleaseEvent(j), has)
          BY <1>2, <1>12, <4>2, <4>4, <5>1, <5>3, FollowsAppend
        <5>5. QED
          BY <4>1, <5>2, <5>4 DEF has
      <4>5. QED
        BY <4>3, <4>4
    <3>5. CASE Ignored(what, k)
      <4>1. r_queue' = KeysTo!rest
        BY <3>5 DEF Ignored
      <4>2. CASE KeysTo!head # ReleasePosted(j)
        BY <1>8, <1>12, <3>1, <4>1, <4>2, FollowsWeaker
      <4>3. CASE KeysTo!head = ReleasePosted(j)
        <5>1. NotLost(j)'
          BY <3>2, <3>5, <4>3 DEF Ignored, NotLost, Forgiven
        <5>2. QED
          BY <5>1 DEF Follows
      <4>4. QED
        BY <4>2, <4>3
    <3>6. QED
      BY <1>12, <3>3, <3>4, <3>5 DEF Handles
  <2>3. QED
    BY <1>4, <2>2
<1>13. ASSUME r_queue # <<>>, r_queue' \in {KeysTo!rest, Append(KeysTo!rest, KeysTo!Mark)}, held' = held,
              excused \subseteq excused', KeysTo!head.stage = "event"
       PROVE  AheadInv'
  <2>1. ASSUME NEW j \in KeysTo!Inputs PROVE Goal(j)
    <3>1. (NotLost(j) => NotLost(j)') /\ NotLost(j) \in BOOLEAN /\ NotLost(j)' \in BOOLEAN
      BY <1>13, NotLostBoolean DEF NotLost, Forgiven
    <3>2. KeysTo!head # ReleasePosted(j)
      BY <1>13 DEF ReleasePosted, KeysTo!Posted
    <3>3. /\ KeysTo!Mark \in QueueMessage /\ KeysTo!Mark # PressPosted(j) /\ KeysTo!Mark # PressEvent(j)
          /\ KeysTo!Mark # ReleasePosted(j)
      BY MarkMessage DEF KeysTo!Mark, PressPosted, PressEvent, ReleasePosted, KeysTo!Posted, KeysTo!Happened
    <3>4. CASE r_queue' = KeysTo!rest
      BY <1>8, <1>13, <3>1, <3>2, <3>4, FollowsWeaker
    <3>5. CASE r_queue' = Append(KeysTo!rest, KeysTo!Mark)
      BY <1>2, <1>7, <1>8, <1>13, <3>1, <3>2, <3>3, <3>5
    <3>6. QED
      BY <1>13, <3>4, <3>5
  <2>2. QED
    BY <1>4, <2>1
<1>14. ASSUME r_queue # <<>>, NEW what \in {"down", "up"}, NEW k \in KeysTo!Inputs, Relays(what, k) PROVE AheadInv'
  BY <1>13, <1>14 DEF Relays, KeysTo!Happened
<1>15. ASSUME r_queue # <<>>, KeysTo!forceLeaveClient PROVE AheadInv'
  BY <1>13, <1>15 DEF KeysTo!forceLeaveClient, KeysTo!nextMark
<1>16. ASSUME NEW c \in RelayClients, KeysTo!Take(c), excused \subseteq excused' PROVE AheadInv'
  BY <1>16, AheadUnchanged DEF KeysTo!Take, KeysTo!hostVars
<1>17. ASSUME NEW c \in RelayClients, KeysTo!Lose(c) PROVE AheadInv'
  <2>1. r_queue' = Append(r_queue, GoneEvent(c)) /\ held' = held /\ excused \subseteq excused'
    BY <1>17 DEF KeysTo!Lose, KeysTo!hostVars, GoneEvent
  <2>2. ASSUME NEW j \in KeysTo!Inputs PROVE Goal(j)
    <3>1. (NotLost(j) => NotLost(j)') /\ NotLost(j) \in BOOLEAN /\ NotLost(j)' \in BOOLEAN
      BY <2>1, NotLostBoolean DEF NotLost, Forgiven
    <3>2. GoneEvent(c) \notin {PressPosted(j), ReleasePosted(j), PressEvent(j)} /\ GoneEvent(c) \in QueueMessage
      BY MessagesDiffer, WatchedMessages DEF Watched
    <3>3. QED
      BY <1>1, <1>5, <1>7, <2>1, <3>1, <3>2
  <2>3. QED
    BY <1>4, <2>2
<1>18. ASSUME NEW c \in RelayClients, KeysTo!Rejoin(c) PROVE AheadInv'
  BY <1>18, AheadUnchanged DEF KeysTo!Rejoin, KeysTo!hostVars
<1>19. ASSUME Purges PROVE AheadInv'
  <2>1. ASSUME NEW i \in KeysTo!Inputs PROVE Goal(i)
    <3>1. /\ NotLost(i) => NotLost(i)'
          /\ Has(r_queue, ReleasePosted(i)) => NotLost(i)'
      BY <1>19, PurgeForgives DEF NotLost, Forgiven, Purges
    <3> DEFINE has == NotLost(i) \/ Has(r_queue, ReleasePosted(i))
    <3>2. Follows(r_queue, PressEvent(i), ReleaseEvent(i), has)
      BY <1>5
    <3> HIDE DEF has
    <3>3. Follows(r_queue', PressEvent(i), ReleaseEvent(i), has) /\ ~Has(r_queue', PressPosted(i))
      BY <1>1, <1>19, <3>2, AfterPurge DEF Purges
    <3>4. has => NotLost(i)'
      BY <3>1 DEF has
    <3>5. Follows(r_queue', PressPosted(i), ReleasePosted(i), NotLost(i)')
      BY <3>3, ZenonT(30) DEF Follows, Has
    <3>6. QED
      BY <3>3, <3>4, <3>5, ZenonT(30) DEF Follows
  <2>2. QED
    BY <1>4, <2>1
<1>20. CASE UNCHANGED relayVars
  BY <1>20, AheadUnchanged DEF relayVars
<1>21. CASE KeysTo!User
  BY <1>6, <1>10, <1>11, <1>21, QuietUser DEF KeysTo!User, QuietHost
<1>22. CASE KeysTo!Serve
  BY <1>6, <1>12, <1>14, <1>15, <1>22, <1>19, QuietServes, KeyHandled, KeyRelayed, Purging DEF KeysTo!Serve, QuietServe
<1>23. CASE KeysTo!Client
  BY <1>16, <1>17, <1>18, <1>23 DEF KeysTo!Client, KeysTo!enter, KeysTo!leave, KeysTo!fakeKeyDown,
     KeysTo!fakeKeyUp, KeysTo!fakeMouseButton
<1>24. QED
  BY <1>20, <1>21, <1>22, <1>23 DEF KeysTo!Next

------------------------------------------------------------------------------
\* What is down on a client's screen is known there as sent by the server.
KnownInv == \A c \in RelayClients : \A i \in down[c] :
    <<c, i>> \in excused \/ (c \in linked /\ (i = RelayButton \/ i \in serverKeys[c]))

LEMMA KnownNext ==
    ASSUME KeysTo!KeyRelayAssumption, RelayTyped, GoneInv, KnownInv, [KeysTo!Next]_relayVars PROVE KnownInv'
<1>1. /\ serverKeys \in [RelayClients -> SUBSET RelayKeys]
      /\ down \in [RelayClients -> SUBSET KeysTo!Inputs] /\ RelayButton \notin RelayKeys
  BY DEF RelayTyped, KeysTo!TypeOK, KeysTo!KeyRelayAssumption
<1>2. ASSUME UNCHANGED <<linked, serverKeys, down>>, excused \subseteq excused' PROVE KnownInv'
  BY <1>2 DEF KnownInv
<1>3. CASE KeysTo!User
  <2>1. UNCHANGED <<linked, serverKeys, down, excused>>
    BY <1>3 DEF KeysTo!User, KeysTo!Press, KeysTo!Release, KeysTo!Motion, KeysTo!HotKey, KeysTo!Doing,
       KeysTo!clientVars
  <2>2. QED
    BY <1>2, <2>1
<1>4. CASE KeysTo!Serve
  <2>1. ASSUME Quiet PROVE KnownInv'
    BY <1>2, <2>1 DEF Quiet
  <2>2. ASSUME NEW what \in {"down", "up"}, NEW k \in KeysTo!Inputs, Handles(what, k) PROVE KnownInv'
    BY <1>2, <2>2 DEF Handles, Waited, PassedOn, Ignored
  <2>3. ASSUME NEW what \in {"down", "up"}, NEW k \in KeysTo!Inputs, Relays(what, k) PROVE KnownInv'
    BY <1>2, <2>3 DEF Relays
  <2>4. ASSUME KeysTo!forceLeaveClient PROVE KnownInv'
    BY <1>2, <2>4 DEF KeysTo!forceLeaveClient, KeysTo!clientVars
  <2>5. ASSUME Purges PROVE KnownInv'
    BY <1>2, <2>5 DEF Purges
  <2>6. QED
    BY <1>4, <2>1, <2>2, <2>3, <2>4, <2>5, QuietServes, KeyHandled, KeyRelayed, Purging DEF KeysTo!Serve, QuietServe
<1>5. ASSUME NEW c \in RelayClients, KeysTo!Take(c), KeysTo!fakeKeyDown(c) PROVE KnownInv'
  <2> DEFINE k == KeysTo!got(c)[2]
  <2>1. /\ excused' = excused /\ linked' = linked
        /\ \/ /\ serverKeys' = [serverKeys EXCEPT ![c] = serverKeys[c] \cup {k}]
              /\ down' = [down EXCEPT ![c] = down[c] \cup {k}]
           \/ UNCHANGED <<serverKeys, down>>
    BY <1>5 DEF KeysTo!fakeKeyDown, KeysTo!Take
  <2> HIDE DEF k
  <2>2. CASE UNCHANGED <<serverKeys, down>>
    BY <1>2, <2>1, <2>2
  <2>3. ASSUME serverKeys' = [serverKeys EXCEPT ![c] = serverKeys[c] \cup {k}],
               down' = [down EXCEPT ![c] = down[c] \cup {k}],
               NEW d \in RelayClients, NEW i \in down'[d]
        PROVE  <<d, i>> \in excused' \/ (d \in linked' /\ (i = RelayButton \/ i \in serverKeys'[d]))
    <3>1. CASE d = c /\ i = k
      <4>1. c \in linked
        BY <1>5 DEF KeysTo!Take, GoneInv
      <4>2. QED
        BY <1>1, <2>1, <2>3, <3>1, <4>1
    <3>2. CASE ~(d = c /\ i = k)
      BY <1>1, <2>1, <2>3, <3>2 DEF KnownInv
    <3>3. QED
      BY <3>1, <3>2
  <2>4. QED
    BY <2>1, <2>2, <2>3 DEF KnownInv
<1>6. ASSUME NEW c \in RelayClients, KeysTo!fakeKeyUp(c) PROVE KnownInv'
  <2> DEFINE k == KeysTo!got(c)[2]
  <2>1. /\ excused' = excused /\ linked' = linked
        /\ \/ /\ serverKeys' = [serverKeys EXCEPT ![c] = serverKeys[c] \ {k}]
              /\ down' = [down EXCEPT ![c] = down[c] \ {k}]
           \/ UNCHANGED <<serverKeys, down>>
    BY <1>6 DEF KeysTo!fakeKeyUp, KeysTo!Take
  <2> HIDE DEF k
  <2>2. CASE UNCHANGED <<serverKeys, down>>
    BY <1>2, <2>1, <2>2
  <2>3. ASSUME serverKeys' = [serverKeys EXCEPT ![c] = serverKeys[c] \ {k}],
               down' = [down EXCEPT ![c] = down[c] \ {k}],
               NEW d \in RelayClients, NEW i \in down'[d]
        PROVE  <<d, i>> \in excused' \/ (d \in linked' /\ (i = RelayButton \/ i \in serverKeys'[d]))
    BY <1>1, <2>1, <2>3 DEF KnownInv
  <2>4. QED
    BY <2>1, <2>2, <2>3 DEF KnownInv
<1>7. ASSUME NEW c \in RelayClients, KeysTo!fakeMouseButton(c) PROVE KnownInv'
  <2>1. /\ excused' = excused /\ linked' = linked /\ serverKeys' = serverKeys /\ c \in linked
        /\ \A d \in RelayClients : down'[d] \subseteq down[d] \cup (IF d = c THEN {RelayButton} ELSE {})
    BY <1>1, <1>7 DEF KeysTo!fakeMouseButton, KeysTo!Take, GoneInv
  <2>2. QED
    BY <2>1 DEF KnownInv
<1>8. ASSUME NEW c \in RelayClients, KeysTo!enter(c) PROVE KnownInv'
  BY <1>2, <1>8 DEF KeysTo!enter, KeysTo!Take
<1>9. ASSUME NEW c \in RelayClients, KeysTo!leave(c) PROVE KnownInv'
  <2>1. linked' = linked /\ excused \subseteq excused'
    BY <1>9 DEF KeysTo!leave, KeysTo!Take
  <2>2. CASE UNCHANGED <<serverKeys, down>>
    BY <1>2, <2>1, <2>2
  <2>3. CASE KeysTo!fakeAllKeysUp(c)
    <3>1. /\ down' = [down EXCEPT ![c] = down[c] \ serverKeys[c]]
          /\ serverKeys' = [serverKeys EXCEPT ![c] = {}]
      BY <2>3 DEF KeysTo!fakeAllKeysUp
    <3>2. ASSUME NEW d \in RelayClients, NEW i \in down'[d]
          PROVE  <<d, i>> \in excused' \/ (d \in linked' /\ (i = RelayButton \/ i \in serverKeys'[d]))
      BY <1>1, <2>1, <3>1, <3>2 DEF KnownInv
    <3>3. QED
      BY <3>2 DEF KnownInv
  <2>4. QED
    BY <1>9, <2>2, <2>3 DEF KeysTo!leave
<1>10. ASSUME NEW c \in RelayClients, KeysTo!Lose(c) PROVE KnownInv'
  <2>1. linked' = linked \ {c} /\ excused \subseteq excused'
    BY <1>10 DEF KeysTo!Lose
  <2>2. CASE /\ down' = [down EXCEPT ![c] = (@ \ serverKeys[c]) \ {RelayButton}]
             /\ serverKeys' = [serverKeys EXCEPT ![c] = {}]
    <3>1. ASSUME NEW d \in RelayClients, NEW i \in down'[d]
          PROVE  <<d, i>> \in excused' \/ (d \in linked' /\ (i = RelayButton \/ i \in serverKeys'[d]))
      BY <1>1, <2>1, <2>2, <3>1 DEF KnownInv
    <3>2. QED
      BY <3>1 DEF KnownInv
  <2>3. CASE /\ down' = [down EXCEPT ![c] = @ \ {RelayButton}]
             /\ excused' = excused \cup ({c} \X serverKeys[c]) /\ UNCHANGED serverKeys
    <3>1. ASSUME NEW d \in RelayClients, NEW i \in down'[d]
          PROVE  <<d, i>> \in excused' \/ (d \in linked' /\ (i = RelayButton \/ i \in serverKeys'[d]))
      <4>1. CASE d = c
        <5>1. i \in down[c] /\ i # RelayButton
          BY <1>1, <2>3, <3>1, <4>1
        <5>2. <<c, i>> \in excused \/ i \in serverKeys[c]
          BY <5>1 DEF KnownInv
        <5>3. QED
          BY <2>3, <4>1, <5>2
      <4>2. CASE d # c
        <5>1. i \in down[d]
          BY <1>1, <2>3, <3>1, <4>2
        <5>2. QED
          BY <2>1, <2>3, <4>2, <5>1 DEF KnownInv
      <4>3. QED
        BY <4>1, <4>2
    <3>2. QED
      BY <3>1 DEF KnownInv
  <2>4. QED
    BY <1>10, <2>2, <2>3 DEF KeysTo!Lose
<1>11. ASSUME NEW c \in RelayClients, KeysTo!Rejoin(c) PROVE KnownInv'
  <2>1. /\ linked' = linked \cup {c} /\ c \notin linked /\ UNCHANGED <<down, excused>>
        /\ serverKeys' = [serverKeys EXCEPT ![c] = {}]
    BY <1>11 DEF KeysTo!Rejoin
  <2>2. ASSUME NEW d \in RelayClients, NEW i \in down[d]
        PROVE  <<d, i>> \in excused \/ (d \in linked' /\ (i = RelayButton \/ i \in serverKeys'[d]))
    BY <1>1, <2>1, <2>2 DEF KnownInv
  <2>3. QED
    BY <2>1, <2>2 DEF KnownInv
<1>12. CASE KeysTo!Client
  BY <1>5, <1>6, <1>7, <1>8, <1>9, <1>10, <1>11, <1>12 DEF KeysTo!Client, KeysTo!fakeKeyDown
<1>13. CASE UNCHANGED relayVars
  BY <1>2, <1>13 DEF relayVars
<1>14. QED
  BY <1>3, <1>4, <1>12, <1>13 DEF KeysTo!Next

------------------------------------------------------------------------------
\* A key that is down for the host is held there, and the hook knows, or its release, done at a
\* client, will be done there; while the host is being left it is on the list, or about to be posted.
ReleaseWaits(k) == Has(r_queue, ReleasePosted(k))
PressWaits(k) == Has(r_queue, PressPosted(k))
HeldHere(k) == k \in held /\ k \in hookKeys
HostInv ==
    \A k \in host :
        \/ <<RelayPrimary, k>> \in excused
        \/ /\ active = RelayPrimary /\ HeldHere(k)
           /\ warped \in {"read", "leave"} => k \in keysBefore \/ PressWaits(k)
        \/ active # RelayPrimary /\ k \in keysBefore /\ (HeldHere(k) \/ ReleaseWaits(k))

LEMMA HostKept ==
    ASSUME HostInv, UNCHANGED <<active, keysBefore, host>>, held \subseteq held', hookKeys \subseteq hookKeys',
           excused \subseteq excused', warped' \in {"no", warped},
           \A k \in host : active # RelayPrimary /\ k \in keysBefore /\ ReleaseWaits(k) => ReleaseWaits(k)',
           warped = "no" \/ \A k \in host : PressWaits(k) => PressWaits(k)'
    PROVE  HostInv'
  BY DEF HostInv, HeldHere

\* What is known to wait in the queue.
LEMMA HostWaits ==
    ASSUME RelayTyped, NEW k \in host
    PROVE  /\ k \in keysBefore /\ ReleaseWaits(k) => k \in KeysTo!Stranded
           /\ k \notin keysBefore /\ PressWaits(k) => k \in KeysTo!Late
<1>1. DOMAIN r_queue = 1 .. Len(r_queue)
  BY LenProperties DEF RelayTyped
<1>2. QED
  BY <1>1 DEF ReleaseWaits, PressWaits, Has, ReleasePosted, PressPosted, KeysTo!Stranded, KeysTo!Late, KeysTo!InQueue

LEMMA HostSwitch ==
    ASSUME HostInv, RelayTyped, NEW s, NEW q, NEW channels, KeysTo!switchScreen(s, q, channels),
           UNCHANGED <<held, hookKeys, host>>, excused \subseteq excused',
           s = RelayPrimary /\ active # s => {RelayPrimary} \X KeysTo!Stranded \subseteq excused',
           active = RelayPrimary /\ active # s => {RelayPrimary} \X KeysTo!Late \subseteq excused',
           \A k \in KeysTo!Inputs : ReleaseWaits(k)' <=> ReleaseWaits(k),
           \A k \in KeysTo!Inputs : PressWaits(k)' <=> PressWaits(k)
    PROVE  HostInv'
<1>1. /\ host \subseteq RelayKeys /\ RelayKeys \subseteq KeysTo!Inputs /\ keysBefore \subseteq RelayKeys
      /\ r_queue \in Seq(QueueMessage) /\ warped' = "no"
  BY DEF RelayTyped, KeysTo!TypeOK, KeysTo!Inputs, KeysTo!switchScreen
<1>2. CASE s = active
  <2>1. UNCHANGED <<active, keysBefore>>
    BY <1>2 DEF KeysTo!switchScreen
  <2>2. \A k \in host : (ReleaseWaits(k) => ReleaseWaits(k)') /\ (PressWaits(k) => PressWaits(k)')
    BY <1>1
  <2>3. QED
    BY <1>1, <2>1, <2>2, HostKept
<1>3. CASE s # active /\ active = RelayPrimary
  <2>1. active' = s /\ keysBefore' = keysBefore /\ warped = "leave"
    BY <1>3 DEF KeysTo!switchScreen, KeysTo!leaveHost, KeysTo!enterHost, KeysTo!Moves
  <2>2. ASSUME NEW k \in host, <<RelayPrimary, k>> \notin excused' PROVE HeldHere(k) /\ k \in keysBefore
    <3>1. HeldHere(k) /\ (k \in keysBefore \/ PressWaits(k))
      BY <1>3, <2>1, <2>2 DEF HostInv
    <3>2. k \notin KeysTo!Late
      BY <1>3, <2>2
    <3>3. QED
      BY <3>1, <3>2, HostWaits
  <2>3. QED
    BY <1>3, <2>1, <2>2 DEF HostInv, HeldHere
<1>4. CASE s # active /\ s = RelayPrimary
  <2>1. active' = s /\ keysBefore' = {}
    BY <1>4 DEF KeysTo!switchScreen, KeysTo!enterHost
  <2>2. ASSUME NEW k \in host, <<RelayPrimary, k>> \notin excused' PROVE HeldHere(k)
    <3>1. k \notin KeysTo!Stranded
      BY <1>4, <2>2
    <3>2. QED
      BY <1>4, <2>2, <3>1, HostWaits DEF HostInv
  <2>3. QED
    BY <1>1, <1>4, <2>1, <2>2 DEF HostInv, HeldHere
<1>5. CASE s # active /\ RelayPrimary \notin {active, s}
  <2>1. active' = s /\ keysBefore' = keysBefore
    BY <1>5 DEF KeysTo!switchScreen
  <2>2. QED
    BY <1>1, <1>5, <2>1 DEF HostInv, HeldHere
<1>6. QED
  BY <1>2, <1>3, <1>4, <1>5

LEMMA HostNext ==
    ASSUME KeysTo!KeyRelayAssumption, RelayTyped, HostInv, [KeysTo!Next]_relayVars PROVE HostInv'
<1>1. /\ r_queue \in Seq(QueueMessage) /\ host \subseteq RelayKeys /\ RelayKeys \subseteq KeysTo!Inputs
      /\ RelayButton \notin RelayKeys /\ RelayPrimary \notin RelayClients /\ keysBefore \subseteq RelayKeys
  BY DEF RelayTyped, KeysTo!TypeOK, KeysTo!Inputs, KeysTo!KeyRelayAssumption
<1>2. r_queue # <<>> => KeysTo!head \in QueueMessage /\ KeysTo!rest \in Seq(QueueMessage)
  BY <1>1, HeadTyped
<1>3. \A i \in KeysTo!Inputs : {PressPosted(i), ReleasePosted(i)} \subseteq QueueMessage
  BY WatchedMessages DEF Watched
<1>4. ASSUME Quiet, NEW k \in KeysTo!Inputs PROVE ReleaseWaits(k)' <=> ReleaseWaits(k)
  <2>1. ReleasePosted(k)' = ReleasePosted(k)
    BY DEF ReleasePosted, KeysTo!Posted
  <2>2. QED
    BY <1>4, <2>1, WatchedMessages DEF Quiet, SameAhead, ReleaseWaits
<1>5. ASSUME Quiet, NEW k \in KeysTo!Inputs PROVE PressWaits(k)' <=> PressWaits(k)
  <2>1. PressPosted(k)' = PressPosted(k)
    BY DEF PressPosted, KeysTo!Posted
  <2>2. QED
    BY <1>5, <2>1, WatchedMessages DEF Quiet, SameAhead, PressWaits
<1>6. ASSUME Quiet, UNCHANGED <<active, keysBefore, warped>> PROVE HostInv'
  BY <1>1, <1>4, <1>6, <1>5, HostKept DEF Quiet
<1>7. ASSUME QuietHost PROVE HostInv'
  <2>1. UNCHANGED <<active, keysBefore, warped>>
    BY <1>7 DEF QuietHost, KeysTo!Motion, KeysTo!HotKey, KeysTo!Doing, KeysTo!serverVars
  <2>2. QED
    BY <1>6, <1>7, <2>1, QuietUser
<1>8. ASSUME r_queue # <<>>, KeysTo!onMouseMove \/ KeysTo!onHotKey \/ KeysTo!onMark \/ KeysTo!handleKeyboardBroadcastEvent
      PROVE HostInv'
  <2>1. UNCHANGED <<active, keysBefore, warped>>
    BY <1>8 DEF KeysTo!onMouseMove, KeysTo!onHotKey, KeysTo!onMark, KeysTo!handleKeyboardBroadcastEvent,
       KeysTo!hostVars, KeysTo!serverVars
  <2>2. QED
    BY <1>6, <1>8, <2>1, QuietServes DEF QuietServe
<1>9. ASSUME r_queue # <<>>, KeysTo!Switch PROVE HostInv'
  <2>1. Quiet
    BY <1>9, QuietServes DEF QuietServe
  <2>2. UNCHANGED <<held, hookKeys, host>> /\ excused \subseteq excused'
    BY <2>1 DEF Quiet
  <2>3. CASE UNCHANGED <<active, keysBefore, warped>>
    BY <1>6, <2>1, <2>3
  <2>4. ASSUME KeysTo!switchScreen(KeysTo!head.arg, KeysTo!rest, r_toClient),
               excused' = excused \cup KeysTo!KeptBySwitch(KeysTo!head.arg)
        PROVE  HostInv'
    <3>1. /\ KeysTo!head.arg = RelayPrimary /\ active # KeysTo!head.arg
                => {RelayPrimary} \X KeysTo!Stranded \subseteq excused'
          /\ active = RelayPrimary /\ active # KeysTo!head.arg
                => {RelayPrimary} \X KeysTo!Late \subseteq excused'
      BY <2>4 DEF KeysTo!KeptBySwitch
    <3>2. QED
      BY <1>4, <1>5, <2>1, <2>2, <2>4, <3>1, HostSwitch
  <2>5. QED
    BY <1>9, <2>3, <2>4 DEF KeysTo!Switch, KeysTo!refused
<1>10. ASSUME r_queue # <<>>, KeysTo!emergencyReturn PROVE HostInv'
  <2>1. Quiet
    BY <1>10, QuietServes DEF QuietServe
  <2>2. UNCHANGED <<held, hookKeys, host>> /\ excused \subseteq excused'
    BY <2>1 DEF Quiet
  <2>3. {RelayPrimary} \X KeysTo!Stranded \subseteq excused'
    BY <1>10 DEF KeysTo!emergencyReturn
  <2>4. QED
    BY <1>4, <1>10, <1>5, <2>1, <2>2, <2>3, HostSwitch DEF KeysTo!emergencyReturn
<1>11. ASSUME NEW i \in KeysTo!Inputs, KeysTo!Press(i) PROVE HostInv'
  <2>1. /\ r_queue' = Append(r_queue, PressPosted(i)) /\ held' = held \cup {i}
        /\ hookKeys' = hookKeys \cup ({i} \cap RelayKeys)
        /\ UNCHANGED <<active, keysBefore, warped, excused>>
        /\ host' = host \/ (active = RelayPrimary /\ i \in RelayKeys /\ host' = host \cup {i})
    BY <1>11 DEF KeysTo!Press, KeysTo!Doing, PressPosted, KeysTo!serverVars
  <2>2. ASSUME NEW k PROVE (ReleaseWaits(k) => ReleaseWaits(k)') /\ (PressWaits(k) \/ k = i => PressWaits(k)')
    <3>1. ReleasePosted(k)' = ReleasePosted(k) /\ PressPosted(k)' = PressPosted(k)
      BY DEF ReleasePosted, PressPosted, KeysTo!Posted
    <3>2. QED
      BY <1>1, <1>3, <2>1, <3>1, HasAppend DEF ReleaseWaits, PressWaits
  <2>3. QED
    BY <2>1, <2>2 DEF HostInv, HeldHere
<1>12. ASSUME NEW i \in KeysTo!Inputs, KeysTo!Release(i) PROVE HostInv'
  <2>1. /\ r_queue' = Append(r_queue, ReleasePosted(i)) /\ held' = held \ {i} /\ hookKeys' = hookKeys \ {i}
        /\ UNCHANGED <<active, keysBefore, warped, excused>>
        /\ host' = IF active = RelayPrimary THEN host \ {i} ELSE host
    BY <1>12 DEF KeysTo!Release, ReleasePosted, KeysTo!serverVars
  <2>2. ASSUME NEW k PROVE (ReleaseWaits(k) \/ k = i => ReleaseWaits(k)') /\ (PressWaits(k) => PressWaits(k)')
    <3>1. ReleasePosted(k)' = ReleasePosted(k) /\ PressPosted(k)' = PressPosted(k)
      BY DEF ReleasePosted, PressPosted, KeysTo!Posted
    <3>2. QED
      BY <1>1, <1>3, <2>1, <3>1, HasAppend DEF ReleaseWaits, PressWaits
  <2>3. QED
    BY <2>1, <2>2 DEF HostInv, HeldHere
<1>13. ASSUME r_queue # <<>>, NEW what \in {"down", "up"}, NEW k \in KeysTo!Inputs, Handles(what, k), warped = "no" PROVE HostInv'
  <2>1. ASSUME NEW i, ReleaseWaits(i), KeysTo!head # ReleasePosted(i) PROVE Has(KeysTo!rest, ReleasePosted(i))
    BY <1>1, <1>13, <2>1, HasTail DEF ReleaseWaits, KeysTo!rest, KeysTo!head
  <2>2. \A i : KeysTo!head = ReleasePosted(i) => i = k /\ what = "up"
    BY <1>13 DEF Handles, ReleasePosted, KeysTo!Posted
  <2>3. KeysTo!Happened(what, k) \in QueueMessage
    BY KeyMessages
  <2>4. \A i : ReleasePosted(i)' = ReleasePosted(i)
    BY DEF ReleasePosted, KeysTo!Posted
  <2>5. UNCHANGED <<held, active, warped>> /\ warped = "no"
    BY <1>13 DEF Handles
  <2>6. CASE Waited(k)
    <3>1. ASSUME NEW i, ReleaseWaits(i) PROVE ReleaseWaits(i)'
      BY <1>2, <1>3, <1>13, <2>1, <2>2, <2>4, <2>6, <3>1, HasAppend DEF ReleaseWaits, Waited
    <3>2. QED
      BY <2>5, <2>6, <3>1 DEF Waited, HostInv, HeldHere
  <2>7. CASE PassedOn(what, k)
    <3>1. ASSUME NEW i \in host, active # RelayPrimary, i \in keysBefore, ReleaseWaits(i) PROVE ReleaseWaits(i)'
      BY <1>2, <1>13, <2>1, <2>2, <2>3, <2>4, <2>7, <3>1, HasAppend DEF ReleaseWaits, PassedOn
    <3>2. QED
      BY <2>5, <2>7, <3>1, HostKept DEF PassedOn
  <2>8. CASE Ignored(what, k)
    <3>1. ASSUME NEW i \in host, active # RelayPrimary, i \in keysBefore, ReleaseWaits(i) PROVE ReleaseWaits(i)'
      BY <2>1, <2>2, <2>4, <2>8, <3>1 DEF ReleaseWaits, Ignored
    <3>2. QED
      BY <2>5, <2>8, <3>1, HostKept DEF Ignored
  <2>9. QED
    BY <1>13, <2>6, <2>7, <2>8 DEF Handles
<1>14. ASSUME r_queue # <<>>, KeysTo!head.stage = "event", NEW e \in QueueMessage,
              r_queue' \in {KeysTo!rest, Append(KeysTo!rest, e)}
       PROVE  \A k : (ReleaseWaits(k) => ReleaseWaits(k)') /\ (PressWaits(k) => PressWaits(k)')
  <2> SUFFICES ASSUME NEW m, m.stage = "posted", Has(r_queue, m) PROVE Has(r_queue', m)
    BY DEF ReleaseWaits, PressWaits, ReleasePosted, PressPosted, KeysTo!Posted
  <2>1. KeysTo!head # m
    BY <1>14
  <2>2. Has(KeysTo!rest, m)
    BY <1>1, <1>14, <2>1, HasTail DEF KeysTo!rest, KeysTo!head
  <2>3. CASE r_queue' = KeysTo!rest
    BY <2>2, <2>3
  <2>4. CASE r_queue' = Append(KeysTo!rest, e)
    <3>1. KeysTo!rest \in Seq(QueueMessage)
      BY <1>2, <1>14
    <3>2. QED
      BY <1>14, <2>2, <2>4, <3>1, HasAppend
  <2>5. QED
    BY <1>14, <2>3, <2>4
<1>15. ASSUME r_queue # <<>>, NEW what \in {"down", "up"}, NEW k \in KeysTo!Inputs, Relays(what, k) PROVE HostInv'
  BY <1>14, <1>15, MarkMessage, HostKept DEF Relays, KeysTo!Happened
<1>16. ASSUME r_queue # <<>>, KeysTo!forceLeaveClient PROVE HostInv'
  <2>1. /\ KeysTo!head.stage = "event" /\ r_queue' \in {KeysTo!rest, Append(KeysTo!rest, KeysTo!Mark)}
        /\ UNCHANGED <<held, hookKeys, host>> /\ excused \subseteq excused'
    BY <1>16 DEF KeysTo!forceLeaveClient, KeysTo!nextMark
  <2>2. \A k : (ReleaseWaits(k) => ReleaseWaits(k)') /\ (PressWaits(k) => PressWaits(k)')
    BY <1>14, <1>16, <2>1, MarkMessage
  <2>3. CASE active # KeysTo!head.arg
    <3>1. UNCHANGED <<active, keysBefore, warped>>
      BY <1>16, <2>3 DEF KeysTo!forceLeaveClient
    <3>2. QED
      BY <2>1, <2>2, <3>1, HostKept
  <2>4. CASE active = KeysTo!head.arg
    <3>1. /\ active' = RelayPrimary /\ keysBefore' = {} /\ warped' = "no"
          /\ {RelayPrimary} \X KeysTo!Stranded \subseteq excused'
      BY <1>16, <2>4 DEF KeysTo!forceLeaveClient, KeysTo!enterHost
    <3>2. active # RelayPrimary
      BY <1>1, <1>2, <1>16, <2>4, MessageTypes DEF KeysTo!forceLeaveClient
    <3>3. ASSUME NEW k \in host, <<RelayPrimary, k>> \notin excused' PROVE HeldHere(k)
      <4>1. k \notin KeysTo!Stranded
        BY <3>1, <3>3
      <4>2. QED
        BY <2>1, <3>2, <3>3, <4>1, HostWaits DEF HostInv
    <3>4. QED
      BY <2>1, <3>1, <3>3 DEF HostInv, HeldHere
  <2>5. QED
    BY <2>3, <2>4
<1>17. ASSUME NEW c \in RelayClients, KeysTo!Take(c), excused \subseteq excused' PROVE HostInv'
  <2>1. /\ UNCHANGED <<r_queue, held, hookKeys, host, active, keysBefore, warped>>
        /\ \A k : (ReleaseWaits(k) => ReleaseWaits(k)') /\ (PressWaits(k) => PressWaits(k)')
    BY <1>17 DEF KeysTo!Take, KeysTo!hostVars, KeysTo!serverVars, ReleaseWaits, PressWaits, ReleasePosted,
       PressPosted, KeysTo!Posted
  <2>2. QED
    BY <1>17, <2>1, HostKept
<1>18. ASSUME NEW c \in RelayClients, KeysTo!Lose(c) PROVE HostInv'
  <2>1. /\ r_queue' = Append(r_queue, GoneEvent(c)) /\ GoneEvent(c) \in QueueMessage
        /\ UNCHANGED <<held, hookKeys, host, active, keysBefore, warped>> /\ excused \subseteq excused'
    BY <1>18, WatchedMessages DEF KeysTo!Lose, KeysTo!hostVars, KeysTo!serverVars, GoneEvent, Watched
  <2>2. ASSUME NEW k PROVE (ReleaseWaits(k) => ReleaseWaits(k)') /\ (PressWaits(k) => PressWaits(k)')
    <3>1. ReleasePosted(k)' = ReleasePosted(k) /\ PressPosted(k)' = PressPosted(k)
      BY DEF ReleasePosted, PressPosted, KeysTo!Posted
    <3>2. QED
      BY <1>1, <2>1, <3>1, HasAppend DEF ReleaseWaits, PressWaits
  <2>3. QED
    BY <2>1, <2>2, HostKept
<1>19. ASSUME UNCHANGED <<r_queue, held, hookKeys, host, active, keysBefore, warped, excused>> PROVE HostInv'
  <2>1. \A k : (ReleaseWaits(k) => ReleaseWaits(k)') /\ (PressWaits(k) => PressWaits(k)')
    BY <1>19 DEF ReleaseWaits, PressWaits, ReleasePosted, PressPosted, KeysTo!Posted
  <2>2. QED
    BY <1>19, <2>1, HostKept
<1>20. ASSUME KeysTo!leavePrimary PROVE HostInv'
  <2>1. UNCHANGED <<r_queue, held, hookKeys, host, active, excused>> /\ keysBefore' = hookKeys
    BY <1>20 DEF KeysTo!leavePrimary, KeysTo!updateKeyState, KeysTo!serverVars
  <2>2. active = RelayPrimary
    BY <1>20 DEF KeysTo!leavePrimary, KeysTo!Moves
  <2>3. QED
    BY <2>1, <2>2 DEF HostInv, HeldHere
<1>21. ASSUME Purges, active # RelayPrimary \/ (KeysTo!warpCursor /\ active = RelayPrimary) PROVE HostInv'
  <2>1. /\ UNCHANGED <<held, hookKeys, host, active, keysBefore>> /\ excused \subseteq excused'
        /\ {RelayPrimary} \X KeysTo!Stranded \subseteq excused'
        /\ active = RelayPrimary => {RelayPrimary} \X KeysTo!Late \subseteq excused'
    BY <1>21 DEF Purges, KeysTo!Unsaid
  <2>2. CASE active # RelayPrimary
    <3>1. ASSUME NEW k \in host, <<RelayPrimary, k>> \notin excused' PROVE k \in keysBefore /\ HeldHere(k)
      <4>1. k \notin KeysTo!Stranded
        BY <2>1, <3>1
      <4>2. QED
        BY <2>1, <2>2, <3>1, <4>1, HostWaits DEF HostInv
    <3>2. QED
      BY <2>1, <2>2, <3>1 DEF HostInv, HeldHere
  <2>3. CASE active = RelayPrimary
    <3>1. warped' \in {"read", "leave"} => warped = "read"
      BY <1>21, <2>3 DEF KeysTo!warpCursor, KeysTo!Moves
    <3>2. ASSUME NEW k \in host, <<RelayPrimary, k>> \notin excused'
          PROVE  HeldHere(k) /\ (warped' \in {"read", "leave"} => k \in keysBefore)
      <4>1. k \notin KeysTo!Late
        BY <2>1, <2>3, <3>2
      <4>2. QED
        BY <2>1, <2>3, <3>1, <3>2, <4>1, HostWaits DEF HostInv
    <3>3. QED
      BY <2>1, <2>3, <3>2 DEF HostInv, HeldHere
  <2>4. QED
    BY <2>2, <2>3
<1>22. ASSUME KeysTo!warpCursor \/ KeysTo!onDisplayChange PROVE HostInv'
  BY <1>21, <1>22, Purging
<1>23. CASE UNCHANGED relayVars
  BY <1>19, <1>23 DEF relayVars
<1>24. CASE KeysTo!User
  BY <1>7, <1>11, <1>12, <1>24 DEF KeysTo!User, QuietHost
<1>25. CASE KeysTo!Serve
  BY <1>8, <1>9, <1>10, <1>13, <1>15, <1>16, <1>25, <1>20, <1>22, KeyHandled, KeyRelayed DEF KeysTo!Serve
<1>26. CASE KeysTo!Client
  BY <1>17, <1>18, <1>19, <1>26 DEF KeysTo!Client, KeysTo!enter, KeysTo!leave, KeysTo!fakeKeyDown,
     KeysTo!fakeKeyUp, KeysTo!fakeMouseButton, KeysTo!Rejoin, KeysTo!hostVars
<1>27. QED
  BY <1>23, <1>24, <1>25, <1>26 DEF KeysTo!Next

------------------------------------------------------------------------------
\* What a client holds, or will when it has handled what is on its way, it is given still, and its
\* release is ahead.
Ends(i) == IF i = RelayButton THEN {<<"up", i>>} ELSE {<<"up", i>>, <<"leave">>}
MayHold(c, i) == MayLast(r_toClient[c], <<"down", i>>, Ends(i), i \in down[c])
Ahead(i) == i \in held \/ Has(r_queue, ReleasePosted(i)) \/ Has(r_queue, ReleaseEvent(i))
HoldInv == \A c \in linked, i \in KeysTo!Inputs :
    MayHold(c, i) => <<c, i>> \in excused \/ (c \in GivenTo(i) /\ Ahead(i))

LEMMA HoldKept ==
    ASSUME RelayTyped, HoldInv, UNCHANGED <<r_toClient, down, linked>>, excused \subseteq excused',
           \A c \in linked, i \in KeysTo!Inputs : c \in GivenTo(i) => <<c, i>> \in excused' \/ c \in GivenTo(i)',
           \A c \in linked, i \in KeysTo!Inputs : Ahead(i) => Ahead(i)' \/ <<c, i>> \in excused'
    PROVE  HoldInv'
<1> SUFFICES ASSUME NEW c \in linked, NEW i \in KeysTo!Inputs, MayHold(c, i)'
             PROVE  <<c, i>> \in excused' \/ (c \in GivenTo(i)' /\ Ahead(i)')
  BY DEF HoldInv, KeysTo!Inputs
<1>1. MayHold(c, i)
  BY DEF MayHold, Ends
<1>2. QED
  BY <1>1 DEF HoldInv

LEMMA MayHoldGiven ==
    ASSUME RelayTyped, NEW c \in RelayClients, NEW i \in KeysTo!Inputs, MayHold(c, i)
    PROVE  i \in KeysTo!Given(c)
<1>1. r_toClient[c] \in Seq(ClientMessage)
  BY DEF RelayTyped
<1>2. DOMAIN r_toClient[c] = 1 .. Len(r_toClient[c])
  BY <1>1, LenProperties
<1>3. QED
  BY <1>2 DEF MayHold, MayLast, KeysTo!Given

\* A client that was sent a release, or that it is left, does not hold on.
LEMMA EndsHold ==
    ASSUME NEW q \in Seq(ClientMessage), NEW e \in ClientMessage, NEW i \in KeysTo!Inputs,
           NEW already \in BOOLEAN, e \in Ends(i)
    PROVE  ~MayLast(Append(q, e), <<"down", i>>, Ends(i), already)
<1>1. e # <<"down", i>>
  BY DEF Ends
<1>2. QED
  BY <1>1, LastsAppend

LEMMA HoldsBefore ==
    ASSUME NEW q \in Seq(ClientMessage), NEW e \in ClientMessage, NEW i \in KeysTo!Inputs,
           NEW already \in BOOLEAN, MayLast(Append(q, e), <<"down", i>>, Ends(i), already), e # <<"down", i>>
    PROVE  MayLast(q, <<"down", i>>, Ends(i), already)
  BY LastsAppend

\* After a switch from the active screen to s: that screen was told it is left, and s that it is entered.
LEMMA HoldSwitch ==
    ASSUME KeysTo!KeyRelayAssumption, RelayTyped, NEW s \in KeysTo!Screens, NEW q,
           NEW channels \in [RelayClients -> Seq(ClientMessage)],
           KeysTo!switchScreen(s, q, channels), s # active, down' = down,
           NEW c \in linked, NEW i \in KeysTo!Inputs, MayHold(c, i)'
    PROVE  /\ MayLast(channels[c], <<"down", i>>, Ends(i), i \in down[c])
           /\ c = active => i = RelayButton
<1> DEFINE left == KeysTo!sent(channels, {active}, <<"leave">>)
           had == i \in down[c]
<1>1. c \in RelayClients /\ RelayButton \notin RelayKeys
  BY DEF RelayTyped, KeysTo!TypeOK, KeysTo!KeyRelayAssumption
<1>2. <<"enter">> \in ClientMessage /\ <<"leave">> \in ClientMessage
  BY DEF ClientMessage
<1>3. /\ left \in [RelayClients -> Seq(ClientMessage)]
      /\ left[c] = IF c = active THEN Append(channels[c], <<"leave">>) ELSE channels[c]
  BY <1>1, <1>2, SentTyped
<1>4. r_toClient' = KeysTo!sent(left, {s}, <<"enter">>)
  BY DEF KeysTo!switchScreen
<1> HIDE DEF left
<1>5. r_toClient'[c] = IF c = s THEN Append(left[c], <<"enter">>) ELSE left[c]
  <2>1. ASSUME NEW ch \in [RelayClients -> Seq(ClientMessage)]
        PROVE  KeysTo!sent(ch, {s}, <<"enter">>)[c] = IF c = s THEN Append(ch[c], <<"enter">>) ELSE ch[c]
    BY <1>1 DEF KeysTo!sent
  <2>2. QED
    BY <1>3, <1>4, <2>1
<1>6. MayLast(r_toClient'[c], <<"down", i>>, Ends(i), had) /\ had \in BOOLEAN
  BY DEF MayHold, Ends
<1>7. <<"enter">> # <<"down", i>> /\ <<"leave">> # <<"down", i>>
  OBVIOUS
<1>8. channels[c] \in Seq(ClientMessage) /\ left[c] \in Seq(ClientMessage)
  BY <1>1, <1>3
<1> HIDE DEF had
<1>9. MayLast(left[c], <<"down", i>>, Ends(i), had)
  BY <1>2, <1>5, <1>6, <1>7, <1>8, HoldsBefore
<1>10. MayLast(channels[c], <<"down", i>>, Ends(i), had)
  BY <1>2, <1>3, <1>6, <1>7, <1>8, <1>9, HoldsBefore
<1>11. ASSUME c = active, i # RelayButton PROVE FALSE
  <2>1. <<"leave">> \in Ends(i)
    BY <1>11 DEF Ends
  <2>2. QED
    BY <1>2, <1>3, <1>6, <1>8, <1>9, <1>11, <2>1, EndsHold
<1>12. QED
  BY <1>10, <1>11 DEF had

LEMMA QuietAhead == ASSUME Quiet, NEW i \in KeysTo!Inputs, Ahead(i) PROVE Ahead(i)'
<1>1. ReleasePosted(i)' = ReleasePosted(i) /\ ReleaseEvent(i)' = ReleaseEvent(i)
  BY DEF ReleasePosted, ReleaseEvent, KeysTo!Posted, KeysTo!Happened
<1>2. QED
  BY <1>1, WatchedMessages DEF Quiet, SameAhead, Ahead

\* What was ahead is ahead still, unless it was handled.
LEMMA StillAhead ==
    ASSUME RelayTyped, r_queue # <<>>, NEW e \in QueueMessage,
           r_queue' = KeysTo!rest \/ r_queue' = Append(KeysTo!rest, e), held' = held,
           NEW i \in KeysTo!Inputs, Ahead(i), KeysTo!head \notin {ReleasePosted(i), ReleaseEvent(i)}
    PROVE  Ahead(i)'
<1>1. ReleasePosted(i)' = ReleasePosted(i) /\ ReleaseEvent(i)' = ReleaseEvent(i)
  BY DEF ReleasePosted, ReleaseEvent, KeysTo!Posted, KeysTo!Happened
<1>2. r_queue \in Seq(QueueMessage) /\ KeysTo!rest \in Seq(QueueMessage)
  BY HeadTyped DEF RelayTyped
<1>3. ASSUME NEW m, Has(r_queue, m), m # KeysTo!head PROVE Has(r_queue', m)
  <2>1. Has(KeysTo!rest, m)
    BY <1>2, <1>3, HasTail DEF KeysTo!rest, KeysTo!head
  <2>2. QED
    <3>1. CASE r_queue' = KeysTo!rest
      BY <2>1, <3>1
    <3>2. CASE r_queue' = Append(KeysTo!rest, e)
      BY <1>2, <2>1, <3>2, HasAppend
    <3>3. QED
      BY <3>1, <3>2
<1>4. QED
  BY <1>1, <1>3 DEF Ahead

LEMMA AheadAppend ==
    ASSUME RelayTyped, NEW e \in QueueMessage, r_queue' = Append(r_queue, e), NEW i \in KeysTo!Inputs,
           Ahead(i), i \in held => i \in held' \/ e = ReleasePosted(i)
    PROVE  Ahead(i)'
<1>1. ReleasePosted(i)' = ReleasePosted(i) /\ ReleaseEvent(i)' = ReleaseEvent(i)
  BY DEF ReleasePosted, ReleaseEvent, KeysTo!Posted, KeysTo!Happened
<1>2. r_queue \in Seq(QueueMessage)
  BY DEF RelayTyped
<1>3. \A m : Has(r_queue', m) <=> Has(r_queue, m) \/ e = m
  BY <1>2, HasAppend
<1>4. QED
  BY <1>1, <1>3 DEF Ahead

LEMMA HoldRelay ==
    ASSUME KeysTo!KeyRelayAssumption, RelayTyped, AheadInv, HoldInv, r_queue # <<>>,
           NEW what \in {"down", "up"}, NEW k \in KeysTo!Inputs, Relays(what, k)
    PROVE  HoldInv'
<1> SUFFICES ASSUME NEW c \in linked, NEW i \in KeysTo!Inputs, MayHold(c, i)'
             PROVE  <<c, i>> \in excused \/ (c \in GivenTo(i) /\ Ahead(i)')
  BY DEF HoldInv, Relays, GivenTo, KeysTo!Inputs, KeysTo!relayedTo
<1> DEFINE m == <<what, k>>
           had == i \in down[c]
<1>1. /\ r_queue' = KeysTo!rest /\ held' = held /\ KeysTo!head = KeysTo!Happened(what, k)
      /\ r_toClient' = KeysTo!sent(r_toClient, GivenTo(k), m)
  BY DEF Relays
<1>2. c \in RelayClients /\ r_toClient \in [RelayClients -> Seq(ClientMessage)] /\ r_queue \in Seq(QueueMessage)
  BY DEF RelayTyped, KeysTo!TypeOK
<1>3. m \in ClientMessage
  BY DEF ClientMessage
<1>4. r_toClient'[c] = IF c \in GivenTo(k) THEN Append(r_toClient[c], m) ELSE r_toClient[c]
  BY <1>1, <1>2, <1>3, SentTyped
<1>5. MayLast(r_toClient'[c], <<"down", i>>, Ends(i), had) /\ had \in BOOLEAN
  BY DEF MayHold, Ends, Relays
<1> HIDE DEF had, m
<1>6. KeysTo!head = ReleasePosted(i) => FALSE
  BY <1>1 DEF ReleasePosted, KeysTo!Posted, KeysTo!Happened
<1>7. KeysTo!head = ReleaseEvent(i) => what = "up" /\ i = k
  BY <1>1 DEF ReleaseEvent, KeysTo!Happened
<1>8. CASE MayHold(c, i) /\ ~(what = "up" /\ i = k)
  <2>1. <<c, i>> \in excused \/ (c \in GivenTo(i) /\ Ahead(i))
    BY <1>8 DEF HoldInv
  <2>2. Ahead(i) => Ahead(i)'
    BY <1>1, <1>6, <1>7, <1>8, StillAhead, MarkMessage
  <2>3. QED
    BY <2>1, <2>2
<1>9. CASE what = "up" /\ i = k
  <2>1. m \in Ends(i)
    BY <1>9 DEF Ends, m
  <2>2. c \notin GivenTo(k)
    BY <1>2, <1>3, <1>4, <1>5, <2>1, EndsHold
  <2>3. MayHold(c, i)
    BY <1>4, <1>5, <2>2 DEF MayHold, had
  <2>4. QED
    BY <1>9, <2>2, <2>3 DEF HoldInv
<1>10. CASE what = "down" /\ i = k /\ c \in GivenTo(k)
  <2>1. KeysTo!head = PressEvent(i)
    BY <1>1, <1>10 DEF PressEvent
  <2> DEFINE has == NotLost(i) \/ Has(r_queue, ReleasePosted(i))
  <2>2. Follows(r_queue, PressEvent(i), ReleaseEvent(i), has) /\ has \in BOOLEAN
    BY NotLostBoolean DEF AheadInv
  <2> HIDE DEF has
  <2>3. has \/ Has(KeysTo!rest, ReleaseEvent(i))
    BY <1>2, <2>1, <2>2, FollowsTail DEF KeysTo!head, KeysTo!rest
  <2>4. Has(r_queue, ReleasePosted(i)) => Has(KeysTo!rest, ReleasePosted(i))
    BY <1>2, <1>6, HasTail DEF KeysTo!head, KeysTo!rest
  <2>5. i \in held \/ Forgiven(i) \/ Has(KeysTo!rest, ReleasePosted(i)) \/ Has(KeysTo!rest, ReleaseEvent(i))
    BY <2>3, <2>4 DEF has, NotLost
  <2>6. Forgiven(i) => <<c, i>> \in excused
    BY <1>2 DEF Forgiven
  <2>7. ReleasePosted(i)' = ReleasePosted(i) /\ ReleaseEvent(i)' = ReleaseEvent(i)
    BY DEF ReleasePosted, ReleaseEvent, KeysTo!Posted, KeysTo!Happened
  <2>8. QED
    BY <1>1, <1>10, <2>5, <2>6, <2>7 DEF Ahead
<1>11. CASE ~(i = k /\ (what = "up" \/ c \in GivenTo(k)))
  <2>1. MayHold(c, i)
    <3>1. CASE c \notin GivenTo(k)
      BY <1>4, <1>5, <3>1 DEF MayHold, had
    <3>2. CASE c \in GivenTo(k)
      <4>1. m # <<"down", i>>
        BY <1>11, <3>2 DEF m
      <4>2. r_toClient[c] \in Seq(ClientMessage)
        BY <1>2
      <4>3. MayLast(r_toClient[c], <<"down", i>>, Ends(i), had)
        BY <1>3, <1>4, <1>5, <3>2, <4>1, <4>2, HoldsBefore
      <4>4. QED
        BY <4>3 DEF MayHold, had
    <3>3. QED
      BY <3>1, <3>2
  <2>2. QED
    BY <1>8, <1>11, <2>1
<1>12. QED
  BY <1>9, <1>10, <1>11

LEMMA HoldAfterSwitch ==
    ASSUME KeysTo!KeyRelayAssumption, RelayTyped, HoldInv, r_queue # <<>>, KeysTo!Switch PROVE HoldInv'
<1>1. Quiet
  BY QuietServes DEF QuietServe
<1>2. UNCHANGED <<held, r_clients, linked, serverKeys, down>> /\ excused \subseteq excused'
  BY <1>1 DEF Quiet
<1>3. UNCHANGED <<broadcasting, targets>>
  BY DEF KeysTo!Switch
<1>4. \A i \in KeysTo!Inputs : Ahead(i) => Ahead(i)'
  BY <1>1, QuietAhead
<1>5. CASE UNCHANGED <<active, r_toClient>>
  <2>1. \A i : GivenTo(i)' = GivenTo(i)
    BY <1>2, <1>3, <1>5 DEF GivenTo, KeysTo!relayedTo
  <2>2. QED
    BY <1>2, <1>4, <1>5, <2>1, HoldKept
<1>6. ASSUME KeysTo!switchScreen(KeysTo!head.arg, KeysTo!rest, r_toClient), KeysTo!head.arg # active,
             excused' = excused \cup KeysTo!KeptBySwitch(KeysTo!head.arg)
      PROVE  HoldInv'
  <2> SUFFICES ASSUME NEW c \in linked, NEW i \in KeysTo!Inputs, MayHold(c, i)'
               PROVE  <<c, i>> \in excused' \/ (c \in GivenTo(i)' /\ Ahead(i)')
    BY <1>2 DEF HoldInv, KeysTo!Inputs
  <2>1. /\ r_toClient \in [RelayClients -> Seq(ClientMessage)] /\ c \in RelayClients
        /\ RelayPrimary \notin RelayClients /\ RelayButton \notin RelayKeys
    BY DEF RelayTyped, KeysTo!TypeOK, KeysTo!KeyRelayAssumption
  <2>2. KeysTo!head.arg \in KeysTo!Screens
    <3>1. KeysTo!head \in QueueMessage
      BY HeadTyped DEF RelayTyped
    <3>2. QED
      BY <3>1, MessageTypes DEF KeysTo!Switch
  <2>3. MayHold(c, i) /\ (c = active => i = RelayButton)
    BY <1>2, <1>6, <2>1, <2>2, HoldSwitch DEF MayHold
  <2>4. <<c, i>> \in excused \/ (c \in GivenTo(i) /\ Ahead(i))
    BY <2>3 DEF HoldInv
  <2>5. CASE c = active
    <3>1. RelayButton \in KeysTo!Given(c)
      BY <2>1, <2>3, <2>5, MayHoldGiven
    <3>2. <<c, RelayButton>> \in KeysTo!KeptBySwitch(KeysTo!head.arg)
      BY <1>6, <2>1, <2>5, <3>1 DEF KeysTo!KeptBySwitch, KeysTo!ButtonKept
    <3>3. QED
      BY <1>6, <2>3, <2>5, <3>2
  <2>6. CASE c # active
    <3>1. c \in GivenTo(i) => broadcasting /\ i # RelayButton /\ c \in GivenTo(i)'
      BY <1>2, <1>3, <2>6 DEF GivenTo, KeysTo!relayedTo
    <3>2. QED
      BY <1>2, <1>4, <2>4, <3>1
  <2>7. QED
    BY <2>5, <2>6
<1>7. CASE KeysTo!switchScreen(KeysTo!head.arg, KeysTo!rest, r_toClient) /\ KeysTo!head.arg = active
  BY <1>5, <1>7 DEF KeysTo!switchScreen
<1>8. QED
  BY <1>5, <1>6, <1>7 DEF KeysTo!Switch, KeysTo!refused

LEMMA HoldAfterEmergency ==
    ASSUME KeysTo!KeyRelayAssumption, RelayTyped, HoldInv, r_queue # <<>>, KeysTo!emergencyReturn PROVE HoldInv'
<1>1. Quiet
  BY QuietServes DEF QuietServe
<1>2. UNCHANGED <<held, r_clients, linked, serverKeys, down>> /\ excused \subseteq excused'
  BY <1>1 DEF Quiet
<1>3. \A i \in KeysTo!Inputs : Ahead(i) => Ahead(i)'
  BY <1>1, QuietAhead
<1> DEFINE channels == KeysTo!sent(r_toClient, {active}, <<"up", RelayButton>>)
<1>4. KeysTo!switchScreen(RelayPrimary, KeysTo!rest, channels)
  BY DEF KeysTo!emergencyReturn
<1>5. KeysTo!KeysKept(KeysTo!relayedTo \ {active}) \subseteq excused'
  BY DEF KeysTo!emergencyReturn
<1>6. RelayPrimary \notin RelayClients /\ RelayButton \notin RelayKeys /\ RelayPrimary \in KeysTo!Screens
  BY DEF KeysTo!KeyRelayAssumption, KeysTo!Screens
<1>7. <<"up", RelayButton>> \in ClientMessage /\ RelayButton \in KeysTo!Inputs
  BY DEF ClientMessage, KeysTo!Inputs
<1>8. r_toClient \in [RelayClients -> Seq(ClientMessage)] /\ channels \in [RelayClients -> Seq(ClientMessage)]
  BY <1>7, SentTyped DEF RelayTyped
<1> SUFFICES ASSUME NEW c \in linked, NEW i \in KeysTo!Inputs, MayHold(c, i)'
             PROVE  <<c, i>> \in excused' \/ (c \in GivenTo(i)' /\ Ahead(i)')
  BY <1>2 DEF HoldInv, KeysTo!Inputs
<1>9. c \in RelayClients
  BY DEF RelayTyped, KeysTo!TypeOK
<1>10. channels[c] = IF c = active THEN Append(r_toClient[c], <<"up", RelayButton>>) ELSE r_toClient[c]
  BY <1>9 DEF KeysTo!sent
<1>11. i = RelayButton \/ i \in RelayKeys
  BY DEF KeysTo!Inputs
<1> HIDE DEF channels
\* The screen with the pointer let go of everything.
<1>12. CASE active # RelayPrimary
  <2> DEFINE had == i \in down[c]
  <2>1. MayLast(channels[c], <<"down", i>>, Ends(i), had) /\ (c = active => i = RelayButton)
    BY <1>2, <1>4, <1>6, <1>8, <1>12, HoldSwitch
  <2>2. had \in BOOLEAN /\ r_toClient[c] \in Seq(ClientMessage)
    BY <1>8, <1>9
  <2> HIDE DEF had
  <2>3. c # active
    <3> SUFFICES ASSUME c = active PROVE FALSE
      OBVIOUS
    <3>1. <<"up", RelayButton>> \in Ends(i) /\ i = RelayButton
      BY <2>1 DEF Ends
    <3>2. ~MayLast(Append(r_toClient[c], <<"up", RelayButton>>), <<"down", i>>, Ends(i), had)
      BY <1>7, <2>2, <3>1, EndsHold
    <3>3. QED
      BY <1>10, <2>1, <3>2
  <2>4. MayHold(c, i)
    BY <1>10, <2>1, <2>3 DEF MayHold, had
  <2>5. <<c, i>> \in excused \/ c \in GivenTo(i)
    BY <2>4 DEF HoldInv
  <2>6. i \in KeysTo!Given(c)
    BY <1>9, <2>4, MayHoldGiven
  <2>7. c \in GivenTo(i) => <<c, i>> \in KeysTo!KeysKept(KeysTo!relayedTo \ {active})
    BY <1>11, <2>3, <2>6 DEF GivenTo, KeysTo!KeysKept
  <2>8. QED
    BY <1>2, <1>5, <2>5, <2>7
<1>13. CASE active = RelayPrimary
  <2>1. r_toClient'[c] = r_toClient[c]
    BY <1>4, <1>6, <1>9, <1>10, <1>13 DEF KeysTo!switchScreen
  <2>2. MayHold(c, i)
    BY <1>2, <2>1 DEF MayHold, Ends
  <2>3. <<c, i>> \in excused \/ c \in GivenTo(i)
    BY <2>2 DEF HoldInv
  <2>4. i \in KeysTo!Given(c)
    BY <1>9, <2>2, MayHoldGiven
  <2>5. c \in GivenTo(i) => <<c, i>> \in KeysTo!KeysKept(KeysTo!relayedTo \ {active})
    BY <1>6, <1>9, <1>11, <1>13, <2>4 DEF GivenTo, KeysTo!KeysKept
  <2>6. QED
    BY <1>2, <1>5, <2>3, <2>5
<1>14. QED
  BY <1>12, <1>13

\* A client has handled a message.
LEMMA HoldAfterTake ==
    ASSUME KeysTo!KeyRelayAssumption, RelayTyped, KnownInv, HoldInv, NEW c \in RelayClients, KeysTo!Take(c),
           excused \subseteq excused',
           \A d \in RelayClients \ {c} : down'[d] = down[d],
           \A i \in down'[c] : \/ KeysTo!got(c) = <<"down", i>> \/ <<c, i>> \in excused'
                               \/ (i \in down[c] /\ KeysTo!got(c) \notin Ends(i))
    PROVE  HoldInv'
<1>1. UNCHANGED <<r_queue, held, active, r_clients, broadcasting, targets, linked>>
  BY DEF KeysTo!Take, KeysTo!hostVars, KeysTo!serverVars
<1> SUFFICES ASSUME NEW d \in linked, NEW i \in KeysTo!Inputs, MayHold(d, i)'
             PROVE  <<d, i>> \in excused' \/ (d \in GivenTo(i) /\ Ahead(i))
  BY <1>1 DEF HoldInv, GivenTo, KeysTo!relayedTo, KeysTo!Inputs, Ahead, ReleasePosted, ReleaseEvent,
     KeysTo!Posted, KeysTo!Happened
<1>2. d \in RelayClients /\ r_toClient \in [RelayClients -> Seq(ClientMessage)]
  BY DEF RelayTyped, KeysTo!TypeOK
<1>3. CASE d # c
  <2>1. r_toClient'[d] = r_toClient[d] /\ down'[d] = down[d]
    BY <1>2, <1>3 DEF KeysTo!Take
  <2>2. MayHold(d, i)
    BY <2>1 DEF MayHold, Ends
  <2>3. QED
    BY <2>2 DEF HoldInv
<1>4. CASE d = c /\ <<c, i>> \notin excused'
  <2> DEFINE had == i \in down[c]
             has == i \in down'[c]
  <2>1. r_toClient[c] \in Seq(ClientMessage) /\ r_toClient[c] # <<>> /\ r_toClient'[c] = Tail(r_toClient[c])
    BY <1>2, <1>4 DEF KeysTo!Take
  <2>2. MayLast(Tail(r_toClient[c]), <<"down", i>>, Ends(i), has)
    BY <1>4, <2>1 DEF MayHold, Ends
  <2>3. has => Head(r_toClient[c]) = <<"down", i>> \/ (had /\ Head(r_toClient[c]) \notin Ends(i))
    BY <1>4 DEF KeysTo!got
  <2>4. had \in BOOLEAN /\ has \in BOOLEAN
    OBVIOUS
  <2> HIDE DEF had, has
  <2>5. MayLast(r_toClient[c], <<"down", i>>, Ends(i), had)
    BY <2>1, <2>2, <2>3, <2>4, LastsTail
  <2>6. MayHold(c, i)
    BY <2>5 DEF MayHold, had
  <2>7. QED
    BY <1>4, <2>6 DEF HoldInv
<1>5. QED
  BY <1>3, <1>4

LEMMA HoldAfterUser ==
    ASSUME KeysTo!KeyRelayAssumption, RelayTyped, HoldInv, KeysTo!User PROVE HoldInv'
<1>1. UNCHANGED <<active, r_clients, broadcasting, targets, linked, down, r_toClient, excused>>
  BY DEF KeysTo!User, KeysTo!Press, KeysTo!Release, KeysTo!Motion, KeysTo!HotKey, KeysTo!Doing,
     KeysTo!serverVars, KeysTo!clientVars
<1>2. \A i : GivenTo(i)' = GivenTo(i)
  BY <1>1 DEF GivenTo, KeysTo!relayedTo
<1>3. ASSUME NEW i \in KeysTo!Inputs, Ahead(i) PROVE Ahead(i)'
  <2>1. ASSUME QuietHost PROVE Ahead(i)'
    BY <1>3, <2>1, QuietUser, QuietAhead
  <2>2. ASSUME NEW j \in KeysTo!Inputs, KeysTo!Press(j) PROVE Ahead(i)'
    <3>1. r_queue' = Append(r_queue, PressPosted(j)) /\ held' = held \cup {j} /\ PressPosted(j) \in QueueMessage
      BY <2>2, WatchedMessages DEF KeysTo!Press, PressPosted, Watched
    <3>2. QED
      BY <1>3, <3>1, AheadAppend
  <2>3. ASSUME NEW j \in KeysTo!Inputs, KeysTo!Release(j) PROVE Ahead(i)'
    <3>1. r_queue' = Append(r_queue, ReleasePosted(j)) /\ held' = held \ {j} /\ ReleasePosted(j) \in QueueMessage
      BY <2>3, WatchedMessages DEF KeysTo!Release, ReleasePosted, Watched
    <3>2. i \in held => i \in held' \/ ReleasePosted(j) = ReleasePosted(i)
      BY <3>1
    <3>3. QED
      BY <1>3, <3>1, <3>2, AheadAppend
  <2>4. QED
    BY <2>1, <2>2, <2>3 DEF KeysTo!User, QuietHost
<1>4. QED
  BY <1>1, <1>2, <1>3, HoldKept

LEMMA HoldAfterServe ==
    ASSUME KeysTo!KeyRelayAssumption, RelayTyped, GoneInv, AheadInv, HoldInv, KeysTo!Serve PROVE HoldInv'
<1>1. r_queue # <<>> /\ KeysTo!head \in QueueMessage /\ linked \subseteq RelayClients
  BY HeadTyped DEF KeysTo!Serve, RelayTyped, KeysTo!TypeOK
<1>2. ASSUME KeysTo!onMouseMove \/ KeysTo!onHotKey \/ KeysTo!onMark PROVE HoldInv'
  <2>1. /\ Quiet /\ UNCHANGED <<active, broadcasting, targets, r_toClient>>
    BY <1>1, <1>2, QuietServes DEF QuietServe, KeysTo!onMouseMove, KeysTo!onHotKey, KeysTo!onMark, KeysTo!serverVars
  <2>2. \A i : GivenTo(i)' = GivenTo(i)
    BY <2>1 DEF GivenTo, KeysTo!relayedTo, Quiet
  <2>3. \A i \in KeysTo!Inputs : Ahead(i) => Ahead(i)'
    BY <2>1, QuietAhead
  <2>4. UNCHANGED <<linked, down>> /\ excused \subseteq excused'
    BY <2>1 DEF Quiet
  <2>5. QED
    BY <2>1, <2>2, <2>3, <2>4, HoldKept
<1>3. ASSUME KeysTo!handleKeyboardBroadcastEvent PROVE HoldInv'
  <2>1. Quiet /\ UNCHANGED <<active, r_toClient>>
    BY <1>1, <1>3, QuietServes DEF QuietServe, KeysTo!handleKeyboardBroadcastEvent
  <2>2. KeysTo!KeysKept(KeysTo!relayedTo \ KeysTo!relayedTo') \subseteq excused'
    BY <1>3 DEF KeysTo!handleKeyboardBroadcastEvent
  <2>3. \A i \in KeysTo!Inputs : Ahead(i) => Ahead(i)'
    BY <2>1, QuietAhead
  <2>4. UNCHANGED <<linked, down>> /\ excused \subseteq excused'
    BY <2>1 DEF Quiet
  <2>5. ASSUME NEW c \in linked, NEW i \in KeysTo!Inputs, MayHold(c, i)'
        PROVE  <<c, i>> \in excused' \/ (c \in GivenTo(i)' /\ Ahead(i)')
    <3>1. MayHold(c, i)
      BY <2>1, <2>4, <2>5 DEF MayHold, Ends
    <3>2. <<c, i>> \in excused \/ (c \in GivenTo(i) /\ Ahead(i))
      BY <3>1 DEF HoldInv
    <3>3. i \in KeysTo!Given(c)
      BY <1>1, <3>1, MayHoldGiven
    <3>4. ASSUME c \in GivenTo(i), c \notin GivenTo(i)' PROVE <<c, i>> \in excused'
      <4>1. i \in RelayKeys /\ c \in KeysTo!relayedTo \ KeysTo!relayedTo'
        BY <2>1, <3>4 DEF GivenTo, KeysTo!Inputs
      <4>2. QED
        BY <2>2, <3>3, <4>1 DEF KeysTo!KeysKept
    <3>5. QED
      BY <2>3, <2>4, <3>2, <3>4
  <2>6. QED
    BY <2>4, <2>5 DEF HoldInv, KeysTo!Inputs
<1>4. ASSUME NEW what \in {"down", "up"}, NEW k \in KeysTo!Inputs, Handles(what, k) PROVE HoldInv'
  <2>1. /\ UNCHANGED <<held, active, r_clients, broadcasting, targets, r_toClient, linked, down>>
        /\ excused \subseteq excused' /\ KeysTo!head = KeysTo!Posted(what, k)
    BY <1>4 DEF Handles, Waited, PassedOn, Ignored
  <2>2. \A i : GivenTo(i)' = GivenTo(i)
    BY <2>1 DEF GivenTo, KeysTo!relayedTo
  <2>3. \A i : /\ KeysTo!head = ReleasePosted(i) => i = k /\ what = "up"
               /\ KeysTo!head # ReleaseEvent(i)
    BY <2>1 DEF ReleasePosted, ReleaseEvent, KeysTo!Posted, KeysTo!Happened
  <2>4. KeysTo!Happened(what, k) \in QueueMessage /\ ReleasePosted(k) \in QueueMessage
    BY KeyMessages DEF ReleasePosted
  <2>5. \E e \in QueueMessage : r_queue' = KeysTo!rest \/ r_queue' = Append(KeysTo!rest, e)
    BY <1>4, <2>4 DEF Handles, Waited, PassedOn, Ignored
  <2>6. ASSUME NEW c \in linked, NEW i \in KeysTo!Inputs, Ahead(i) PROVE Ahead(i)' \/ <<c, i>> \in excused'
    <3>1. CASE ~(i = k /\ what = "up")
      BY <1>1, <2>1, <2>3, <2>5, <2>6, <3>1, StillAhead
    <3>2. CASE i = k /\ what = "up"
      <4>1. CASE Waited(k) \/ PassedOn(what, k)
        <5>1. Has(r_queue', ReleasePosted(k)) \/ Has(r_queue', ReleaseEvent(k))
          <6>1. /\ KeysTo!rest \in Seq(QueueMessage) /\ ReleaseEvent(k) \in QueueMessage
                /\ ReleaseEvent(k) = KeysTo!Happened(what, k)
            BY <1>1, <2>4, <3>2, HeadTyped DEF RelayTyped, ReleaseEvent
          <6>2. /\ Has(Append(KeysTo!rest, ReleasePosted(k)), ReleasePosted(k))
                /\ Has(Append(KeysTo!rest, ReleaseEvent(k)), ReleaseEvent(k))
            BY <2>4, <6>1, HasAppend
          <6>3. QED
            BY <4>1, <6>1, <6>2 DEF Waited, PassedOn
        <5>2. ReleasePosted(i)' = ReleasePosted(i) /\ ReleaseEvent(i)' = ReleaseEvent(i)
          BY DEF ReleasePosted, ReleaseEvent, KeysTo!Posted, KeysTo!Happened
        <5>3. QED
          BY <3>2, <5>1, <5>2 DEF Ahead
      <4>2. CASE Ignored(what, k)
        BY <1>1, <3>2, <4>2 DEF Ignored
      <4>3. QED
        BY <1>4, <4>1, <4>2 DEF Handles
    <3>3. QED
      BY <3>1, <3>2
  <2>7. QED
    BY <2>1, <2>2, <2>6, HoldKept
<1>5. ASSUME KeysTo!forceLeaveClient PROVE HoldInv'
  <2> DEFINE a == KeysTo!head.arg
  <2>1. KeysTo!head = GoneEvent(a) /\ a \in RelayClients
    BY <1>1, <1>5, MessageTypes DEF KeysTo!forceLeaveClient, GoneEvent, KeysTo!Happened
  <2>2. Has(r_queue, GoneEvent(a))
    <3>1. r_queue \in Seq(QueueMessage)
      BY DEF RelayTyped
    <3>2. QED
      BY <1>1, <2>1, <3>1, HasTail DEF KeysTo!head
  <2>3. a \notin linked
    BY <2>1, <2>2 DEF GoneInv
  <2>4. /\ r_clients' = r_clients \ {a} /\ active' = IF active = a THEN RelayPrimary ELSE active
        /\ UNCHANGED <<held, broadcasting, targets, r_toClient, linked, down>>
    BY <1>5 DEF KeysTo!forceLeaveClient, KeysTo!clientVars
  <2>5. excused \subseteq excused' /\ (r_queue' = KeysTo!rest \/ r_queue' = Append(KeysTo!rest, KeysTo!Mark))
    BY <1>5 DEF KeysTo!forceLeaveClient, KeysTo!nextMark
  <2>6. \A c \in linked, i \in KeysTo!Inputs : c \in GivenTo(i) => c \in GivenTo(i)'
    BY <2>3, <2>4 DEF GivenTo, KeysTo!relayedTo
  <2>7. ASSUME NEW i \in KeysTo!Inputs, Ahead(i) PROVE Ahead(i)'
    <3>1. KeysTo!head \notin {ReleasePosted(i), ReleaseEvent(i)}
      BY <2>1, MessagesDiffer
    <3>2. QED
      BY <1>1, <2>4, <2>5, <2>7, <3>1, StillAhead, MarkMessage
  <2>8. QED
    BY <2>4, <2>5, <2>6, <2>7, HoldKept
<1>6. ASSUME KeysTo!leavePrimary PROVE HoldInv'
  <2>1. UNCHANGED <<r_queue, held, active, r_clients, broadcasting, targets, r_toClient, linked, down, excused>>
    BY <1>6 DEF KeysTo!leavePrimary, KeysTo!serverVars, KeysTo!clientVars
  <2>2. \A i : GivenTo(i)' = GivenTo(i)
    BY <2>1 DEF GivenTo, KeysTo!relayedTo
  <2>3. \A i \in KeysTo!Inputs : Ahead(i) => Ahead(i)'
    BY <2>1 DEF Ahead, ReleasePosted, ReleaseEvent, KeysTo!Posted, KeysTo!Happened
  <2>4. QED
    BY <2>1, <2>2, <2>3, HoldKept
<1>7. ASSUME Purges PROVE HoldInv'
  <2>1. /\ UNCHANGED <<held, active, r_clients, broadcasting, targets, r_toClient, linked, down>>
        /\ excused \subseteq excused' /\ r_queue' = KeysTo!Purged(r_queue)
    BY <1>7 DEF Purges
  <2>2. \A i : GivenTo(i)' = GivenTo(i)
    BY <2>1 DEF GivenTo, KeysTo!relayedTo
  <2>3. ASSUME NEW c \in linked, NEW i \in KeysTo!Inputs, Ahead(i) PROVE Ahead(i)' \/ <<c, i>> \in excused'
    <3>1. CASE i \in held
      BY <2>1, <3>1 DEF Ahead
    <3>2. CASE Has(r_queue, ReleasePosted(i))
      BY <1>1, <1>7, <3>2, PurgeForgives
    <3>3. CASE Has(r_queue, ReleaseEvent(i))
      <4>1. Has(r_queue', ReleaseEvent(i)) /\ ReleaseEvent(i)' = ReleaseEvent(i)
        BY <2>1, <3>3, AfterPurge DEF RelayTyped, ReleaseEvent, KeysTo!Happened
      <4>2. QED
        BY <4>1 DEF Ahead
    <3>4. QED
      BY <2>3, <3>1, <3>2, <3>3 DEF Ahead
  <2>4. QED
    BY <2>1, <2>2, <2>3, HoldKept
<1>8. QED
  BY <1>1, <1>2, <1>3, <1>4, <1>5, <1>6, <1>7, HoldRelay, HoldAfterSwitch, HoldAfterEmergency, KeyHandled, KeyRelayed,
     Purging DEF KeysTo!Serve

LEMMA HoldAfterClient ==
    ASSUME KeysTo!KeyRelayAssumption, RelayTyped, GoneInv, KnownInv, HoldInv, KeysTo!Client PROVE HoldInv'
<1>1. /\ serverKeys \in [RelayClients -> SUBSET RelayKeys] /\ linked \subseteq RelayClients
      /\ down \in [RelayClients -> SUBSET KeysTo!Inputs] /\ RelayButton \notin RelayKeys
      /\ r_queue \in Seq(QueueMessage) /\ r_toClient \in [RelayClients -> Seq(ClientMessage)]
  BY DEF RelayTyped, KeysTo!TypeOK, KeysTo!KeyRelayAssumption
<1>2. \A i : <<"enter">> \notin Ends(i) /\ (i = RelayButton => <<"leave">> \notin Ends(i))
  BY DEF Ends
<1>3. ASSUME NEW c \in RelayClients, r_toClient[c] # <<>>
      PROVE  /\ KeysTo!got(c) \in ClientMessage
             /\ KeysTo!got(c) \in {<<"enter">>, <<"leave">>}
                   \/ KeysTo!got(c) = <<KeysTo!got(c)[1], KeysTo!got(c)[2]>>
  <2>1. KeysTo!got(c) \in ClientMessage
    BY <1>1, <1>3, Behind DEF KeysTo!got
  <2>2. QED
    BY <2>1 DEF ClientMessage
<1>4. ASSUME NEW c \in RelayClients, KeysTo!enter(c) PROVE HoldInv'
  <2>1. down' = down /\ excused' = excused /\ KeysTo!got(c) = <<"enter">> /\ KeysTo!Take(c)
    BY <1>4 DEF KeysTo!enter
  <2>2. QED
    BY <1>2, <2>1, HoldAfterTake
<1>5. ASSUME NEW c \in RelayClients, KeysTo!leave(c) PROVE HoldInv'
  <2>1. /\ excused \subseteq excused' /\ KeysTo!got(c) = <<"leave">> /\ KeysTo!Take(c)
        /\ \A d \in RelayClients \ {c} : down'[d] = down[d]
    BY <1>1, <1>5 DEF KeysTo!leave, KeysTo!fakeAllKeysUp
  <2>2. ASSUME NEW i \in down'[c]
        PROVE  <<c, i>> \in excused' \/ (i \in down[c] /\ KeysTo!got(c) \notin Ends(i))
    <3>1. i \in down[c] /\ (i \notin serverKeys[c] \/ excused' = excused \cup ({c} \X serverKeys[c]))
      BY <1>1, <1>5, <2>2 DEF KeysTo!leave, KeysTo!fakeAllKeysUp
    <3>2. <<c, i>> \in excused \/ i = RelayButton \/ i \in serverKeys[c]
      BY <3>1 DEF KnownInv
    <3>3. QED
      BY <1>2, <2>1, <3>1, <3>2
  <2>3. QED
    BY <2>1, <2>2, HoldAfterTake
<1>6. ASSUME NEW c \in RelayClients, KeysTo!fakeKeyDown(c) PROVE HoldInv'
  <2> DEFINE k == KeysTo!got(c)[2]
  <2>1. /\ excused' = excused /\ KeysTo!got(c)[1] = "down" /\ KeysTo!Take(c) /\ r_toClient[c] # <<>>
        /\ (down' = [down EXCEPT ![c] = down[c] \cup {k}] \/ down' = down)
    BY <1>6 DEF KeysTo!fakeKeyDown, KeysTo!Take
  <2>2. KeysTo!got(c) = <<"down", k>>
    BY <1>3, <2>1
  <2> HIDE DEF k
  <2>3. (\A d \in RelayClients \ {c} : down'[d] = down[d]) /\ (\A i \in down'[c] : i = k \/ i \in down[c])
    BY <1>1, <2>1
  <2>4. \A i : KeysTo!got(c) \notin Ends(i)
    BY <2>2 DEF Ends
  <2>5. QED
    BY <2>1, <2>2, <2>3, <2>4, HoldAfterTake
<1>7. ASSUME NEW c \in RelayClients, KeysTo!fakeKeyUp(c) PROVE HoldInv'
  <2> DEFINE k == KeysTo!got(c)[2]
  <2>1. /\ excused' = excused /\ KeysTo!got(c)[1] = "up" /\ KeysTo!Take(c) /\ r_toClient[c] # <<>> /\ k \in RelayKeys
        /\ IF k \in serverKeys[c] THEN down' = [down EXCEPT ![c] = down[c] \ {k}] ELSE down' = down
    BY <1>7 DEF KeysTo!fakeKeyUp, KeysTo!Take
  <2>2. KeysTo!got(c) = <<"up", k>>
    BY <1>3, <2>1
  <2> HIDE DEF k
  <2>3. \A d \in RelayClients \ {c} : down'[d] = down[d]
    BY <1>1, <2>1
  <2>4. \A i \in down'[c] : i \in down[c] /\ (i = k => k \notin serverKeys[c])
    BY <1>1, <2>1
  <2>5. \A i \in down'[c] : <<c, i>> \in excused \/ KeysTo!got(c) \notin Ends(i)
    BY <1>1, <2>1, <2>2, <2>4 DEF KnownInv, Ends
  <2>6. QED
    BY <2>1, <2>3, <2>4, <2>5, HoldAfterTake
<1>8. ASSUME NEW c \in RelayClients, KeysTo!fakeMouseButton(c) PROVE HoldInv'
  <2>1. /\ excused' = excused /\ KeysTo!Take(c) /\ r_toClient[c] # <<>> /\ KeysTo!got(c)[2] = RelayButton
        /\ KeysTo!got(c)[1] \in {"down", "up"}
        /\ down' = [down EXCEPT ![c] = IF KeysTo!got(c)[1] = "down" THEN down[c] \cup {RelayButton}
                                       ELSE down[c] \ {RelayButton}]
    BY <1>8 DEF KeysTo!fakeMouseButton, KeysTo!Take
  <2>2. KeysTo!got(c) = <<"down", RelayButton>> \/ KeysTo!got(c) = <<"up", RelayButton>>
    BY <1>3, <2>1
  <2>3. \A d \in RelayClients \ {c} : down'[d] = down[d]
    BY <1>1, <2>1
  <2>4. CASE KeysTo!got(c) = <<"down", RelayButton>>
    <3>1. \A i \in down'[c] : i = RelayButton \/ i \in down[c]
      BY <1>1, <2>1, <2>4
    <3>2. \A i : KeysTo!got(c) \notin Ends(i)
      BY <2>4 DEF Ends
    <3>3. QED
      BY <2>1, <2>3, <2>4, <3>1, <3>2, HoldAfterTake
  <2>5. CASE KeysTo!got(c) = <<"up", RelayButton>>
    <3>1. \A i \in down'[c] : i # RelayButton /\ i \in down[c]
      BY <1>1, <2>1, <2>5
    <3>2. \A i : i # RelayButton => KeysTo!got(c) \notin Ends(i)
      BY <2>5 DEF Ends
    <3>3. QED
      BY <2>1, <2>3, <3>1, <3>2, HoldAfterTake
  <2>6. QED
    BY <2>2, <2>4, <2>5
<1>9. ASSUME NEW c \in RelayClients, KeysTo!Lose(c) PROVE HoldInv'
  <2>1. /\ linked' = linked \ {c} /\ excused \subseteq excused' /\ r_queue' = Append(r_queue, GoneEvent(c))
        /\ r_toClient' = [r_toClient EXCEPT ![c] = <<>>]
        /\ UNCHANGED <<held, active, r_clients, broadcasting, targets>>
        /\ \A d \in RelayClients \ {c} : down'[d] = down[d]
    BY <1>1, <1>9 DEF KeysTo!Lose, KeysTo!hostVars, KeysTo!serverVars, GoneEvent
  <2>2. ASSUME NEW d \in linked', NEW i \in KeysTo!Inputs, MayHold(d, i)'
        PROVE  <<d, i>> \in excused' \/ (d \in GivenTo(i)' /\ Ahead(i)')
    <3>1. d \in linked /\ d # c /\ d \in RelayClients
      BY <1>1, <2>1, <2>2
    <3>2. r_toClient'[d] = r_toClient[d] /\ down'[d] = down[d]
      BY <1>1, <2>1, <3>1
    <3>3. MayHold(d, i)
      BY <2>2, <3>2 DEF MayHold, Ends
    <3>4. <<d, i>> \in excused \/ (d \in GivenTo(i) /\ Ahead(i))
      BY <3>1, <3>3 DEF HoldInv
    <3>5. GivenTo(i)' = GivenTo(i)
      BY <2>1 DEF GivenTo, KeysTo!relayedTo
    <3>6. Ahead(i) => Ahead(i)'
      BY <2>1, WatchedMessages, AheadAppend DEF Watched
    <3>7. QED
      BY <2>1, <3>4, <3>5, <3>6
  <2>3. QED
    BY <2>2 DEF HoldInv, KeysTo!Inputs
<1>10. ASSUME NEW c \in RelayClients, KeysTo!Rejoin(c) PROVE HoldInv'
  <2>1. /\ linked' = linked \cup {c} /\ c \notin linked /\ r_clients' = r_clients \cup {c}
        /\ UNCHANGED <<r_queue, held, active, broadcasting, targets, r_toClient, down, excused>>
    BY <1>10 DEF KeysTo!Rejoin, KeysTo!hostVars
  <2>2. ASSUME NEW d \in linked', NEW i \in KeysTo!Inputs, MayHold(d, i)'
        PROVE  <<d, i>> \in excused \/ (d \in GivenTo(i)' /\ Ahead(i))
    <3>1. MayHold(d, i)
      BY <2>1, <2>2 DEF MayHold, Ends
    <3>2. CASE d = c
      <4>1. r_toClient[c] = <<>>
        BY <2>1 DEF GoneInv
      <4>2. i \in down[c]
        BY <3>1, <3>2, <4>1 DEF MayHold, MayLast
      <4>3. QED
        BY <2>1, <3>2, <4>2 DEF KnownInv
    <3>3. CASE d \in linked
      BY <2>1, <3>1, <3>3 DEF HoldInv, GivenTo, KeysTo!relayedTo
    <3>4. QED
      BY <2>1, <2>2, <3>2, <3>3
  <2>3. QED
    BY <2>1, <2>2 DEF HoldInv, KeysTo!Inputs, Ahead, ReleasePosted, ReleaseEvent, KeysTo!Posted, KeysTo!Happened
<1>11. QED
  BY <1>4, <1>5, <1>6, <1>7, <1>8, <1>9, <1>10 DEF KeysTo!Client

------------------------------------------------------------------------------
RelayInv == RelayTyped /\ GoneInv /\ AheadInv /\ KnownInv /\ HostInv /\ HoldInv

LEMMA RelayInit == ASSUME KeysTo!KeyRelayAssumption, KeysTo!Init PROVE RelayInv
<1> USE DEF KeysTo!Init
<1>1. RelayTyped
  <2>1. <<>> \in Seq(QueueMessage) /\ <<>> \in Seq(ClientMessage)
    BY EmptySeq
  <2>2. r_toClient \in [RelayClients -> Seq(ClientMessage)]
    BY <2>1
  <2>3. KeysTo!TypeOK
    BY DEF KeysTo!TypeOK, KeysTo!Screens
  <2>4. QED
    BY <2>1, <2>2, <2>3 DEF RelayTyped
<1>2. Len(r_queue) = 0
  BY EmptySeq
<1>3. \A c \in RelayClients : r_toClient[c] = <<>> /\ Len(r_toClient[c]) = 0 /\ down[c] = {}
  BY EmptySeq
<1>4. GoneInv /\ AheadInv
  BY <1>2 DEF GoneInv, AheadInv, Once, Has, Follows
<1>5. KnownInv /\ HostInv
  BY <1>3 DEF KnownInv, HostInv
<1>6. HoldInv
  BY <1>3 DEF HoldInv, MayHold, MayLast
<1>7. QED
  BY <1>1, <1>4, <1>5, <1>6 DEF RelayInv

LEMMA RelayNext ==
    ASSUME KeysTo!KeyRelayAssumption, RelayInv, [KeysTo!Next]_relayVars PROVE RelayInv'
<1> USE DEF RelayInv
<1>1. RelayTyped' /\ GoneInv' /\ AheadInv' /\ KnownInv' /\ HostInv'
  BY RelayTypedNext, GoneNext, AheadNext, KnownNext, HostNext
<1>2. HoldInv'
  <2>1. CASE UNCHANGED relayVars
    BY <2>1 DEF relayVars, HoldInv, MayHold, Ends, GivenTo, KeysTo!relayedTo, Ahead, ReleasePosted, ReleaseEvent,
       KeysTo!Posted, KeysTo!Happened, KeysTo!Inputs
  <2>2. QED
    BY <2>1, HoldAfterUser, HoldAfterServe, HoldAfterClient DEF KeysTo!Next
<1>3. QED
  BY <1>1, <1>2

KeysGoUp == KeysTo!TypeOK /\ KeysTo!KeysLetGo /\ KeysTo!ButtonLetGo /\ KeysTo!HostKeysLetGo

LEMMA RelayHolds == ASSUME KeysTo!KeyRelayAssumption, RelayInv PROVE KeysGoUp
<1>1. RelayTyped /\ HoldInv /\ HostInv /\ r_queue \in Seq(QueueMessage)
  BY DEF RelayInv, RelayTyped
<1>2. \A m : Has(r_queue, m) => KeysTo!InQueue(m)
  BY <1>1, LenProperties DEF Has, KeysTo!InQueue
<1>3. RelayButton \notin RelayKeys /\ linked \subseteq RelayClients
  BY <1>1 DEF KeysTo!KeyRelayAssumption, RelayTyped, KeysTo!TypeOK
<1>4. \A i : Ahead(i) => KeysTo!ReleaseAhead(i)
  BY <1>2 DEF Ahead, KeysTo!ReleaseAhead, ReleasePosted, ReleaseEvent
<1>5. ASSUME NEW c \in linked, NEW i \in KeysTo!Inputs, r_toClient[c] = <<>>, i \in down[c], <<c, i>> \notin excused
      PROVE  c \in GivenTo(i) /\ KeysTo!ReleaseAhead(i)
  <2>1. MayHold(c, i)
    BY <1>5, EmptySeq DEF MayHold, MayLast
  <2>2. QED
    BY <1>1, <1>4, <1>5, <2>1 DEF HoldInv
<1>6. KeysTo!KeysLetGo /\ KeysTo!ButtonLetGo
  BY <1>3, <1>5 DEF KeysTo!KeysLetGo, KeysTo!ButtonLetGo, GivenTo, KeysTo!Inputs
<1>7. KeysTo!HostKeysLetGo
  BY <1>1, <1>2 DEF KeysTo!HostKeysLetGo, HostInv, HeldHere, ReleaseWaits, ReleasePosted
<1>8. QED
  BY <1>1, <1>6, <1>7 DEF KeysGoUp, RelayTyped

------------------------------------------------------------------------------
(* The motions a client keeps back.                                            *)

\* A motion is kept back for a visit only, not while our shape is unknown to the server; and
\* no place and no number is beyond the motions so far.
MouseInv ==
    /\ {reading, promised, compress, relative, ignoring, overtaken} \subseteq BOOLEAN
    /\ motions \in 0..MaxMotions /\ kept \in 0..motions /\ keptBy \in 0..motions
    /\ {pointer, m_asked} \subseteq [at : 0..motions, by : 0..motions]
    /\ pointer.by + keptBy <= motions
    /\ ~relative => keptBy = 0
    /\ (ignoring \/ ~reading) => ~compress /\ ~relative
    /\ Mouse!NoMotionLost

Stays(p, n) == p \in [at : 0..n, by : 0..n]

LEMMA PlaceType ==
    ASSUME NEW n \in Nat, NEW k \in 0..n
    PROVE  Stays(Mouse!Place(k), n) /\ Mouse!Place(k).by = 0
  BY DEF Mouse!Place, Stays

LEMMA MovedType ==
    ASSUME NEW n \in Nat, NEW p, Stays(p, n), NEW k \in Nat, p.by + k <= n
    PROVE  /\ Stays(Mouse!Moved(p, k), n)
           /\ Mouse!Moved(p, k).by = p.by + k /\ Mouse!Moved(p, k).at = p.at
<1>1. p = [at |-> p.at, by |-> p.by] /\ p.at \in 0..n /\ p.by \in 0..n
  BY DEF Stays
<1>2. Mouse!Moved(p, k) = [at |-> p.at, by |-> p.by + k]
  BY <1>1 DEF Mouse!Moved
<1>3. p.by + k \in 0..n
  BY <1>1
<1>4. QED
  BY <1>1, <1>2, <1>3 DEF Stays

LEMMA MovedTwice ==
    ASSUME NEW n \in Nat, NEW p, Stays(p, n), NEW j \in Nat, NEW k \in Nat
    PROVE  Mouse!Moved(Mouse!Moved(p, j), k) = Mouse!Moved(p, j + k)
<1>1. p = [at |-> p.at, by |-> p.by] /\ p.at \in 0..n /\ p.by \in 0..n
  BY DEF Stays
<1>2. Mouse!Moved(p, j) = [at |-> p.at, by |-> p.by + j]
  BY <1>1 DEF Mouse!Moved
<1>3. Mouse!Moved(p, j + k) = [at |-> p.at, by |-> p.by + (j + k)]
  BY <1>1 DEF Mouse!Moved
<1>4. Mouse!Moved([at |-> p.at, by |-> p.by + j], k) = [at |-> p.at, by |-> (p.by + j) + k]
  BY <1>1 DEF Mouse!Moved
<1>5. (p.by + j) + k = p.by + (j + k)
  BY <1>1
<1>6. QED
  BY <1>2, <1>3, <1>4, <1>5

LEMMA StaysMore ==
    ASSUME NEW n \in Nat, NEW p, Stays(p, n) PROVE Stays(p, n + 1)
<1>1. p.at \in 0..n /\ p.by \in 0..n /\ p = [at |-> p.at, by |-> p.by]
  BY DEF Stays
<1>2. p.at \in 0..(n + 1) /\ p.by \in 0..(n + 1)
  BY <1>1
<1>3. QED
  BY <1>1, <1>2 DEF Stays

\* What has been handed on is a place, too.
LEMMA FlushedType ==
    ASSUME MouseInv, MaxMotions \in Nat
    PROVE  Stays(Mouse!Flushed, motions)
<1>1. motions \in Nat /\ kept \in 0..motions /\ keptBy \in Nat /\ Stays(pointer, motions)
  BY DEF MouseInv, Stays
<1> DEFINE there == IF compress THEN Mouse!Place(kept) ELSE pointer
<1>2. Stays(there, motions) /\ there.by + keptBy <= motions
  <2>1. CASE compress
    BY <1>1, <2>1, PlaceType DEF MouseInv
  <2>2. CASE ~compress
    BY <1>1, <2>2 DEF MouseInv
  <2>3. QED
    BY <2>1, <2>2
<1>3. Stays(Mouse!Moved(there, keptBy), motions)
  BY ONLY <1>1, <1>2, MovedType
<1>4. QED
  BY <1>2, <1>3 DEF Mouse!Flushed

LEMMA MouseFlushes ==
    ASSUME MouseInv, MaxMotions \in Nat, Mouse!flushCompressedMouse,
           reading' \in BOOLEAN, promised' \in BOOLEAN,
           UNCHANGED <<ignoring, m_asked, motions>>
    PROVE  MouseInv'
<1>1. /\ pointer' = Mouse!Flushed /\ compress' = FALSE /\ relative' = FALSE
      /\ keptBy' = 0 /\ kept' = kept
      /\ overtaken' = (overtaken /\ Mouse!Flushed # m_asked)
  BY DEF Mouse!flushCompressedMouse, MouseInv
<1>2. Stays(pointer', motions)
  BY <1>1, FlushedType
<1>3. pointer'.by + keptBy' <= motions'
  BY <1>1, <1>2 DEF Stays, MouseInv
<1>4. Mouse!Flushed' = pointer'
  BY <1>1 DEF Mouse!Flushed
<1>5. overtaken' \/ Mouse!Flushed' = m_asked'
  BY <1>1, <1>4 DEF MouseInv, Mouse!NoMotionLost
<1>6. /\ keptBy' \in 0..motions' /\ kept' \in 0..motions' /\ motions' \in 0..MaxMotions
      /\ Stays(m_asked', motions') /\ ignoring' \in BOOLEAN /\ overtaken' \in BOOLEAN
  BY <1>1 DEF MouseInv, Stays
<1>7. QED
  BY <1>1, <1>2, <1>3, <1>5, <1>6 DEF MouseInv, Mouse!NoMotionLost, Stays

LEMMA MouseMoves ==
    ASSUME MouseInv, MaxMotions \in Nat, NEW more \in BOOLEAN, Mouse!mouseMove(more)
    PROVE  MouseInv'
<1>1. /\ motions \in Nat /\ motions' = motions + 1 /\ motions' \in 0..MaxMotions
      /\ reading' = TRUE /\ promised' = more /\ ignoring' = ignoring
  BY DEF MouseInv, Mouse!mouseMove, Mouse!Message
<1>2. /\ Stays(Mouse!Place(motions'), motions') /\ Mouse!Place(motions').by = 0
      /\ Stays(pointer, motions') /\ Stays(m_asked, motions')
  BY <1>1, PlaceType, StaysMore DEF MouseInv, Stays
<1>3. Stays(m_asked', motions') /\ m_asked' = IF ignoring THEN m_asked ELSE Mouse!Place(motions')
  BY <1>2 DEF Mouse!mouseMove
<1>4. CASE compress'
  <2>1. ~ignoring /\ compress' = TRUE
    BY <1>4 DEF Mouse!mouseMove, MouseInv
  <2>2. kept' = motions' /\ relative' = FALSE /\ keptBy' = 0 /\ pointer' = pointer /\ overtaken' = overtaken
    BY <1>4 DEF Mouse!mouseMove
  <2>3. Mouse!Flushed' = m_asked'
    BY <1>3, <2>1, <2>2 DEF Mouse!Flushed, Mouse!Place
  <2>4. pointer'.by + keptBy' <= motions' /\ kept' \in 0..motions' /\ keptBy' \in 0..motions'
    BY <1>1, <1>2, <2>2 DEF Stays
  <2>5. QED
    BY <1>1, <1>2, <1>3, <2>1, <2>2, <2>3, <2>4 DEF MouseInv, Mouse!NoMotionLost, Stays
<1>5. CASE ~compress'
  <2>1. /\ compress' = FALSE /\ compress = FALSE /\ UNCHANGED <<kept, relative, keptBy>>
        /\ pointer' = (IF ignoring THEN pointer ELSE Mouse!Place(motions'))
        /\ overtaken' = ((overtaken /\ ignoring) \/ (relative /\ ~ignoring))
    BY <1>5 DEF Mouse!mouseMove, MouseInv
  <2>2. overtaken' \/ Mouse!Flushed' = m_asked'
    BY <1>3, <2>1 DEF Mouse!Flushed, MouseInv, Mouse!NoMotionLost
  <2>3. pointer'.by + keptBy' <= motions' /\ kept' \in 0..motions' /\ keptBy' \in 0..motions'
    BY <1>1, <1>2, <2>1 DEF Stays, MouseInv
  <2>4. Stays(pointer', motions') /\ overtaken' \in BOOLEAN
    BY <1>2, <2>1 DEF MouseInv
  <2>5. QED
    BY <1>1, <1>3, <2>1, <2>2, <2>3, <2>4 DEF MouseInv, Mouse!NoMotionLost, Stays
<1>6. QED
  BY <1>4, <1>5

LEMMA MouseMovesOn ==
    ASSUME MouseInv, MaxMotions \in Nat, NEW more \in BOOLEAN, Mouse!mouseRelativeMove(more)
    PROVE  MouseInv'
<1>1. /\ motions \in Nat /\ motions' = motions + 1 /\ motions' \in 0..MaxMotions
      /\ reading' = TRUE /\ promised' = more /\ UNCHANGED <<compress, kept, ignoring>>
      /\ Stays(pointer, motions) /\ Stays(m_asked, motions)
      /\ pointer \in [at : 0..motions, by : 0..motions]
      /\ pointer.by \in Nat /\ m_asked.by \in 0..motions /\ keptBy \in 0..motions /\ kept \in 0..motions
  BY DEF MouseInv, Mouse!mouseRelativeMove, Mouse!Message, Stays
<1>2. /\ Stays(Mouse!Moved(m_asked, 1), motions')
      /\ Stays(pointer, motions') /\ Stays(m_asked, motions')
  BY <1>1, MovedType, StaysMore
<1>3. Stays(m_asked', motions') /\ m_asked' = IF ignoring THEN m_asked ELSE Mouse!Moved(m_asked, 1)
  BY <1>2 DEF Mouse!mouseRelativeMove
<1>4. CASE relative'
  <2>1. ~ignoring /\ relative' = TRUE /\ keptBy' = keptBy + 1 /\ pointer' = pointer /\ overtaken' = overtaken
    BY <1>4 DEF Mouse!mouseRelativeMove, MouseInv
  <2> DEFINE there == IF compress THEN Mouse!Place(kept) ELSE pointer
  <2>2. Stays(there, motions)
    BY <1>1, PlaceType
  <2>3. Mouse!Moved(there, 0) = there
    <3>1. there = [at |-> there.at, by |-> there.by] /\ there.by \in Nat
      BY <2>2, <1>1 DEF Stays
    <3>2. Mouse!Moved(there, 0) = [at |-> there.at, by |-> there.by + 0]
      BY <3>1 DEF Mouse!Moved
    <3>3. QED
      BY <3>1, <3>2
  <2>4. Mouse!Flushed = Mouse!Moved(there, keptBy)
    BY <2>3 DEF Mouse!Flushed, MouseInv
  <2>5. Mouse!Flushed' = Mouse!Moved(there, keptBy + 1)
    BY <1>1, <2>1 DEF Mouse!Flushed
  <2>6. Mouse!Flushed' = Mouse!Moved(Mouse!Flushed, 1)
    <3> HIDE DEF there
    <3>1. keptBy \in Nat
      BY <1>1
    <3>2. Mouse!Moved(Mouse!Moved(there, keptBy), 1) = Mouse!Moved(there, keptBy + 1)
      BY ONLY <1>1, <2>2, <3>1, MovedTwice, 1 \in Nat
    <3>3. QED
      BY <2>4, <2>5, <3>2
  <2>7. overtaken' \/ Mouse!Flushed' = m_asked'
    BY <1>3, <2>1, <2>6 DEF MouseInv, Mouse!NoMotionLost
  <2>8. pointer'.by + keptBy' <= motions' /\ kept' \in 0..motions' /\ keptBy' \in 0..motions'
    BY <1>1, <2>1 DEF MouseInv
  <2>9. QED
    BY <1>1, <1>2, <1>3, <2>1, <2>7, <2>8 DEF MouseInv, Mouse!NoMotionLost, Stays
<1>5. CASE ~relative'
  <2>1. /\ relative' = FALSE /\ relative = FALSE /\ keptBy' = keptBy /\ keptBy = 0
        /\ pointer' = (IF ignoring THEN pointer ELSE Mouse!Moved(pointer, 1))
        /\ overtaken' = (overtaken \/ (compress /\ ~ignoring))
    BY <1>5 DEF Mouse!mouseRelativeMove, MouseInv
  <2>2. overtaken' \/ Mouse!Flushed' = m_asked'
    BY <1>1, <1>3, <2>1 DEF Mouse!Flushed, MouseInv, Mouse!NoMotionLost
  <2>3. Stays(Mouse!Moved(pointer, 1), motions') /\ Mouse!Moved(pointer, 1).by = pointer.by + 1
    <3>1. pointer.by + 1 <= motions + 1
      BY <1>1 DEF Stays
    <3>2. QED
      BY <1>1, <1>2, <3>1, MovedType
  <2>4. pointer'.by + keptBy' <= motions' /\ kept' \in 0..motions' /\ keptBy' \in 0..motions'
    BY <1>1, <2>1, <2>3 DEF MouseInv, Stays
  <2>5. Stays(pointer', motions') /\ overtaken' \in BOOLEAN
    BY <1>2, <2>1, <2>3 DEF MouseInv
  <2>6. QED
    BY <1>1, <1>3, <2>1, <2>2, <2>4, <2>5 DEF MouseInv, Mouse!NoMotionLost, Stays
<1>6. QED
  BY <1>4, <1>5

LEMMA MouseNextHolds ==
    ASSUME MouseInv, MaxMotions \in Nat, [Mouse!Next]_mouseVars PROVE MouseInv'
<1>1. ASSUME NEW more \in BOOLEAN, Mouse!keyDown(more) PROVE MouseInv'
  BY <1>1, MouseFlushes DEF Mouse!keyDown, Mouse!Message
<1>2. ASSUME NEW more \in BOOLEAN, Mouse!enter(more) PROVE MouseInv'
  <2>1. /\ motions \in Nat /\ motions' = motions + 1 /\ motions' \in 0..MaxMotions
        /\ reading' = TRUE /\ promised' = more /\ UNCHANGED <<kept, ignoring>>
        /\ compress' = FALSE /\ relative' = FALSE /\ keptBy' = 0
        /\ pointer' = Mouse!Place(motions') /\ m_asked' = Mouse!Place(motions') /\ overtaken' = FALSE
    BY <1>2 DEF MouseInv, Mouse!enter, Mouse!Message
  <2>2. Stays(pointer', motions') /\ pointer'.by = 0
    BY <2>1, PlaceType
  <2>3. Mouse!Flushed' = m_asked'
    BY <2>1 DEF Mouse!Flushed
  <2>4. pointer'.by + keptBy' <= motions' /\ kept' \in 0..motions' /\ keptBy' \in 0..motions'
    BY <2>1, <2>2 DEF MouseInv
  <2>5. QED
    BY <2>1, <2>2, <2>3, <2>4 DEF MouseInv, Mouse!NoMotionLost, Stays
<1>3. ASSUME NEW more \in BOOLEAN, Mouse!infoAcknowledgment(more) PROVE MouseInv'
  BY <1>3 DEF Mouse!infoAcknowledgment, Mouse!Message, Mouse!keeping, MouseInv, Mouse!NoMotionLost, Mouse!Flushed
<1>4. ASSUME Mouse!handled PROVE MouseInv'
  BY <1>4, MouseFlushes DEF Mouse!handled
<1>5. ASSUME Mouse!onInfoChanged PROVE MouseInv'
  <2>1. /\ ~reading /\ ~compress /\ ~relative /\ keptBy = 0
        /\ ignoring' = TRUE /\ m_asked' = pointer /\ overtaken' = FALSE
        /\ UNCHANGED <<reading, promised, compress, relative, kept, keptBy, pointer, motions>>
    BY <1>5 DEF Mouse!onInfoChanged, Mouse!keeping, MouseInv
  <2>2. Mouse!Flushed' = m_asked'
    BY <2>1 DEF Mouse!Flushed
  <2>3. QED
    BY <2>1, <2>2 DEF MouseInv, Mouse!NoMotionLost
<1>6. CASE UNCHANGED mouseVars
  BY <1>6 DEF mouseVars, MouseInv, Mouse!NoMotionLost, Mouse!Flushed
<1>7. QED
  BY <1>1, <1>2, <1>3, <1>4, <1>5, <1>6, MouseMoves, MouseMovesOn DEF Mouse!Next, Mouse!handleData

MouseKeeps == Mouse!TypeOK /\ Mouse!NoMotionLost /\ Mouse!NothingKept

LEMMA MouseInit == ASSUME MaxMotions \in Nat, Mouse!Init PROVE MouseInv
<1>1. Stays(Mouse!Place(0), 0) /\ Mouse!Place(0).by = 0
  BY PlaceType
<1>2. /\ pointer = Mouse!Place(0) /\ m_asked = Mouse!Place(0) /\ motions = 0 /\ kept = 0 /\ keptBy = 0
      /\ ~compress /\ ~relative
      /\ {reading, promised, compress, relative, ignoring, overtaken} \subseteq BOOLEAN
  BY DEF Mouse!Init
<1>3. Mouse!NoMotionLost
  BY <1>2 DEF Mouse!NoMotionLost, Mouse!Flushed
<1>4. QED
  BY <1>1, <1>2, <1>3 DEF MouseInv, Stays

LEMMA MouseHolds == ASSUME MaxMotions \in Nat, MouseInv PROVE MouseKeeps
<1>1. motions \in 0..MaxMotions /\ \A k \in 0..motions : k \in 0..MaxMotions
  BY DEF MouseInv
<1>2. kept \in 0..MaxMotions /\ keptBy \in 0..MaxMotions
  BY <1>1 DEF MouseInv
<1>3. {pointer, m_asked} \subseteq [at : 0..MaxMotions, by : 0..MaxMotions]
  BY <1>1 DEF MouseInv
<1>4. QED
  BY <1>1, <1>2, <1>3 DEF MouseKeeps, MouseInv, Mouse!TypeOK, Mouse!NothingKept

------------------------------------------------------------------------------
(* The taps of Insert.                                                         *)

TapMessage == [key : {"insert", "other"}, down : BOOLEAN, press : 1..MaxTaps]
Posts == 1 .. Len(keyMessages)
OfInsert(k) == keyMessages[k].key = "insert"
IsUp(k) == OfInsert(k) /\ ~keyMessages[k].down
GoesUp(k, p) == IsUp(k) /\ keyMessages[k].press = p

TapTyped ==
    /\ Insert!TypeOK /\ keyMessages \in Seq(TapMessage)
    /\ {insertIsDown, otherPress, downAsHeard} \subseteq 0..presses
    /\ returnedBy \in Nat /\ counted.press \in 0..presses

\* The messages are those of presses in their order: the repeats of one, its release, the
\* next; only a release may come late, or a second time.
TapOrder ==
    /\ \A k \in Posts : /\ keyMessages[k].press \in 1..presses
                        /\ ~OfInsert(k) => keyMessages[k].down /\ keyMessages[k].press # insertIsDown
    /\ \A k \in Posts : OfInsert(k) /\ keyMessages[k].down =>
           keyMessages[k].press = insertIsDown \/ \E j \in Posts : j > k /\ GoesUp(j, keyMessages[k].press)
    /\ \A k, j \in Posts : k < j /\ keyMessages[j].down =>
           \/ keyMessages[k].press < keyMessages[j].press
           \/ keyMessages[k].press = keyMessages[j].press /\ keyMessages[k].down /\ OfInsert(k) /\ OfInsert(j)
    /\ \A k, j \in Posts : /\ k < j /\ OfInsert(k) /\ OfInsert(j) /\ keyMessages[k].down /\ keyMessages[j].down
                           /\ keyMessages[k].press < keyMessages[j].press
           => \E i \in Posts : k < i /\ i < j /\ GoesUp(i, keyMessages[k].press)
    /\ insertIsDown # 0 => \A k \in Posts : OfInsert(k) =>
           /\ keyMessages[k].press <= insertIsDown
           /\ keyMessages[k].down \/ keyMessages[k].press < insertIsDown

\* What waits comes after what was heard: its press is no earlier than that of the last
\* message of Insert, and later once that press was released.
TapAhead ==
    /\ \A k \in Posts : keyMessages[k].down =>
           /\ keyMessages[k].press > otherPress
           /\ keyMessages[k].press >= downAsHeard /\ keyMessages[k].press >= counted.press
           /\ downAsHeard = 0 \/ ~OfInsert(k) => keyMessages[k].press > counted.press
    /\ \A k \in Posts : /\ OfInsert(k) /\ keyMessages[k].down /\ downAsHeard # 0
                        /\ keyMessages[k].press > downAsHeard
           => \E j \in Posts : j < k /\ GoesUp(j, downAsHeard)
    /\ downAsHeard # 0 =>
           /\ counted.press <= downAsHeard
           /\ downAsHeard = insertIsDown \/ \E j \in Posts : GoesUp(j, downAsHeard)
    /\ insertIsDown # 0 =>
           /\ otherPress # insertIsDown /\ counted.press <= insertIsDown
           /\ downAsHeard = 0 => counted.press < insertIsDown

\* What the taps remember is the press that is counted, or the one that took the pointer home;
\* and its release waits, unless a warp took it.
TapState ==
    /\ lastDown \/ swallowInsertRelease => insertHeld
    /\ swallowInsertRelease => counted.press = 0
    /\ insertHeld => counted.press # 0 \/ returnedBy # 0
    /\ insertPressedAt # 0 => counted.press > otherPress
    /\ counted.press > otherPress => insertPressedAt # 0 /\ insertPressedAt = counted.at
    /\ insertHeld /\ ~upLost => insertIsDown # 0 \/ \E j \in Posts : IsUp(j)
    /\ ~wrongReturn /\ ~missedReturn /\ ~eaten

TapInv == TapTyped /\ TapOrder /\ TapAhead /\ TapState

------------------------------------------------------------------------------
(* A message is posted.                                                        *)

\* The messages have presses that were made.
LEMMA PressesType ==
    ASSUME Insert!DoubleInsertAssumption, TapTyped, TapOrder
    PROVE  /\ MaxTaps \in Nat /\ presses \in 0..MaxTaps /\ presses \in Nat
           /\ insertIsDown \in 0..presses /\ otherPress \in 0..presses
           /\ downAsHeard \in 0..presses /\ counted.press \in 0..presses
           /\ \A k \in Posts : /\ keyMessages[k].press \in 1..presses /\ k \in Nat \ {0}
                               /\ keyMessages[k].down \in BOOLEAN
                               /\ keyMessages[k].key \in {"insert", "other"}
<1>1. \A k \in Posts : keyMessages[k] \in TapMessage
  BY ElementOfSeq DEF TapTyped, Posts
<1>2. \A k \in Posts : k \in Nat \ {0}
  BY DEF Posts
<1>3. QED
  BY <1>1, <1>2 DEF TapTyped, Insert!TypeOK, TapOrder, TapMessage, Insert!DoubleInsertAssumption

\* The message that is posted, and those before it.
Posted(k, key, isDown, press) ==
    /\ keyMessages' \in Seq(TapMessage)
    /\ keyMessages'[k].key = key /\ keyMessages'[k].down = isDown /\ keyMessages'[k].press = press
    /\ k \in Nat /\ k \notin Posts /\ Posts' = Posts \cup {k}
    /\ \A i \in Posts : i < k /\ i \in Nat /\ keyMessages'[i] = keyMessages[i]

LEMMA PostsOne ==
    ASSUME TapTyped, NEW key \in {"insert", "other"}, NEW isDown \in BOOLEAN, NEW press \in 1..MaxTaps,
           Insert!keyboardHook(key, isDown, press)
    PROVE  \E k : Posted(k, key, isDown, press)
<1> DEFINE e == [key |-> key, down |-> isDown, press |-> press]
<1>1. e \in TapMessage /\ keyMessages \in Seq(TapMessage) /\ keyMessages' = Append(keyMessages, e)
  BY DEF TapMessage, TapTyped, Insert!keyboardHook
<1> HIDE DEF e
<1>2. /\ keyMessages' \in Seq(TapMessage) /\ Len(keyMessages') = Len(keyMessages) + 1
      /\ keyMessages'[Len(keyMessages) + 1] = e /\ Len(keyMessages) \in Nat
      /\ \A k \in 1 .. Len(keyMessages) : keyMessages'[k] = keyMessages[k]
  BY <1>1, Appended
<1>3. Posted(Len(keyMessages) + 1, key, isDown, press)
  BY <1>2 DEF Posted, Posts, e
<1>4. QED
  BY <1>3

\* What a key leaves alone until it is handled.
Unheard ==
    UNCHANGED <<lastDown, insertPressedAt, insertHeld, swallowInsertRelease, counted, otherPress, returnedBy,
                downAsHeard, upLost, wrongReturn, missedReturn, eaten>>

\* Each key of the keyboard posts a message of the press that is made, repeated or ended.
LEMMA KeyPosts ==
    ASSUME Insert!DoubleInsertAssumption, TapTyped, TapOrder,
           Insert!pressInsert \/ Insert!repeatInsert \/ Insert!releaseInsert \/ Insert!pressOther
    PROVE  /\ TapTyped' /\ Unheard
           /\ \/ /\ insertIsDown = 0 /\ presses' = presses + 1 /\ insertIsDown' = presses + 1
                 /\ \E k : Posted(k, "insert", TRUE, (presses + 1))
              \/ /\ insertIsDown # 0 /\ insertIsDown = presses /\ UNCHANGED <<presses, insertIsDown>>
                 /\ \E k : Posted(k, "insert", TRUE, insertIsDown)
              \/ /\ insertIsDown # 0 /\ insertIsDown' = 0 /\ UNCHANGED presses
                 /\ \E k : Posted(k, "insert", FALSE, insertIsDown)
              \/ /\ presses' = presses + 1 /\ UNCHANGED insertIsDown
                 /\ \E k : Posted(k, "other", TRUE, (presses + 1))
<1>1. MaxTaps \in Nat /\ presses \in 0..MaxTaps /\ insertIsDown \in 0..presses
  BY PressesType
<1>2. ASSUME NEW key \in {"insert", "other"}, NEW isDown \in BOOLEAN, NEW press \in 1..MaxTaps,
             Insert!keyboardHook(key, isDown, press),
             presses' \in 0..MaxTaps, presses' >= presses, insertIsDown' \in 0..presses'
      PROVE  TapTyped' /\ Unheard /\ \E k : Posted(k, key, isDown, press)
  <2>1. PICK k : Posted(k, key, isDown, press)
    BY <1>2, PostsOne
  <2>2. /\ UNCHANGED <<i_clock, insertHeld, insertPressedAt, swallowInsertRelease, returns, counted, otherPress,
                       returnedBy, downAsHeard, upLost, wrongReturn, missedReturn, eaten, lastDown, insertInState,
                       inPrimaryKeyDownList, isOnScreen, leaving, crossings>>
        /\ insertInHook' = IF key = "insert" THEN isDown ELSE insertInHook
    BY <1>2 DEF Insert!keyboardHook, Insert!stateVars, Insert!screenVars, Insert!tapVars, Insert!caseVars,
       Insert!heardVars, Insert!wrongVars
  <2>3. TapTyped'
    <3>1. {insertIsDown, otherPress, downAsHeard}' \subseteq 0..presses' /\ counted'.press \in 0..presses'
      BY <1>1, <1>2, <2>2 DEF TapTyped
    <3>2. Insert!TypeOK'
      <4>1. insertInHook' \in BOOLEAN
        BY <2>2 DEF TapTyped, Insert!TypeOK
      <4>2. {insertIsDown', downAsHeard'} \subseteq 0..MaxTaps
        BY <1>1, <1>2, <3>1
      <4>3. QED
        BY <1>2, <2>2, <4>1, <4>2 DEF TapTyped, Insert!TypeOK
    <3>3. QED
      BY <2>1, <2>2, <3>1, <3>2 DEF TapTyped, Posted
  <2>4. QED
    BY <2>1, <2>2, <2>3 DEF Unheard
<1>3. CASE Insert!pressInsert
  <2>1. insertIsDown = 0 /\ presses < MaxTaps /\ presses' = presses + 1 /\ insertIsDown' = presses + 1
        /\ Insert!keyboardHook("insert", TRUE, (presses + 1)) /\ presses + 1 \in 1..MaxTaps
    BY <1>1, <1>3 DEF Insert!pressInsert, Insert!keyboardHook
  <2>2. presses + 1 \in 1..MaxTaps /\ presses' \in 0..MaxTaps /\ presses' >= presses /\ insertIsDown' \in 0..presses'
    BY <1>1, <2>1
  <2>3. TapTyped' /\ Unheard /\ \E k : Posted(k, "insert", TRUE, (presses + 1))
    BY <1>2, <2>1, <2>2
  <2>4. QED
    BY <2>1, <2>3
<1>4. CASE Insert!repeatInsert
  <2>1. insertIsDown # 0 /\ insertIsDown = presses /\ UNCHANGED <<presses, insertIsDown>>
        /\ Insert!keyboardHook("insert", TRUE, insertIsDown)
    BY <1>4 DEF Insert!repeatInsert, Insert!keyboardVars
  <2>2. insertIsDown \in 1..MaxTaps /\ presses' \in 0..MaxTaps /\ presses' >= presses /\ insertIsDown' \in 0..presses'
    BY <1>1, <2>1
  <2>3. TapTyped' /\ Unheard /\ \E k : Posted(k, "insert", TRUE, insertIsDown)
    BY <1>2, <2>1, <2>2
  <2>4. QED
    BY <2>1, <2>3
<1>5. CASE Insert!releaseInsert
  <2>1. insertIsDown # 0 /\ insertIsDown' = 0 /\ UNCHANGED presses
        /\ Insert!keyboardHook("insert", FALSE, insertIsDown)
    BY <1>5 DEF Insert!releaseInsert
  <2>2. insertIsDown \in 1..MaxTaps /\ presses' \in 0..MaxTaps /\ presses' >= presses /\ insertIsDown' \in 0..presses'
    BY <1>1, <2>1
  <2>3. TapTyped' /\ Unheard /\ \E k : Posted(k, "insert", FALSE, insertIsDown)
    BY <1>2, <2>1, <2>2
  <2>4. QED
    BY <2>1, <2>3
<1>6. CASE Insert!pressOther
  <2>1. presses < MaxTaps /\ presses' = presses + 1 /\ UNCHANGED insertIsDown
        /\ Insert!keyboardHook("other", TRUE, (presses + 1)) /\ presses + 1 \in 1..MaxTaps
    BY <1>1, <1>6 DEF Insert!pressOther, Insert!keyboardHook
  <2>2. presses + 1 \in 1..MaxTaps /\ presses' \in 0..MaxTaps /\ presses' >= presses /\ insertIsDown' \in 0..presses'
    BY <1>1, <2>1
  <2>3. TapTyped' /\ Unheard /\ \E k : Posted(k, "other", TRUE, (presses + 1))
    BY <1>2, <2>1, <2>2
  <2>4. QED
    BY <2>1, <2>3
<1>7. QED
  BY <1>3, <1>4, <1>5, <1>6

LEMMA TapPressed ==
    ASSUME Insert!DoubleInsertAssumption, TapInv, Unheard, insertIsDown = 0, presses' = presses + 1,
           insertIsDown' = presses + 1, NEW e, Posted(e, "insert", TRUE, (presses + 1))
    PROVE  TapOrder' /\ TapAhead' /\ TapState'
<1> USE DEF Posted, Unheard
<1>1. TapTyped /\ TapOrder /\ TapAhead /\ TapState
  BY DEF TapInv
<1>2. /\ presses \in Nat /\ otherPress \in 0..presses /\ downAsHeard \in 0..presses /\ counted.press \in 0..presses
      /\ \A k \in Posts : keyMessages[k].press \in 1..presses /\ keyMessages[k].down \in BOOLEAN
  BY <1>1, PressesType
<1>3. TapOrder'
  <2>1. \A k \in Posts' : /\ keyMessages'[k].press \in 1..presses'
                          /\ ~OfInsert(k)' => keyMessages'[k].down /\ keyMessages'[k].press # insertIsDown'
    BY <1>1, <1>2 DEF TapOrder, OfInsert
  <2>2. \A k \in Posts' : OfInsert(k)' /\ keyMessages'[k].down =>
           keyMessages'[k].press = insertIsDown' \/ \E j \in Posts' : j > k /\ GoesUp(j, keyMessages[k].press)'
    <3> SUFFICES ASSUME NEW k \in Posts', OfInsert(k)', keyMessages'[k].down, keyMessages'[k].press # insertIsDown'
                 PROVE  \E j \in Posts' : j > k /\ GoesUp(j, keyMessages[k].press)'
      OBVIOUS
    <3>1. k \in Posts /\ OfInsert(k) /\ keyMessages[k].down /\ keyMessages'[k] = keyMessages[k]
      BY <1>2 DEF OfInsert
    <3>2. CASE keyMessages[k].press = insertIsDown
      BY <1>1, <1>2, <3>1, <3>2 DEF TapOrder, OfInsert, GoesUp, IsUp
    <3>3. CASE keyMessages[k].press # insertIsDown
      <4>1. PICK j \in Posts : j > k /\ GoesUp(j, keyMessages[k].press)
        BY <1>1, <3>1, <3>3 DEF TapOrder
      <4>2. QED
        BY <3>1, <4>1 DEF OfInsert, GoesUp, IsUp
    <3>4. QED
      BY <3>2, <3>3
  <2>3. \A k, j \in Posts' : k < j /\ keyMessages'[j].down =>
           \/ keyMessages'[k].press < keyMessages'[j].press
           \/ /\ keyMessages'[k].press = keyMessages'[j].press /\ keyMessages'[k].down
              /\ OfInsert(k)' /\ OfInsert(j)'
    <3> SUFFICES ASSUME NEW k \in Posts', NEW j \in Posts', k < j, keyMessages'[j].down
                 PROVE  \/ keyMessages'[k].press < keyMessages'[j].press
                        \/ /\ keyMessages'[k].press = keyMessages'[j].press /\ keyMessages'[k].down
                           /\ OfInsert(k)' /\ OfInsert(j)'
      OBVIOUS
    <3>1. k \in Posts /\ keyMessages'[k] = keyMessages[k]
      BY <1>2
    <3>2. CASE j \in Posts
      BY <1>1, <1>2, <3>1, <3>2 DEF TapOrder, OfInsert
    <3>3. CASE j \notin Posts
      BY <1>1, <1>2, <3>1, <3>3 DEF TapOrder, OfInsert
    <3>4. QED
      BY <3>2, <3>3
  <2>4. \A k, j \in Posts' : /\ k < j /\ OfInsert(k)' /\ OfInsert(j)' /\ keyMessages'[k].down /\ keyMessages'[j].down
                             /\ keyMessages'[k].press < keyMessages'[j].press
           => \E i \in Posts' : k < i /\ i < j /\ GoesUp(i, keyMessages[k].press)'
    <3> SUFFICES ASSUME NEW k \in Posts', NEW j \in Posts', k < j, OfInsert(k)', OfInsert(j)', keyMessages'[k].down,
                        keyMessages'[j].down, keyMessages'[k].press < keyMessages'[j].press
                 PROVE  \E i \in Posts' : k < i /\ i < j /\ GoesUp(i, keyMessages[k].press)'
      OBVIOUS
    <3>1. k \in Posts /\ OfInsert(k) /\ keyMessages[k].down /\ keyMessages'[k] = keyMessages[k]
      BY <1>2 DEF OfInsert
    <3>2. CASE j \in Posts
      BY <1>1, <3>1, <3>2 DEF TapOrder, OfInsert, GoesUp, IsUp
    <3>3. CASE j = e
      BY <1>1, <1>2, <3>1, <3>3 DEF TapOrder, OfInsert, GoesUp, IsUp
    <3>4. QED
      BY <3>2, <3>3
  <2>5. insertIsDown' # 0 => \A k \in Posts' : OfInsert(k)' =>
           /\ keyMessages'[k].press <= insertIsDown'
           /\ keyMessages'[k].down \/ keyMessages'[k].press < insertIsDown'
    BY <1>1, <1>2 DEF TapOrder, OfInsert
  <2>6. QED
    BY ONLY <2>1, <2>2, <2>3, <2>4, <2>5 DEF TapOrder
<1>4. TapAhead'
  <2>1. \A k \in Posts' : keyMessages'[k].down =>
           /\ keyMessages'[k].press > otherPress
           /\ keyMessages'[k].press >= downAsHeard /\ keyMessages'[k].press >= counted.press
           /\ downAsHeard = 0 \/ ~OfInsert(k)' => keyMessages'[k].press > counted.press
    BY <1>1, <1>2 DEF TapAhead, OfInsert
  <2>2. \A k \in Posts' : /\ OfInsert(k)' /\ keyMessages'[k].down /\ downAsHeard # 0
                          /\ keyMessages'[k].press > downAsHeard
           => \E j \in Posts' : j < k /\ GoesUp(j, downAsHeard)'
    <3> SUFFICES ASSUME NEW k \in Posts', OfInsert(k)', keyMessages'[k].down, downAsHeard # 0,
                        keyMessages'[k].press > downAsHeard
                 PROVE  \E j \in Posts : j < k /\ GoesUp(j, downAsHeard)
      BY DEF OfInsert, GoesUp, IsUp
    <3>1. CASE k \in Posts
      BY <1>1, <3>1 DEF TapAhead, OfInsert
    <3>2. CASE k \notin Posts
      BY <1>1, <1>2, <3>2 DEF TapAhead, OfInsert
    <3>3. QED
      BY <3>1, <3>2
  <2>3. downAsHeard # 0 =>
           /\ counted.press <= downAsHeard
           /\ downAsHeard = insertIsDown' \/ \E j \in Posts' : GoesUp(j, downAsHeard)'
    BY <1>1, <1>2 DEF TapAhead, OfInsert, GoesUp, IsUp
  <2>4. insertIsDown' # 0 =>
           /\ otherPress # insertIsDown' /\ counted.press <= insertIsDown'
           /\ downAsHeard = 0 => counted.press < insertIsDown'
    BY <1>1, <1>2 DEF TapAhead
  <2>5. QED
    BY <2>1, <2>2, <2>3, <2>4 DEF TapAhead
<1>5. TapState'
  BY <1>1, <1>2 DEF TapState, OfInsert, IsUp
<1>6. QED
  BY <1>3, <1>4, <1>5

LEMMA TapRepeated ==
    ASSUME Insert!DoubleInsertAssumption, TapInv, Unheard, insertIsDown # 0, insertIsDown = presses,
           UNCHANGED <<presses, insertIsDown>>, NEW e, Posted(e, "insert", TRUE, insertIsDown)
    PROVE  TapOrder' /\ TapAhead' /\ TapState'
<1> USE DEF Posted, Unheard
<1>1. TapTyped /\ TapOrder /\ TapAhead /\ TapState
  BY DEF TapInv
<1>2. /\ presses \in Nat /\ otherPress \in 0..presses /\ downAsHeard \in 0..presses /\ counted.press \in 0..presses
      /\ insertIsDown \in 0..presses
      /\ \A k \in Posts : keyMessages[k].press \in 1..presses /\ keyMessages[k].down \in BOOLEAN
  BY <1>1, PressesType
<1>3. TapOrder'
  <2>1. \A k \in Posts' : /\ keyMessages'[k].press \in 1..presses'
                          /\ ~OfInsert(k)' => keyMessages'[k].down /\ keyMessages'[k].press # insertIsDown'
    BY <1>1, <1>2 DEF TapOrder, OfInsert
  <2>2. \A k \in Posts' : OfInsert(k)' /\ keyMessages'[k].down =>
           keyMessages'[k].press = insertIsDown' \/ \E j \in Posts' : j > k /\ GoesUp(j, keyMessages[k].press)'
    <3> SUFFICES ASSUME NEW k \in Posts', OfInsert(k)', keyMessages'[k].down, keyMessages'[k].press # insertIsDown'
                 PROVE  \E j \in Posts' : j > k /\ GoesUp(j, keyMessages[k].press)'
      OBVIOUS
    <3>1. k \in Posts /\ OfInsert(k) /\ keyMessages[k].down /\ keyMessages'[k] = keyMessages[k]
      BY <1>2 DEF OfInsert
    <3>2. CASE keyMessages[k].press = insertIsDown
      BY <1>1, <1>2, <3>1, <3>2 DEF TapOrder, OfInsert, GoesUp, IsUp
    <3>3. CASE keyMessages[k].press # insertIsDown
      <4>1. PICK j \in Posts : j > k /\ GoesUp(j, keyMessages[k].press)
        BY <1>1, <3>1, <3>3 DEF TapOrder
      <4>2. QED
        BY <3>1, <4>1 DEF OfInsert, GoesUp, IsUp
    <3>4. QED
      BY <3>2, <3>3
  <2>3. \A k, j \in Posts' : k < j /\ keyMessages'[j].down =>
           \/ keyMessages'[k].press < keyMessages'[j].press
           \/ /\ keyMessages'[k].press = keyMessages'[j].press /\ keyMessages'[k].down
              /\ OfInsert(k)' /\ OfInsert(j)'
    <3> SUFFICES ASSUME NEW k \in Posts', NEW j \in Posts', k < j, keyMessages'[j].down
                 PROVE  \/ keyMessages'[k].press < keyMessages'[j].press
                        \/ /\ keyMessages'[k].press = keyMessages'[j].press /\ keyMessages'[k].down
                           /\ OfInsert(k)' /\ OfInsert(j)'
      OBVIOUS
    <3>1. k \in Posts /\ keyMessages'[k] = keyMessages[k]
      BY <1>2
    <3>2. CASE j \in Posts
      BY <1>1, <1>2, <3>1, <3>2 DEF TapOrder, OfInsert
    <3>3. CASE j \notin Posts
      BY <1>1, <1>2, <3>1, <3>3 DEF TapOrder, OfInsert
    <3>4. QED
      BY <3>2, <3>3
  <2>4. \A k, j \in Posts' : /\ k < j /\ OfInsert(k)' /\ OfInsert(j)' /\ keyMessages'[k].down /\ keyMessages'[j].down
                             /\ keyMessages'[k].press < keyMessages'[j].press
           => \E i \in Posts' : k < i /\ i < j /\ GoesUp(i, keyMessages[k].press)'
    <3> SUFFICES ASSUME NEW k \in Posts', NEW j \in Posts', k < j, OfInsert(k)', OfInsert(j)', keyMessages'[k].down,
                        keyMessages'[j].down, keyMessages'[k].press < keyMessages'[j].press
                 PROVE  \E i \in Posts' : k < i /\ i < j /\ GoesUp(i, keyMessages[k].press)'
      OBVIOUS
    <3>1. k \in Posts /\ OfInsert(k) /\ keyMessages[k].down /\ keyMessages'[k] = keyMessages[k]
      BY <1>2 DEF OfInsert
    <3>2. CASE j \in Posts
      BY <1>1, <3>1, <3>2 DEF TapOrder, OfInsert, GoesUp, IsUp
    <3>3. CASE j = e
      BY <1>1, <1>2, <3>1, <3>3 DEF TapOrder, OfInsert, GoesUp, IsUp
    <3>4. QED
      BY <3>2, <3>3
  <2>5. insertIsDown' # 0 => \A k \in Posts' : OfInsert(k)' =>
           /\ keyMessages'[k].press <= insertIsDown'
           /\ keyMessages'[k].down \/ keyMessages'[k].press < insertIsDown'
    BY <1>1, <1>2 DEF TapOrder, OfInsert
  <2>6. QED
    BY ONLY <2>1, <2>2, <2>3, <2>4, <2>5 DEF TapOrder
<1>4. TapAhead'
  <2>1. \A k \in Posts' : keyMessages'[k].down =>
           /\ keyMessages'[k].press > otherPress
           /\ keyMessages'[k].press >= downAsHeard /\ keyMessages'[k].press >= counted.press
           /\ downAsHeard = 0 \/ ~OfInsert(k)' => keyMessages'[k].press > counted.press
    BY <1>1, <1>2 DEF TapAhead, OfInsert
  <2>2. \A k \in Posts' : /\ OfInsert(k)' /\ keyMessages'[k].down /\ downAsHeard # 0
                          /\ keyMessages'[k].press > downAsHeard
           => \E j \in Posts' : j < k /\ GoesUp(j, downAsHeard)'
    <3> SUFFICES ASSUME NEW k \in Posts', OfInsert(k)', keyMessages'[k].down, downAsHeard # 0,
                        keyMessages'[k].press > downAsHeard
                 PROVE  \E j \in Posts : j < k /\ GoesUp(j, downAsHeard)
      BY DEF OfInsert, GoesUp, IsUp
    <3>1. CASE k \in Posts
      BY <1>1, <3>1 DEF TapAhead, OfInsert
    <3>2. CASE k \notin Posts
      BY <1>1, <1>2, <3>2 DEF TapAhead, OfInsert
    <3>3. QED
      BY <3>1, <3>2
  <2>3. downAsHeard # 0 =>
           /\ counted.press <= downAsHeard
           /\ downAsHeard = insertIsDown' \/ \E j \in Posts' : GoesUp(j, downAsHeard)'
    BY <1>1, <1>2 DEF TapAhead, OfInsert, GoesUp, IsUp
  <2>4. insertIsDown' # 0 =>
           /\ otherPress # insertIsDown' /\ counted.press <= insertIsDown'
           /\ downAsHeard = 0 => counted.press < insertIsDown'
    BY <1>1, <1>2 DEF TapAhead
  <2>5. QED
    BY <2>1, <2>2, <2>3, <2>4 DEF TapAhead
<1>5. TapState'
  BY <1>1, <1>2 DEF TapState, OfInsert, IsUp
<1>6. QED
  BY <1>3, <1>4, <1>5

LEMMA TapReleased ==
    ASSUME Insert!DoubleInsertAssumption, TapInv, Unheard, insertIsDown # 0, insertIsDown' = 0, UNCHANGED presses,
           NEW e, Posted(e, "insert", FALSE, insertIsDown)
    PROVE  TapOrder' /\ TapAhead' /\ TapState'
<1> USE DEF Posted, Unheard
<1>1. TapTyped /\ TapOrder /\ TapAhead /\ TapState
  BY DEF TapInv
<1>2. /\ presses \in Nat /\ otherPress \in 0..presses /\ downAsHeard \in 0..presses /\ counted.press \in 0..presses
      /\ insertIsDown \in 0..presses
      /\ \A k \in Posts : keyMessages[k].press \in 1..presses /\ keyMessages[k].down \in BOOLEAN
  BY <1>1, PressesType
<1>3. TapOrder'
  <2>1. \A k \in Posts' : /\ keyMessages'[k].press \in 1..presses'
                          /\ ~OfInsert(k)' => keyMessages'[k].down /\ keyMessages'[k].press # insertIsDown'
    BY <1>1, <1>2 DEF TapOrder, OfInsert
  <2>2. \A k \in Posts' : OfInsert(k)' /\ keyMessages'[k].down =>
           keyMessages'[k].press = insertIsDown' \/ \E j \in Posts' : j > k /\ GoesUp(j, keyMessages[k].press)'
    <3> SUFFICES ASSUME NEW k \in Posts', OfInsert(k)', keyMessages'[k].down, keyMessages'[k].press # insertIsDown'
                 PROVE  \E j \in Posts' : j > k /\ GoesUp(j, keyMessages[k].press)'
      OBVIOUS
    <3>1. k \in Posts /\ OfInsert(k) /\ keyMessages[k].down /\ keyMessages'[k] = keyMessages[k]
      BY <1>2 DEF OfInsert
    <3>2. CASE keyMessages[k].press = insertIsDown
      BY <1>1, <1>2, <3>1, <3>2 DEF TapOrder, OfInsert, GoesUp, IsUp
    <3>3. CASE keyMessages[k].press # insertIsDown
      <4>1. PICK j \in Posts : j > k /\ GoesUp(j, keyMessages[k].press)
        BY <1>1, <3>1, <3>3 DEF TapOrder
      <4>2. QED
        BY <3>1, <4>1 DEF OfInsert, GoesUp, IsUp
    <3>4. QED
      BY <3>2, <3>3
  <2>3. \A k, j \in Posts' : k < j /\ keyMessages'[j].down =>
           \/ keyMessages'[k].press < keyMessages'[j].press
           \/ /\ keyMessages'[k].press = keyMessages'[j].press /\ keyMessages'[k].down
              /\ OfInsert(k)' /\ OfInsert(j)'
    <3> SUFFICES ASSUME NEW k \in Posts', NEW j \in Posts', k < j, keyMessages'[j].down
                 PROVE  \/ keyMessages'[k].press < keyMessages'[j].press
                        \/ /\ keyMessages'[k].press = keyMessages'[j].press /\ keyMessages'[k].down
                           /\ OfInsert(k)' /\ OfInsert(j)'
      OBVIOUS
    <3>1. k \in Posts /\ keyMessages'[k] = keyMessages[k]
      BY <1>2
    <3>2. CASE j \in Posts
      BY <1>1, <1>2, <3>1, <3>2 DEF TapOrder, OfInsert
    <3>3. CASE j \notin Posts
      BY <1>1, <1>2, <3>1, <3>3 DEF TapOrder, OfInsert
    <3>4. QED
      BY <3>2, <3>3
  <2>4. \A k, j \in Posts' : /\ k < j /\ OfInsert(k)' /\ OfInsert(j)' /\ keyMessages'[k].down /\ keyMessages'[j].down
                             /\ keyMessages'[k].press < keyMessages'[j].press
           => \E i \in Posts' : k < i /\ i < j /\ GoesUp(i, keyMessages[k].press)'
    <3> SUFFICES ASSUME NEW k \in Posts', NEW j \in Posts', k < j, OfInsert(k)', OfInsert(j)', keyMessages'[k].down,
                        keyMessages'[j].down, keyMessages'[k].press < keyMessages'[j].press
                 PROVE  \E i \in Posts' : k < i /\ i < j /\ GoesUp(i, keyMessages[k].press)'
      OBVIOUS
    <3>1. k \in Posts /\ OfInsert(k) /\ keyMessages[k].down /\ keyMessages'[k] = keyMessages[k] /\ j \in Posts
      BY <1>2 DEF OfInsert
    <3>2. QED
      BY <1>1, <3>1 DEF TapOrder, OfInsert, GoesUp, IsUp
  <2>5. insertIsDown' # 0 => \A k \in Posts' : OfInsert(k)' =>
           /\ keyMessages'[k].press <= insertIsDown'
           /\ keyMessages'[k].down \/ keyMessages'[k].press < insertIsDown'
    BY <1>1, <1>2 DEF TapOrder, OfInsert
  <2>6. QED
    BY ONLY <2>1, <2>2, <2>3, <2>4, <2>5 DEF TapOrder
<1>4. TapAhead'
  <2>1. \A k \in Posts' : keyMessages'[k].down =>
           /\ keyMessages'[k].press > otherPress
           /\ keyMessages'[k].press >= downAsHeard /\ keyMessages'[k].press >= counted.press
           /\ downAsHeard = 0 \/ ~OfInsert(k)' => keyMessages'[k].press > counted.press
    BY <1>1, <1>2 DEF TapAhead, OfInsert
  <2>2. \A k \in Posts' : /\ OfInsert(k)' /\ keyMessages'[k].down /\ downAsHeard # 0
                          /\ keyMessages'[k].press > downAsHeard
           => \E j \in Posts' : j < k /\ GoesUp(j, downAsHeard)'
    <3> SUFFICES ASSUME NEW k \in Posts', OfInsert(k)', keyMessages'[k].down, downAsHeard # 0,
                        keyMessages'[k].press > downAsHeard
                 PROVE  \E j \in Posts : j < k /\ GoesUp(j, downAsHeard)
      BY DEF OfInsert, GoesUp, IsUp
    <3>1. CASE k \in Posts
      BY <1>1, <3>1 DEF TapAhead, OfInsert
    <3>2. CASE k \notin Posts
      BY <1>1, <1>2, <3>2 DEF TapAhead, OfInsert
    <3>3. QED
      BY <3>1, <3>2
  <2>3. downAsHeard # 0 =>
           /\ counted.press <= downAsHeard
           /\ downAsHeard = insertIsDown' \/ \E j \in Posts' : GoesUp(j, downAsHeard)'
    BY <1>1, <1>2 DEF TapAhead, OfInsert, GoesUp, IsUp
  <2>4. insertIsDown' # 0 =>
           /\ otherPress # insertIsDown' /\ counted.press <= insertIsDown'
           /\ downAsHeard = 0 => counted.press < insertIsDown'
    BY <1>1, <1>2 DEF TapAhead
  <2>5. QED
    BY <2>1, <2>2, <2>3, <2>4 DEF TapAhead
<1>5. TapState'
  BY <1>1, <1>2 DEF TapState, OfInsert, IsUp
<1>6. QED
  BY <1>3, <1>4, <1>5

LEMMA OtherPressed ==
    ASSUME Insert!DoubleInsertAssumption, TapInv, Unheard, presses' = presses + 1, UNCHANGED insertIsDown,
           NEW e, Posted(e, "other", TRUE, (presses + 1))
    PROVE  TapOrder' /\ TapAhead' /\ TapState'
<1> USE DEF Posted, Unheard
<1>1. TapTyped /\ TapOrder /\ TapAhead /\ TapState
  BY DEF TapInv
<1>2. /\ presses \in Nat /\ otherPress \in 0..presses /\ downAsHeard \in 0..presses /\ counted.press \in 0..presses
      /\ insertIsDown \in 0..presses
      /\ \A k \in Posts : keyMessages[k].press \in 1..presses /\ keyMessages[k].down \in BOOLEAN
  BY <1>1, PressesType
<1>3. TapOrder'
  <2>1. \A k \in Posts' : /\ keyMessages'[k].press \in 1..presses'
                          /\ ~OfInsert(k)' => keyMessages'[k].down /\ keyMessages'[k].press # insertIsDown'
    BY <1>1, <1>2 DEF TapOrder, OfInsert
  <2>2. \A k \in Posts' : OfInsert(k)' /\ keyMessages'[k].down =>
           keyMessages'[k].press = insertIsDown' \/ \E j \in Posts' : j > k /\ GoesUp(j, keyMessages[k].press)'
    <3> SUFFICES ASSUME NEW k \in Posts', OfInsert(k)', keyMessages'[k].down, keyMessages'[k].press # insertIsDown'
                 PROVE  \E j \in Posts' : j > k /\ GoesUp(j, keyMessages[k].press)'
      OBVIOUS
    <3>1. k \in Posts /\ OfInsert(k) /\ keyMessages[k].down /\ keyMessages'[k] = keyMessages[k]
      BY <1>2 DEF OfInsert
    <3>2. CASE keyMessages[k].press = insertIsDown
      BY <1>1, <1>2, <3>1, <3>2 DEF TapOrder, OfInsert, GoesUp, IsUp
    <3>3. CASE keyMessages[k].press # insertIsDown
      <4>1. PICK j \in Posts : j > k /\ GoesUp(j, keyMessages[k].press)
        BY <1>1, <3>1, <3>3 DEF TapOrder
      <4>2. QED
        BY <3>1, <4>1 DEF OfInsert, GoesUp, IsUp
    <3>4. QED
      BY <3>2, <3>3
  <2>3. \A k, j \in Posts' : k < j /\ keyMessages'[j].down =>
           \/ keyMessages'[k].press < keyMessages'[j].press
           \/ /\ keyMessages'[k].press = keyMessages'[j].press /\ keyMessages'[k].down
              /\ OfInsert(k)' /\ OfInsert(j)'
    <3> SUFFICES ASSUME NEW k \in Posts', NEW j \in Posts', k < j, keyMessages'[j].down
                 PROVE  \/ keyMessages'[k].press < keyMessages'[j].press
                        \/ /\ keyMessages'[k].press = keyMessages'[j].press /\ keyMessages'[k].down
                           /\ OfInsert(k)' /\ OfInsert(j)'
      OBVIOUS
    <3>1. k \in Posts /\ keyMessages'[k] = keyMessages[k]
      BY <1>2
    <3>2. CASE j \in Posts
      BY <1>1, <1>2, <3>1, <3>2 DEF TapOrder, OfInsert
    <3>3. CASE j \notin Posts
      BY <1>1, <1>2, <3>1, <3>3 DEF TapOrder, OfInsert
    <3>4. QED
      BY <3>2, <3>3
  <2>4. \A k, j \in Posts' : /\ k < j /\ OfInsert(k)' /\ OfInsert(j)' /\ keyMessages'[k].down /\ keyMessages'[j].down
                             /\ keyMessages'[k].press < keyMessages'[j].press
           => \E i \in Posts' : k < i /\ i < j /\ GoesUp(i, keyMessages[k].press)'
    <3> SUFFICES ASSUME NEW k \in Posts', NEW j \in Posts', k < j, OfInsert(k)', OfInsert(j)', keyMessages'[k].down,
                        keyMessages'[j].down, keyMessages'[k].press < keyMessages'[j].press
                 PROVE  \E i \in Posts' : k < i /\ i < j /\ GoesUp(i, keyMessages[k].press)'
      OBVIOUS
    <3>1. k \in Posts /\ OfInsert(k) /\ keyMessages[k].down /\ keyMessages'[k] = keyMessages[k] /\ j \in Posts
      BY <1>2 DEF OfInsert
    <3>2. QED
      BY <1>1, <3>1 DEF TapOrder, OfInsert, GoesUp, IsUp
  <2>5. insertIsDown' # 0 => \A k \in Posts' : OfInsert(k)' =>
           /\ keyMessages'[k].press <= insertIsDown'
           /\ keyMessages'[k].down \/ keyMessages'[k].press < insertIsDown'
    BY <1>1, <1>2 DEF TapOrder, OfInsert
  <2>6. QED
    BY ONLY <2>1, <2>2, <2>3, <2>4, <2>5 DEF TapOrder
<1>4. TapAhead'
  <2>1. \A k \in Posts' : keyMessages'[k].down =>
           /\ keyMessages'[k].press > otherPress
           /\ keyMessages'[k].press >= downAsHeard /\ keyMessages'[k].press >= counted.press
           /\ downAsHeard = 0 \/ ~OfInsert(k)' => keyMessages'[k].press > counted.press
    BY <1>1, <1>2 DEF TapAhead, OfInsert
  <2>2. \A k \in Posts' : /\ OfInsert(k)' /\ keyMessages'[k].down /\ downAsHeard # 0
                          /\ keyMessages'[k].press > downAsHeard
           => \E j \in Posts' : j < k /\ GoesUp(j, downAsHeard)'
    <3> SUFFICES ASSUME NEW k \in Posts', OfInsert(k)', keyMessages'[k].down, downAsHeard # 0,
                        keyMessages'[k].press > downAsHeard
                 PROVE  \E j \in Posts : j < k /\ GoesUp(j, downAsHeard)
      BY DEF OfInsert, GoesUp, IsUp
    <3>1. CASE k \in Posts
      BY <1>1, <3>1 DEF TapAhead, OfInsert
    <3>2. CASE k \notin Posts
      BY <1>1, <1>2, <3>2 DEF TapAhead, OfInsert
    <3>3. QED
      BY <3>1, <3>2
  <2>3. downAsHeard # 0 =>
           /\ counted.press <= downAsHeard
           /\ downAsHeard = insertIsDown' \/ \E j \in Posts' : GoesUp(j, downAsHeard)'
    BY <1>1, <1>2 DEF TapAhead, OfInsert, GoesUp, IsUp
  <2>4. insertIsDown' # 0 =>
           /\ otherPress # insertIsDown' /\ counted.press <= insertIsDown'
           /\ downAsHeard = 0 => counted.press < insertIsDown'
    BY <1>1, <1>2 DEF TapAhead
  <2>5. QED
    BY <2>1, <2>2, <2>3, <2>4 DEF TapAhead
<1>5. TapState'
  BY <1>1, <1>2 DEF TapState, OfInsert, IsUp
<1>6. QED
  BY <1>3, <1>4, <1>5

------------------------------------------------------------------------------
(* A message is handled.                                                       *)

\* The first message, and where the others are then; it is posted again if it is a release
\* that is injected.
Back(k) == IsUp(1) /\ keyMessages'[k] = keyMessages[1] /\ \A j \in Posts' : j <= k

Taken ==
    /\ 1 \in Posts /\ keyMessages[1] = Head(keyMessages) /\ keyMessages' \in Seq(TapMessage)
    /\ \A k \in Posts' : /\ k \in Nat \ {0}
                         /\ (k + 1 \in Posts /\ keyMessages'[k] = keyMessages[k + 1]) \/ Back(k)
    /\ \A k \in Posts : k \in Nat \ {0} /\ (k # 1 => k - 1 \in Posts' /\ keyMessages'[k - 1] = keyMessages[k])

\* What the handling of a message does, by what it is.
Handled(m) ==
    /\ UNCHANGED <<i_clock, insertIsDown, presses, isOnScreen, leaving, crossings>>
    /\ lastDown' = (m.down /\ OfInsert(1))
    /\ \/ ~OfInsert(1) /\ Insert!OtherKey(m)
       \/ OfInsert(1) /\ ~m.down /\ Insert!ReleaseForHost(m)
       \/ OfInsert(1) /\ ~m.down /\ Insert!Release(m)
       \/ OfInsert(1) /\ m.down /\ Insert!isFirst(m) /\ Insert!FirstPress(m)
       \/ OfInsert(1) /\ m.down /\ ~Insert!isFirst(m) /\ Insert!Again(m)

LEMMA TakesOne ==
    ASSUME Insert!DoubleInsertAssumption, TapTyped, TapOrder, Insert!onKey
    PROVE  Taken /\ Handled(keyMessages[1]) /\ insertInState' \in BOOLEAN
<1>1. keyMessages \in Seq(TapMessage) /\ keyMessages # <<>>
  BY DEF TapTyped, Insert!onKey
<1> DEFINE r == Tail(keyMessages)
<1>2. /\ r \in Seq(TapMessage) /\ Len(r) = Len(keyMessages) - 1
      /\ Len(keyMessages) \in Nat \ {0} /\ Head(keyMessages) = keyMessages[1]
      /\ Head(keyMessages) \in TapMessage
      /\ \A k \in 1 .. Len(r) : r[k] = keyMessages[k + 1]
  BY <1>1, Behind
<1> HIDE DEF r
<1>3. Handled(keyMessages[1]) /\ insertInState' \in BOOLEAN
  <2>1. PICK m : m = Head(keyMessages)
    OBVIOUS
  <2>2. /\ m.key \in {"insert", "other"} /\ m.down \in BOOLEAN /\ m = keyMessages[1] /\ (OfInsert(1) <=> m.key = "insert")
    BY <1>2, <2>1 DEF TapMessage, OfInsert
  <2>3. /\ UNCHANGED <<i_clock, insertIsDown, presses, isOnScreen, leaving, crossings>>
        /\ lastDown' = (m.down /\ m.key = "insert")
        /\ insertInState' = IF m.key = "insert" THEN m.down ELSE insertInState
        /\ IF m.key = "other" THEN Insert!OtherKey(m)
           ELSE IF ~m.down /\ ~isOnScreen /\ inPrimaryKeyDownList THEN Insert!ReleaseForHost(m)
           ELSE IF ~m.down THEN Insert!Release(m)
           ELSE IF Insert!isFirst(m) THEN Insert!FirstPress(m)
           ELSE Insert!Again(m)
    BY <2>1 DEF Insert!onKey, Insert!keyboardVars
  <2>4. insertInState' \in BOOLEAN
    BY <2>2, <2>3 DEF TapTyped, Insert!TypeOK
  <2>5. Handled(m)
    BY <2>2, <2>3 DEF Handled
  <2>6. QED
    BY <2>2, <2>4, <2>5
<1>4. keyMessages' = r \/ (IsUp(1) /\ keyMessages' = Append(r, keyMessages[1]))
  <2>1. PICK m : m = keyMessages[1]
    OBVIOUS
  <2>2. Handled(m)
    BY <1>3, <2>1
  <2>3. keyMessages' = r \/ (OfInsert(1) /\ ~m.down /\ keyMessages' = Append(r, m))
    BY <2>2 DEF Handled, Insert!OtherKey, Insert!ReleaseForHost, Insert!Release, Insert!FirstPress, Insert!Again, r
  <2>4. QED
    BY <2>1, <2>3 DEF IsUp
<1>5. CASE keyMessages' = r
  <2>1. \A k \in Posts : k # 1 => k - 1 \in Posts' /\ keyMessages'[k - 1] = keyMessages[k]
    <3> SUFFICES ASSUME NEW k \in Posts, k # 1 PROVE k - 1 \in Posts' /\ keyMessages'[k - 1] = keyMessages[k]
      OBVIOUS
    <3>1. k - 1 \in 1 .. Len(r) /\ (k - 1) + 1 = k
      BY <1>2 DEF Posts
    <3>2. r[k - 1] = keyMessages[(k - 1) + 1]
      BY <1>2, <3>1
    <3>3. QED
      BY <1>5, <3>1, <3>2 DEF Posts
  <2>2. \A k \in Posts' : k \in Nat \ {0} /\ k + 1 \in Posts /\ keyMessages'[k] = keyMessages[k + 1]
    BY <1>2, <1>5 DEF Posts
  <2>3. QED
    BY <1>2, <1>3, <1>5, <2>1, <2>2 DEF Taken, Posts
<1>6. CASE IsUp(1) /\ keyMessages' = Append(r, keyMessages[1])
  <2>1. keyMessages[1] \in TapMessage
    BY <1>2
  <2>2. /\ keyMessages' \in Seq(TapMessage) /\ Len(keyMessages') = Len(r) + 1
        /\ keyMessages'[Len(r) + 1] = keyMessages[1]
        /\ \A k \in 1 .. Len(r) : keyMessages'[k] = r[k]
    BY <1>2, <1>6, <2>1, Appended
  <2>3. Posts' = 1 .. Len(keyMessages) /\ Len(r) + 1 = Len(keyMessages)
    BY <1>2, <2>2 DEF Posts
  <2>4. \A k \in Posts : k # 1 => k - 1 \in Posts' /\ keyMessages'[k - 1] = keyMessages[k]
    <3> SUFFICES ASSUME NEW k \in Posts, k # 1 PROVE k - 1 \in Posts' /\ keyMessages'[k - 1] = keyMessages[k]
      OBVIOUS
    <3>1. k - 1 \in 1 .. Len(r) /\ (k - 1) + 1 = k
      BY <1>2 DEF Posts
    <3>2. r[k - 1] = keyMessages[(k - 1) + 1] /\ keyMessages'[k - 1] = r[k - 1]
      BY <1>2, <2>2, <3>1
    <3>3. k - 1 \in Posts'
      BY <1>2, <2>3, <3>1
    <3>4. QED
      BY <3>1, <3>2, <3>3
  <2>5. ASSUME NEW k \in Posts' PROVE k \in Nat \ {0} /\ ((k + 1 \in Posts /\ keyMessages'[k] = keyMessages[k + 1]) \/ Back(k))
    <3>1. CASE k = Len(keyMessages)
      BY <1>2, <1>6, <2>2, <2>3, <3>1 DEF Back
    <3>2. CASE k # Len(keyMessages)
      <4>1. k \in 1 .. Len(r) /\ k + 1 \in Posts /\ k \in Nat \ {0}
        BY <1>2, <2>3, <3>2 DEF Posts
      <4>2. QED
        BY <1>2, <2>2, <4>1
    <3>3. QED
      BY <3>1, <3>2
  <2>6. QED
    BY <1>2, <1>3, <2>2, <2>4, <2>5 DEF Taken, Posts
<1>7. QED
  BY <1>4, <1>5, <1>6

\* A message that is not the first is where it was, one place on.
LEMMA Shifts ==
    ASSUME Taken
    PROVE  /\ \A k \in Posts' : keyMessages'[k].down \/ ~OfInsert(k)' =>
                  /\ k + 1 \in Posts /\ keyMessages'[k] = keyMessages[k + 1]
                  /\ OfInsert(k + 1) <=> OfInsert(k)'
           /\ \A j \in Posts : \A p : j # 1 /\ GoesUp(j, p) => j - 1 \in Posts' /\ GoesUp(j - 1, p)'
           /\ \A j \in Posts : j # 1 /\ IsUp(j) => j - 1 \in Posts' /\ IsUp(j - 1)'
           /\ \A k \in Posts' : \E j \in Posts : keyMessages'[k] = keyMessages[j] /\ (OfInsert(k)' <=> OfInsert(j))
<1>1. \A k \in Posts' : keyMessages'[k].down \/ ~OfInsert(k)' => k + 1 \in Posts /\ keyMessages'[k] = keyMessages[k + 1]
  BY DEF Taken, Back, IsUp, OfInsert
<1>2. \A j : \A k \in Posts' : keyMessages'[k] = keyMessages[j] => (OfInsert(j) <=> OfInsert(k)')
  BY DEF OfInsert
<1>3. \A j \in Posts : j # 1 => j - 1 \in Posts' /\ keyMessages'[j - 1] = keyMessages[j]
  BY DEF Taken
<1>4. \A j \in Posts : \A p : j # 1 /\ GoesUp(j, p) => j - 1 \in Posts' /\ GoesUp(j - 1, p)'
  BY <1>3 DEF GoesUp, IsUp, OfInsert
<1>5. \A j \in Posts : j # 1 /\ IsUp(j) => j - 1 \in Posts' /\ IsUp(j - 1)'
  BY <1>3 DEF IsUp, OfInsert
<1>6. \A k \in Posts' : \E j \in Posts : keyMessages'[k] = keyMessages[j] /\ (OfInsert(k)' <=> OfInsert(j))
  BY <1>2 DEF Taken, Back
<1>7. QED
  BY <1>1, <1>2, <1>4, <1>5, <1>6

LEMMA TakesOrder ==
    ASSUME Insert!DoubleInsertAssumption, TapTyped, TapOrder, Taken, UNCHANGED <<presses, insertIsDown>> PROVE TapOrder'
<1>1. \A k \in Posts' : \E j \in Posts : keyMessages'[k] = keyMessages[j] /\ (OfInsert(k)' <=> OfInsert(j))
  BY Shifts
<1>2. \A k \in Posts' : /\ keyMessages'[k].press \in 1..presses'
                        /\ ~OfInsert(k)' => keyMessages'[k].down /\ keyMessages'[k].press # insertIsDown'
  BY <1>1 DEF TapOrder
<1>3. \A k \in Posts' : OfInsert(k)' /\ keyMessages'[k].down =>
         keyMessages'[k].press = insertIsDown' \/ \E j \in Posts' : j > k /\ GoesUp(j, keyMessages[k].press)'
  <2> SUFFICES ASSUME NEW k \in Posts', OfInsert(k)', keyMessages'[k].down, keyMessages'[k].press # insertIsDown'
               PROVE  \E j \in Posts' : j > k /\ GoesUp(j, keyMessages[k].press)'
    OBVIOUS
  <2>1. k + 1 \in Posts /\ keyMessages'[k] = keyMessages[k + 1] /\ OfInsert(k + 1) /\ k \in Nat \ {0}
    BY Shifts DEF Taken
  <2>2. PICK j \in Posts : j > k + 1 /\ GoesUp(j, keyMessages[k + 1].press)
    BY <2>1 DEF TapOrder
  <2>3. j \in Nat /\ j # 1 /\ j - 1 > k
    BY <2>1, <2>2 DEF Taken
  <2>4. j - 1 \in Posts' /\ GoesUp(j - 1, keyMessages[k].press)'
    <3>1. \A p : GoesUp(j, p) => j - 1 \in Posts' /\ GoesUp(j - 1, p)'
      BY <2>3, Shifts
    <3>2. QED
      BY <2>1, <2>2, <2>3, <3>1 DEF GoesUp, IsUp, OfInsert, Taken
  <2>5. QED
    BY <2>3, <2>4
<1>4. \A k, j \in Posts' : k < j /\ keyMessages'[j].down =>
         \/ keyMessages'[k].press < keyMessages'[j].press
         \/ /\ keyMessages'[k].press = keyMessages'[j].press /\ keyMessages'[k].down
            /\ OfInsert(k)' /\ OfInsert(j)'
  <2> SUFFICES ASSUME NEW k \in Posts', NEW j \in Posts', k < j, keyMessages'[j].down
               PROVE  \/ keyMessages'[k].press < keyMessages'[j].press
                      \/ /\ keyMessages'[k].press = keyMessages'[j].press /\ keyMessages'[k].down
                         /\ OfInsert(k)' /\ OfInsert(j)'
    OBVIOUS
  <2>1. j + 1 \in Posts /\ keyMessages'[j] = keyMessages[j + 1] /\ j \in Nat /\ k \in Nat
    BY Shifts DEF Taken
  <2>2. k + 1 \in Posts /\ keyMessages'[k] = keyMessages[k + 1] /\ k + 1 < j + 1
    BY <2>1 DEF Taken, Back
  <2>3. (OfInsert(k + 1) <=> OfInsert(k)') /\ (OfInsert(j + 1) <=> OfInsert(j)')
    BY <2>1, <2>2 DEF OfInsert
  <2>4. QED
    BY <2>1, <2>2, <2>3 DEF TapOrder
<1>5. \A k, j \in Posts' : /\ k < j /\ OfInsert(k)' /\ OfInsert(j)' /\ keyMessages'[k].down /\ keyMessages'[j].down
                           /\ keyMessages'[k].press < keyMessages'[j].press
         => \E i \in Posts' : k < i /\ i < j /\ GoesUp(i, keyMessages[k].press)'
  <2> SUFFICES ASSUME NEW k \in Posts', NEW j \in Posts', k < j, OfInsert(k)', OfInsert(j)', keyMessages'[k].down,
                      keyMessages'[j].down, keyMessages'[k].press < keyMessages'[j].press
               PROVE  \E i \in Posts' : k < i /\ i < j /\ GoesUp(i, keyMessages[k].press)'
    OBVIOUS
  <2>1. /\ k + 1 \in Posts /\ keyMessages'[k] = keyMessages[k + 1] /\ OfInsert(k + 1) /\ k \in Nat
        /\ j + 1 \in Posts /\ keyMessages'[j] = keyMessages[j + 1] /\ OfInsert(j + 1) /\ j \in Nat
    BY Shifts DEF Taken
  <2>2. PICK i \in Posts : k + 1 < i /\ i < j + 1 /\ GoesUp(i, keyMessages[k + 1].press)
    BY <2>1 DEF TapOrder
  <2>3. i \in Nat /\ i # 1 /\ k < i - 1 /\ i - 1 < j
    BY <2>1, <2>2 DEF Taken
  <2>4. i - 1 \in Posts' /\ GoesUp(i - 1, keyMessages[k].press)'
    BY <2>1, <2>2, <2>3 DEF GoesUp, IsUp, OfInsert, Taken
  <2>5. QED
    BY <2>3, <2>4
<1>6. insertIsDown' # 0 => \A k \in Posts' : OfInsert(k)' =>
         /\ keyMessages'[k].press <= insertIsDown'
         /\ keyMessages'[k].down \/ keyMessages'[k].press < insertIsDown'
  BY <1>1 DEF TapOrder
<1>7. QED
  BY ONLY <1>2, <1>3, <1>4, <1>5, <1>6 DEF TapOrder

\* What is handled is heard, and what waits comes after it.
LEMMA HeardOther ==
    ASSUME Insert!DoubleInsertAssumption, TapTyped, TapOrder, TapAhead, Taken, ~OfInsert(1),
           UNCHANGED <<presses, insertIsDown, downAsHeard, counted>>, otherPress' = keyMessages[1].press
    PROVE  TapAhead'
<1>1. /\ presses \in Nat /\ downAsHeard \in 0..presses /\ counted.press \in 0..presses /\ insertIsDown \in 0..presses
      /\ \A k \in Posts : keyMessages[k].press \in 1..presses
  BY PressesType
<1>2. \A k \in Posts' : keyMessages'[k].down =>
         k + 1 \in Posts /\ 1 < k + 1 /\ keyMessages'[k] = keyMessages[k + 1] /\ (OfInsert(k + 1) <=> OfInsert(k)')
  BY Shifts DEF Taken
<1>3. \A k \in Posts' : keyMessages'[k].down =>
         /\ keyMessages'[k].press > otherPress'
         /\ keyMessages'[k].press >= downAsHeard' /\ keyMessages'[k].press >= counted'.press
         /\ downAsHeard' = 0 \/ ~OfInsert(k)' => keyMessages'[k].press > counted'.press
  BY <1>1, <1>2 DEF TapAhead, TapOrder, Taken
<1>4. ASSUME NEW k \in Posts', OfInsert(k)', keyMessages'[k].down, downAsHeard' # 0, keyMessages'[k].press > downAsHeard'
      PROVE  \E j \in Posts' : j < k /\ GoesUp(j, downAsHeard)'
  <2>1. k + 1 \in Posts /\ keyMessages'[k] = keyMessages[k + 1] /\ OfInsert(k + 1) /\ k \in Nat
    BY <1>2, <1>4 DEF Taken
  <2>2. PICK j \in Posts : j < k + 1 /\ GoesUp(j, downAsHeard)
    BY <1>4, <2>1 DEF TapAhead
  <2>3. j # 1 /\ j \in Nat /\ downAsHeard' = downAsHeard
    BY <2>2 DEF GoesUp, IsUp, Taken
  <2>4. j - 1 \in Posts' /\ GoesUp(j - 1, downAsHeard)' /\ j - 1 < k
    BY <2>1, <2>2, <2>3 DEF Taken, GoesUp, IsUp, OfInsert
  <2>5. QED
    BY <2>4
<1>5. downAsHeard' # 0 =>
         /\ counted'.press <= downAsHeard'
         /\ downAsHeard' = insertIsDown' \/ \E j \in Posts' : GoesUp(j, downAsHeard)'
  <2> SUFFICES ASSUME downAsHeard # 0, downAsHeard # insertIsDown
               PROVE  \E j \in Posts' : GoesUp(j, downAsHeard)'
    BY DEF TapAhead
  <2>1. PICK j \in Posts : GoesUp(j, downAsHeard)
    BY DEF TapAhead
  <2>2. j # 1
    BY <2>1 DEF GoesUp, IsUp
  <2>3. QED
    BY <2>1, <2>2 DEF Taken, GoesUp, IsUp, OfInsert
<1>6. insertIsDown' # 0 =>
         /\ otherPress' # insertIsDown' /\ counted'.press <= insertIsDown'
         /\ downAsHeard' = 0 => counted'.press < insertIsDown'
  BY <1>1 DEF TapAhead, TapOrder, Taken
<1>7. QED
  BY <1>3, <1>4, <1>5, <1>6 DEF TapAhead

LEMMA HeardUp ==
    ASSUME Insert!DoubleInsertAssumption, TapTyped, TapOrder, TapAhead, Taken, OfInsert(1), ~keyMessages[1].down,
           UNCHANGED <<presses, insertIsDown, otherPress, counted>>,
           downAsHeard' = IF keyMessages[1].press # downAsHeard THEN downAsHeard ELSE 0
    PROVE  TapAhead'
<1>1. /\ presses \in Nat /\ downAsHeard \in 0..presses /\ counted.press \in 0..presses /\ insertIsDown \in 0..presses
      /\ otherPress \in 0..presses
      /\ \A k \in Posts : keyMessages[k].press \in 1..presses
  BY PressesType
<1>2. \A k \in Posts' : keyMessages'[k].down =>
         k + 1 \in Posts /\ 1 < k + 1 /\ keyMessages'[k] = keyMessages[k + 1] /\ (OfInsert(k + 1) <=> OfInsert(k)')
  BY Shifts DEF Taken
<1>3. \A k \in Posts' : keyMessages'[k].down =>
         /\ keyMessages'[k].press > otherPress'
         /\ keyMessages'[k].press >= downAsHeard' /\ keyMessages'[k].press >= counted'.press
         /\ downAsHeard' = 0 \/ ~OfInsert(k)' => keyMessages'[k].press > counted'.press
  BY <1>1, <1>2 DEF TapAhead, TapOrder, Taken
<1>4. ASSUME NEW k \in Posts', OfInsert(k)', keyMessages'[k].down, downAsHeard' # 0, keyMessages'[k].press > downAsHeard'
      PROVE  \E j \in Posts' : j < k /\ GoesUp(j, downAsHeard)'
  <2>1. k + 1 \in Posts /\ keyMessages'[k] = keyMessages[k + 1] /\ OfInsert(k + 1) /\ k \in Nat
    BY <1>2, <1>4 DEF Taken
  <2>2. downAsHeard' = downAsHeard /\ keyMessages[1].press # downAsHeard
    BY <1>4
  <2>3. PICK j \in Posts : j < k + 1 /\ GoesUp(j, downAsHeard)
    BY <1>4, <2>1, <2>2 DEF TapAhead
  <2>4. j # 1 /\ j \in Nat
    BY <2>2, <2>3 DEF GoesUp, Taken
  <2>5. j - 1 \in Posts' /\ GoesUp(j - 1, downAsHeard)' /\ j - 1 < k
    BY <2>1, <2>2, <2>3, <2>4 DEF Taken, GoesUp, IsUp, OfInsert
  <2>6. QED
    BY <2>5
<1>5. downAsHeard' # 0 =>
         /\ counted'.press <= downAsHeard'
         /\ downAsHeard' = insertIsDown' \/ \E j \in Posts' : GoesUp(j, downAsHeard)'
  <2> SUFFICES ASSUME downAsHeard' # 0, downAsHeard # insertIsDown
               PROVE  \E j \in Posts' : GoesUp(j, downAsHeard)'
    BY DEF TapAhead
  <2>1. downAsHeard' = downAsHeard /\ keyMessages[1].press # downAsHeard
    OBVIOUS
  <2>2. PICK j \in Posts : GoesUp(j, downAsHeard)
    BY <2>1 DEF TapAhead
  <2>3. j # 1
    BY <2>1, <2>2 DEF GoesUp
  <2>4. QED
    BY <2>1, <2>2, <2>3 DEF Taken, GoesUp, IsUp, OfInsert
<1>6. insertIsDown' # 0 =>
         /\ otherPress' # insertIsDown' /\ counted'.press <= insertIsDown'
         /\ downAsHeard' = 0 => counted'.press < insertIsDown'
  <2>1. insertIsDown # 0 => keyMessages[1].press < insertIsDown
    BY <1>1 DEF TapOrder, Taken
  <2>2. QED
    BY <1>1, <2>1 DEF TapAhead, Taken
<1>7. QED
  BY <1>3, <1>4, <1>5, <1>6 DEF TapAhead

LEMMA HeardDown ==
    ASSUME Insert!DoubleInsertAssumption, TapTyped, TapOrder, TapAhead, Taken, OfInsert(1), keyMessages[1].down,
           UNCHANGED <<presses, insertIsDown, otherPress>>, downAsHeard' = keyMessages[1].press,
           counted'.press \in {0, counted.press, keyMessages[1].press}
    PROVE  TapAhead'
<1>1. /\ presses \in Nat /\ downAsHeard \in 0..presses /\ counted.press \in 0..presses /\ insertIsDown \in 0..presses
      /\ otherPress \in 0..presses
      /\ \A k \in Posts : keyMessages[k].press \in 1..presses
  BY PressesType
<1>2. \A k \in Posts' : keyMessages'[k].down =>
         /\ k + 1 \in Posts /\ 1 < k + 1 /\ keyMessages'[k] = keyMessages[k + 1] /\ (OfInsert(k + 1) <=> OfInsert(k)')
         /\ keyMessages[1].press < keyMessages[k + 1].press \/ (keyMessages[1].press = keyMessages[k + 1].press /\ OfInsert(k + 1))
  <2>1. \A k \in Posts' : keyMessages'[k].down =>
         k + 1 \in Posts /\ 1 < k + 1 /\ keyMessages'[k] = keyMessages[k + 1] /\ (OfInsert(k + 1) <=> OfInsert(k)')
    BY Shifts DEF Taken
  <2>2. QED
    BY <2>1 DEF TapOrder, Taken
<1>3. 1 \in Posts /\ counted'.press \in Nat /\ counted'.press <= keyMessages[1].press /\ downAsHeard' # 0
  BY <1>1 DEF TapAhead, Taken
<1>4. \A k \in Posts' : keyMessages'[k].down =>
         /\ keyMessages'[k].press > otherPress'
         /\ keyMessages'[k].press >= downAsHeard' /\ keyMessages'[k].press >= counted'.press
         /\ downAsHeard' = 0 \/ ~OfInsert(k)' => keyMessages'[k].press > counted'.press
  BY <1>1, <1>2, <1>3 DEF TapAhead
<1>5. ASSUME NEW k \in Posts', OfInsert(k)', keyMessages'[k].down, downAsHeard' # 0, keyMessages'[k].press > downAsHeard'
      PROVE  \E j \in Posts' : j < k /\ GoesUp(j, downAsHeard)'
  <2>1. k + 1 \in Posts /\ keyMessages'[k] = keyMessages[k + 1] /\ OfInsert(k + 1) /\ k \in Nat /\ 1 < k + 1
    BY <1>2, <1>5 DEF Taken
  <2>2. PICK j \in Posts : 1 < j /\ j < k + 1 /\ GoesUp(j, keyMessages[1].press)
    BY <1>3, <1>5, <2>1 DEF TapOrder
  <2>3. j # 1 /\ j \in Nat
    BY <2>2 DEF Taken
  <2>4. j - 1 \in Posts' /\ GoesUp(j - 1, downAsHeard)' /\ j - 1 < k
    BY <2>1, <2>2, <2>3 DEF Taken, GoesUp, IsUp, OfInsert
  <2>5. QED
    BY <2>4
<1>6. downAsHeard' = insertIsDown' \/ \E j \in Posts' : GoesUp(j, downAsHeard)'
  <2> SUFFICES ASSUME keyMessages[1].press # insertIsDown
               PROVE  \E j \in Posts' : GoesUp(j, downAsHeard)'
    OBVIOUS
  <2>1. PICK j \in Posts : j > 1 /\ GoesUp(j, keyMessages[1].press)
    BY <1>3 DEF TapOrder
  <2>2. j # 1 /\ j \in Nat
    BY <2>1 DEF Taken
  <2>3. QED
    BY <2>1, <2>2 DEF Taken, GoesUp, IsUp, OfInsert
<1>7. insertIsDown' # 0 =>
         /\ otherPress' # insertIsDown' /\ counted'.press <= insertIsDown'
         /\ downAsHeard' = 0 => counted'.press < insertIsDown'
  <2>1. insertIsDown # 0 => keyMessages[1].press <= insertIsDown
    BY <1>1, <1>3 DEF TapOrder
  <2>2. QED
    BY <1>1, <1>3, <2>1 DEF TapAhead
<1>8. QED
  BY <1>3, <1>4, <1>5, <1>6, <1>7 DEF TapAhead


\* The press that is down by the taps is the one that was heard, where they are not mixed.
LEMMA NotMixed ==
    ASSUME Insert!DoubleInsertAssumption, TapInv, OfInsert(1), 1 \in Posts, ~Insert!mixed
    PROVE  /\ insertHeld /\ keyMessages[1].down => keyMessages[1].press = downAsHeard
           /\ insertHeld => downAsHeard = IF counted.press # 0 THEN counted.press ELSE returnedBy
           /\ ~insertHeld => downAsHeard = 0
<1>1. TapTyped /\ TapOrder /\ TapAhead /\ TapState
  BY DEF TapInv
<1>2. /\ insertHeld \in BOOLEAN /\ downAsHeard \in Nat /\ keyMessages[1].press \in Nat
      /\ \A k \in Posts : k \in Nat \ {0}
  BY <1>1, PressesType DEF TapTyped, Insert!TypeOK
<1>3. insertHeld => downAsHeard # 0 /\ downAsHeard = IF counted.press # 0 THEN counted.press ELSE returnedBy
  BY <1>1 DEF TapState, Insert!mixed, Insert!heldBy
<1>4. ~insertHeld => downAsHeard = 0
  BY DEF Insert!mixed, Insert!heldBy
<1>5. ASSUME insertHeld, keyMessages[1].down PROVE keyMessages[1].press = downAsHeard
  <2>1. keyMessages[1].press >= downAsHeard
    BY <1>1, <1>5 DEF TapAhead
  <2>2. ~(keyMessages[1].press > downAsHeard)
    <3>1. \A j \in Posts : ~(j < 1)
      BY <1>2
    <3>2. keyMessages[1].press > downAsHeard => \E j \in Posts : j < 1 /\ GoesUp(j, downAsHeard)
      BY <1>1, <1>3, <1>5 DEF TapAhead
    <3>3. QED
      BY <3>1, <3>2
  <2>3. QED
    BY <1>2, <2>1, <2>2
<1>6. QED
  BY <1>3, <1>4, <1>5

LEMMA TapHeard ==
    ASSUME Insert!DoubleInsertAssumption, TapInv, Insert!onKey
    PROVE  TapInv'
<1>1. TapTyped /\ TapOrder /\ TapAhead /\ TapState
  BY DEF TapInv
<1>2. Taken /\ Handled(keyMessages[1]) /\ insertInState' \in BOOLEAN
  BY <1>1, TakesOne
<1>3. PICK m : m = keyMessages[1]
  OBVIOUS
<1>4. /\ UNCHANGED <<i_clock, insertIsDown, presses, isOnScreen, leaving, crossings>>
      /\ lastDown' = (m.down /\ OfInsert(1)) /\ 1 \in Posts /\ keyMessages' \in Seq(TapMessage)
  BY <1>2, <1>3 DEF Handled, Taken
<1>5. /\ presses \in 0..MaxTaps /\ MaxTaps \in Nat /\ insertIsDown \in 0..presses /\ otherPress \in 0..presses
      /\ downAsHeard \in 0..presses /\ counted.press \in 0..presses /\ presses \in Nat
      /\ m.press \in 1..presses /\ m.down \in BOOLEAN
  BY <1>1, <1>3, <1>4, PressesType
<1>6. /\ i_clock \in 1..MaxTapTime /\ MaxTapTime \in Nat /\ insertPressedAt \in 0..MaxTapTime /\ returns \in Nat
      /\ returnedBy \in Nat
      /\ insertInHook \in BOOLEAN /\ lastDown \in BOOLEAN /\ inPrimaryKeyDownList \in BOOLEAN
      /\ isOnScreen \in BOOLEAN /\ leaving \in BOOLEAN /\ insertHeld \in BOOLEAN /\ swallowInsertRelease \in BOOLEAN
      /\ upLost \in BOOLEAN /\ wrongReturn \in BOOLEAN /\ missedReturn \in BOOLEAN /\ eaten \in BOOLEAN
      /\ crossings \in 0..MaxCrossings
  BY <1>1 DEF TapTyped, Insert!TypeOK, Insert!DoubleInsertAssumption
<1>7. TapOrder'
  BY <1>1, <1>2, <1>4, TakesOrder
<1>8. SUFFICES /\ insertPressedAt' \in 0..MaxTapTime /\ returns' \in Nat /\ returnedBy' \in Nat
               /\ otherPress' \in 0..presses /\ downAsHeard' \in 0..presses /\ counted'.press \in 0..presses
               /\ insertInHook' \in BOOLEAN /\ inPrimaryKeyDownList' \in BOOLEAN /\ insertHeld' \in BOOLEAN
               /\ swallowInsertRelease' \in BOOLEAN /\ upLost' \in BOOLEAN
               /\ wrongReturn' = wrongReturn /\ missedReturn' = missedReturn /\ eaten' = eaten
               /\ TapAhead' /\ TapState'
  <2>1. /\ {insertIsDown', downAsHeard'} \subseteq 0..MaxTaps
        /\ lastDown' \in BOOLEAN
    BY <1>4, <1>5, <1>8
  <2>2. Insert!TypeOK'
    BY <1>2, <1>4, <1>5, <1>6, <1>8, <2>1 DEF Insert!TypeOK
  <2>3. TapTyped'
    BY <1>4, <1>5, <1>8, <2>2 DEF TapTyped
  <2>4. QED
    BY <1>7, <1>8, <2>3 DEF TapInv
<1>9. \A j \in Posts : j # 1 /\ IsUp(j) => j - 1 \in Posts' /\ IsUp(j - 1)'
  BY <1>2, Shifts
<1>10. ~IsUp(1) /\ (insertIsDown # 0 \/ \E j \in Posts : IsUp(j)) => insertIsDown' # 0 \/ \E j \in Posts' : IsUp(j)'
  BY <1>4, <1>9
<1>11. CASE ~OfInsert(1) /\ Insert!OtherKey(m)
  <2>1. /\ insertPressedAt' = 0 /\ otherPress' = m.press
        /\ UNCHANGED <<inPrimaryKeyDownList, insertInHook, insertHeld, swallowInsertRelease, returns, counted,
                       returnedBy, downAsHeard, upLost, wrongReturn, missedReturn, eaten>>
    BY <1>11 DEF Insert!OtherKey, Insert!heardVars, Insert!wrongVars
  <2>2. TapAhead'
    BY <1>1, <1>2, <1>3, <1>4, <1>11, <2>1, HeardOther
  <2>3. counted.press < m.press
    BY <1>1, <1>3, <1>4, <1>11 DEF TapAhead, TapOrder
  <2>4. ~lastDown' /\ ~IsUp(1)
    BY <1>4, <1>11 DEF IsUp
  <2>5. TapState'
    BY <1>1, <1>4, <1>5, <1>6, <1>10, <2>1, <2>3, <2>4 DEF TapState
  <2>6. QED
    BY <1>5, <1>6, <2>1, <2>2, <2>5
<1>12. CASE OfInsert(1) /\ ~m.down /\ Insert!ReleaseForHost(m)
  <2>1. /\ inPrimaryKeyDownList' = FALSE /\ insertInHook' = FALSE
        /\ downAsHeard' = IF m.press # downAsHeard THEN downAsHeard ELSE 0
        /\ UNCHANGED <<insertPressedAt, insertHeld, swallowInsertRelease, returns, counted, otherPress, returnedBy,
                       upLost, wrongReturn, missedReturn, eaten>>
    BY <1>12 DEF Insert!ReleaseForHost, Insert!wrongVars, Insert!tapVars, Insert!heardUp, Insert!wasUp
  <2>2. TapAhead'
    BY <1>1, <1>2, <1>3, <1>4, <1>12, <2>1, HeardUp
  <2>3. \E j \in Posts' : IsUp(j)'
    <3>1. keyMessages' = Append(Tail(keyMessages), m) /\ keyMessages # <<>> /\ keyMessages \in Seq(TapMessage)
      BY <1>1, <1>12 DEF Insert!ReleaseForHost, Insert!onKey, TapTyped
    <3>2. Tail(keyMessages) \in Seq(TapMessage) /\ m \in TapMessage
      BY <1>3, <3>1, Behind
    <3>3. Len(Tail(keyMessages)) \in Nat /\ keyMessages'[Len(Tail(keyMessages)) + 1] = m
          /\ Len(keyMessages') = Len(Tail(keyMessages)) + 1
      BY <3>1, <3>2, Appended
    <3>4. PICK n : n = Len(Tail(keyMessages)) + 1
      OBVIOUS
    <3>5. n \in Posts' /\ keyMessages'[n] = m
      BY <3>3, <3>4 DEF Posts
    <3>6. IsUp(n)'
      BY <1>3, <1>12, <3>5 DEF IsUp, OfInsert
    <3>7. QED
      BY <3>5, <3>6
  <2>4. TapState'
    BY <1>1, <1>4, <1>12, <2>1, <2>3 DEF TapState
  <2>5. downAsHeard' \in 0..presses
    BY <1>5, <2>1
  <2>6. QED
    BY <1>5, <1>6, <2>1, <2>2, <2>4, <2>5
<1>13. CASE OfInsert(1) /\ ~m.down /\ Insert!Release(m)
  <2>1. /\ insertHeld' = FALSE /\ swallowInsertRelease' = FALSE /\ upLost' = FALSE
        /\ downAsHeard' = IF m.press # downAsHeard THEN downAsHeard ELSE 0
        /\ UNCHANGED <<inPrimaryKeyDownList, insertInHook, insertPressedAt, returns, counted, otherPress,
                       returnedBy, wrongReturn, missedReturn>>
        /\ eaten' = (eaten \/ (swallowInsertRelease /\ ~Insert!mixed /\ ~(m.press # downAsHeard) /\ m.press # returnedBy))
    BY <1>13 DEF Insert!Release, Insert!heardUp, Insert!wasUp
  <2>2. TapAhead'
    BY <1>1, <1>2, <1>3, <1>4, <1>13, <2>1, HeardUp
  <2>3. ~(swallowInsertRelease /\ ~Insert!mixed /\ ~(m.press # downAsHeard) /\ m.press # returnedBy)
    <3> SUFFICES ASSUME swallowInsertRelease, ~Insert!mixed PROVE downAsHeard = returnedBy
      OBVIOUS
    <3>1. insertHeld /\ counted.press = 0
      BY <1>1 DEF TapState
    <3>2. QED
      BY <1>4, <1>13, <3>1, NotMixed
  <2>4. eaten' = eaten
    BY <1>6, <2>1, <2>3
  <2>5. ~lastDown' /\ ~insertHeld' /\ ~swallowInsertRelease'
    BY <1>4, <1>13, <2>1
  <2>6. /\ insertPressedAt' # 0 => counted'.press > otherPress'
        /\ counted'.press > otherPress' => insertPressedAt' # 0 /\ insertPressedAt' = counted'.at
    BY <1>1, <2>1 DEF TapState
  <2>7. TapState'
    BY <1>1, <2>1, <2>4, <2>5, <2>6 DEF TapState
  <2>8. downAsHeard' \in 0..presses
    BY <1>5, <2>1
  <2>9. QED
    BY <1>5, <1>6, <2>1, <2>2, <2>4, <2>7, <2>8
<1>14. CASE OfInsert(1) /\ m.down /\ Insert!isFirst(m) /\ Insert!FirstPress(m)
  <2>1. /\ insertHeld' = TRUE /\ downAsHeard' = m.press
        /\ UNCHANGED <<inPrimaryKeyDownList, insertInHook, otherPress, upLost, eaten>>
        /\ ~insertHeld /\ ~swallowInsertRelease
    BY <1>1, <1>14 DEF Insert!FirstPress, Insert!isFirst, TapState
  <2>2. ~IsUp(1) /\ m.press > otherPress /\ counted.press <= m.press /\ (insertIsDown # 0 \/ \E j \in Posts : IsUp(j))
    <3>1. m.press = insertIsDown \/ \E j \in Posts : GoesUp(j, m.press)
      BY <1>1, <1>3, <1>4, <1>14 DEF TapOrder
    <3>2. QED
      BY <1>1, <1>3, <1>4, <1>5, <1>14, <3>1 DEF TapAhead, IsUp, GoesUp
  <2>3. CASE insertPressedAt # 0 /\ i_clock - insertPressedAt <= TapWindow
    <3>1. /\ insertPressedAt' = 0 /\ swallowInsertRelease' = TRUE /\ returns' = returns + 1
          /\ wrongReturn' = (wrongReturn \/ (~Insert!mixed /\ ~Insert!tappedTwice(m)))
          /\ counted'.press = 0 /\ returnedBy' = m.press /\ missedReturn' = missedReturn
      BY <1>14, <2>3 DEF Insert!FirstPress
    <3>2. ~Insert!mixed => Insert!tappedTwice(m)
      <4> SUFFICES ASSUME ~Insert!mixed PROVE Insert!tappedTwice(m)
        OBVIOUS
      <4>1. downAsHeard = 0
        BY <1>4, <1>14, <2>1, NotMixed
      <4>2. counted.press < m.press
        BY <1>1, <1>3, <1>4, <1>14, <4>1 DEF TapAhead
      <4>3. counted.press > otherPress /\ insertPressedAt = counted.at
        BY <1>1, <2>3 DEF TapState
      <4>4. QED
        BY <1>5, <2>3, <4>2, <4>3 DEF Insert!tappedTwice
    <3>3. wrongReturn' = wrongReturn
      BY <1>6, <3>1, <3>2
    <3>4. TapAhead'
      BY <1>1, <1>2, <1>3, <1>4, <1>14, <2>1, <3>1, HeardDown
    <3>5. TapState'
      BY <1>1, <1>4, <1>5, <1>10, <2>1, <2>2, <3>1, <3>3 DEF TapState
    <3>6. QED
      BY <1>5, <1>6, <2>1, <3>1, <3>3, <3>4, <3>5
  <2>4. CASE ~(insertPressedAt # 0 /\ i_clock - insertPressedAt <= TapWindow)
    <3>1. /\ insertPressedAt' = i_clock /\ missedReturn' = (missedReturn \/ Insert!tappedTwice(m))
          /\ counted'.press = m.press /\ counted'.at = i_clock
          /\ UNCHANGED <<swallowInsertRelease, returns, wrongReturn, returnedBy>>
      BY <1>14, <2>4 DEF Insert!FirstPress
    <3>2. ~Insert!tappedTwice(m)
      <4> SUFFICES ASSUME Insert!tappedTwice(m) PROVE FALSE
        OBVIOUS
      <4>1. counted.press > otherPress /\ i_clock - counted.at <= TapWindow
        BY <1>5 DEF Insert!tappedTwice
      <4>2. QED
        BY <1>1, <2>4, <4>1 DEF TapState
    <3>3. missedReturn' = missedReturn
      BY <1>6, <3>1, <3>2
    <3>4. TapAhead'
      BY <1>1, <1>2, <1>3, <1>4, <1>14, <2>1, <3>1, HeardDown
    <3>5. TapState'
      BY <1>1, <1>4, <1>5, <1>6, <1>10, <2>1, <2>2, <3>1, <3>3 DEF TapState
    <3>6. QED
      BY <1>5, <1>6, <2>1, <3>1, <3>3, <3>4, <3>5
  <2>5. QED
    BY <2>3, <2>4
<1>15. CASE OfInsert(1) /\ m.down /\ ~Insert!isFirst(m) /\ Insert!Again(m)
  <2>1. /\ missedReturn' = (missedReturn \/ (~Insert!mixed /\ Insert!tappedTwice(m)))
        /\ eaten' = (eaten \/ (swallowInsertRelease /\ ~Insert!mixed /\ m.press # returnedBy))
        /\ downAsHeard' = m.press
        /\ UNCHANGED <<inPrimaryKeyDownList, insertInHook, insertPressedAt, insertHeld, swallowInsertRelease, returns,
                       counted, otherPress, returnedBy, upLost, wrongReturn>>
    BY <1>15 DEF Insert!Again, Insert!tapVars
  <2>2. insertHeld
    BY <1>1, <1>15 DEF Insert!isFirst, TapState
  <2>3. TapAhead'
    BY <1>1, <1>2, <1>3, <1>4, <1>15, <2>1, HeardDown
  <2>4. ~Insert!mixed => m.press = IF counted.press # 0 THEN counted.press ELSE returnedBy
    BY <1>3, <1>4, <1>15, <2>2, NotMixed
  <2>5. ~Insert!mixed => ~Insert!tappedTwice(m)
    <3>1. Insert!tappedTwice(m) => counted.press > otherPress /\ counted.press < m.press /\ counted.press # 0
      BY <1>5 DEF Insert!tappedTwice
    <3>2. QED
      BY <1>5, <2>4, <3>1
  <2>6. swallowInsertRelease /\ ~Insert!mixed => m.press = returnedBy
    BY <1>1, <2>4 DEF TapState
  <2>7. missedReturn' = missedReturn /\ eaten' = eaten
    BY <1>6, <2>1, <2>5, <2>6
  <2>8. ~IsUp(1)
    BY <1>3, <1>15 DEF IsUp
  <2>9. TapState'
    BY <1>1, <1>4, <1>10, <2>1, <2>2, <2>7, <2>8 DEF TapState
  <2>10. QED
    BY <1>5, <1>6, <2>1, <2>3, <2>7, <2>9
<1>16. QED
  BY <1>2, <1>3, <1>11, <1>12, <1>13, <1>14, <1>15 DEF Handled

------------------------------------------------------------------------------
(* The rest.                                                                   *)

LEMMA TapInit == ASSUME Insert!DoubleInsertAssumption, Insert!Init PROVE TapInv
<1>1. /\ keyMessages = <<>> /\ keyMessages \in Seq(TapMessage) /\ Posts = {}
  BY EmptySeq DEF Insert!Init, Posts
<1>2. TapTyped
  <2>1. MaxTapTime \in Nat \ {0} /\ MaxTaps \in Nat /\ MaxCrossings \in Nat
    BY DEF Insert!DoubleInsertAssumption
  <2>2. Insert!TypeOK
    <3>1. i_clock \in 1..MaxTapTime /\ presses \in 0..MaxTaps /\ crossings \in 0..MaxCrossings
      BY <2>1 DEF Insert!Init
    <3>2. {insertIsDown, downAsHeard} \subseteq 0..MaxTaps /\ insertPressedAt \in 0..MaxTapTime /\ returns \in Nat
      BY <2>1 DEF Insert!Init
    <3>3. QED
      BY <3>1, <3>2 DEF Insert!Init, Insert!TypeOK
  <2>3. QED
    BY <1>1, <2>2 DEF Insert!Init, TapTyped
<1>3. TapOrder /\ TapAhead /\ TapState
  BY <1>1 DEF TapOrder, TapAhead, TapState, Insert!Init
<1>4. QED
  BY <1>2, <1>3 DEF TapInv

\* A warp throws away what waits.
LEMMA TapWarped ==
    ASSUME Insert!DoubleInsertAssumption, TapInv, Insert!warpCursor, returns' \in Nat, crossings' \in 0..MaxCrossings,
           {insertInState', inPrimaryKeyDownList', isOnScreen', leaving'} \subseteq BOOLEAN
    PROVE  TapInv'
<1>1. TapTyped /\ TapOrder /\ TapAhead /\ TapState
  BY DEF TapInv
<1>2. /\ keyMessages' = <<>> /\ downAsHeard' = insertIsDown
      /\ UNCHANGED <<i_clock, insertIsDown, presses, insertInHook, lastDown, insertPressedAt, insertHeld,
                     swallowInsertRelease, counted, otherPress, returnedBy, wrongReturn, missedReturn, eaten>>
      /\ upLost' = (upLost \/ \E i \in 1..Len(keyMessages) : keyMessages[i].key = "insert" /\ ~keyMessages[i].down)
  BY DEF Insert!warpCursor, Insert!keyboardVars, Insert!tapVars, Insert!wrongVars
<1>3. keyMessages' \in Seq(TapMessage) /\ Posts' = {}
  BY <1>2, EmptySeq DEF Posts
<1>4. upLost' \in BOOLEAN /\ (~upLost' => ~upLost /\ \A j \in Posts : ~IsUp(j))
  BY <1>1, <1>2 DEF TapTyped, Insert!TypeOK, IsUp, OfInsert, Posts
<1>5. TapTyped'
  <2>1. {insertIsDown, downAsHeard}' \subseteq 0..MaxTaps
    BY <1>1, <1>2 DEF TapTyped, Insert!TypeOK
  <2>2. Insert!TypeOK'
    BY <1>1, <1>2, <1>4, <2>1 DEF TapTyped, Insert!TypeOK
  <2>3. QED
    BY <1>1, <1>2, <1>3, <2>2 DEF TapTyped
<1>6. TapOrder' /\ TapAhead'
  BY <1>1, <1>2, <1>3 DEF TapOrder, TapAhead
<1>7. TapState'
  BY <1>1, <1>2, <1>4 DEF TapState
<1>8. QED
  BY <1>5, <1>6, <1>7 DEF TapInv

\* Nothing is posted, handled or thrown away.
LEMMA TapsRest ==
    ASSUME Insert!DoubleInsertAssumption, TapInv,
           UNCHANGED <<insertIsDown, presses, keyMessages, lastDown, insertInHook, insertPressedAt, insertHeld,
                       swallowInsertRelease, returns, counted, otherPress, returnedBy, downAsHeard, upLost,
                       wrongReturn, missedReturn, eaten, inPrimaryKeyDownList, isOnScreen>>,
           i_clock' \in 1..MaxTapTime, crossings' \in 0..MaxCrossings, {insertInState', leaving'} \subseteq BOOLEAN
    PROVE  TapInv'
<1>1. TapTyped'
  BY DEF TapInv, TapTyped, Insert!TypeOK
<1>2. TapOrder'
  BY DEF TapInv, TapOrder, Posts, OfInsert, IsUp, GoesUp
<1>3. TapAhead'
  BY DEF TapInv, TapAhead, Posts, OfInsert, IsUp, GoesUp
<1>4. TapState'
  BY DEF TapInv, TapState, Posts, OfInsert, IsUp
<1>5. QED
  BY <1>1, <1>2, <1>3, <1>4 DEF TapInv

LEMMA TapNext ==
    ASSUME Insert!DoubleInsertAssumption, TapInv, [Insert!Next]_insertVars PROVE TapInv'
<1>1. TapTyped /\ TapOrder
  BY DEF TapInv
<1>2. /\ MaxTapTime \in Nat /\ MaxCrossings \in Nat /\ Insert!TypeOK
  BY <1>1 DEF Insert!DoubleInsertAssumption, TapTyped
<1>3. CASE Insert!pressInsert \/ Insert!repeatInsert \/ Insert!releaseInsert \/ Insert!pressOther
  <2>1. TapTyped' /\ Unheard
    BY <1>1, <1>3, KeyPosts
  <2>2. TapOrder' /\ TapAhead' /\ TapState'
    BY <1>1, <1>3, <2>1, KeyPosts, TapPressed, TapRepeated, TapReleased, OtherPressed
  <2>3. QED
    BY <2>1, <2>2 DEF TapInv
<1>4. CASE Insert!onKey
  BY <1>4, TapHeard
<1>5. CASE Insert!Tick
  BY <1>2, <1>5, TapsRest DEF Insert!Tick, Insert!TypeOK, Insert!keyboardVars, Insert!stateVars, Insert!screenVars,
     Insert!tapVars, Insert!caseVars, Insert!heardVars, Insert!wrongVars
<1>6. CASE Insert!leavePrimary
  BY <1>2, <1>6, TapsRest DEF Insert!leavePrimary, Insert!TypeOK, Insert!keyboardVars, Insert!tapVars,
     Insert!caseVars, Insert!heardVars, Insert!wrongVars
<1>7. CASE Insert!leave
  BY <1>2, <1>7, TapWarped DEF Insert!leave, Insert!TypeOK
<1>8. CASE Insert!enter
  <2>1. crossings' \in 0..MaxCrossings /\ returns' = returns /\ Insert!warpCursor
        /\ isOnScreen' = TRUE /\ inPrimaryKeyDownList' = FALSE /\ UNCHANGED <<leaving, insertInState>>
    BY <1>2, <1>8 DEF Insert!enter, Insert!TypeOK
  <2>2. QED
    BY <1>2, <2>1, TapWarped DEF Insert!TypeOK
<1>9. CASE Insert!emergencyReturn
  BY <1>2, <1>9, TapWarped DEF Insert!emergencyReturn, Insert!TypeOK
<1>10. CASE Insert!jump
  BY <1>2, <1>10, TapWarped DEF Insert!jump, Insert!TypeOK, Insert!screenVars
<1>11. CASE UNCHANGED insertVars
  BY <1>2, <1>11, TapsRest DEF insertVars, Insert!TypeOK
<1>12. QED
  BY <1>3, <1>4, <1>5, <1>6, <1>7, <1>8, <1>9, <1>10, <1>11 DEF Insert!Next

TapsAgree ==
    /\ Insert!TypeOK /\ Insert!ReturnByTwoTaps /\ Insert!TwoTapsReturn
    /\ Insert!SingleTapKept /\ Insert!HeldWhileDown

LEMMA TapHolds == ASSUME TapInv PROVE TapsAgree
<1>1. TapTyped /\ TapState
  BY DEF TapInv
<1>2. keyMessages = <<>> => Posts = {}
  BY DEF Posts
<1>3. Insert!HeldWhileDown
  BY <1>1, <1>2 DEF TapState, Insert!HeldWhileDown
<1>4. QED
  BY <1>1, <1>3 DEF TapsAgree, TapTyped, TapState, Insert!ReturnByTwoTaps, Insert!TwoTapsReturn, Insert!SingleTapKept

------------------------------------------------------------------------------
(* The desktops of Windows.                                                    *)

\* The active desktop, if it can be reached, has a thread and the hooks, and hides the cursor
\* while the pointer is away.
DeskShows ==
    /\ \A d : d \in hidden <=> d = activeDesk /\ ~deskOnScreen /\ DesksOf!reached(d)
    /\ ~dropped => (deskOnScreen <=> d_isOnScreen)
    /\ DesksOf!reached(activeDesk) => hook = activeDesk /\ activeDeskName = activeDesk /\ activeDesk \in desks

\* What was read of the keys is so, unless the input came back unseen; a client is only told
\* of a key that the key state has, while the pointer is there.
DeskKeys ==
    /\ d_main = "checking" => enabled
    /\ relayed => d_down /\ ~d_isOnScreen /\ primary
    /\ enabled /\ primary /\ DesksOf!reached(activeDesk) /\ activeDesk = input /\ ~blinked => (d_down <=> d_held)

DesksInv == DesksOf!TypeOK /\ DeskShows /\ DeskKeys

LEMMA NamesType ==
    ASSUME DesksOf!DesksAssumption
    PROVE  /\ Locked \in DesksOf!Names
           /\ \A d \in Desktops : DesksOf!NameOf(d) \in DesksOf!Names
           /\ \A d \in DesksOf!Names \cup {NoDesk} : d \notin Inaccessible
           /\ ~DesksOf!reached(Locked) /\ ~DesksOf!reached(NoDesk)
  BY DEF DesksOf!DesksAssumption, DesksOf!Names, DesksOf!NameOf, DesksOf!reached

\* A message that is posted, and one that was handled.
LEMMA SaverMessages ==
    ASSUME messages \in Seq(BOOLEAN)
    PROVE  /\ \A b \in BOOLEAN : Append(messages, b) \in Seq(BOOLEAN)
           /\ messages # <<>> => Tail(messages) \in Seq(BOOLEAN)
  BY AppendProperties, HeadTailProperties

\* Every step keeps the types.
LEMMA DesksTyped ==
    ASSUME DesksOf!DesksAssumption, DesksInv, [DesksOf!Next]_desksVars PROVE DesksOf!TypeOK'
<1> USE DEF DesksOf!windowsVars, DesksOf!screenVars, DesksOf!deskVars, DesksOf!keyVars, DesksOf!saverVars,
            DesksOf!caseVars
<1>1. /\ Locked \in DesksOf!Names /\ \A d \in Desktops : DesksOf!NameOf(d) \in DesksOf!Names
      /\ \A b \in BOOLEAN : Append(messages, b) \in Seq(BOOLEAN)
      /\ messages # <<>> => Tail(messages) \in Seq(BOOLEAN)
      /\ MaxSwitches \in Nat /\ Home \in Desktops /\ Saver \in Desktops /\ Inaccessible \subseteq Desktops
      /\ DesksOf!TypeOK
      /\ \A d : d \in hidden => d = activeDesk
      /\ DesksOf!reached(activeDesk) => activeDesk \in desks
  BY NamesType, SaverMessages DEF DesksOf!DesksAssumption, DesksInv, DesksOf!TypeOK, DeskShows
<1> USE DEF DesksOf!TypeOK
<1>2. ASSUME NEW d \in Desktops, DesksOf!switchDesktop(d) PROVE DesksOf!TypeOK'
  BY <1>1, <1>2 DEF DesksOf!switchDesktop, DesksOf!returnsUnseen
<1>3. CASE DesksOf!saverStarts
  <2>1. UNCHANGED <<d_held, primary, d_main, name, enabled, d_isOnScreen, screensaverActive, desks, d_ready, activeDesk, activeDeskName, deskOnScreen, hidden, hook, d_down, relayed, saverActive, watch, dropped, d_overtaken>>
    BY <1>3 DEF DesksOf!saverStarts
  <2>2. saving' \in BOOLEAN
    BY <1>1, <1>3 DEF DesksOf!saverStarts
  <2>3. input' \in Desktops
    BY <1>1, <1>3 DEF DesksOf!saverStarts
  <2>4. d_doings' \in 0 .. MaxSwitches
    BY <1>1, <1>3 DEF DesksOf!saverStarts
  <2>5. messages' \in Seq(BOOLEAN)
    BY <1>1, <1>3 DEF DesksOf!saverStarts
  <2>6. restarted' \in BOOLEAN
    BY <1>1, <1>3 DEF DesksOf!saverStarts
  <2>7. blinked' \in BOOLEAN
    BY <1>1, <1>3 DEF DesksOf!saverStarts
  <2>8. QED
    BY ONLY <1>1, <2>1, <2>2, <2>3, <2>4, <2>5, <2>6, <2>7 DEF DesksOf!TypeOK
<1>4. CASE DesksOf!saverEnds
  <2>1. UNCHANGED <<d_held, primary, d_main, name, enabled, d_isOnScreen, screensaverActive, messages, desks, d_ready, activeDesk, activeDeskName, deskOnScreen, hidden, hook, d_down, relayed, saverActive, watch, dropped, d_overtaken, d_doings>>
    BY <1>4 DEF DesksOf!saverEnds
  <2>2. saving' \in BOOLEAN
    BY <1>1, <1>4 DEF DesksOf!saverEnds
  <2>3. input' \in Desktops
    BY <1>1, <1>4 DEF DesksOf!saverEnds
  <2>4. blinked' \in BOOLEAN
    BY <1>1, <1>4 DEF DesksOf!saverEnds
  <2>5. restarted' \in BOOLEAN
    BY <1>1, <1>4 DEF DesksOf!saverEnds
  <2>6. QED
    BY ONLY <1>1, <2>1, <2>2, <2>3, <2>4, <2>5 DEF DesksOf!TypeOK
<1>5. CASE DesksOf!stroke
  <2>1. UNCHANGED <<input, saving, primary, d_main, name, enabled, d_isOnScreen, screensaverActive, messages, desks, d_ready, activeDesk, activeDeskName, deskOnScreen, hidden, hook, saverActive, watch, dropped, blinked, restarted, d_overtaken>>
    BY <1>5 DEF DesksOf!stroke
  <2>2. d_held' \in BOOLEAN
    BY <1>1, <1>5 DEF DesksOf!stroke
  <2>3. d_doings' \in 0 .. MaxSwitches
    BY <1>1, <1>5 DEF DesksOf!stroke
  <2>4. d_down' \in BOOLEAN
    BY <1>1, <1>5 DEF DesksOf!stroke
  <2>5. relayed' \in BOOLEAN
    BY <1>1, <1>5 DEF DesksOf!stroke
  <2>6. QED
    BY ONLY <1>1, <2>1, <2>2, <2>3, <2>4, <2>5 DEF DesksOf!TypeOK
<1>6. CASE DesksOf!enable
  BY <1>1, <1>6 DEF DesksOf!enable, DesksOf!openInputDesktop
<1>7. CASE DesksOf!handleCheckDesk
  BY <1>1, <1>7 DEF DesksOf!handleCheckDesk, DesksOf!openInputDesktop
<1>8. CASE DesksOf!checkDesk
  <2>1. UNCHANGED <<input, saving, d_held, primary, d_isOnScreen, screensaverActive, saverActive, watch, restarted, d_overtaken, d_doings>>
    BY <1>8 DEF DesksOf!checkDesk, DesksOf!switchDesk, DesksOf!updateKeys, DesksOf!noKeysUpdated
  <2>2. desks' \subseteq DesksOf!Names
    BY <1>1, <1>8 DEF DesksOf!checkDesk, DesksOf!switchDesk, DesksOf!updateKeys, DesksOf!noKeysUpdated
  <2>3. d_ready' \subseteq desks'
    BY <1>1, <1>8 DEF DesksOf!checkDesk, DesksOf!switchDesk, DesksOf!updateKeys, DesksOf!noKeysUpdated
  <2>4. activeDesk' \in DesksOf!Names \cup {NoDesk}
    BY <1>1, <1>8 DEF DesksOf!checkDesk, DesksOf!switchDesk, DesksOf!updateKeys, DesksOf!noKeysUpdated
  <2>5. activeDeskName' \in DesksOf!Names
    BY <1>1, <1>8 DEF DesksOf!checkDesk, DesksOf!switchDesk, DesksOf!updateKeys, DesksOf!noKeysUpdated
  <2>6. hook' \in DesksOf!Names \cup {NoDesk}
    BY <1>1, <1>8 DEF DesksOf!checkDesk, DesksOf!switchDesk, DesksOf!updateKeys, DesksOf!noKeysUpdated
  <2>7. hidden' \subseteq desks'
    BY <1>1, <1>8 DEF DesksOf!checkDesk, DesksOf!switchDesk, DesksOf!updateKeys, DesksOf!noKeysUpdated
  <2>8. deskOnScreen' \in BOOLEAN
    BY <1>1, <1>8 DEF DesksOf!checkDesk, DesksOf!switchDesk, DesksOf!updateKeys, DesksOf!noKeysUpdated
  <2>9. dropped' \in BOOLEAN
    BY <1>1, <1>8 DEF DesksOf!checkDesk, DesksOf!switchDesk, DesksOf!updateKeys, DesksOf!noKeysUpdated
  <2>10. d_down' \in BOOLEAN
    BY <1>1, <1>8 DEF DesksOf!checkDesk, DesksOf!switchDesk, DesksOf!updateKeys, DesksOf!noKeysUpdated
  <2>11. relayed' \in BOOLEAN
    BY <1>1, <1>8 DEF DesksOf!checkDesk, DesksOf!switchDesk, DesksOf!updateKeys, DesksOf!noKeysUpdated
  <2>12. blinked' \in BOOLEAN
    BY <1>1, <1>8 DEF DesksOf!checkDesk, DesksOf!switchDesk, DesksOf!updateKeys, DesksOf!noKeysUpdated
  <2>13. messages' \in Seq(BOOLEAN)
    BY <1>1, <1>8 DEF DesksOf!checkDesk, DesksOf!switchDesk, DesksOf!updateKeys, DesksOf!noKeysUpdated
  <2>14. enabled' \in BOOLEAN
    BY <1>1, <1>8 DEF DesksOf!checkDesk, DesksOf!switchDesk, DesksOf!updateKeys, DesksOf!noKeysUpdated
  <2>15. d_main' \in {"idle", "enabling", "checking", "checked", "starting", "stuck"}
    BY <1>1, <1>8 DEF DesksOf!checkDesk, DesksOf!switchDesk, DesksOf!updateKeys, DesksOf!noKeysUpdated
  <2>16. name' \in DesksOf!Names
    BY <1>1, <1>8 DEF DesksOf!checkDesk, DesksOf!switchDesk, DesksOf!updateKeys, DesksOf!noKeysUpdated
  <2>17. QED
    BY ONLY <1>1, <2>1, <2>2, <2>3, <2>4, <2>5, <2>6, <2>7, <2>8, <2>9, <2>10, <2>11, <2>12, <2>13, <2>14, <2>15, <2>16 DEF DesksOf!TypeOK
<1>9. CASE DesksOf!pollScreensaver
  BY <1>1, <1>9 DEF DesksOf!pollScreensaver
<1>10. CASE DesksOf!deskThread
  BY <1>1, <1>10 DEF DesksOf!deskThread
<1>11. CASE DesksOf!disable
  <2>1. UNCHANGED <<input, saving, d_held, primary, name, screensaverActive, messages, d_down, saverActive, watch, blinked, restarted, d_overtaken, d_doings>>
    BY <1>11 DEF DesksOf!disable
  <2>2. enabled' \in BOOLEAN
    BY <1>1, <1>11 DEF DesksOf!disable
  <2>3. desks' \subseteq DesksOf!Names
    BY <1>1, <1>11 DEF DesksOf!disable
  <2>4. d_ready' \subseteq desks'
    BY <1>1, <1>11 DEF DesksOf!disable
  <2>5. activeDesk' \in DesksOf!Names \cup {NoDesk}
    BY <1>1, <1>11 DEF DesksOf!disable
  <2>6. activeDeskName' \in DesksOf!Names
    BY <1>1, <1>11 DEF DesksOf!disable
  <2>7. hidden' \subseteq desks'
    BY <1>1, <1>11 DEF DesksOf!disable
  <2>8. hook' \in DesksOf!Names \cup {NoDesk}
    BY <1>1, <1>11 DEF DesksOf!disable
  <2>9. deskOnScreen' \in BOOLEAN
    BY <1>1, <1>11 DEF DesksOf!disable
  <2>10. d_isOnScreen' \in BOOLEAN
    BY <1>1, <1>11 DEF DesksOf!disable
  <2>11. relayed' \in BOOLEAN
    BY <1>1, <1>11 DEF DesksOf!disable
  <2>12. dropped' \in BOOLEAN
    BY <1>1, <1>11 DEF DesksOf!disable
  <2>13. d_main' \in {"idle", "enabling", "checking", "checked", "starting", "stuck"}
    BY <1>1, <1>11 DEF DesksOf!disable
  <2>14. QED
    BY ONLY <1>1, <2>1, <2>2, <2>3, <2>4, <2>5, <2>6, <2>7, <2>8, <2>9, <2>10, <2>11, <2>12, <2>13 DEF DesksOf!TypeOK
<1>12. CASE DesksOf!enter
  <2>1. UNCHANGED <<input, saving, d_held, primary, d_main, name, enabled, messages, desks, d_ready, activeDesk, activeDeskName, hook, d_down, saverActive, watch, blinked, restarted, d_overtaken>>
    BY <1>12 DEF DesksOf!enter, DesksOf!deskEnter
  <2>2. deskOnScreen' \in BOOLEAN
    BY <1>1, <1>12 DEF DesksOf!enter, DesksOf!deskEnter
  <2>3. hidden' \subseteq desks'
    BY <1>1, <1>12 DEF DesksOf!enter, DesksOf!deskEnter
  <2>4. d_isOnScreen' \in BOOLEAN
    BY <1>1, <1>12 DEF DesksOf!enter, DesksOf!deskEnter
  <2>5. relayed' \in BOOLEAN
    BY <1>1, <1>12 DEF DesksOf!enter, DesksOf!deskEnter
  <2>6. dropped' \in BOOLEAN
    BY <1>1, <1>12 DEF DesksOf!enter, DesksOf!deskEnter
  <2>7. screensaverActive' \in BOOLEAN
    BY <1>1, <1>12 DEF DesksOf!enter, DesksOf!deskEnter
  <2>8. d_doings' \in 0 .. MaxSwitches
    BY <1>1, <1>12 DEF DesksOf!enter, DesksOf!deskEnter
  <2>9. QED
    BY ONLY <1>1, <2>1, <2>2, <2>3, <2>4, <2>5, <2>6, <2>7, <2>8 DEF DesksOf!TypeOK
<1>13. CASE DesksOf!leave
  <2>1. UNCHANGED <<input, saving, d_held, primary, d_main, name, enabled, screensaverActive, messages, desks, d_ready, activeDesk, activeDeskName, hook, d_down, relayed, saverActive, watch, blinked, restarted, d_overtaken>>
    BY <1>13 DEF DesksOf!leave, DesksOf!deskLeave
  <2>2. deskOnScreen' \in BOOLEAN
    BY <1>1, <1>13 DEF DesksOf!leave, DesksOf!deskLeave
  <2>3. hidden' \subseteq desks'
    BY <1>1, <1>13 DEF DesksOf!leave, DesksOf!deskLeave
  <2>4. d_isOnScreen' \in BOOLEAN
    BY <1>1, <1>13 DEF DesksOf!leave, DesksOf!deskLeave
  <2>5. dropped' \in BOOLEAN
    BY <1>1, <1>13 DEF DesksOf!leave, DesksOf!deskLeave
  <2>6. d_doings' \in 0 .. MaxSwitches
    BY <1>1, <1>13 DEF DesksOf!leave, DesksOf!deskLeave
  <2>7. QED
    BY ONLY <1>1, <2>1, <2>2, <2>3, <2>4, <2>5, <2>6 DEF DesksOf!TypeOK
<1>14. CASE DesksOf!onScreensaver
  <2>1. UNCHANGED <<input, saving, d_held, primary, name, enabled, d_isOnScreen, desks, d_ready, activeDesk, activeDeskName, deskOnScreen, hidden, hook, d_down, relayed, saverActive, watch, dropped, blinked, restarted, d_doings>>
    BY <1>14 DEF DesksOf!onScreensaver
  <2>2. messages' \in Seq(BOOLEAN)
    BY <1>1, <1>14 DEF DesksOf!onScreensaver
  <2>3. d_overtaken' \in BOOLEAN
    BY <1>1, <1>14 DEF DesksOf!onScreensaver
  <2>4. d_main' \in {"idle", "enabling", "checking", "checked", "starting", "stuck"}
    BY <1>1, <1>14 DEF DesksOf!onScreensaver
  <2>5. screensaverActive' \in BOOLEAN
    BY <1>1, <1>14 DEF DesksOf!onScreensaver
  <2>6. QED
    BY ONLY <1>1, <2>1, <2>2, <2>3, <2>4, <2>5 DEF DesksOf!TypeOK
<1>15. CASE DesksOf!checkStarted
  <2>1. UNCHANGED <<input, saving, d_held, primary, name, enabled, d_isOnScreen, messages, desks, d_ready, activeDesk, activeDeskName, deskOnScreen, hidden, hook, d_down, relayed, dropped, blinked, restarted, d_doings>>
    BY <1>15 DEF DesksOf!checkStarted
  <2>2. d_main' \in {"idle", "enabling", "checking", "checked", "starting", "stuck"}
    BY <1>1, <1>15 DEF DesksOf!checkStarted
  <2>3. screensaverActive' \in BOOLEAN
    BY <1>1, <1>15 DEF DesksOf!checkStarted
  <2>4. saverActive' \in BOOLEAN
    BY <1>1, <1>15 DEF DesksOf!checkStarted
  <2>5. watch' \in {"none", "polling", "posting"}
    BY <1>1, <1>15 DEF DesksOf!checkStarted
  <2>6. d_overtaken' \in BOOLEAN
    BY <1>1, <1>15 DEF DesksOf!checkStarted
  <2>7. QED
    BY ONLY <1>1, <2>1, <2>2, <2>3, <2>4, <2>5, <2>6 DEF DesksOf!TypeOK
<1>16. CASE DesksOf!watchDesktopThread
  <2>1. UNCHANGED <<input, saving, d_held, primary, d_main, name, enabled, d_isOnScreen, screensaverActive, desks, d_ready, activeDesk, activeDeskName, deskOnScreen, hidden, hook, d_down, relayed, dropped, blinked, restarted, d_overtaken, d_doings>>
    BY <1>16 DEF DesksOf!watchDesktopThread
  <2>2. saverActive' \in BOOLEAN
    BY <1>1, <1>16 DEF DesksOf!watchDesktopThread
  <2>3. watch' \in {"none", "polling", "posting"}
    BY <1>1, <1>16 DEF DesksOf!watchDesktopThread
  <2>4. messages' \in Seq(BOOLEAN)
    BY <1>1, <1>16 DEF DesksOf!watchDesktopThread
  <2>5. QED
    BY ONLY <1>1, <2>1, <2>2, <2>3, <2>4 DEF DesksOf!TypeOK
<1>17. CASE UNCHANGED desksVars
  BY <1>1, <1>17 DEF desksVars
<1>18. QED
  BY <1>2, <1>3, <1>4, <1>5, <1>6, <1>7, <1>8, <1>9, <1>10, <1>11, <1>12, <1>13, <1>14, <1>15, <1>16, <1>17
     DEF DesksOf!Next, DesksOf!Loop, DesksOf!Core, DesksOf!WindowsAndUsers

\* What is shown changes with the active desktop and at a crossing only.
LEMMA DesksShow ==
    ASSUME DesksOf!DesksAssumption, DesksInv, [DesksOf!Next]_desksVars PROVE DeskShows'
<1> USE DEF DesksOf!windowsVars, DesksOf!screenVars, DesksOf!deskVars, DesksOf!keyVars, DesksOf!saverVars,
            DesksOf!caseVars
<1>1. /\ DeskShows /\ ~DesksOf!reached(Locked) /\ ~DesksOf!reached(NoDesk)
      /\ {deskOnScreen, d_isOnScreen, dropped, primary} \subseteq BOOLEAN
  BY NamesType DEF DesksInv, DesksOf!TypeOK
<1>2. ASSUME UNCHANGED <<hidden, activeDesk, deskOnScreen, dropped, d_isOnScreen, hook, activeDeskName, desks>>
      PROVE  DeskShows'
  <2>1. \A d : DesksOf!reached(d)' <=> DesksOf!reached(d)
    BY DEF DesksOf!reached
  <2>2. QED
    BY <1>1, <1>2, <2>1 DEF DeskShows
<1>3. CASE DesksOf!checkDesk
  <2>1. CASE ~DesksOf!switchDesk
    <3>1. UNCHANGED <<hidden, activeDesk, deskOnScreen, dropped, d_isOnScreen, hook, activeDeskName>>
          /\ desks' = desks \cup {name}
      BY <1>3, <2>1 DEF DesksOf!checkDesk
    <3>2. QED
      BY <1>1, <3>1 DEF DeskShows, DesksOf!reached
  <2>2. CASE DesksOf!switchDesk
    <3>1. /\ activeDesk' = name /\ activeDeskName' = name /\ desks' = desks \cup {name}
          /\ hook' = IF DesksOf!reached(name) THEN name ELSE hook
          /\ hidden' = (hidden \ (IF ~deskOnScreen /\ DesksOf!reached(activeDesk) THEN {activeDesk} ELSE {}))
                           \cup (IF ~deskOnScreen /\ DesksOf!reached(name) THEN {name} ELSE {})
          /\ deskOnScreen' = (IF ~deskOnScreen /\ DesksOf!reached(name) THEN FALSE
                              ELSE deskOnScreen \/ (~deskOnScreen /\ DesksOf!reached(activeDesk)))
          /\ dropped' = ((dropped /\ ~(~deskOnScreen /\ DesksOf!reached(name) /\ ~d_isOnScreen))
                            \/ (~deskOnScreen /\ ~DesksOf!reached(name)))
          /\ d_isOnScreen' = d_isOnScreen
      BY <1>3, <2>2 DEF DesksOf!checkDesk, DesksOf!switchDesk
    <3>2. \A d : d \in hidden' <=> d = activeDesk' /\ ~deskOnScreen' /\ DesksOf!reached(d)
      BY <1>1, <3>1 DEF DeskShows
    <3>3. ~dropped' => (deskOnScreen' <=> d_isOnScreen')
      BY <1>1, <3>1 DEF DeskShows
    <3>4. DesksOf!reached(activeDesk') => hook' = activeDesk' /\ activeDeskName' = activeDesk' /\ activeDesk' \in desks'
      BY <3>1
    <3>5. QED
      BY <3>2, <3>3, <3>4 DEF DeskShows, DesksOf!reached
  <2>3. QED
    BY <2>1, <2>2
<1>4. CASE DesksOf!disable
  <2>1. CASE d_main' = "stuck"
    <3>1. CASE desks \subseteq d_ready
      <4>1. FALSE
        BY <1>4, <2>1, <3>1 DEF DesksOf!disable
      <4>2. QED
        BY <4>1
    <3>2. CASE ~(desks \subseteq d_ready)
      BY <1>2, <1>4, <3>2 DEF DesksOf!disable
    <3>3. QED
      BY <3>1, <3>2
  <2>2. CASE d_main' # "stuck"
    <3>1. /\ hidden' = {} /\ activeDesk' = NoDesk /\ deskOnScreen' = primary /\ d_isOnScreen' = primary
      BY <1>4, <2>2 DEF DesksOf!disable
    <3>2. QED
      BY <1>1, <3>1 DEF DeskShows, DesksOf!reached
  <2>3. QED
    BY <2>1, <2>2
<1>5. CASE DesksOf!enter
  <2>1. /\ deskOnScreen' = (deskOnScreen \/ DesksOf!reached(activeDesk)) /\ hidden' = hidden \ {activeDesk}
        /\ d_isOnScreen' = TRUE /\ dropped' = (~DesksOf!reached(activeDesk) /\ ~deskOnScreen)
        /\ UNCHANGED <<activeDesk, hook, activeDeskName, desks>>
    BY <1>5 DEF DesksOf!enter, DesksOf!deskEnter
  <2>2. \A d : d \in hidden' <=> d = activeDesk /\ ~deskOnScreen' /\ DesksOf!reached(d)
    BY <1>1, <2>1 DEF DeskShows
  <2>3. ~dropped' => (deskOnScreen' <=> d_isOnScreen')
    BY <1>1, <2>1
  <2>4. QED
    BY <1>1, <2>1, <2>2, <2>3 DEF DeskShows, DesksOf!reached
<1>6. CASE DesksOf!leave
  <2>1. /\ deskOnScreen' = (deskOnScreen /\ ~DesksOf!reached(activeDesk))
        /\ hidden' = hidden \cup (IF DesksOf!reached(activeDesk) THEN {activeDesk} ELSE {})
        /\ d_isOnScreen' = FALSE /\ dropped' = ~DesksOf!reached(activeDesk)
        /\ UNCHANGED <<activeDesk, hook, activeDeskName, desks>>
    BY <1>6 DEF DesksOf!leave, DesksOf!deskLeave
  <2>2. \A d : d \in hidden' <=> d = activeDesk /\ ~deskOnScreen' /\ DesksOf!reached(d)
    BY <1>1, <2>1 DEF DeskShows
  <2>3. ~dropped' => (deskOnScreen' <=> d_isOnScreen')
    BY <1>1, <2>1
  <2>4. QED
    BY <1>1, <2>1, <2>2, <2>3 DEF DeskShows, DesksOf!reached
<1>7. ASSUME NEW d \in Desktops, DesksOf!switchDesktop(d) PROVE DeskShows'
  BY <1>2, <1>7 DEF DesksOf!switchDesktop
<1>8. CASE DesksOf!saverStarts \/ DesksOf!saverEnds \/ DesksOf!stroke \/ DesksOf!enable
  BY <1>2, <1>8 DEF DesksOf!saverStarts, DesksOf!saverEnds, DesksOf!stroke, DesksOf!enable
<1>9. CASE DesksOf!handleCheckDesk \/ DesksOf!pollScreensaver \/ DesksOf!deskThread \/ DesksOf!onScreensaver
  BY <1>2, <1>9 DEF DesksOf!handleCheckDesk, DesksOf!pollScreensaver, DesksOf!deskThread, DesksOf!onScreensaver
<1>10. CASE DesksOf!checkStarted \/ DesksOf!watchDesktopThread \/ UNCHANGED desksVars
  BY <1>2, <1>10 DEF DesksOf!checkStarted, DesksOf!watchDesktopThread, desksVars
<1>11. QED
  BY <1>3, <1>4, <1>5, <1>6, <1>7, <1>8, <1>9, <1>10
     DEF DesksOf!Next, DesksOf!Loop, DesksOf!Core, DesksOf!WindowsAndUsers

\* The input that comes to the active desktop is noticed if the keys differ.
LEMMA InputBack ==
    ASSUME DesksOf!DesksAssumption, DesksInv, NEW d \in Desktops, DesksOf!reached(activeDesk), activeDesk = d,
           d_down # d_held
    PROVE  DesksOf!returnsUnseen(d)
<1>1. d \notin Inaccessible
  BY NamesType DEF DesksInv, DesksOf!TypeOK
<1>2. activeDeskName = activeDesk
  BY DEF DesksInv, DeskShows
<1>3. QED
  BY <1>1, <1>2 DEF DesksOf!returnsUnseen, DesksOf!NameOf

LEMMA DesksKeep ==
    ASSUME DesksOf!DesksAssumption, DesksInv, [DesksOf!Next]_desksVars PROVE DeskKeys'
<1> USE DEF DesksOf!windowsVars, DesksOf!screenVars, DesksOf!deskVars, DesksOf!keyVars, DesksOf!saverVars,
            DesksOf!caseVars
<1>1. /\ DeskKeys /\ ~DesksOf!reached(Locked) /\ ~DesksOf!reached(NoDesk)
      /\ \A d : DesksOf!reached(d)' <=> DesksOf!reached(d)
      /\ d_isOnScreen \in BOOLEAN /\ primary \in BOOLEAN /\ d_down \in BOOLEAN /\ d_held \in BOOLEAN
      /\ relayed \in BOOLEAN /\ blinked \in BOOLEAN /\ enabled \in BOOLEAN
  BY NamesType DEF DesksInv, DesksOf!TypeOK, DesksOf!reached
<1>2. ASSUME UNCHANGED <<relayed, d_down, d_isOnScreen, primary, enabled, activeDesk, input, blinked, d_held>>,
             d_main' = "checking" => enabled
      PROVE  DeskKeys'
  BY <1>1, <1>2 DEF DeskKeys
<1>3. ASSUME NEW d \in Desktops, input' = d, blinked' = (blinked \/ DesksOf!returnsUnseen(d)),
             UNCHANGED <<relayed, d_down, d_isOnScreen, primary, enabled, activeDesk, d_held, d_main>>
      PROVE  DeskKeys'
  <2>1. ~blinked' /\ DesksOf!reached(activeDesk) /\ activeDesk = input' => (d_down <=> d_held)
    BY <1>1, <1>3, InputBack
  <2>2. QED
    BY <1>1, <1>3, <2>1 DEF DeskKeys
<1>4. ASSUME NEW d \in Desktops, DesksOf!switchDesktop(d) PROVE DeskKeys'
  BY <1>3, <1>4 DEF DesksOf!switchDesktop
<1>5. CASE DesksOf!saverStarts
  <2>1. Saver \in Desktops
    BY DEF DesksOf!DesksAssumption
  <2>2. QED
    BY <1>3, <1>5, <2>1 DEF DesksOf!saverStarts
<1>6. CASE DesksOf!saverEnds
  <2>1. input' \in Desktops
    BY <1>6 DEF DesksOf!DesksAssumption, DesksOf!saverEnds
  <2>2. blinked' = (blinked \/ DesksOf!returnsUnseen(input'))
    BY <1>6 DEF DesksOf!saverEnds
  <2>3. QED
    BY <1>3, <1>6, <2>1, <2>2 DEF DesksOf!saverEnds
<1>7. CASE DesksOf!stroke
  <2>1. /\ primary /\ d_held' = ~d_held
        /\ UNCHANGED <<input, d_main, enabled, d_isOnScreen, activeDesk, primary, blinked>>
    BY <1>7 DEF DesksOf!stroke
  <2>2. CASE enabled /\ hook = input
    <3>1. d_down' = d_held' /\ relayed' = (IF d_isOnScreen THEN relayed ELSE d_held')
      BY <1>7, <2>2 DEF DesksOf!stroke
    <3>2. QED
      BY <1>1, <2>1, <3>1 DEF DeskKeys
  <2>3. CASE ~(enabled /\ hook = input)
    <3>1. UNCHANGED <<d_down, relayed>>
      BY <1>7, <2>3 DEF DesksOf!stroke
    <3>2. ~(enabled /\ DesksOf!reached(activeDesk) /\ activeDesk = input)
      BY <2>3 DEF DesksInv, DeskShows
    <3>3. QED
      BY <1>1, <2>1, <3>1, <3>2 DEF DeskKeys
  <2>4. QED
    BY <2>2, <2>3
<1>8. CASE DesksOf!checkDesk
  <2>1. /\ d_main \in {"enabling", "checking"} /\ enabled' = TRUE /\ d_main' # "checking"
        /\ UNCHANGED <<input, d_held, primary, d_isOnScreen>>
    BY <1>8 DEF DesksOf!checkDesk
  <2>2. CASE DesksOf!updateKeys
    <3>1. d_down' = (primary /\ d_held) /\ relayed' = (relayed /\ ~(primary /\ ~d_isOnScreen /\ d_down /\ ~d_held))
      BY <2>2 DEF DesksOf!updateKeys
    <3>2. (relayed' => d_down' /\ ~d_isOnScreen /\ primary) /\ (primary => (d_down' <=> d_held))
      BY <1>1, <3>1 DEF DeskKeys
    <3>3. QED
      BY <1>1, <2>1, <3>2 DEF DeskKeys
  <2>3. CASE ~DesksOf!updateKeys
    <3>1. UNCHANGED <<d_down, relayed, blinked>>
      BY <1>8, <2>3 DEF DesksOf!checkDesk, DesksOf!noKeysUpdated
    <3>2. DesksOf!reached(activeDesk') => activeDesk' = activeDesk /\ d_main = "checking"
      BY <1>8, <2>1, <2>3 DEF DesksOf!checkDesk, DesksOf!switchDesk
    <3>3. QED
      BY <1>1, <2>1, <3>1, <3>2 DEF DeskKeys
  <2>4. QED
    BY <2>2, <2>3
<1>9. CASE DesksOf!disable
  <2>1. d_main = "idle" /\ enabled' = FALSE /\ d_main' # "checking" /\ UNCHANGED <<primary, d_down>>
    BY <1>9 DEF DesksOf!disable
  <2>2. relayed' => relayed /\ d_isOnScreen' = d_isOnScreen
    BY <1>1, <1>9 DEF DesksOf!disable
  <2>3. QED
    BY <1>1, <2>1, <2>2 DEF DeskKeys
<1>10. CASE DesksOf!enter \/ DesksOf!leave
  <2>1. UNCHANGED <<input, d_held, primary, d_main, enabled, activeDesk, d_down, blinked>>
    BY <1>10 DEF DesksOf!enter, DesksOf!leave
  <2>2. ~relayed'
    BY <1>1, <1>10 DEF DesksOf!enter, DesksOf!leave, DeskKeys
  <2>3. QED
    BY <1>1, <2>1, <2>2 DEF DeskKeys
<1>11. CASE DesksOf!enable \/ DesksOf!handleCheckDesk
  BY <1>2, <1>11 DEF DesksOf!enable, DesksOf!handleCheckDesk, DesksOf!openInputDesktop
<1>12. CASE DesksOf!pollScreensaver \/ DesksOf!deskThread \/ DesksOf!onScreensaver
  <2>1. d_main' = "checking" => d_main = "checking"
    BY <1>12 DEF DesksOf!pollScreensaver, DesksOf!deskThread, DesksOf!onScreensaver
  <2>2. QED
    BY <1>1, <1>2, <1>12, <2>1 DEF DesksOf!pollScreensaver, DesksOf!deskThread, DesksOf!onScreensaver, DeskKeys
<1>13. CASE DesksOf!checkStarted \/ DesksOf!watchDesktopThread \/ UNCHANGED desksVars
  <2>1. d_main' = "checking" => d_main = "checking"
    BY <1>13 DEF DesksOf!checkStarted, DesksOf!watchDesktopThread, desksVars
  <2>2. QED
    BY <1>1, <1>2, <1>13, <2>1 DEF DesksOf!checkStarted, DesksOf!watchDesktopThread, desksVars, DeskKeys
<1>14. QED
  BY <1>4, <1>5, <1>6, <1>7, <1>8, <1>9, <1>10, <1>11, <1>12, <1>13
     DEF DesksOf!Next, DesksOf!Loop, DesksOf!Core, DesksOf!WindowsAndUsers

------------------------------------------------------------------------------

LEMMA DesksInit == ASSUME DesksOf!DesksAssumption, DesksOf!Init PROVE DesksInv
<1>1. Locked \in DesksOf!Names /\ ~DesksOf!reached(NoDesk) /\ <<>> \in Seq(BOOLEAN) /\ Home \in Desktops /\ MaxSwitches \in Nat
  BY NamesType, EmptySeq DEF DesksOf!DesksAssumption
<1>2. DesksOf!TypeOK
  <2>1. /\ {saving, d_held, primary, enabled, d_isOnScreen, screensaverActive, deskOnScreen} \subseteq BOOLEAN
        /\ {d_down, relayed, saverActive, dropped, blinked, restarted, d_overtaken} \subseteq BOOLEAN
    BY DEF DesksOf!Init
  <2>2. /\ input \in Desktops /\ name \in DesksOf!Names /\ messages \in Seq(BOOLEAN) /\ d_doings \in 0 .. MaxSwitches
        /\ activeDesk \in DesksOf!Names \cup {NoDesk} /\ activeDeskName \in DesksOf!Names
        /\ hook \in DesksOf!Names \cup {NoDesk}
    BY <1>1 DEF DesksOf!Init
  <2>3. /\ desks \subseteq DesksOf!Names /\ d_ready \subseteq desks /\ hidden \subseteq desks
        /\ d_main = "idle" /\ watch = "none"
    BY DEF DesksOf!Init
  <2>4. QED
    BY <2>1, <2>2, <2>3 DEF DesksOf!TypeOK
<1>3. DeskShows /\ DeskKeys
  BY <1>1 DEF DesksOf!Init, DeskShows, DeskKeys
<1>4. QED
  BY <1>2, <1>3 DEF DesksInv

LEMMA DesksNext ==
    ASSUME DesksOf!DesksAssumption, DesksInv, [DesksOf!Next]_desksVars PROVE DesksInv'
  BY DesksTyped, DesksShow, DesksKeep DEF DesksInv

DesksRight == DesksOf!TypeOK /\ DesksOf!CursorShown /\ DesksOf!CursorHidden /\ DesksOf!KeysFollow

LEMMA DesksHold == ASSUME DesksInv PROVE DesksRight
<1>1. DesksOf!TypeOK /\ DeskShows /\ DeskKeys /\ d_down \in BOOLEAN /\ d_held \in BOOLEAN
  BY DEF DesksInv, DesksOf!TypeOK
<1>2. DesksOf!CursorShown
  BY <1>1 DEF DesksOf!CursorShown, DeskShows
<1>3. DesksOf!CursorHidden
  BY <1>1 DEF DesksOf!CursorHidden, DeskShows
<1>4. DesksOf!KeysFollow
  BY <1>1 DEF DesksOf!KeysFollow, DesksOf!Settled, DeskShows, DeskKeys
<1>5. QED
  BY <1>1, <1>2, <1>3, <1>4 DEF DesksRight

Less == {p \in Nat \X Nat : p[1] < p[2]}

LEMMA LessWellFounded == IsWellFoundedOn(Less, Nat)
  BY NatLessThanWellFounded DEF OpToRel, Less

\* A set of numbers that is not empty has a least one.
LEMMA Least ==
    ASSUME NEW S \in SUBSET Nat, S # {}
    PROVE  \E m \in S : \A n \in S : m <= n
<1>1. PICK m \in S : \A n \in S : ~ (<<n, m>> \in Less)
  BY LessWellFounded, WFMin
<1>2. \A n \in S : m <= n
  <2> SUFFICES ASSUME NEW n \in S, n < m PROVE FALSE
    OBVIOUS
  <2>1. <<n, m>> \in Less
    BY DEF Less
  <2>2. QED
    BY <1>1, <2>1
<1>3. QED
  BY <1>2

\* A set of numbers below a bound has a greatest one.
LEMMA Greatest ==
    ASSUME NEW B \in Nat, NEW S \in SUBSET (0..B), S # {}
    PROVE  \E m \in S : \A n \in S : n <= m
<1> DEFINE T == {k \in Nat : B - k \in S}
<1>1. T # {}
  <2>1. PICK s \in S : TRUE
    OBVIOUS
  <2>2. B - s \in Nat /\ B - (B - s) = s
    BY <2>1
  <2>3. QED
    BY <2>2
<1>2. PICK k \in T : \A j \in T : k <= j
  <2>1. T \in SUBSET Nat
    OBVIOUS
  <2>2. QED
    BY <1>1, <2>1, Least
<1>3. \A n \in S : n <= B - k
  <2> SUFFICES ASSUME NEW n \in S PROVE n <= B - k
    OBVIOUS
  <2>1. B - n \in Nat /\ B - (B - n) = n
    OBVIOUS
  <2>2. B - n \in T
    BY <2>1
  <2>3. k <= B - n /\ k \in Nat
    BY <1>2, <2>2
  <2>4. QED
    BY <2>3
<1>4. B - k \in S
  OBVIOUS
<1>5. QED
  BY <1>3, <1>4

------------------------------------------------------------------------------
(* The links of a side, in the order of where they start.                       *)

LEMMA CandidateType ==
    ASSUME Neighbor!NeighborsAssumption, NEW l \in Candidates
    PROVE  l.start \in Nat /\ l.end \in Nat /\ l.start < l.end /\ l.end <= Grid /\ Grid \in Nat
  BY DEF Neighbor!NeighborsAssumption

\* If a link starts after f, the first such link is found.
LEMMA AfterFound ==
    ASSUME Neighbor!NeighborsAssumption, NEW ls \in SUBSET Candidates, NEW n, NEW side, NEW f \in Nat,
           NEW x \in Neighbor!Side(ls, n, side), x.start > f
    PROVE  \E m \in Neighbor!After(ls, n, side, f) : m.start <= x.start
<1> DEFINE S == {l \in Neighbor!Side(ls, n, side) : l.start > f}
           N == {l.start : l \in S}
<1>1. Neighbor!Side(ls, n, side) \subseteq Candidates
  BY DEF Neighbor!Side
<1>2. N \in SUBSET Nat /\ x.start \in N
  BY <1>1, CandidateType
<1>3. PICK k \in N : \A j \in N : k <= j
  BY <1>2, Least
<1>4. PICK m \in S : m.start = k
  BY <1>3
<1>5. \A l \in S : m.start <= l.start
  BY <1>3, <1>4
<1>6. m \in Neighbor!After(ls, n, side, f)
  BY <1>5 DEF Neighbor!After
<1>7. QED
  BY <1>5, <1>6

\* If a link starts at f or before, the last such link is found.
LEMMA UpToFound ==
    ASSUME Neighbor!NeighborsAssumption, NEW ls \in SUBSET Candidates, NEW n, NEW side, NEW f \in Nat,
           NEW x \in Neighbor!Side(ls, n, side), x.start <= f
    PROVE  \E m \in Neighbor!UpTo(ls, n, side, f) : x.start <= m.start
<1> DEFINE S == {l \in Neighbor!Side(ls, n, side) : l.start <= f}
           N == {l.start : l \in S}
<1>1. Neighbor!Side(ls, n, side) \subseteq Candidates
  BY DEF Neighbor!Side
<1>2. N \in SUBSET (0..f) /\ x.start \in N
  BY <1>1, CandidateType
<1>3. PICK k \in N : \A j \in N : j <= k
  BY <1>2, Greatest
<1>4. PICK m \in S : m.start = k
  BY <1>3
<1>5. \A l \in S : l.start <= m.start
  BY <1>3, <1>4
<1>6. m \in Neighbor!UpTo(ls, n, side, f)
  BY <1>5 DEF Neighbor!UpTo
<1>7. QED
  BY <1>5, <1>6

\* Between links that do not overlap, a link that overlaps neither the one before it nor the
\* one after it overlaps none.
LEMMA TwoAreEnough ==
    ASSUME Neighbor!NeighborsAssumption, links \subseteq Candidates, Neighbor!LinksDisjoint, NEW l \in Candidates,
           ~Neighbor!overlapsAny(l)
    PROVE  \A x \in links : ~Neighbor!overlaps(l, x) /\ ~Neighbor!overlaps(x, l)
<1> SUFFICES ASSUME NEW x \in links, x.from = l.from, x.side = l.side
             PROVE  x.end <= l.start \/ l.end <= x.start
  <2>1. \A x \in links : x.start \in Nat /\ x.end \in Nat /\ x.start < x.end
    BY CandidateType
  <2>2. l.start \in Nat /\ l.end \in Nat /\ l.start < l.end
    BY CandidateType
  <2>3. QED
    BY <2>1, <2>2 DEF Neighbor!overlaps
<1>1. x \in Neighbor!Side(links, l.from, l.side)
  BY DEF Neighbor!Side
<1>2. /\ x.start \in Nat /\ x.end \in Nat /\ x.start < x.end
      /\ l.start \in Nat /\ l.end \in Nat /\ l.start < l.end
  BY CandidateType
<1>3. CASE x.start > l.start
  <2>1. PICK m \in Neighbor!After(links, l.from, l.side, l.start) : m.start <= x.start
    BY <1>1, <1>2, <1>3, AfterFound
  <2>2. m \in links /\ m.from = l.from /\ m.side = l.side /\ m.start > l.start /\ ~Neighbor!overlaps(l, m)
    BY <2>1 DEF Neighbor!After, Neighbor!Side, Neighbor!overlapsAny
  <2>3. m.start \in Nat
    BY <2>2, CandidateType
  <2>4. l.end <= m.start
    BY <1>2, <2>2, <2>3 DEF Neighbor!overlaps
  <2>5. QED
    BY <1>2, <2>1, <2>3, <2>4
<1>4. CASE x.start <= l.start
  <2>1. PICK m \in Neighbor!UpTo(links, l.from, l.side, l.start) : x.start <= m.start
    BY <1>1, <1>2, <1>4, UpToFound
  <2>2. m \in links /\ m.from = l.from /\ m.side = l.side /\ m.start <= l.start /\ ~Neighbor!overlaps(l, m)
    BY <2>1 DEF Neighbor!UpTo, Neighbor!Side, Neighbor!overlapsAny
  <2>3. m.start \in Nat /\ m.end \in Nat /\ m.start < m.end
    BY <2>2, CandidateType
  <2>4. m.end <= l.start
    BY <1>2, <2>2, <2>3 DEF Neighbor!overlaps
  <2>5. x = m \/ ~Neighbor!overlaps(m, x)
    BY <2>2 DEF Neighbor!LinksDisjoint
  <2>6. x = m \/ x.end <= m.start
    BY <1>2, <2>1, <2>2, <2>3, <2>5 DEF Neighbor!overlaps
  <2>7. QED
    BY <1>2, <2>3, <2>4, <2>6
<1>5. QED
  BY <1>2, <1>3, <1>4

\* A link that takes the place of another overlaps no third one.
LEMMA ReplacedIsEnough ==
    ASSUME Neighbor!NeighborsAssumption, links \subseteq Candidates, Neighbor!LinksDisjoint, NEW l \in Candidates,
           Neighbor!Replaced(l) # {}
    PROVE  \A x \in links \ Neighbor!Replaced(l) : ~Neighbor!overlaps(l, x) /\ ~Neighbor!overlaps(x, l)
<1>1. PICK r \in Neighbor!Replaced(l) : TRUE
  OBVIOUS
<1>2. /\ r \in links /\ r.from = l.from /\ r.side = l.side
      /\ r.start = l.start /\ r.end = l.end
  BY <1>1 DEF Neighbor!Replaced, Neighbor!Side
<1>3. \A x \in links \ Neighbor!Replaced(l) : ~Neighbor!overlaps(r, x) /\ ~Neighbor!overlaps(x, r)
  BY <1>1, <1>2 DEF Neighbor!LinksDisjoint
<1>4. QED
  BY <1>2, <1>3 DEF Neighbor!overlaps

------------------------------------------------------------------------------

DisjointInv == links \subseteq Candidates /\ Neighbor!LinksDisjoint

LEMMA DisjointNext ==
    ASSUME Neighbor!NeighborsAssumption, DisjointInv, [Neighbor!Next]_neighborVars
    PROVE  DisjointInv'
<1> USE DEF DisjointInv
<1>1. ASSUME NEW l \in Candidates, Neighbor!connect(l) PROVE DisjointInv'
  <2>1. \A x \in links \ Neighbor!Replaced(l) : ~Neighbor!overlaps(l, x) /\ ~Neighbor!overlaps(x, l)
    BY <1>1, TwoAreEnough, ReplacedIsEnough DEF Neighbor!connect
  <2>2. links' = (links \ Neighbor!Replaced(l)) \cup {l}
    BY <1>1 DEF Neighbor!connect
  <2>3. \A x, y \in links : x # y => ~Neighbor!overlaps(x, y)
    BY DEF Neighbor!LinksDisjoint
  <2>4. \A x, y \in links' : x # y => ~Neighbor!overlaps(x, y)
    BY <2>1, <2>2, <2>3
  <2>5. links' \subseteq Candidates
    BY <2>2
  <2>6. QED
    BY <2>4, <2>5 DEF Neighbor!LinksDisjoint
<1>2. ASSUME NEW n \in Screen, NEW side \in Directions, Neighbor!disconnect(n, side) PROVE DisjointInv'
  <2>1. links' \subseteq links
    BY <1>2 DEF Neighbor!disconnect
  <2>2. QED
    BY <2>1 DEF Neighbor!LinksDisjoint
<1>3. ASSUME UNCHANGED links PROVE DisjointInv'
  BY <1>3 DEF Neighbor!LinksDisjoint
<1>4. QED
  <2>1. CASE UNCHANGED neighborVars
    BY <1>3, <2>1 DEF neighborVars
  <2>2. ASSUME NEW s \in Screen, Neighbor!clientConnected(s) \/ Neighbor!clientDisconnected(s) PROVE DisjointInv'
    BY <1>3, <2>2 DEF Neighbor!clientConnected, Neighbor!clientDisconnected
  <2>3. ASSUME NEW s, NEW d, NEW beyond, NEW along, Neighbor!motion(s, d, beyond, along) PROVE DisjointInv'
    BY <1>3, <2>3 DEF Neighbor!motion
  <2>4. CASE Neighbor!Search \/ Neighbor!switch
    BY <1>3, <2>4 DEF Neighbor!Search, Neighbor!noNeighbor, Neighbor!skip, Neighbor!found, Neighbor!switch
  <2>5. QED
    BY <1>1, <1>2, <2>1, <2>2, <2>3, <2>4 DEF Neighbor!Next

\* Of links that do not overlap, the one that starts last before a point is the only one
\* that can reach to it.
LEMMA OneLookup ==
    ASSUME Neighbor!NeighborsAssumption, DisjointInv, NEW s, NEW d, NEW f \in Nat
    PROVE  Neighbor!getLink(s, d, f) = {l \in Neighbor!Side(links, s, d) : Neighbor!isInside(l, f)}
<1>1. Neighbor!getLink(s, d, f) \subseteq {l \in Neighbor!Side(links, s, d) : Neighbor!isInside(l, f)}
  BY DEF Neighbor!getLink, Neighbor!UpTo
<1>2. ASSUME NEW x \in Neighbor!Side(links, s, d), Neighbor!isInside(x, f) PROVE x \in Neighbor!UpTo(links, s, d, f)
  <2>1. x \in links /\ x.from = s /\ x.side = d
    BY DEF Neighbor!Side
  <2>2. x.start \in Nat /\ x.end \in Nat /\ x.start <= f /\ f < x.end
    BY <1>2, <2>1, CandidateType DEF Neighbor!isInside, DisjointInv
  <2>3. ASSUME NEW m \in Neighbor!Side(links, s, d), m.start <= f PROVE m.start <= x.start
    <3>1. m \in links /\ m.from = s /\ m.side = d
      BY DEF Neighbor!Side
    <3>2. m.start \in Nat /\ m.end \in Nat /\ m.start < m.end
      BY <3>1, CandidateType DEF DisjointInv
    <3>3. m = x \/ ~Neighbor!overlaps(m, x)
      BY <2>1, <3>1 DEF DisjointInv, Neighbor!LinksDisjoint
    <3>4. QED
      BY <2>1, <2>2, <2>3, <3>1, <3>2, <3>3 DEF Neighbor!overlaps
  <2>4. QED
    BY <2>2, <2>3 DEF Neighbor!UpTo
<1>3. QED
  BY <1>1, <1>2 DEF Neighbor!getLink

------------------------------------------------------------------------------
(* The search for a neighbor.                                                  *)

\* A part of a whole, rounded down, is less than what is measured.
LEMMA PartOfWhole ==
    ASSUME NEW k \in Nat, NEW n \in Nat \ {0}, NEW c \in Nat \ {0}, k < n
    PROVE  (k * c) \div n \in 0 .. c - 1
<1> DEFINE r == k * c
           q == r \div n
<1>1. r \in Nat /\ r < n * c
  <2>1. k <= n - 1 /\ n - 1 \in Nat
    OBVIOUS
  <2>2. k * c <= (n - 1) * c
    BY <2>1
  <2>3. (n - 1) * c = n * c - c
    OBVIOUS
  <2>4. QED
    BY <2>2, <2>3
<1> HIDE DEF r
<1>2. q \in Nat /\ n * q <= r
  BY <1>1
<1> HIDE DEF q
<1>3. q < c
  <2> SUFFICES ASSUME q >= c PROVE FALSE
    BY <1>2
  <2>1. n * c <= n * q
    BY <1>2
  <2>2. QED
    BY <1>1, <1>2, <2>1
<1>4. QED
  BY <1>2, <1>3 DEF q, r

Point == [{"x", "y"} -> Int]

LEMMA ShapeType ==
    ASSUME Neighbor!NeighborsAssumption, NEW s \in Screen, NEW a \in {"x", "y"}
    PROVE  Neighbor!Origin(s, a) \in Int /\ Neighbor!Size(s, a) \in Nat \ {0}
  BY DEF Neighbor!NeighborsAssumption, Neighbor!Origin, Neighbor!Size

LEMMA AxisType ==
    ASSUME NEW d
    PROVE  /\ Neighbor!Axis(d) \in {"x", "y"} /\ Neighbor!Edge(d) \in {"x", "y"}
           /\ Neighbor!Axis(d) # Neighbor!Edge(d)
  BY DEF Neighbor!Axis, Neighbor!Edge

\* A fraction of the edge, and the place at such a fraction, which lies on the edge.
LEMMA FractionType ==
    ASSUME Neighbor!NeighborsAssumption, NEW s \in Screen, NEW d, NEW p \in Point
    PROVE  Neighbor!mapToFraction(s, d, p) \in Int
<1> DEFINE o == Neighbor!Origin(s, Neighbor!Edge(d))
           z == Neighbor!Size(s, Neighbor!Edge(d))
           x == p[Neighbor!Edge(d)]
<1>1. o \in Int /\ z \in Nat \ {0} /\ x \in Int /\ Grid \in Nat
  BY AxisType, ShapeType DEF Point, Neighbor!NeighborsAssumption
<1> HIDE DEF o, z, x
<1>2. (2 * (x - o) + 1) * Grid \in Int /\ 2 * z \in Nat \ {0}
  BY <1>1
<1> DEFINE u == (2 * (x - o) + 1) * Grid
           v == 2 * z
<1> HIDE DEF u, v
<1>3. u \div v \in Int
  BY <1>2 DEF u, v
<1>4. QED
  BY <1>3 DEF u, v, o, z, x, Neighbor!mapToFraction

LEMMA PixelOnEdge ==
    ASSUME Neighbor!NeighborsAssumption, NEW s \in Screen, NEW d, NEW p \in Point, NEW f \in 0 .. Grid - 1
    PROVE  LET q == Neighbor!mapToPixel(s, d, f, p)
               o == Neighbor!Origin(s, Neighbor!Edge(d))
           IN  /\ q \in Point /\ q[Neighbor!Axis(d)] = p[Neighbor!Axis(d)]
               /\ q[Neighbor!Edge(d)] \in o .. o + Neighbor!Size(s, Neighbor!Edge(d)) - 1
<1> DEFINE e == Neighbor!Edge(d)
           o == Neighbor!Origin(s, e)
           z == Neighbor!Size(s, e)
           k == (f * z) \div Grid
<1>1. o \in Int /\ z \in Nat \ {0} /\ Grid \in Nat \ {0} /\ f \in Nat /\ f < Grid /\ e \in {"x", "y"}
  BY AxisType, ShapeType DEF Neighbor!NeighborsAssumption
<1> HIDE DEF e, o, z
<1>2. k \in 0 .. z - 1
  BY <1>1, PartOfWhole
<1> HIDE DEF k
<1>3. k + o \in Int /\ k + o \in o .. o + z - 1
  BY <1>1, <1>2
<1>4. Neighbor!mapToPixel(s, d, f, p) = [p EXCEPT ![e] = k + o]
  BY DEF Neighbor!mapToPixel, k, e, o, z
<1>5. [p EXCEPT ![e] = k + o] \in Point /\ [p EXCEPT ![e] = k + o][e] = k + o
      /\ [p EXCEPT ![e] = k + o][Neighbor!Axis(d)] = p[Neighbor!Axis(d)]
  BY <1>1, <1>3, AxisType DEF Point, e
<1>6. QED
  BY <1>3, <1>4, <1>5 DEF e, o, z

LEMMA AcrossType ==
    ASSUME Neighbor!NeighborsAssumption, NEW l \in Candidates, NEW f \in Int, Neighbor!isInside(l, f)
    PROVE  Neighbor!Across(l, f) \in 0 .. Grid - 1
<1>1. /\ l.start \in Nat /\ l.end \in Nat /\ l.toStart \in Nat /\ l.toEnd \in Nat /\ Grid \in Nat
      /\ l.toStart < l.toEnd /\ l.toEnd <= Grid /\ l.start <= f /\ f < l.end
  BY DEF Neighbor!NeighborsAssumption, Neighbor!isInside
<1> DEFINE k == f - l.start
           n == l.end - l.start
           c == l.toEnd - l.toStart
<1>2. k \in Nat /\ n \in Nat \ {0} /\ c \in Nat \ {0} /\ k < n
  BY <1>1
<1>3. (k * c) \div n \in 0 .. c - 1
  <2> HIDE DEF k, n, c
  <2>1. QED
    BY <1>2, PartOfWhole
<1> DEFINE q == (k * c) \div n
<1>4. Neighbor!Across(l, f) = l.toStart + q
  BY DEF Neighbor!Across
<1> HIDE DEF q
<1>5. QED
  BY <1>1, <1>3, <1>4 DEF q

\* Along the direction, seen from the screen: before its far edge, or not before its near one.
Along(s, p) == p[Neighbor!Axis(dir)] - Neighbor!Origin(s, Neighbor!Axis(dir))
Wide(s) == Neighbor!Size(s, Neighbor!Axis(dir))
MayLeave(s, p) == Neighbor!getLink(s, Neighbor!Opposite(dir), Neighbor!mapToFraction(s, dir, p)) # {}

\* Where the pointer comes to lie on s, p being its place as seen from s.
ComesTo(s, p, q) ==
    LET x == p[Neighbor!Axis(dir)] IN
    /\ q \in Point /\ q[Neighbor!Edge(dir)] = p[Neighbor!Edge(dir)]
    /\ IF Neighbor!Backwards(dir) THEN Along(s, q) <= x ELSE Along(s, q) >= x
    /\ IF Neighbor!Backwards(dir) THEN x >= 0 => Along(s, q) >= 0 ELSE x < Wide(s) => Along(s, q) < Wide(s)
    /\ s = Primary /\ MayLeave(s, p) =>
           IF Neighbor!Backwards(dir) THEN Along(s, q) < Wide(s) - JumpZone ELSE Along(s, q) >= JumpZone

LEMMA AvoidsJumpZone ==
    ASSUME Neighbor!NeighborsAssumption, NEW s \in Screen, NEW p \in Point
    PROVE  ComesTo(s, p, Neighbor!avoidJumpZone(s, p))
<1> DEFINE a == Neighbor!Axis(dir)
           low == Neighbor!Origin(s, a)
           z == Neighbor!Size(s, a)
           x == p[a]
           q == Neighbor!avoidJumpZone(s, p)
           b == Neighbor!Backwards(dir)
           y == x + low
           high == low + z - 1
           u == IF s # Primary \/ ~MayLeave(s, p) THEN y
                ELSE IF b THEN IF y > high - JumpZone THEN high - JumpZone ELSE y
                ELSE IF y < low + JumpZone THEN low + JumpZone ELSE y
<1>1. /\ a \in {"x", "y"} /\ low \in Int /\ z \in Nat \ {0} /\ x \in Int /\ JumpZone \in Nat
      /\ s = Primary => JumpZone < z
      /\ a # Neighbor!Edge(dir) /\ Neighbor!Edge(dir) \in {"x", "y"}
  BY AxisType, ShapeType DEF Point, Neighbor!NeighborsAssumption, Neighbor!Size
<1>2. q = [p EXCEPT ![a] = u]
  <2>1. CASE s # Primary \/ ~MayLeave(s, p)
    BY <2>1 DEF Neighbor!avoidJumpZone, MayLeave
  <2>2. CASE ~(s # Primary \/ ~MayLeave(s, p))
    <3>1. q = [[p EXCEPT ![a] = @ + low] EXCEPT ![a] = IF b THEN IF @ > high - JumpZone THEN high - JumpZone ELSE @
                                                         ELSE IF @ < low + JumpZone THEN low + JumpZone ELSE @]
      BY <2>2 DEF Neighbor!avoidJumpZone, MayLeave
    <3>2. [p EXCEPT ![a] = @ + low] = [p EXCEPT ![a] = y] /\ [p EXCEPT ![a] = y][a] = y
      BY <1>1 DEF Point
    <3> HIDE DEF a, low, z, x, b, high, y
    <3>3. \A v, w : [[p EXCEPT ![a] = v] EXCEPT ![a] = w] = [p EXCEPT ![a] = w]
      BY <1>1 DEF Point
    <3>4. QED
      BY <2>2, <3>1, <3>2, <3>3
  <2>3. QED
    BY <2>1, <2>2
<1> HIDE DEF a, low, z, x, q, b
<1>3. u \in Int
  BY <1>1
<1>4. q \in Point /\ q[a] = u /\ q[Neighbor!Edge(dir)] = p[Neighbor!Edge(dir)]
  <2> HIDE DEF u
  <2>1. QED
    BY <1>1, <1>2, <1>3 DEF Point
<1>5. Along(s, q) = u - low /\ Wide(s) = z
  BY <1>4 DEF Along, Wide, a, low, z
<1>6. /\ IF b THEN u - low <= x ELSE u - low >= x
      /\ IF b THEN x >= 0 => u - low >= 0 ELSE x < z => u - low < z
      /\ s = Primary /\ MayLeave(s, p) => IF b THEN u - low < z - JumpZone ELSE u - low >= JumpZone
  BY <1>1
<1>7. ComesTo(s, p, q)
  <2> HIDE DEF u
  <2>1. QED
    BY <1>4, <1>5, <1>6 DEF ComesTo, a, b, x
<1>8. QED
  BY <1>7 DEF q

\* While the search goes on, the pointer is beyond the edge of the last screen that is
\* connected, and between the ends of the edge through which it came.
Beyond ==
    IF Neighbor!Backwards(dir) THEN pos[Neighbor!Axis(dir)] < 0 ELSE pos[Neighbor!Axis(dir)] >= Wide(last)
OnEdge ==
    LET e == Neighbor!Edge(dir) IN
    pos[e] \in Neighbor!Origin(last, e) .. Neighbor!Origin(last, e) + Neighbor!Size(last, e) - 1

SearchInv ==
    /\ Neighbor!TypeOK
    /\ Neighbor!Searching => Beyond
    /\ phase = "further" => OnEdge
    /\ Neighbor!ArrivesOnScreen /\ Neighbor!OutOfJumpZone

\* No search goes on.
LEMMA IdleSearch ==
    ASSUME Neighbor!NeighborsAssumption, phase' = "idle", Neighbor!TypeOK' PROVE SearchInv'
  BY DEF SearchInv, Neighbor!Searching, Neighbor!ArrivesOnScreen, Neighbor!OutOfJumpZone

LEMMA ResetSearch ==
    ASSUME Neighbor!NeighborsAssumption, SearchInv, Neighbor!reset, UNCHANGED <<links, connected>> PROVE SearchInv'
<1>1. (CHOOSE d \in Directions : TRUE) \in Directions
  BY DEF Neighbor!NeighborsAssumption
<1>2. Neighbor!TypeOK'
  <2>1. dir' \in Directions /\ pos' \in [{"x", "y"} -> Int] /\ t' \in Int
    BY <1>1 DEF Neighbor!reset
  <2>2. phase' = "idle" /\ src' = Primary /\ last' = Primary /\ Primary \in Screen
    BY DEF Neighbor!reset, Neighbor!NeighborsAssumption
  <2>3. QED
    BY <2>1, <2>2 DEF SearchInv, Neighbor!TypeOK
<1>3. QED
  BY <1>2, IdleSearch DEF Neighbor!reset

\* A pointer that comes to lie on a screen lies on it, clear of the jump zone.
LEMMA Arrives ==
    ASSUME Neighbor!NeighborsAssumption, NEW s \in Screen, NEW p \in Point,
           Neighbor!TypeOK, dir' = dir, links' = links, connected' = connected,
           phase' = "arrived", last' = s, src' \in Screen, t' \in Int,
           pos' = Neighbor!avoidJumpZone(s, p),
           p[Neighbor!Edge(dir)] \in Neighbor!Origin(s, Neighbor!Edge(dir))
                 .. Neighbor!Origin(s, Neighbor!Edge(dir)) + Neighbor!Size(s, Neighbor!Edge(dir)) - 1,
           IF Neighbor!Backwards(dir) THEN p[Neighbor!Axis(dir)] < Wide(s) ELSE p[Neighbor!Axis(dir)] >= 0,
           \/ IF Neighbor!Backwards(dir) THEN p[Neighbor!Axis(dir)] >= 0 ELSE p[Neighbor!Axis(dir)] < Wide(s)
           \/ Neighbor!getLink(src', dir, t') = {}
    PROVE  SearchInv'
<1>1. ComesTo(s, p, pos')
  BY AvoidsJumpZone
<1>2. Neighbor!TypeOK'
  BY <1>1 DEF Neighbor!TypeOK, ComesTo, Point
<1>3. \A n, d, f : Neighbor!getLink(n, d, f)' = Neighbor!getLink(n, d, f)
  BY DEF Neighbor!getLink, Neighbor!UpTo, Neighbor!Side
<1> DEFINE a == Neighbor!Axis(dir)
           e == Neighbor!Edge(dir)
           low == Neighbor!Origin(s, a)
           z == Neighbor!Size(s, a)
<1>4. low \in Int /\ z \in Nat \ {0} /\ p[a] \in Int /\ pos'[a] \in Int /\ a \in {"x", "y"} /\ e \in {"x", "y"}
      /\ pos'[e] = p[e] /\ Neighbor!Origin(s, e) \in Int /\ Neighbor!Size(s, e) \in Nat /\ JumpZone \in Nat
      /\ p[e] \in Int
  BY <1>1, AxisType, ShapeType DEF ComesTo, Point, Neighbor!NeighborsAssumption
<1>5. /\ Along(s, pos') = pos'[a] - low /\ Wide(s) = z
  BY DEF Along, Wide
<1>6. Neighbor!ArrivesOnScreen'
  <2>1. pos'[e] >= Neighbor!Origin(s, e) /\ pos'[e] < Neighbor!Origin(s, e) + Neighbor!Size(s, e)
    BY <1>4
  <2>2. IF Neighbor!Backwards(dir) THEN pos'[a] - low < z ELSE pos'[a] - low >= 0
    BY <1>1, <1>4, <1>5 DEF ComesTo
  <2>3. (IF Neighbor!Backwards(dir) THEN pos'[a] - low < 0 ELSE pos'[a] - low >= z) =>
           Neighbor!getLink(src', dir, t') = {}
    BY <1>1, <1>4, <1>5 DEF ComesTo
  <2>4. Neighbor!getLink(src', dir, t') = Neighbor!getLink(src, dir, t)'
    BY <1>3
  <2>5. QED
    BY <2>1, <2>2, <2>3, <2>4 DEF Neighbor!ArrivesOnScreen
<1>7. Neighbor!OutOfJumpZone'
  <2> SUFFICES ASSUME s = Primary,
                      Neighbor!getLink(Primary, Neighbor!Opposite(dir), Neighbor!mapToFraction(Primary, dir, pos))' # {}
               PROVE  IF Neighbor!Backwards(dir) THEN pos'[a] - low < z - JumpZone ELSE pos'[a] - low >= JumpZone
    BY DEF Neighbor!OutOfJumpZone
  <2>1. Neighbor!mapToFraction(Primary, dir, pos') = Neighbor!mapToFraction(Primary, dir, p)
    BY <1>4 DEF Neighbor!mapToFraction
  <2>2. Neighbor!getLink(Primary, Neighbor!Opposite(dir), Neighbor!mapToFraction(Primary, dir, pos))'
            = Neighbor!getLink(Primary, Neighbor!Opposite(dir), Neighbor!mapToFraction(Primary, dir, pos'))
    BY DEF Neighbor!getLink, Neighbor!UpTo, Neighbor!Side
  <2>3. MayLeave(s, p)
    BY <2>1, <2>2 DEF MayLeave
  <2>4. QED
    BY <1>1, <1>5, <2>3 DEF ComesTo
<1>8. QED
  BY <1>2, <1>6, <1>7 DEF SearchInv, Neighbor!Searching

------------------------------------------------------------------------------

LEMMA SearchMotion ==
    ASSUME Neighbor!NeighborsAssumption, SearchInv, NEW s \in connected, NEW d \in Directions, NEW beyond \in 1..Reach,
           NEW along \in 0..Neighbor!Size(s, Neighbor!Edge(d)), Neighbor!motion(s, d, beyond, along)
    PROVE  SearchInv'
<1>1. s \in Screen /\ Reach \in Nat
  BY DEF SearchInv, Neighbor!TypeOK, Neighbor!NeighborsAssumption
<1> DEFINE p == [a \in {"x", "y"} |->
                    IF a = Neighbor!Axis(d)
                    THEN IF Neighbor!Backwards(d) THEN 0 - beyond ELSE Neighbor!Size(s, a) - 1 + beyond
                    ELSE Neighbor!Origin(s, a) + along]
<1>2. /\ pos' = p /\ t' = Neighbor!mapToFraction(s, d, p) /\ phase' = "first" /\ dir' = d /\ src' = s /\ last' = s
      /\ UNCHANGED <<links, connected>>
  BY DEF Neighbor!motion
<1>3. /\ \A a \in {"x", "y"} : Neighbor!Origin(s, a) \in Int /\ Neighbor!Size(s, a) \in Nat \ {0}
      /\ Neighbor!Axis(d) \in {"x", "y"} /\ Neighbor!Edge(d) \in {"x", "y"}
  BY <1>1, ShapeType, AxisType
<1>4. p \in Point
  <2>1. along \in Int
    BY <1>3
  <2>2. QED
    BY <1>1, <1>3, <2>1 DEF Point
<1>5. IF Neighbor!Backwards(d) THEN p[Neighbor!Axis(d)] < 0 ELSE p[Neighbor!Axis(d)] >= Neighbor!Size(s, Neighbor!Axis(d))
  BY <1>1, <1>3
<1> HIDE DEF p
<1>6. t' \in Int
  BY <1>1, <1>2, <1>4, FractionType
<1>7. Neighbor!TypeOK'
  BY <1>1, <1>2, <1>4, <1>6 DEF SearchInv, Neighbor!TypeOK, Point
<1>8. Beyond'
  BY <1>2, <1>5 DEF Beyond, Wide
<1>9. QED
  BY <1>2, <1>7, <1>8 DEF SearchInv, Neighbor!ArrivesOnScreen, Neighbor!OutOfJumpZone

LEMMA SearchNoNeighbor ==
    ASSUME Neighbor!NeighborsAssumption, SearchInv, Neighbor!noNeighbor PROVE SearchInv'
<1>1. CASE phase = "first"
  BY <1>1, ResetSearch DEF Neighbor!noNeighbor
<1>2. CASE phase = "further"
  <2>1. /\ Neighbor!getLink(src, dir, t) = {} /\ phase' = "arrived" /\ pos' = Neighbor!avoidJumpZone(last, pos)
        /\ UNCHANGED <<dir, src, t, last, links, connected>>
    BY <1>2 DEF Neighbor!noNeighbor
  <2>2. /\ Neighbor!TypeOK /\ last \in Screen /\ pos \in Point /\ Beyond /\ OnEdge /\ src \in Screen /\ t \in Int
    BY <1>2 DEF SearchInv, Neighbor!TypeOK, Point, Neighbor!Searching
  <2>3. Wide(last) \in Nat \ {0} /\ pos[Neighbor!Axis(dir)] \in Int
    BY <2>2, ShapeType, AxisType DEF Wide, Point
  <2>4. IF Neighbor!Backwards(dir) THEN pos[Neighbor!Axis(dir)] < Wide(last) ELSE pos[Neighbor!Axis(dir)] >= 0
    BY <2>2, <2>3 DEF Beyond
  <2>5. Neighbor!getLink(src', dir, t') = {}
    BY <2>1
  <2>6. QED
    BY <2>1, <2>2, <2>4, <2>5, Arrives DEF OnEdge
<1>3. QED
  BY <1>1, <1>2 DEF Neighbor!noNeighbor

LEMMA LinkType ==
    ASSUME Neighbor!NeighborsAssumption, SearchInv, NEW l \in Neighbor!getLink(src, dir, t)
    PROVE  l \in Candidates /\ l.to \in Screen /\ Neighbor!Across(l, t) \in 0 .. Grid - 1
<1>1. l \in Candidates /\ Neighbor!isInside(l, t) /\ t \in Int
  BY DEF Neighbor!getLink, Neighbor!UpTo, Neighbor!Side, SearchInv, Neighbor!TypeOK
<1>2. QED
  BY <1>1, AcrossType DEF Neighbor!NeighborsAssumption

LEMMA SearchSkip ==
    ASSUME Neighbor!NeighborsAssumption, SearchInv, Neighbor!skip PROVE SearchInv'
<1>1. PICK l \in Neighbor!getLink(src, dir, t) :
          /\ src' = l.to /\ t' = Neighbor!Across(l, t)
  BY DEF Neighbor!skip
<1>2. UNCHANGED <<links, connected, phase, dir, last, pos>> /\ phase \in {"first", "further"}
  BY DEF Neighbor!skip, Neighbor!Searching
<1>3. l.to \in Screen /\ t' \in Int
  <2>1. Grid \in Nat
    BY DEF Neighbor!NeighborsAssumption
  <2>2. QED
    BY <1>1, <2>1, LinkType
<1>4. src' \in Screen
  BY <1>1, <1>3 DEF SearchInv, Neighbor!TypeOK
<1>5. Neighbor!TypeOK'
  BY <1>2, <1>3, <1>4 DEF SearchInv, Neighbor!TypeOK
<1>6. Beyond' /\ (phase' = "further" => OnEdge')
  BY <1>2 DEF SearchInv, Beyond, OnEdge, Wide, Neighbor!Searching
<1>7. QED
  BY <1>2, <1>5, <1>6 DEF SearchInv, Neighbor!ArrivesOnScreen, Neighbor!OutOfJumpZone

LEMMA SearchFound ==
    ASSUME Neighbor!NeighborsAssumption, SearchInv, Neighbor!found PROVE SearchInv'
<1> DEFINE a == Neighbor!Axis(dir)
           e == Neighbor!Edge(dir)
<1>1. /\ Neighbor!Searching /\ Beyond /\ Neighbor!TypeOK /\ last \in Screen /\ pos \in Point
      /\ UNCHANGED <<links, connected, dir>>
      /\ a \in {"x", "y"} /\ e \in {"x", "y"} /\ a # e
  BY AxisType DEF Neighbor!found, SearchInv, Neighbor!TypeOK, Point
<1>2. PICK l \in Neighbor!getLink(src, dir, t) :
          LET s == l.to
              p == [Neighbor!mapToPixel(s, dir, Neighbor!Across(l, t), pos) EXCEPT ![a] = Neighbor!entered(s, @)]
              on == IF Neighbor!Backwards(dir) THEN p[a] >= 0 ELSE p[a] < Neighbor!Size(s, a)
          IN  /\ s \in connected
              /\ IF on
                 THEN phase' = "arrived" /\ pos' = Neighbor!avoidJumpZone(s, p)
                 ELSE phase' = "further" /\ pos' = p
              /\ last' = s /\ src' = s /\ t' = Neighbor!mapToFraction(s, dir, p)
  BY DEF Neighbor!found
<1>3. PICK s : s = l.to
  OBVIOUS
<1> DEFINE g == Neighbor!mapToPixel(s, dir, Neighbor!Across(l, t), pos)
           p == [g EXCEPT ![a] = Neighbor!entered(s, @)]
           on == IF Neighbor!Backwards(dir) THEN p[a] >= 0 ELSE p[a] < Neighbor!Size(s, a)
           o == Neighbor!Origin(s, e)
           z == Neighbor!Size(s, e)
<1>4. s \in Screen /\ Neighbor!Across(l, t) \in 0 .. Grid - 1
  BY <1>3, LinkType
<1>5. g \in Point /\ g[a] = pos[a] /\ g[e] \in o .. o + z - 1
  BY <1>1, <1>4, PixelOnEdge
<1>6. /\ IF on
         THEN phase' = "arrived" /\ pos' = Neighbor!avoidJumpZone(s, p)
         ELSE phase' = "further" /\ pos' = p
      /\ last' = s /\ src' = s /\ t' = Neighbor!mapToFraction(s, dir, p)
  BY <1>2, <1>3
<1>7. Neighbor!Size(s, a) \in Nat \ {0} /\ Neighbor!Size(last, a) \in Nat \ {0} /\ pos[a] \in Int
  BY <1>1, <1>4, ShapeType DEF Point
<1>8. /\ p \in Point /\ p[e] = g[e]
      /\ p[a] = IF Neighbor!Backwards(dir) THEN pos[a] + Neighbor!Size(s, a) ELSE pos[a] - Neighbor!Size(last, a)
  <2> HIDE DEF g, a, e
  <2>1. Neighbor!entered(s, g[a]) =
            IF Neighbor!Backwards(dir) THEN pos[a] + Neighbor!Size(s, a) ELSE pos[a] - Neighbor!Size(last, a)
    BY <1>5 DEF Neighbor!entered, a
  <2>2. Neighbor!entered(s, g[a]) \in Int
    BY <1>7, <2>1
  <2>3. QED
    BY <1>1, <1>5, <2>1, <2>2 DEF Point
<1>9. IF Neighbor!Backwards(dir) THEN p[a] < Wide(s) ELSE p[a] >= 0
  BY <1>1, <1>7, <1>8 DEF Beyond, Wide
<1> HIDE DEF g, p
<1>10. t' \in Int
  BY <1>4, <1>6, <1>8, FractionType
<1>11. CASE on
  <2>1. /\ phase' = "arrived" /\ pos' = Neighbor!avoidJumpZone(s, p) /\ last' = s /\ src' \in Screen
    BY <1>4, <1>6, <1>11
  <2>2. p[e] \in o .. o + z - 1
    BY <1>5, <1>8
  <2>3. IF Neighbor!Backwards(dir) THEN p[a] >= 0 ELSE p[a] < Wide(s)
    BY <1>11 DEF Wide
  <2>4. QED
    BY <1>1, <1>4, <1>8, <1>9, <1>10, <2>1, <2>2, <2>3, Arrives
<1>12. CASE ~on
  <2>1. phase' = "further" /\ pos' = p
    BY <1>6, <1>12
  <2>2. Neighbor!TypeOK'
    BY <1>1, <1>4, <1>6, <1>8, <1>10, <2>1 DEF Neighbor!TypeOK, Point
  <2>3. Beyond'
    BY <1>1, <1>6, <1>7, <1>8, <1>12, <2>1 DEF Beyond, Wide, Point
  <2>4. OnEdge'
    BY <1>1, <1>5, <1>6, <1>8, <2>1 DEF OnEdge
  <2>5. QED
    BY <2>1, <2>2, <2>3, <2>4 DEF SearchInv, Neighbor!ArrivesOnScreen, Neighbor!OutOfJumpZone
<1>13. QED
  BY <1>11, <1>12

LEMMA SearchNext ==
    ASSUME Neighbor!NeighborsAssumption, SearchInv, [Neighbor!Next]_neighborVars PROVE SearchInv'
<1>1. ASSUME phase = "idle", UNCHANGED phase, Neighbor!TypeOK' PROVE SearchInv'
  BY <1>1, IdleSearch
<1>2. ASSUME NEW l \in Candidates, Neighbor!connect(l) PROVE SearchInv'
  <2>1. Neighbor!TypeOK'
    BY <1>2 DEF SearchInv, Neighbor!TypeOK, Neighbor!connect, Neighbor!searchVars, Neighbor!Replaced, Neighbor!Side
  <2>2. QED
    BY <1>1, <1>2, <2>1 DEF Neighbor!connect, Neighbor!searchVars
<1>3. ASSUME NEW n \in Screen, NEW side \in Directions, Neighbor!disconnect(n, side) PROVE SearchInv'
  <2>1. Neighbor!TypeOK'
    BY <1>3 DEF SearchInv, Neighbor!TypeOK, Neighbor!disconnect, Neighbor!searchVars
  <2>2. QED
    BY <1>1, <1>3, <2>1 DEF Neighbor!disconnect, Neighbor!searchVars
<1>4. ASSUME NEW s \in Screen, Neighbor!clientConnected(s) \/ Neighbor!clientDisconnected(s) PROVE SearchInv'
  <2>1. Neighbor!TypeOK'
    BY <1>4 DEF SearchInv, Neighbor!TypeOK, Neighbor!clientConnected, Neighbor!clientDisconnected, Neighbor!searchVars
  <2>2. QED
    BY <1>1, <1>4, <2>1 DEF Neighbor!clientConnected, Neighbor!clientDisconnected, Neighbor!searchVars
<1>5. CASE Neighbor!switch
  BY <1>5, ResetSearch DEF Neighbor!switch
<1>6. CASE UNCHANGED neighborVars
  BY <1>6 DEF neighborVars, SearchInv, Neighbor!TypeOK, Neighbor!Searching, Beyond, OnEdge, Wide,
     Neighbor!ArrivesOnScreen, Neighbor!OutOfJumpZone, Neighbor!getLink, Neighbor!UpTo, Neighbor!Side
<1>7. QED
  BY <1>2, <1>3, <1>4, <1>5, <1>6, SearchMotion, SearchNoNeighbor, SearchSkip, SearchFound
     DEF Neighbor!Next, Neighbor!Search

LEMMA SearchInit == ASSUME Neighbor!NeighborsAssumption, Neighbor!Init PROVE SearchInv
<1>1. (CHOOSE d \in Directions : TRUE) \in Directions
  BY DEF Neighbor!NeighborsAssumption
<1>2. dir \in Directions /\ pos \in [{"x", "y"} -> Int] /\ t \in Int /\ phase = "idle"
  BY <1>1 DEF Neighbor!Init, Neighbor!quiet
<1>3. Neighbor!TypeOK
  BY <1>2 DEF Neighbor!Init, Neighbor!quiet, Neighbor!TypeOK, Neighbor!NeighborsAssumption
<1>4. QED
  BY <1>2, <1>3 DEF SearchInv, Neighbor!Searching, Neighbor!ArrivesOnScreen, Neighbor!OutOfJumpZone

------------------------------------------------------------------------------
(* Any links, and any search along them.                                       *)

LinksInv == DisjointInv /\ SearchInv

\* Whatever links are added, replaced and removed, those of one side of a screen do not
\* overlap, and the one that is looked at is the one at that point; and wherever a motion leads,
\* it ends on the screen that is entered (Config::connect, Cell::add, Cell::getLink,
\* Server::mapToNeighbor, Server::avoidJumpZone).
THEOREM LinksFit ==
    ASSUME Neighbor!NeighborsAssumption PROVE Neighbor!Spec => []NeighborsFit
<1>1. Neighbor!Init => LinksInv
  BY SearchInit DEF Neighbor!Init, LinksInv, DisjointInv, Neighbor!LinksDisjoint
<1>2. LinksInv /\ [Neighbor!Next]_neighborVars => LinksInv'
  BY DisjointNext, SearchNext DEF LinksInv
<1>3. LinksInv => NeighborsFit
  <2>1. Grid \in Nat
    BY DEF Neighbor!NeighborsAssumption
  <2>2. LinksInv => Neighbor!LookupComplete
    BY <2>1, OneLookup DEF Neighbor!LookupComplete, LinksInv
  <2>3. QED
    BY <2>2 DEF LinksInv, DisjointInv, SearchInv, NeighborsFit
<1>4. [Neighbor!Next]_(Neighbor!vars) => [Neighbor!Next]_neighborVars
  BY DEF Neighbor!vars, Neighbor!searchVars, neighborVars
<1>5. QED
  BY <1>1, <1>2, <1>3, <1>4, PTL DEF Neighbor!Spec

------------------------------------------------------------------------------
(* The parts, each under its own specification.                                *)

\* A key or a button that went down on a screen goes up there, whatever the order of keys,
\* crossings, hot keys, refusals and lost connections, but for the named cases
\* (Server::onKeyUp, KeyState::fakeAllKeysUp, ClientProxy::leave).
THEOREM KeysAlwaysGoUp == ASSUME KeysTo!KeyRelayAssumption PROVE KeysTo!Spec => []KeysGoUp
<1>1. KeysTo!Init => RelayInv
  BY RelayInit
<1>2. RelayInv /\ [KeysTo!Next]_relayVars => RelayInv'
  BY RelayNext
<1>3. RelayInv => KeysGoUp
  BY RelayHolds
<1>4. [KeysTo!Next]_(KeysTo!vars) => [KeysTo!Next]_relayVars
  BY DEF KeysTo!vars, KeysTo!hostVars, KeysTo!serverVars, KeysTo!clientVars, relayVars
<1>5. QED
  BY <1>1, <1>2, <1>3, <1>4, PTL DEF KeysTo!Spec

\* The pointer of a client is where the motions that were sent to it led, but for the named
\* case, and nothing is kept back between two visits (ServerProxy::mouseMove,
\* mouseRelativeMove, flushCompressedMouse).
THEOREM MotionsAreKept == ASSUME MaxMotions \in Nat PROVE Mouse!Spec => []MouseKeeps
<1>1. Mouse!Init => MouseInv
  BY MouseInit
<1>2. MouseInv /\ [Mouse!Next]_mouseVars => MouseInv'
  BY MouseNextHolds
<1>3. MouseInv => MouseKeeps
  BY MouseHolds
<1>4. [Mouse!Next]_(Mouse!vars) => [Mouse!Next]_mouseVars
  BY DEF Mouse!vars, Mouse!keeping, mouseVars
<1>5. QED
  BY <1>1, <1>2, <1>3, <1>4, PTL DEF Mouse!Spec

\* Two presses of Insert within the window, and nothing else, take the pointer home, and
\* nothing else of Insert is swallowed, however late the messages of the hook are handled, but
\* for the named case (MSWindowsScreen::onKey).
THEOREM TapsAlwaysAgree == ASSUME Insert!DoubleInsertAssumption PROVE Insert!Spec => []TapsAgree
<1>1. Insert!Init => TapInv
  BY TapInit
<1>2. TapInv /\ [Insert!Next]_insertVars => TapInv'
  BY TapNext
<1>3. TapInv => TapsAgree
  BY TapHolds
<1>4. [Insert!Next]_(Insert!vars) => [Insert!Next]_insertVars
  BY DEF Insert!vars, Insert!keyboardVars, Insert!stateVars, Insert!screenVars, Insert!tapVars, Insert!heardVars,
     Insert!wrongVars, Insert!caseVars, insertVars
<1>5. QED
  BY <1>1, <1>2, <1>3, <1>4, PTL DEF Insert!Spec

\* Whichever desktops have the input and whichever of them can be reached, the cursor is
\* hidden where and while it must be, and the keys are those of the keyboard, but for the
\* named cases (MSWindowsDesks::checkDesk, deskEnter, deskLeave, updateKeys).
THEOREM DesksStayRight == ASSUME DesksOf!DesksAssumption PROVE DesksOf!Spec => []DesksRight
<1>1. DesksOf!Init => DesksInv
  BY DesksInit
<1>2. DesksInv /\ [DesksOf!Next]_desksVars => DesksInv'
  BY DesksNext
<1>3. DesksInv => DesksRight
  BY DesksHold
<1>4. [DesksOf!Next]_(DesksOf!vars) => [DesksOf!Next]_desksVars
  BY DEF DesksOf!vars, DesksOf!windowsVars, DesksOf!screenVars, DesksOf!deskVars, DesksOf!keyVars, DesksOf!saverVars,
     DesksOf!caseVars, desksVars
<1>5. QED
  BY <1>1, <1>2, <1>3, <1>4, PTL DEF DesksOf!Spec

\* What input does, all of it: InputLetGo holds of the four parts side by side.
THEOREM InputAlwaysLetGo ==
    ASSUME InputAssumption
    PROVE  KeysTo!Spec /\ Mouse!Spec /\ Insert!Spec /\ DesksOf!Spec => []InputLetGo
<1>1. KeysTo!KeyRelayAssumption /\ MaxMotions \in Nat /\ Insert!DoubleInsertAssumption /\ DesksOf!DesksAssumption
  BY DEF InputAssumption, Mouse!MouseStreamAssumption
<1>2. KeysTo!Spec => []KeysGoUp
  BY <1>1, KeysAlwaysGoUp
<1>3. Mouse!Spec => []MouseKeeps
  BY <1>1, MotionsAreKept
<1>4. Insert!Spec => []TapsAgree
  BY <1>1, TapsAlwaysAgree
<1>5. DesksOf!Spec => []DesksRight
  BY <1>1, DesksStayRight
<1>6. KeysGoUp /\ MouseKeeps /\ TapsAgree /\ DesksRight => InputLetGo
  BY DEF KeysGoUp, MouseKeeps, TapsAgree, DesksRight, InputLetGo
<1>7. QED
  BY <1>2, <1>3, <1>4, <1>5, <1>6, PTL
=============================================================================
