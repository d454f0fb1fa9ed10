---- MODULE ClipboardProofs ----
EXTENDS Clipboard, SequenceTheorems, TLAPS

State ==
    [server : ServerType, events : Seq(EventType),
     down : [Clients -> Seq(Message)], screen : [Screens -> ScreenType]]

LEMMA Bounds ==
    /\ Primary \in Screens /\ Clients \subseteq Screens /\ Primary \notin Clients
    /\ Nothing \in Contents /\ 0 \in SeqNums
    /\ Contents \subseteq Nat /\ SeqNums \subseteq Nat
  BY ClipboardAssumption DEF Screens, Nothing, Contents, SeqNums

LEMMA WrittenType ==
    ASSUME NEW scr \in ScreenType, NEW d \in Contents
    PROVE  Written(scr, d) \in ScreenType /\ ~LostTo(Written(scr, d))
  BY DEF Written, ScreenType, LostTo

LEMMA AddType ==
    ASSUME NEW w \in State, NEW e \in EventType
    PROVE  /\ Add(w, e) \in State
           /\ Add(w, e).events = Append(w.events, e)
           /\ Add(w, e).server = w.server /\ Add(w, e).down = w.down /\ Add(w, e).screen = w.screen
<1>1. w.events \in Seq(EventType) /\ Append(w.events, e) \in Seq(EventType)
  BY AppendProperties DEF State
<1>2. Add(w, e) = [w EXCEPT !.events = Append(w.events, e)]
  BY DEF Add
<1>3. QED
  BY <1>1, <1>2 DEF State

LEMMA WriteType ==
    ASSUME NEW w \in State, NEW c \in Clients, NEW m \in Message
    PROVE  /\ Write(w, c, m) \in State
           /\ Write(w, c, m).down = [w.down EXCEPT ![c] = Append(@, m)]
           /\ Write(w, c, m).server = w.server /\ Write(w, c, m).events = w.events
           /\ Write(w, c, m).screen = w.screen
<1>1. /\ w.down \in [Clients -> Seq(Message)] /\ w.down[c] \in Seq(Message)
      /\ Append(w.down[c], m) \in Seq(Message)
  BY AppendProperties DEF State
<1>2. Write(w, c, m) = [w EXCEPT !.down = [w.down EXCEPT ![c] = Append(w.down[c], m)]]
  BY DEF Write
<1>3. [w.down EXCEPT ![c] = Append(w.down[c], m)] \in [Clients -> Seq(Message)]
  BY <1>1
<1>4. QED
  BY <1>2, <1>3 DEF State

\* The fields of the server that giving a screen the clipboard leaves alone.
SameCourse(r, w) ==
    /\ r.active = w.active /\ r.seqNum = w.seqNum /\ r.primarySeq = w.primarySeq
    /\ r.owner = w.owner /\ r.clipSeq = w.clipSeq

\* The screens of the clients, and nothing is taken from the primary's.
ScreensKept(r, w) ==
    /\ \A c \in Clients : r.screen[c] = w.screen[c]
    /\ LostTo(r.screen[Primary]) => LostTo(w.screen[Primary])

SetClipboardEffect(r, w, s) ==
    /\ r \in State
    /\ r.down = w.down
    /\ SameCourse(r.server, w.server)
    /\ r.server.cache = w.server.cache /\ r.server.data = w.server.data
    /\ r.events = w.events
         \/ (s \in Clients /\ r.events = Append(w.events, Event("sending", s, 0, w.server.cache)))
    /\ ScreensKept(r, w)

LEMMA SetClipboardDoes ==
    ASSUME NEW w \in State, NEW s \in Screens, NEW r, r = setClipboard(w, s)
    PROVE  SetClipboardEffect(r, w, s)
<1> USE DEF SetClipboardEffect
<1> USE Bounds
<1> DEFINE clean == [w EXCEPT !.server.dirty[s] = FALSE]
           d == w.server.cache
<1>1. /\ w.server \in ServerType /\ w.events \in Seq(EventType)
      /\ w.screen \in [Screens -> ScreenType] /\ w.down \in [Clients -> Seq(Message)]
  BY DEF State
<1>2. d \in Contents
  BY <1>1 DEF ServerType
<1>3. /\ clean \in State /\ clean.events = w.events /\ clean.down = w.down /\ clean.screen = w.screen
      /\ clean.server = [w.server EXCEPT !.dirty[s] = FALSE]
  <2>1. [w.server EXCEPT !.dirty[s] = FALSE] \in ServerType
    BY <1>1 DEF ServerType
  <2>2. QED
    BY <1>1, <2>1 DEF State
<1>4. SameCourse(clean.server, w.server) /\ clean.server.cache = d /\ clean.server.data = w.server.data
  BY <1>1, <1>3 DEF ServerType, SameCourse
<1>5. CASE ~w.server.dirty[s]
  <2>1. r = w
    BY <1>5 DEF setClipboard
  <2>2. QED
    BY <2>1 DEF SameCourse, ScreensKept
<1>6. CASE w.server.dirty[s] /\ s = Primary
  <2>1. r = [clean EXCEPT !.screen[s] = Written(@, d)]
    BY <1>6 DEF setClipboard
  <2> HIDE DEF clean
  <2>2. r = [clean EXCEPT !.screen = [clean.screen EXCEPT ![s] = Written(clean.screen[s], d)]]
    BY <2>1
  <2>3. [clean.screen EXCEPT ![s] = Written(clean.screen[s], d)] \in [Screens -> ScreenType]
    <3>1. clean.screen \in [Screens -> ScreenType] /\ clean.screen[s] \in ScreenType
      BY <1>1, <1>3
    <3>2. Written(clean.screen[s], d) \in ScreenType
      BY <1>2, <3>1, WrittenType
    <3>3. QED
      BY <3>1, <3>2
  <2>4. /\ r \in State /\ r.server = clean.server /\ r.events = clean.events /\ r.down = clean.down
        /\ r.screen = [clean.screen EXCEPT ![s] = Written(clean.screen[s], d)]
    BY <1>3, <2>2, <2>3 DEF State
  <2>5. ScreensKept(r, w)
    <3>1. \A c \in Clients : r.screen[c] = w.screen[c]
      BY <1>1, <1>3, <1>6, <2>4
    <3>2. clean.screen[Primary] \in ScreenType /\ r.screen[Primary] = Written(clean.screen[Primary], d)
      BY <1>1, <1>3, <1>6, <2>4
    <3>3. ~LostTo(r.screen[Primary])
      BY <1>2, <3>2, WrittenType
    <3>4. QED
      BY <3>1, <3>3 DEF ScreensKept
  <2>6. QED
    BY <1>3, <1>4, <2>4, <2>5 DEF SameCourse
<1>7. CASE w.server.dirty[s] /\ s # Primary
  <2> DEFINE full == [clean EXCEPT !.server.buffer[s] = d]
             e == Event("sending", s, 0, d)
  <2>1. r = Add(full, e) /\ s \in Clients
    BY <1>7 DEF setClipboard, Screens
  <2> HIDE DEF clean
  <2>2. /\ full.server = [clean.server EXCEPT !.buffer[s] = d] /\ full.events = clean.events
        /\ full.down = clean.down /\ full.screen = clean.screen /\ full \in State
    <3>1. clean.server \in ServerType
      BY <1>3 DEF State
    <3>2. [clean.server EXCEPT !.buffer[s] = d] \in ServerType
      BY <3>1, <1>2, <2>1 DEF ServerType
    <3>3. QED
      BY <1>3, <3>1, <3>2 DEF State
  <2>3. SameCourse(full.server, clean.server) /\ full.server.cache = clean.server.cache
        /\ full.server.data = clean.server.data
    BY <1>3, <2>2 DEF ServerType, SameCourse, State
  <2>4. e \in EventType
    BY <1>2, <2>1 DEF Event, EventType
  <2> HIDE DEF full, e
  <2>5. r \in State /\ r.events = Append(full.events, e) /\ r.server = full.server
        /\ r.down = full.down /\ r.screen = full.screen
    BY <2>1, <2>2, <2>4, AddType
  <2>6. QED
    BY <1>3, <1>4, <2>1, <2>2, <2>3, <2>5 DEF SameCourse, e, ScreensKept
<1>8. QED
  BY <1>5, <1>6, <1>7

------------------------------------------------------------------------------
(* How a queue grows: by events of a set. *)

Longer(q, r, E) ==
    /\ Len(q) <= Len(r)
    /\ \A i \in 1 .. Len(q) : r[i] = q[i]
    /\ \A i \in 1 .. Len(r) : i > Len(q) => r[i] \in E

LEMMA LongerSame == ASSUME NEW S, NEW q \in Seq(S), NEW E PROVE Longer(q, q, E)
  BY LenProperties DEF Longer

LEMMA LongerAppend ==
    ASSUME NEW S, NEW q \in Seq(S), NEW E, NEW e \in S, e \in E
    PROVE  Longer(q, Append(q, e), E)
  BY LenProperties, AppendProperties DEF Longer

LEMMA LongerStill ==
    ASSUME NEW S, NEW q \in Seq(S), NEW r \in Seq(S), NEW t \in Seq(S), NEW E,
           Longer(q, r, E), Longer(r, t, E)
    PROVE  Longer(q, t, E)
<1>1. Len(q) \in Nat /\ Len(r) \in Nat /\ Len(t) \in Nat
  BY LenProperties
<1>2. ASSUME NEW i \in 1 .. Len(q) PROVE t[i] = q[i]
  BY <1>1 DEF Longer
<1>3. ASSUME NEW i \in 1 .. Len(t), i > Len(q) PROVE t[i] \in E
  <2>1. CASE i <= Len(r)
    BY <1>1, <1>3, <2>1 DEF Longer
  <2>2. CASE i > Len(r)
    BY <1>1, <1>3, <2>2 DEF Longer
  <2>3. QED
    BY <1>1, <2>1, <2>2
<1>4. QED
  BY <1>1, <1>2, <1>3 DEF Longer

\* What the server's own steps add to its queue: clipboards to send that fit, and a grab of
\* the primary.
Sendings(s) ==
    {e \in EventType : e.kind = "sending" /\ e.who = s /\ e.data \notin Oversized}
PrimaryGrabs(w) ==
    {e \in {Event("grabbed", Primary, w.server.primarySeq, Nothing)} : LostTo(w.screen[Primary])}
Added(w, s) == Sendings(s) \cup PrimaryGrabs(w)

ChangedEffect(r, w) ==
    /\ r \in State
    /\ r.down = w.down
    /\ SameCourse(r.server, w.server)
    /\ Longer(w.events, r.events, Sendings(w.server.active))
    /\ w.server.active = Primary => r.events = w.events
    /\ ScreensKept(r, w)

\* Giving the active screen a clipboard that fits.
LEMMA SetActiveDoes ==
    ASSUME NEW w \in State, NEW u \in State, NEW r, r = setClipboard(u, w.server.active),
           u.down = w.down, u.events = w.events, u.screen = w.screen,
           SameCourse(u.server, w.server), u.server.cache \notin Oversized
    PROVE  ChangedEffect(r, w)
<1> USE DEF ChangedEffect
<1>1. w.server.active \in Screens /\ w.events \in Seq(EventType) /\ u.server.cache \in Contents
  BY DEF State, ServerType
<1>0. SetClipboardEffect(r, u, w.server.active)
  BY <1>1, SetClipboardDoes
<1>2. /\ r \in State /\ r.down = u.down /\ SameCourse(r.server, u.server)
      /\ ScreensKept(r, u)
  BY <1>0 DEF SetClipboardEffect
<1>3. \/ r.events = u.events
      \/ /\ w.server.active \in Clients
         /\ r.events = Append(u.events, Event("sending", w.server.active, 0, u.server.cache))
  BY <1>0 DEF SetClipboardEffect
<1>4. Longer(w.events, r.events, Sendings(w.server.active))
  <2>1. CASE r.events = u.events
    BY <1>1, <2>1, LongerSame
  <2>2. CASE w.server.active \in Clients
             /\ r.events = Append(u.events, Event("sending", w.server.active, 0, u.server.cache))
    <3>1. Event("sending", w.server.active, 0, u.server.cache) \in Sendings(w.server.active)
      BY <1>1, <2>2 DEF Event, EventType, Sendings
    <3>2. QED
      BY <1>1, <2>2, <3>1, LongerAppend DEF Sendings
  <2>3. QED
    BY <1>3, <2>1, <2>2
<1>5. w.server.active = Primary => r.events = w.events
  BY <1>3, Bounds
<1>6. QED
  BY <1>2, <1>4, <1>5 DEF SameCourse, ScreensKept

LEMMA OnClipboardChangedDoes ==
    ASSUME NEW w \in State, NEW s \in Screens, NEW seq, NEW r, r = onClipboardChanged(w, s, seq)
    PROVE  ChangedEffect(r, w)
<1> USE DEF ChangedEffect
<1> USE Bounds
<1> DEFINE d == getClipboard(w, s)
           cached == [w EXCEPT !.server.cache = d]
           updated == [cached EXCEPT !.server.data = d, !.server.dirty = [t \in Screens |-> t # s]]
<1>1. /\ w.server \in ServerType /\ w.events \in Seq(EventType)
      /\ w.screen \in [Screens -> ScreenType] /\ w.down \in [Clients -> Seq(Message)]
  BY DEF State
<1>2. d \in Contents
  <2>1. CASE s = Primary
    BY <1>1, <2>1 DEF getClipboard, ScreenType
  <2>2. CASE s # Primary
    BY <1>1, <2>2 DEF getClipboard, ServerType, Screens
  <2>3. QED
    BY <2>1, <2>2
<1> HIDE DEF d
<1>3. /\ cached \in State /\ cached.events = w.events /\ cached.down = w.down
      /\ cached.screen = w.screen /\ cached.server = [w.server EXCEPT !.cache = d]
  <2>1. [w.server EXCEPT !.cache = d] \in ServerType
    BY <1>1, <1>2 DEF ServerType
  <2>2. QED
    BY <1>1, <2>1 DEF State
<1>4. SameCourse(cached.server, w.server) /\ cached.server.cache = d
  BY <1>1, <1>3 DEF ServerType, SameCourse
<1>5. r = w \/ r = cached \/ (d \notin Oversized /\ r = setClipboard(updated, w.server.active))
  BY DEF onClipboardChanged, d
<1>6. CASE r = w
  <2>1. Longer(w.events, r.events, Sendings(w.server.active))
    BY <1>1, <1>6, LongerSame
  <2>2. QED
    BY <1>6, <2>1 DEF SameCourse, ScreensKept
<1>7. CASE r = cached
  <2> HIDE DEF cached
  <2>1. Longer(w.events, r.events, Sendings(w.server.active))
    BY <1>1, <1>3, <1>7, LongerSame
  <2>2. QED
    BY <1>3, <1>4, <1>7, <2>1 DEF ScreensKept
<1>8. CASE d \notin Oversized /\ r = setClipboard(updated, w.server.active)
  <2> DEFINE over == [cached.server EXCEPT !.data = d, !.dirty = [t \in Screens |-> t # s]]
  <2>1. /\ over \in ServerType /\ SameCourse(over, cached.server) /\ over.cache = d
    <3> HIDE DEF cached
    <3>1. cached.server \in ServerType
      BY <1>3 DEF State
    <3>2. [t \in Screens |-> t # s] \in [Screens -> BOOLEAN]
      OBVIOUS
    <3>3. QED
      BY <1>2, <1>4, <3>1, <3>2 DEF ServerType, SameCourse
  <2>2. updated = [cached EXCEPT !.server = over]
    <3>1. cached \in State
      BY <1>3
    <3> HIDE DEF cached
    <3>2. updated = [[cached EXCEPT !.server = [cached.server EXCEPT !.data = d]]
                        EXCEPT !.server = [@ EXCEPT !.dirty = [t \in Screens |-> t # s]]]
      OBVIOUS
    <3>3. QED
      BY <3>1, <3>2 DEF State, ServerType
  <2> HIDE DEF cached, updated, over
  <2>3. /\ updated \in State /\ updated.server = over /\ updated.events = w.events
        /\ updated.down = w.down /\ updated.screen = w.screen
    BY <1>3, <2>1, <2>2 DEF State
  <2>4. SameCourse(updated.server, w.server) /\ updated.server.cache \notin Oversized
    BY <1>4, <1>8, <2>1, <2>3 DEF SameCourse
  <2>5. updated \in State /\ r = setClipboard(updated, w.server.active)
    BY <1>8, <2>3
  <2>6. QED
    BY <2>3, <2>4, <2>5, SetActiveDoes
<1>9. QED
  BY <1>5, <1>6, <1>7, <1>8

GrabTold == Msg("grab", 0, Nothing)
LeaveTold == Msg("leave", 0, Nothing)

GrabOthersEffect(r, w) ==
    /\ r \in State
    /\ r.server = w.server /\ r.events = w.events
    /\ \A c \in Clients : r.down[c] \in {w.down[c], Append(w.down[c], GrabTold)}
    /\ ScreensKept(r, w)

LEMMA GrabOthersDoes ==
    ASSUME NEW w \in State, NEW g \in Screens, NEW r, r = grabOthers(w, g)
    PROVE  GrabOthersEffect(r, w)
<1> USE DEF GrabOthersEffect
<1> USE Bounds
<1> DEFINE told == [c \in Clients |-> IF c \in connected \ {g} THEN Append(w.down[c], GrabTold)
                                     ELSE w.down[c]]
           shown == [w.screen EXCEPT ![Primary] = IF g = Primary THEN w.screen[Primary]
                                                  ELSE Written(w.screen[Primary], Nothing)]
<1>1. w.down \in [Clients -> Seq(Message)] /\ w.screen \in [Screens -> ScreenType]
  BY DEF State
<1>2. GrabTold \in Message
  BY DEF GrabTold, Msg, Message
<1>3. told \in [Clients -> Seq(Message)]
  <2>1. \A c \in Clients : Append(w.down[c], GrabTold) \in Seq(Message)
    BY <1>1, <1>2, AppendProperties
  <2>2. QED
    BY <1>1, <2>1
<1>4. shown \in [Screens -> ScreenType]
  BY <1>1, WrittenType
<1>5. r = [[w EXCEPT !.down = told] EXCEPT !.screen = shown]
  BY <1>1 DEF grabOthers, GrabTold, State
<1>6. \A c \in Clients : told[c] \in {w.down[c], Append(w.down[c], GrabTold)}
  OBVIOUS
<1>7. /\ \A c \in Clients : shown[c] = w.screen[c]
      /\ LostTo(shown[Primary]) => LostTo(w.screen[Primary])
  <2>1. shown[Primary] \in {w.screen[Primary], Written(w.screen[Primary], Nothing)}
    BY <1>1
  <2>2. w.screen[Primary] \in ScreenType
    BY <1>1
  <2>3. QED
    BY <1>1, <2>1, <2>2, WrittenType
<1> HIDE DEF told, shown
<1>8. /\ r \in State /\ r.server = w.server /\ r.events = w.events
      /\ r.down = told /\ r.screen = shown
  BY <1>3, <1>4, <1>5 DEF State
<1>9. QED
  BY <1>6, <1>7, <1>8 DEF ScreensKept

GrabbedEffect(r, w, g, seq) ==
    \/ r = w /\ g # Primary /\ seq < w.server.clipSeq
    \/ /\ g # Primary => ~(seq < w.server.clipSeq)
       /\ r \in State
       /\ r.server.active = w.server.active /\ r.server.seqNum = w.server.seqNum
       /\ r.server.primarySeq = w.server.primarySeq
       /\ r.server.owner = g /\ r.server.clipSeq = seq
       /\ Longer(w.events, r.events, Sendings(w.server.active))
       /\ \A c \in Clients : r.down[c] \in {w.down[c], Append(w.down[c], GrabTold)}
       /\ ScreensKept(r, w)

LEMMA OnClipboardGrabbedDoes ==
    ASSUME NEW w \in State, NEW g \in Screens, NEW seq \in SeqNums, NEW r,
           r = onClipboardGrabbed(w, g, seq)
    PROVE  GrabbedEffect(r, w, g, seq)
<1> USE DEF GrabbedEffect
<1> USE Bounds
<1> DEFINE over == [w.server EXCEPT !.owner = g, !.clipSeq = seq, !.cache = Nothing,
                                    !.data = Nothing, !.dirty = [s \in Screens |-> s # g]]
           taken == [w EXCEPT !.server = over]
           told == grabOthers(taken, g)
<1>1. w.server \in ServerType /\ w.events \in Seq(EventType)
  BY DEF State
<1>2. /\ over \in ServerType /\ over.active = w.server.active /\ over.seqNum = w.server.seqNum
      /\ over.primarySeq = w.server.primarySeq /\ over.owner = g /\ over.clipSeq = seq
  <2>1. [s \in Screens |-> s # g] \in [Screens -> BOOLEAN]
    OBVIOUS
  <2>2. QED
    BY <1>1, <2>1 DEF ServerType
<1> HIDE DEF over
<1>3. /\ taken \in State /\ taken.server = over /\ taken.events = w.events
      /\ taken.down = w.down /\ taken.screen = w.screen
  BY <1>2 DEF State
<1>4. \/ r = w /\ g # Primary /\ seq < w.server.clipSeq
      \/ /\ g # Primary => ~(seq < w.server.clipSeq)
         /\ r = told \/ r = onClipboardChanged(told, Primary, seq)
  BY <1>1 DEF onClipboardGrabbed, over, State, ServerType
<1>9. told = grabOthers(taken, g) /\ taken \in State
  BY <1>3
<1> HIDE DEF taken, told
<1>5. /\ told \in State /\ told.server = taken.server /\ told.events = taken.events
      /\ \A c \in Clients : told.down[c] \in {taken.down[c], Append(taken.down[c], GrabTold)}
      /\ ScreensKept(told, taken)
  <2>1. GrabOthersEffect(told, taken)
    BY <1>9, GrabOthersDoes
  <2>2. QED
    BY <2>1 DEF GrabOthersEffect
<1>6. CASE r = told
  <2>1. Longer(w.events, r.events, Sendings(w.server.active))
    BY <1>1, <1>3, <1>5, <1>6, LongerSame
  <2>2. QED
    BY <1>2, <1>3, <1>4, <1>5, <1>6, <2>1 DEF ScreensKept
<1>7. CASE r = onClipboardChanged(told, Primary, seq)
  <2>1. /\ r \in State /\ r.down = told.down /\ SameCourse(r.server, told.server)
        /\ Longer(told.events, r.events, Sendings(told.server.active))
        /\ ScreensKept(r, told)
    <3>1. ChangedEffect(r, told)
      BY <1>5, <1>7, OnClipboardChangedDoes
    <3>2. QED
      BY <3>1 DEF ChangedEffect
  <2>2. QED
    BY <1>2, <1>3, <1>4, <1>5, <2>1 DEF SameCourse, ScreensKept
<1>8. QED
  BY <1>4, <1>6, <1>7

CheckEffect(r, w) ==
    /\ r \in State
    /\ r.server = w.server /\ r.down = w.down
    /\ Longer(w.events, r.events, PrimaryGrabs(w))
    /\ ScreensKept(r, w)

LEMMA CheckClipboardsDoes ==
    ASSUME NEW w \in State, NEW r, r = checkClipboards(w)
    PROVE  CheckEffect(r, w)
<1> USE DEF CheckEffect
<1> USE Bounds
<1> DEFINE e == Event("grabbed", Primary, w.server.primarySeq, Nothing)
           lost == [w.screen EXCEPT ![Primary] = [w.screen[Primary] EXCEPT !.own = FALSE]]
           left == [w EXCEPT !.screen = lost]
<1>1. /\ w.server \in ServerType /\ w.events \in Seq(EventType)
      /\ w.screen \in [Screens -> ScreenType]
  BY DEF State
<1>2. e \in EventType
  BY <1>1 DEF Event, EventType, ServerType
<1>3. /\ lost \in [Screens -> ScreenType] /\ \A c \in Clients : lost[c] = w.screen[c]
      /\ ~LostTo(lost[Primary])
  BY <1>1 DEF ScreenType, LostTo
<1>4. r = w \/ (LostTo(w.screen[Primary]) /\ r = Add(left, e))
  BY DEF checkClipboards
<1> HIDE DEF lost, e
<1>5. /\ left \in State /\ left.server = w.server /\ left.events = w.events
      /\ left.down = w.down /\ left.screen = lost
  BY <1>3 DEF State
<1> HIDE DEF left
<1>6. CASE r = w
  BY <1>1, <1>6, LongerSame DEF ScreensKept
<1>7. CASE LostTo(w.screen[Primary]) /\ r = Add(left, e)
  <2>1. /\ r \in State /\ r.events = Append(left.events, e) /\ r.server = left.server
        /\ r.down = left.down /\ r.screen = left.screen
    BY <1>2, <1>5, <1>7, AddType
  <2>2. Longer(w.events, r.events, PrimaryGrabs(w))
    <3>1. e \in PrimaryGrabs(w)
      BY <1>7 DEF e, PrimaryGrabs
    <3>2. QED
      BY <1>1, <1>2, <1>5, <2>1, <3>1, LongerAppend
  <2>3. QED
    BY <1>3, <1>5, <2>1, <2>2 DEF ScreensKept
<1>8. QED
  BY <1>4, <1>6, <1>7

LeaveEffect(r, w) ==
    /\ r \in State
    /\ SameCourse(r.server, w.server)
    /\ w.server.active # Primary =>
          r.down = [w.down EXCEPT ![w.server.active] = Append(@, LeaveTold)]
    /\ w.server.active = Primary => r.down = w.down
    /\ Longer(w.events, r.events, PrimaryGrabs(w))
    /\ ScreensKept(r, w)

LEMMA LeaveDoes ==
    ASSUME NEW w \in State, NEW r, r = leave(w)
    PROVE  LeaveEffect(r, w)
<1> USE DEF LeaveEffect
<1> USE Bounds
<1> DEFINE a == w.server.active
           left == checkClipboards(w)
<1>1. w.server \in ServerType /\ w.events \in Seq(EventType) /\ a \in Screens
  BY DEF State, ServerType
<1>2. CASE a # Primary
  <2>1. r = Write(w, a, LeaveTold) /\ a \in Clients /\ LeaveTold \in Message
    BY <1>1, <1>2 DEF leave, LeaveTold, Msg, Message, Screens
  <2>2. /\ r \in State /\ r.down = [w.down EXCEPT ![a] = Append(@, LeaveTold)]
        /\ r.server = w.server /\ r.events = w.events /\ r.screen = w.screen
    BY ONLY w \in State, <2>1, WriteType
  <2>3. Longer(w.events, r.events, PrimaryGrabs(w))
    BY <1>1, <2>2, LongerSame
  <2>4. QED
    BY <1>2, <2>2, <2>3 DEF SameCourse, ScreensKept
<1>3. CASE a = Primary
  <2>1. r = left \/ r = onClipboardChanged(left, Primary, w.server.clipSeq)
    BY <1>3 DEF leave
  <2>8. CheckEffect(left, w)
    BY CheckClipboardsDoes
  <2>2. left \in State /\ left.server = w.server /\ left.down = w.down
    BY <2>8 DEF CheckEffect
  <2>3. ScreensKept(left, w)
    BY <2>8 DEF CheckEffect
  <2>4. Longer(w.events, left.events, PrimaryGrabs(w))
    <3>1. Longer(w.events, left.events, PrimaryGrabs(w))
      BY <2>8 DEF CheckEffect
    <3>2. QED
      BY <3>1 DEF Longer, Added
  <2> HIDE DEF left
  <2>5. CASE r = left
    BY <1>3, <2>2, <2>3, <2>4, <2>5 DEF SameCourse
  <2>6. CASE r = onClipboardChanged(left, Primary, w.server.clipSeq)
    <3>1. ChangedEffect(r, left)
      BY <2>2, <2>6, OnClipboardChangedDoes
    <3>2. QED
      BY <1>3, <2>2, <2>3, <2>4, <3>1 DEF ChangedEffect, ScreensKept
  <2>7. QED
    BY <2>1, <2>5, <2>6
<1>4. QED
  BY <1>2, <1>3

EnterTold(seq) == Msg("enter", seq, Nothing)

EnterEffect(r, w, dst) ==
    /\ r \in State
    /\ r.server.active = dst /\ r.server.seqNum = w.server.seqNum + 1
    /\ r.server.primarySeq \in {w.server.primarySeq, w.server.seqNum + 1}
    /\ r.server.owner = w.server.owner /\ r.server.clipSeq = w.server.clipSeq
    /\ dst # Primary =>
          r.down = [w.down EXCEPT ![dst] = Append(@, EnterTold(w.server.seqNum + 1))]
    /\ dst = Primary => r.down = w.down
    /\ r.events = w.events /\ r.screen = w.screen

LEMMA EnterDoes ==
    ASSUME NEW w \in State, NEW dst \in Screens, NEW r, r = enter(w, dst),
           w.server.seqNum + 1 \in SeqNums
    PROVE  EnterEffect(r, w, dst)
<1> USE DEF EnterEffect
<1> USE Bounds
<1> DEFINE seq == w.server.seqNum + 1
           moved == [w.server EXCEPT !.active = dst, !.seqNum = seq]
           over == [w EXCEPT !.server = moved]
           home == [moved EXCEPT !.primarySeq = seq]
<1>1. w.server \in ServerType
  BY DEF State
<1>2. /\ moved \in ServerType /\ moved.active = dst /\ moved.seqNum = seq
      /\ moved.primarySeq = w.server.primarySeq
      /\ moved.owner = w.server.owner /\ moved.clipSeq = w.server.clipSeq
  BY <1>1 DEF ServerType
<1>3. \/ dst = Primary /\ r = [over EXCEPT !.server = home]
      \/ dst # Primary /\ r = Write(over, dst, EnterTold(seq))
  BY <1>1 DEF enter, EnterTold, State, ServerType
<1>4. EnterTold(seq) \in Message
  BY DEF EnterTold, Msg, Message
<1> HIDE DEF moved, seq
<1>5. /\ over \in State /\ over.server = moved /\ over.events = w.events
      /\ over.down = w.down /\ over.screen = w.screen
  BY <1>2 DEF State
<1>6. CASE dst = Primary
  <2>1. /\ home \in ServerType /\ home.active = dst /\ home.seqNum = moved.seqNum
        /\ home.primarySeq = seq /\ home.owner = moved.owner /\ home.clipSeq = moved.clipSeq
    BY <1>2 DEF ServerType, seq
  <2> HIDE DEF over, home
  <2>2. /\ r \in State /\ r.server = home /\ r.events = over.events
        /\ r.down = over.down /\ r.screen = over.screen
    BY <1>3, <1>5, <1>6, <2>1 DEF State
  <2>3. QED
    BY <1>2, <1>5, <1>6, <2>1, <2>2 DEF seq
<1>7. CASE dst # Primary
  <2>1. dst \in Clients /\ r = Write(over, dst, EnterTold(seq))
    BY <1>3, <1>7 DEF Screens
  <2> HIDE DEF over
  <2>2. /\ r \in State /\ r.down = [over.down EXCEPT ![dst] = Append(@, EnterTold(seq))]
        /\ r.server = over.server /\ r.events = over.events /\ r.screen = over.screen
    BY ONLY <1>4, <1>5, <2>1, WriteType
  <2>3. QED
    BY <1>2, <1>5, <1>7, <2>2 DEF seq
<1>8. QED
  BY <1>6, <1>7

SwitchEffect(r, w, dst) ==
    /\ r \in State
    /\ r.server.active = dst /\ r.server.seqNum = w.server.seqNum + 1
    /\ r.server.primarySeq \in {w.server.primarySeq, w.server.seqNum + 1}
    /\ r.server.owner = w.server.owner /\ r.server.clipSeq = w.server.clipSeq
    /\ \A c \in Clients :
          r.down[c] = IF c = w.server.active THEN Append(w.down[c], LeaveTold)
                      ELSE IF c = dst THEN Append(w.down[c], EnterTold(w.server.seqNum + 1))
                      ELSE w.down[c]
    /\ Longer(w.events, r.events, Added(w, dst))
    /\ ScreensKept(r, w)

\* The cursor leaves one screen and enters another.
LEMMA SwitchScreenDoes ==
    ASSUME NEW w \in State, NEW dst \in Screens, dst # w.server.active,
           NEW r, r = switchScreen(w, dst), w.server.seqNum + 1 \in SeqNums
    PROVE  SwitchEffect(r, w, dst)
<1> USE DEF SwitchEffect
<1> USE Bounds
<1> DEFINE left == leave(w)
           there == enter(left, dst)
<1>1. /\ w.server \in ServerType /\ w.server.active \in Screens /\ w.events \in Seq(EventType)
      /\ w.down \in [Clients -> Seq(Message)]
  BY DEF State, ServerType
<1>12. LeaveEffect(left, w)
  BY LeaveDoes
<1>2. /\ left \in State /\ SameCourse(left.server, w.server)
      /\ w.server.active # Primary =>
            left.down = [w.down EXCEPT ![w.server.active] = Append(@, LeaveTold)]
      /\ w.server.active = Primary => left.down = w.down
      /\ Longer(w.events, left.events, PrimaryGrabs(w))
  BY <1>12 DEF LeaveEffect
<1>3. ScreensKept(left, w)
  BY <1>12 DEF LeaveEffect
<1>4. r = there \/ (there.server.cache \notin Oversized /\ r = setClipboard(there, dst))
  BY DEF switchScreen
<1> HIDE DEF left
<1>5. left.server.seqNum + 1 \in SeqNums
  BY <1>2 DEF SameCourse
<1>13. EnterEffect(there, left, dst)
  BY <1>2, <1>5, EnterDoes
<1> HIDE DEF there
<1>6. /\ there \in State
      /\ there.server.active = dst /\ there.server.seqNum = left.server.seqNum + 1
      /\ there.server.primarySeq \in {left.server.primarySeq, left.server.seqNum + 1}
      /\ there.server.owner = left.server.owner /\ there.server.clipSeq = left.server.clipSeq
  BY <1>13 DEF EnterEffect
<1>7. /\ dst # Primary =>
            there.down = [left.down EXCEPT ![dst] = Append(@, EnterTold(left.server.seqNum + 1))]
      /\ dst = Primary => there.down = left.down
      /\ there.events = left.events /\ there.screen = left.screen
  BY <1>13 DEF EnterEffect
<1>8. ASSUME NEW c \in Clients
      PROVE  there.down[c] = IF c = w.server.active THEN Append(w.down[c], LeaveTold)
                             ELSE IF c = dst THEN Append(w.down[c], EnterTold(w.server.seqNum + 1))
                             ELSE w.down[c]
  <2>1. left.server.seqNum = w.server.seqNum
    BY <1>2 DEF SameCourse
  <2>2. left.down[c] = IF c = w.server.active THEN Append(w.down[c], LeaveTold) ELSE w.down[c]
    BY <1>1, <1>2
  <2>3. left.down \in [Clients -> Seq(Message)]
    BY <1>2 DEF State
  <2>4. there.down[c] = IF c = dst THEN Append(left.down[c], EnterTold(w.server.seqNum + 1))
                        ELSE left.down[c]
    BY <1>7, <2>1, <2>3
  <2>5. QED
    BY <2>2, <2>4
<1>14. Longer(w.events, left.events, Added(w, dst))
  BY <1>2 DEF Longer, Added
<1>9. CASE r = there
  BY <1>2, <1>3, <1>6, <1>7, <1>8, <1>9, <1>14 DEF SameCourse, ScreensKept
<1>10. CASE there.server.cache \notin Oversized /\ r = setClipboard(there, dst)
  <2>1. ChangedEffect(r, there)
    BY <1>6, <1>10, SetActiveDoes DEF SameCourse
  <2>2. /\ r \in State /\ r.down = there.down /\ SameCourse(r.server, there.server)
        /\ Longer(there.events, r.events, Sendings(dst))
    BY <1>6, <2>1 DEF ChangedEffect
  <2>5. ScreensKept(r, there)
    BY <2>1 DEF ChangedEffect
  <2>3. Longer(w.events, r.events, Added(w, dst))
    <3>1. Longer(there.events, r.events, Added(w, dst))
      BY <2>2 DEF Longer, Added
    <3>2. there.events \in Seq(EventType) /\ r.events \in Seq(EventType)
      BY <1>6, <2>2 DEF State
    <3>3. QED
      BY <1>1, <1>2, <1>7, <1>14, <3>1, <3>2, LongerStill
  <2>4. QED
    BY <1>2, <1>3, <1>6, <1>7, <1>8, <2>2, <2>3, <2>5 DEF SameCourse, ScreensKept
<1>11. QED
  BY <1>4, <1>9, <1>10

------------------------------------------------------------------------------
(* Who has to be given the clipboard, and who is told of a grab. *)

\* What is dirty stays so on the clients outside X.
DirtyKept(r, w, X) == \A c \in Clients \ X : w.server.dirty[c] => r.server.dirty[c]

SetClipboardGift(r, w, s) ==
    /\ DirtyKept(r, w, {s})
    /\ s \in Clients /\ w.server.dirty[s] =>
          r.events = Append(w.events, Event("sending", s, 0, w.server.cache))

LEMMA SetClipboardGives ==
    ASSUME NEW w \in State, NEW s \in Screens, NEW r, r = setClipboard(w, s)
    PROVE  SetClipboardGift(r, w, s)
<1> USE Bounds
<1> DEFINE clean == [w EXCEPT !.server.dirty[s] = FALSE]
           d == w.server.cache
<1>1. w.server \in ServerType
  BY DEF State
<1>2. /\ clean.events = w.events /\ clean \in State
      /\ clean.server.dirty = [w.server.dirty EXCEPT ![s] = FALSE]
  <2>1. [w.server EXCEPT !.dirty[s] = FALSE] \in ServerType
    BY <1>1 DEF ServerType
  <2>2. clean = [w EXCEPT !.server = [w.server EXCEPT !.dirty[s] = FALSE]]
    BY <1>1 DEF State, ServerType
  <2>3. clean.server = [w.server EXCEPT !.dirty[s] = FALSE]
    BY <2>2 DEF State
  <2>4. QED
    BY <1>1, <2>1, <2>2, <2>3 DEF ServerType, State
<1>3. \A c \in Clients \ {s} : clean.server.dirty[c] = w.server.dirty[c]
  BY <1>1, <1>2 DEF ServerType
<1>4. CASE ~w.server.dirty[s]
  <2>1. r = w
    BY <1>4 DEF setClipboard
  <2>2. QED
    BY <1>4, <2>1 DEF SetClipboardGift, DirtyKept
<1>5. CASE w.server.dirty[s] /\ s = Primary
  <2>1. r = [clean EXCEPT !.screen[s] = Written(@, d)]
    BY <1>5 DEF setClipboard
  <2> HIDE DEF clean
  <2>2. r.server = clean.server
    BY <1>2, <2>1 DEF State
  <2>3. QED
    BY <1>3, <1>5, <2>2 DEF SetClipboardGift, DirtyKept
<1>6. CASE w.server.dirty[s] /\ s \in Clients
  <2> DEFINE full == [clean EXCEPT !.server.buffer[s] = d]
             e == Event("sending", s, 0, d)
  <2>1. r = Add(full, e)
    BY <1>6 DEF setClipboard
  <2> HIDE DEF clean, e
  <2>2. full.server.dirty = clean.server.dirty /\ full.events = clean.events
    BY <1>2 DEF ServerType, State
  <2>3. r.server = full.server /\ r.events = Append(full.events, e)
    BY <1>2, <2>1 DEF Add, State
  <2> HIDE DEF full
  <2>4. QED
    BY <1>2, <1>3, <2>2, <2>3 DEF SetClipboardGift, DirtyKept, e
<1>7. QED
  BY <1>4, <1>5, <1>6 DEF Screens

ChangedGift(r, w, s, seq) ==
    /\ seq < w.server.clipSeq => r = w
    /\ DirtyKept(r, w, {s, w.server.active})

LEMMA ChangedGives ==
    ASSUME NEW w \in State, NEW s \in Screens, NEW seq, NEW r, r = onClipboardChanged(w, s, seq)
    PROVE  ChangedGift(r, w, s, seq)
<1> USE Bounds
<1> DEFINE d == getClipboard(w, s)
           cached == [w EXCEPT !.server.cache = d]
           updated == [cached EXCEPT !.server.data = d, !.server.dirty = [t \in Screens |-> t # s]]
<1>1. /\ w.server \in ServerType /\ w.server.active \in Screens
      /\ w.events \in Seq(EventType)
      /\ w.screen \in [Screens -> ScreenType] /\ w.down \in [Clients -> Seq(Message)]
  BY DEF State, ServerType
<1>2. d \in Contents
  <2>1. CASE s = Primary
    BY <1>1, <2>1 DEF getClipboard, ScreenType
  <2>2. CASE s # Primary
    BY <1>1, <2>2 DEF getClipboard, ServerType, Screens
  <2>3. QED
    BY <2>1, <2>2
<1> HIDE DEF d
<1>3. \/ r = w
      \/ ~(seq < w.server.clipSeq) /\ (r = cached \/ r = setClipboard(updated, w.server.active))
  BY DEF onClipboardChanged, d
<1>4. CASE r = w
  BY <1>4 DEF ChangedGift, DirtyKept
<1>5. CASE ~(seq < w.server.clipSeq) /\ r = cached
  <2>1. r.server.dirty = w.server.dirty
    BY <1>1, <1>5 DEF State, ServerType
  <2>2. QED
    BY <1>5, <2>1 DEF ChangedGift, DirtyKept
<1>6. CASE ~(seq < w.server.clipSeq) /\ r = setClipboard(updated, w.server.active)
  <2>1. updated \in State /\ \A c \in Clients \ {s} : updated.server.dirty[c]
    <3> DEFINE dirt == [t \in Screens |-> t # s]
               over == [w.server EXCEPT !.cache = d, !.data = d, !.dirty = dirt]
    <3>1. dirt \in [Screens -> BOOLEAN] /\ \A c \in Clients \ {s} : dirt[c]
      OBVIOUS
    <3> HIDE DEF dirt
    <3>2. over \in ServerType /\ over.dirty = dirt
      BY <1>1, <1>2, <3>1 DEF ServerType
    <3>3. updated = [w EXCEPT !.server = over]
      <4>1. cached = [w EXCEPT !.server = [w.server EXCEPT !.cache = d]]
        BY <1>1 DEF State, ServerType
      <4> HIDE DEF cached
      <4>2. cached.server = [w.server EXCEPT !.cache = d]
        BY <4>1 DEF State
      <4>3. updated = [[cached EXCEPT !.server = [cached.server EXCEPT !.data = d]]
                        EXCEPT !.server = [@ EXCEPT !.dirty = dirt]]
        BY DEF dirt
      <4>4. updated = [cached EXCEPT !.server = [[cached.server EXCEPT !.data = d] EXCEPT !.dirty = dirt]]
        BY <1>1, <4>1, <4>2, <4>3 DEF State, ServerType
      <4>5. [[cached.server EXCEPT !.data = d] EXCEPT !.dirty = dirt] = over
        BY <1>1, <4>2 DEF ServerType
      <4>6. QED
        BY <4>1, <4>4, <4>5 DEF State
    <3> HIDE DEF over, updated
    <3>4. QED
      BY <3>1, <3>2, <3>3 DEF State
  <2> HIDE DEF updated
  <2>2. SetClipboardGift(r, updated, w.server.active)
    BY <1>1, <1>6, <2>1, SetClipboardGives
  <2>3. QED
    BY <1>6, <2>1, <2>2 DEF SetClipboardGift, ChangedGift, DirtyKept
<1>7. QED
  BY <1>3, <1>4, <1>5, <1>6

\* The others that are connected are told of a grab, and have to be given the clipboard.
GrabbedGift(r, w, g) ==
    /\ \A c \in Clients \ {g} :
          /\ c # w.server.active => r.server.dirty[c]
          /\ r.down[c] = IF c \in connected THEN Append(w.down[c], GrabTold) ELSE w.down[c]
    /\ g \in Clients => r.down[g] = w.down[g]

LEMMA GrabbedGives ==
    ASSUME NEW w \in State, NEW g \in Screens, NEW seq \in SeqNums, NEW r,
           r = onClipboardGrabbed(w, g, seq), g # Primary => ~(seq < w.server.clipSeq)
    PROVE  GrabbedGift(r, w, g)
<1> USE Bounds
<1> DEFINE dirt == [s \in Screens |-> s # g]
           over == [w.server EXCEPT !.owner = g, !.clipSeq = seq, !.cache = Nothing,
                                    !.data = Nothing, !.dirty = dirt]
           taken == [w EXCEPT !.server = over]
           told == grabOthers(taken, g)
<1>1. w.server \in ServerType
  BY DEF State
<1>2. dirt \in [Screens -> BOOLEAN] /\ \A c \in Clients \ {g} : dirt[c]
  OBVIOUS
<1>3. told = r \/ (g = Primary /\ r = onClipboardChanged(told, Primary, seq))
  BY <1>1 DEF onClipboardGrabbed, State, ServerType
<1> HIDE DEF dirt
<1>4. over \in ServerType /\ over.dirty = dirt /\ over.active = w.server.active
  BY <1>1, <1>2 DEF ServerType
<1> HIDE DEF over
<1>5. taken \in State /\ taken.server = over /\ taken.down = w.down
  BY <1>4 DEF State
<1>6. told.down = [c \in Clients |-> IF c \in connected \ {g} THEN Append(w.down[c], GrabTold)
                                     ELSE w.down[c]]
  BY <1>5 DEF grabOthers, GrabTold, State
<1>7. told \in State /\ told.server = over
  <2>1. GrabOthersEffect(told, taken)
    BY <1>5, GrabOthersDoes
  <2>2. QED
    BY <1>5, <2>1 DEF GrabOthersEffect
<1> HIDE DEF told, taken
<1>8. CASE told = r
  BY <1>2, <1>4, <1>6, <1>7, <1>8 DEF GrabbedGift
<1>9. CASE g = Primary /\ r = onClipboardChanged(told, Primary, seq)
  <2>1. ChangedEffect(r, told) /\ ChangedGift(r, told, Primary, seq)
    BY <1>7, <1>9, OnClipboardChangedDoes, ChangedGives
  <2>2. r.down = told.down /\ \A c \in Clients : c # w.server.active => r.server.dirty[c]
    BY <1>2, <1>4, <1>7, <1>9, <2>1 DEF ChangedEffect, ChangedGift, DirtyKept
  <2>3. QED
    BY <1>6, <1>9, <2>2 DEF GrabbedGift
<1>10. QED
  BY <1>3, <1>8, <1>9

LEMMA LeaveGives ==
    ASSUME NEW w \in State, NEW r, r = leave(w)
    PROVE  DirtyKept(r, w, {})
<1> USE Bounds
<1> DEFINE left == checkClipboards(w)
<1>1. CheckEffect(left, w) /\ w.server.active \in Screens
  BY CheckClipboardsDoes DEF State, ServerType
<1>2. left \in State /\ left.server = w.server
  BY <1>1 DEF CheckEffect
<1>3. \/ w.server.active # Primary /\ r = Write(w, w.server.active, LeaveTold)
      \/ w.server.active = Primary /\ r \in {left, onClipboardChanged(left, Primary, w.server.clipSeq)}
  BY DEF leave, LeaveTold
<1> HIDE DEF left
<1>4. CASE w.server.active # Primary /\ r = Write(w, w.server.active, LeaveTold)
  <2>1. r.server = w.server
    BY <1>4 DEF Write, State
  <2>2. QED
    BY <2>1 DEF DirtyKept
<1>5. CASE r = left
  BY <1>2, <1>5 DEF DirtyKept
<1>6. CASE w.server.active = Primary /\ r = onClipboardChanged(left, Primary, w.server.clipSeq)
  <2>1. ChangedGift(r, left, Primary, w.server.clipSeq)
    BY <1>2, <1>6, ChangedGives
  <2>2. QED
    BY <1>2, <1>6, <2>1 DEF ChangedGift, DirtyKept
<1>7. QED
  BY <1>3, <1>4, <1>5, <1>6

\* The screen that is entered is given what it lacks.
SwitchGift(r, w, dst) ==
    /\ DirtyKept(r, w, {dst})
    /\ AllFit /\ dst \in Clients /\ w.server.dirty[dst] =>
          /\ Len(r.events) > 0
          /\ r.events[Len(r.events)].kind = "sending" /\ r.events[Len(r.events)].who = dst

LEMMA SwitchGives ==
    ASSUME NEW w \in State, NEW dst \in Screens, dst # w.server.active,
           NEW r, r = switchScreen(w, dst), w.server.seqNum + 1 \in SeqNums
    PROVE  SwitchGift(r, w, dst)
<1> USE Bounds
<1> DEFINE left == leave(w)
           there == enter(left, dst)
<1>1. LeaveEffect(left, w) /\ DirtyKept(left, w, {})
  BY LeaveDoes, LeaveGives
<1>2. left \in State /\ left.server.seqNum = w.server.seqNum
  BY <1>1 DEF LeaveEffect, SameCourse
<1>3. \/ r = there /\ ~AllFit
      \/ r = setClipboard(there, dst)
  BY DEF switchScreen, AllFit, Oversized
<1> HIDE DEF left
<1>4. EnterEffect(there, left, dst)
  BY <1>2, EnterDoes
<1>5. there \in State /\ there.server.dirty = left.server.dirty
  <2>1. there \in State
    BY <1>4 DEF EnterEffect
  <2>2. QED
    <3>1. left.server \in ServerType
      BY <1>2 DEF State
    <3> DEFINE over == [left.server EXCEPT !.active = dst, !.seqNum = left.server.seqNum + 1]
               home == [over EXCEPT !.primarySeq = left.server.seqNum + 1]
    <3>2. there.server \in {over, home}
      BY <1>2, <3>1 DEF enter, Write, State, ServerType
    <3>3. over.dirty = left.server.dirty /\ home.dirty = left.server.dirty
      BY <3>1 DEF ServerType
    <3> HIDE DEF over, home
    <3>4. there \in State /\ there.server.dirty = left.server.dirty
      BY <2>1, <3>2, <3>3
    <3>5. QED
      BY <3>4
<1> HIDE DEF there
<1>6. CASE r = there /\ ~AllFit
  BY <1>1, <1>5, <1>6 DEF SwitchGift, DirtyKept
<1>7. CASE r = setClipboard(there, dst)
  <2>1. SetClipboardGift(r, there, dst)
    BY <1>5, <1>7, SetClipboardGives
  <2>2. DirtyKept(r, w, {dst})
    BY <1>1, <1>5, <2>1 DEF SetClipboardGift, DirtyKept
  <2>3. ASSUME dst \in Clients, w.server.dirty[dst]
        PROVE  /\ Len(r.events) > 0
               /\ r.events[Len(r.events)].kind = "sending" /\ r.events[Len(r.events)].who = dst
    <3> DEFINE e == Event("sending", dst, 0, there.server.cache)
    <3>1. r.events = Append(there.events, e)
      BY <1>1, <1>5, <2>1, <2>3 DEF SetClipboardGift, DirtyKept
    <3>2. e \in EventType /\ there.events \in Seq(EventType)
      BY <1>5, <2>3 DEF State, ServerType, Event, EventType
    <3>3. e.kind = "sending" /\ e.who = dst
      BY DEF Event
    <3> HIDE DEF e
    <3>4. /\ Len(r.events) = Len(there.events) + 1 /\ Len(there.events) \in Nat
          /\ r.events[Len(there.events) + 1] = e
      BY <3>1, <3>2, LenProperties, AppendProperties
    <3>5. QED
      BY <3>3, <3>4
  <2>4. QED
    BY <2>2, <2>3 DEF SwitchGift
<1>8. QED
  BY <1>3, <1>6, <1>7

------------------------------------------------------------------------------
(* What is in the queues is known to the server: no sequence number is ahead of its own, *)
(* and nothing is larger than the limit.                                        *)

Raised == [kind : {"grabbed", "sending"}, seq : SeqNums, data : Contents]
Known(x) == x.seq <= server.seqNum /\ x.data \notin Oversized
KnownEvent == {e \in EventType : Known(e)}
KnownMessage == {m \in Message : Known(m)}
KnownRaised == {e \in Raised : Known(e)}

StateInv ==
    /\ server \in ServerType
    /\ server.clipSeq <= server.seqNum /\ server.primarySeq <= server.seqNum
    /\ events \in Seq(KnownEvent)
    /\ connected \subseteq Clients
    /\ down \in [Clients -> Seq(KnownMessage)]
    /\ up \in [Clients -> Seq(KnownMessage)]
    /\ client \in [Clients -> ClientType]
    /\ \A c \in Clients :
          client[c].seqNum <= server.seqNum /\ client[c].events \in Seq(KnownRaised)
    /\ screen \in [Screens -> ScreenType]
    /\ copies \in 0 .. MaxCopies
    /\ scenario \in Scenarios

LEMMA SeqWider ==
    ASSUME NEW S, NEW T, S \subseteq T, NEW q \in Seq(S) PROVE q \in Seq(T)
<1>1. q \in [1 .. Len(q) -> S] /\ Len(q) \in Nat
  BY LenProperties
<1>2. QED
  BY <1>1

LEMMA LongerIn ==
    ASSUME NEW S, NEW T, NEW q \in Seq(S), NEW r \in Seq(T), NEW E, Longer(q, r, E), E \subseteq S
    PROVE  r \in Seq(S)
<1>1. /\ Len(q) \in Nat /\ Len(r) \in Nat /\ r \in [1 .. Len(r) -> T]
      /\ \A i \in 1 .. Len(q) : q[i] \in S
  BY LenProperties
<1>2. ASSUME NEW i \in 1 .. Len(r) PROVE r[i] \in S
  <2>1. CASE i <= Len(q)
    BY <1>1, <2>1 DEF Longer
  <2>2. CASE i > Len(q)
    BY <1>1, <2>2 DEF Longer
  <2>3. QED
    BY <1>1, <2>1, <2>2
<1>3. r \in [1 .. Len(r) -> S]
  BY <1>1, <1>2
<1>4. QED
  BY <1>1, <1>3

LEMMA NowState == StateInv => Now \in State
<1> SUFFICES ASSUME StateInv PROVE Now \in State
  OBVIOUS
<1>1. events \in Seq(EventType)
  BY SeqWider DEF StateInv, KnownEvent
<1>2. down \in [Clients -> Seq(Message)]
  <2>1. \A c \in Clients : down[c] \in Seq(Message)
    BY SeqWider DEF StateInv, KnownMessage
  <2>2. QED
    BY <2>1 DEF StateInv
<1>3. QED
  BY <1>1, <1>2 DEF StateInv, Now, State

LEMMA BecomeNow == ASSUME NEW w \in State, Become(w) PROVE Now' = w
  BY DEF Become, Now, State

LEMMA SwitchDoes ==
    ASSUME StateInv, SwitchScreen
    PROVE  \E dst \in (connected \cup {Primary}) \ {server.active} :
               SwitchEffect(Now', Now, dst) /\ SwitchGift(Now', Now, dst)
<1> USE Bounds
<1>1. PICK dst \in (connected \cup {Primary}) \ {server.active} : Become(switchScreen(Now, dst))
  BY DEF SwitchScreen
<1>2. Now \in State /\ Now.server = server /\ dst \in Screens /\ dst # server.active
  BY <1>1, NowState DEF StateInv, Now
<1>3. server.seqNum + 1 \in SeqNums
  <2>1. scenario.moves \in 0 .. MaxSeq /\ server.seqNum \in 0 .. MaxSeq /\ server.seqNum < scenario.moves
    BY ClipboardAssumption DEF SwitchScreen, StateInv, ServerType, SeqNums, Scenario
  <2>2. QED
    BY <2>1, ClipboardAssumption DEF SeqNums
<1>4. SwitchEffect(switchScreen(Now, dst), Now, dst) /\ SwitchGift(switchScreen(Now, dst), Now, dst)
  BY <1>2, <1>3, SwitchScreenDoes, SwitchGives
<1>5. switchScreen(Now, dst) \in State
  BY <1>4 DEF SwitchEffect
<1>6. Now' = switchScreen(Now, dst)
  BY <1>1, <1>5, BecomeNow
<1>7. QED
  BY <1>1, <1>4, <1>6

\* The state once the event queue has handed out its oldest event.
Popped == [Now EXCEPT !.events = Tail(events)]

ServerEventEffect ==
    LET e == Head(events)
    IN  \/ /\ e.kind = "grabbed" /\ GrabbedEffect(Now', Popped, e.who, e.seq)
           /\ (e.who # Primary => ~(e.seq < server.clipSeq)) => GrabbedGift(Now', Popped, e.who)
        \/ /\ e.kind = "changed" /\ ChangedEffect(Now', Popped)
           /\ ChangedGift(Now', Popped, e.who, e.seq)
        \/ e.kind = "sending" /\ Now' = Write(Popped, e.who, Msg("data", 0, e.data))
        \/ e.kind = "orphan" /\ Now' = Popped

LEMMA PoppedState ==
    ASSUME StateInv, events # <<>>
    PROVE  /\ Popped \in State /\ Head(events) \in KnownEvent
           /\ Popped.server = server /\ Popped.events = Tail(events) /\ Tail(events) \in Seq(KnownEvent)
           /\ Popped.down = down /\ Popped.screen = screen
<1>1. Head(events) \in KnownEvent /\ Tail(events) \in Seq(KnownEvent)
  BY HeadTailProperties DEF StateInv
<1>2. Tail(events) \in Seq(EventType)
  BY <1>1, SeqWider DEF KnownEvent
<1>3. QED
  BY <1>1, <1>2, NowState DEF Popped, Now, State

LEMMA ServerEventDoes ==
    ASSUME StateInv, ServerEvent
    PROVE  ServerEventEffect
<1> USE Bounds
<1> DEFINE e == Head(events)
<1>1. /\ Popped \in State /\ e \in EventType
  BY PoppedState DEF ServerEvent, KnownEvent
<1>2. /\ e.kind = "grabbed" \/ e.kind = "changed" => e.who \in Screens /\ e.seq \in SeqNums
      /\ e.kind = "sending" => e.who \in Clients /\ Msg("data", 0, e.data) \in Message
      /\ e.kind \in {"grabbed", "changed", "sending", "orphan"}
  BY <1>1 DEF EventType, Msg, Message
<1>3. CASE e.kind = "grabbed"
  <2>1. Become(onClipboardGrabbed(Popped, e.who, e.seq))
    BY <1>3 DEF ServerEvent, Popped, Now
  <2>2. GrabbedEffect(onClipboardGrabbed(Popped, e.who, e.seq), Popped, e.who, e.seq)
    BY <1>1, <1>2, <1>3, OnClipboardGrabbedDoes
  <2>3. Now' = onClipboardGrabbed(Popped, e.who, e.seq)
    BY <1>1, <2>1, <2>2, BecomeNow DEF GrabbedEffect
  <2>4. (e.who # Primary => ~(e.seq < server.clipSeq)) =>
            GrabbedGift(onClipboardGrabbed(Popped, e.who, e.seq), Popped, e.who)
    BY <1>1, <1>2, <1>3, GrabbedGives, PoppedState DEF ServerEvent
  <2>5. QED
    BY <1>3, <2>2, <2>3, <2>4 DEF ServerEventEffect
<1>4. CASE e.kind = "changed"
  <2>1. Become(onClipboardChanged(Popped, e.who, e.seq))
    BY <1>4 DEF ServerEvent, Popped, Now
  <2>2. /\ ChangedEffect(onClipboardChanged(Popped, e.who, e.seq), Popped)
        /\ ChangedGift(onClipboardChanged(Popped, e.who, e.seq), Popped, e.who, e.seq)
    BY <1>1, <1>2, <1>4, OnClipboardChangedDoes, ChangedGives
  <2>3. Now' = onClipboardChanged(Popped, e.who, e.seq)
    BY <2>1, <2>2, BecomeNow DEF ChangedEffect
  <2>4. QED
    BY <1>4, <2>2, <2>3 DEF ServerEventEffect
<1>5. CASE e.kind = "sending"
  <2>1. Become(Write(Popped, e.who, Msg("data", 0, e.data)))
    BY <1>5 DEF ServerEvent, Popped, Now
  <2>2. Write(Popped, e.who, Msg("data", 0, e.data)) \in State
    BY <1>1, <1>2, <1>5, WriteType
  <2>3. QED
    BY <1>5, <2>1, <2>2, BecomeNow DEF ServerEventEffect
<1>6. CASE e.kind = "orphan"
  <2>1. Become(Popped)
    BY <1>6 DEF ServerEvent, Popped, Now
  <2>2. QED
    BY <1>1, <1>6, <2>1, BecomeNow DEF ServerEventEffect
<1>7. QED
  BY <1>2, <1>3, <1>4, <1>5, <1>6

LEMMA StateInit == Init => StateInv
<1> SUFFICES ASSUME Init PROVE StateInv
  OBVIOUS
<1> USE Bounds
<1>1. server \in ServerType
  <2>1. [s \in Screens |-> s # Primary] \in [Screens -> BOOLEAN]
    OBVIOUS
  <2>2. [c \in Clients |-> Nothing] \in [Clients -> Contents]
    OBVIOUS
  <2>3. QED
    BY <2>1, <2>2 DEF Init, ServerType
<1>2. /\ <<>> \in Seq([kind : {"grabbed", "sending"}, seq : SeqNums, data : Contents])
      /\ <<>> \in Seq(KnownEvent) /\ <<>> \in Seq(KnownMessage) /\ <<>> \in Seq(KnownRaised)
  OBVIOUS
<1>3. client \in [Clients -> ClientType]
  BY <1>2 DEF Init, ClientType
<1>4. screen \in [Screens -> ScreenType]
  BY DEF Init, ScreenType
<1>5. copies \in 0 .. MaxCopies
  BY ClipboardAssumption DEF Init
<1>6. \A c \in Clients : client[c].seqNum <= server.seqNum /\ client[c].events \in Seq(KnownRaised)
  <2>1. ASSUME NEW c \in Clients PROVE client[c].seqNum = 0 /\ client[c].events = <<>>
    BY DEF Init
  <2>2. server.seqNum = 0
    BY DEF Init
  <2>3. ASSUME NEW c \in Clients PROVE client[c].seqNum <= server.seqNum
    <3>1. client[c].seqNum = 0
      BY <2>1
    <3>2. QED
      BY <2>2, <3>1
  <2>4. \A c \in Clients : client[c].events \in Seq(KnownRaised)
    BY <1>2, <2>1
  <2>5. QED
    BY <2>3, <2>4
<1>7. /\ events \in Seq(KnownEvent) /\ connected \subseteq Clients
      /\ down \in [Clients -> Seq(KnownMessage)] /\ up \in [Clients -> Seq(KnownMessage)]
      /\ scenario \in Scenarios
  BY <1>2 DEF Init
<1>8. server.clipSeq <= server.seqNum /\ server.primarySeq <= server.seqNum
  BY DEF Init
<1>9. QED
  BY <1>1, <1>3, <1>4, <1>5, <1>6, <1>7, <1>8 DEF StateInv

\* A larger sequence number forgets nothing.
LEMMA KnownStays ==
    ASSUME server.seqNum \in Nat, server'.seqNum \in Nat, server.seqNum <= server'.seqNum,
           UNCHANGED scenario
    PROVE  /\ KnownEvent \subseteq KnownEvent'
           /\ KnownMessage \subseteq KnownMessage'
           /\ KnownRaised \subseteq KnownRaised'
<1> USE Bounds
<1>1. ASSUME NEW x, x.seq \in SeqNums, Known(x)
      PROVE  x.seq <= server'.seqNum /\ x.data \notin Oversized'
  <2>1. x.seq \in Nat /\ x.seq <= server.seqNum
    BY <1>1 DEF Known
  <2>2. Oversized' = Oversized
    BY DEF Oversized
  <2>3. QED
    BY <1>1, <2>1, <2>2 DEF Known
<1>2. /\ \A e \in EventType : e.seq \in SeqNums
      /\ \A m \in Message : m.seq \in SeqNums
      /\ \A e \in Raised : e.seq \in SeqNums
  BY DEF EventType, Message, Raised
<1>3. QED
  BY <1>1, <1>2 DEF KnownEvent, KnownMessage, KnownRaised, Known

\* What the server's steps leave known.
LEMMA CourseKept ==
    ASSUME StateInv, Now' \in State, UNCHANGED <<connected, up, client, copies, scenario>>,
           server.seqNum <= server'.seqNum,
           server'.clipSeq <= server'.seqNum, server'.primarySeq <= server'.seqNum,
           events' \in Seq(KnownEvent'),
           \A c \in Clients : down'[c] \in Seq(KnownMessage')
    PROVE  StateInv'
<1>1. /\ server' \in ServerType /\ screen' \in [Screens -> ScreenType]
      /\ down' \in [Clients -> Seq(Message)]
  BY DEF Now, State
<1>2. server.seqNum \in Nat /\ server'.seqNum \in Nat
  BY <1>1, Bounds DEF StateInv, ServerType
<1>3. /\ KnownMessage \subseteq KnownMessage' /\ KnownRaised \subseteq KnownRaised'
  BY <1>2, KnownStays
<1>4. up' \in [Clients -> Seq(KnownMessage')]
  <2>1. \A c \in Clients : up[c] \in Seq(KnownMessage')
    BY <1>3, SeqWider DEF StateInv
  <2>2. QED
    BY <2>1 DEF StateInv
<1>5. \A c \in Clients :
          client'[c].seqNum <= server'.seqNum /\ client'[c].events \in Seq(KnownRaised')
  <2>1. \A c \in Clients : client[c].events \in Seq(KnownRaised')
    BY <1>3, SeqWider DEF StateInv
  <2>2. \A c \in Clients : client[c].seqNum \in Nat /\ client[c].seqNum <= server.seqNum
    BY Bounds DEF StateInv, ClientType
  <2>3. QED
    BY <1>2, <2>1, <2>2
<1>6. down' \in [Clients -> Seq(KnownMessage')]
  BY <1>1
<1>7. QED
  BY <1>1, <1>4, <1>5, <1>6 DEF StateInv

LEMMA StateServer ==
    ASSUME StateInv, UNCHANGED scenario,
           SwitchScreen \/ ServerEvent \/ \E c \in Clients : ServerReceive(c)
    PROVE  StateInv'
<1> USE Bounds
<1>1. /\ server.seqNum \in Nat /\ server.clipSeq \in Nat /\ server.primarySeq \in Nat
      /\ server.clipSeq <= server.seqNum /\ server.primarySeq <= server.seqNum
      /\ events \in Seq(KnownEvent) /\ \A c \in Clients : down[c] \in Seq(KnownMessage)
  BY DEF StateInv, ServerType
<1>2. Now \in State /\ Now.server = server /\ Now.events = events /\ Now.down = down
      /\ Now'.server = server' /\ Now'.events = events' /\ Now'.down = down'
  BY NowState DEF Now
<1>3. 0 <= server.seqNum /\ Nothing \notin Oversized
  <2>1. Oversized \subseteq 1 .. MaxCopies
    BY ClipboardAssumption DEF StateInv, Scenario, Oversized
  <2>2. QED
    BY <1>1, <2>1 DEF Nothing
<1>4. GrabTold \in KnownMessage /\ LeaveTold \in KnownMessage
  BY <1>3 DEF GrabTold, LeaveTold, Msg, Message, KnownMessage, Known
<1>5. Sendings(server.active) \subseteq KnownEvent /\ \A s : Sendings(s) \subseteq KnownEvent
  BY <1>3 DEF Sendings, KnownEvent, Known, EventType
<1>6. ASSUME server.seqNum = server'.seqNum, UNCHANGED scenario
      PROVE  KnownEvent = KnownEvent' /\ KnownMessage = KnownMessage'
  BY <1>6 DEF KnownEvent, KnownMessage, Known, Oversized
<1>7. CASE SwitchScreen
  <2>1. PICK dst \in (connected \cup {Primary}) \ {server.active} : SwitchEffect(Now', Now, dst)
    BY <1>7, SwitchDoes
  <2>2. /\ Now' \in State /\ server'.seqNum = server.seqNum + 1 /\ server'.clipSeq = server.clipSeq
        /\ server'.primarySeq \in {server.primarySeq, server.seqNum + 1}
        /\ Longer(events, events', Added(Now, dst))
    BY <1>2, <2>1 DEF SwitchEffect
  <2>3. /\ server.seqNum <= server'.seqNum /\ server'.seqNum \in SeqNums
        /\ server'.clipSeq <= server'.seqNum /\ server'.primarySeq <= server'.seqNum
    BY <1>1, <1>2, <2>2 DEF State, ServerType
  <2>4. KnownEvent \subseteq KnownEvent' /\ KnownMessage \subseteq KnownMessage'
    BY <1>1, <2>3, KnownStays
  <2>5. events' \in Seq(KnownEvent')
    <3>1. Added(Now, dst) \subseteq KnownEvent
      <4>1. Event("grabbed", Primary, server.primarySeq, Nothing) \in KnownEvent
        BY <1>1, <1>3 DEF Event, EventType, KnownEvent, Known, StateInv, ServerType
      <4>2. QED
        BY <1>2, <1>5, <4>1 DEF Added, PrimaryGrabs
    <3>2. events \in Seq(KnownEvent') /\ events' \in Seq(EventType)
      BY <1>1, <1>2, <2>2, <2>4, SeqWider DEF State
    <3>3. QED
      BY <2>2, <2>4, <3>1, <3>2, LongerIn
  <2>6. ASSUME NEW c \in Clients PROVE down'[c] \in Seq(KnownMessage')
    <3>1. down[c] \in Seq(KnownMessage')
      BY <1>1, <2>4, SeqWider
    <3>2. LeaveTold \in KnownMessage' /\ EnterTold(server.seqNum + 1) \in KnownMessage'
      <4>1. EnterTold(server.seqNum + 1) \in KnownMessage'
        BY <1>1, <1>3, <2>2, <2>3 DEF EnterTold, Msg, Message, KnownMessage, Known, Oversized
      <4>2. QED
        BY <1>4, <2>4, <4>1
    <3>3. down'[c] \in {down[c], Append(down[c], LeaveTold), Append(down[c], EnterTold(server.seqNum + 1))}
      BY <1>2, <2>1 DEF SwitchEffect
    <3>4. /\ Append(down[c], LeaveTold) \in Seq(KnownMessage')
          /\ Append(down[c], EnterTold(server.seqNum + 1)) \in Seq(KnownMessage')
      BY ONLY <3>1, <3>2, AppendProperties
    <3>5. QED
      BY <3>1, <3>3, <3>4
  <2>7. UNCHANGED <<connected, up, client, copies, scenario>>
    BY <1>7 DEF SwitchScreen
  <2>8. QED
    BY <2>2, <2>3, <2>5, <2>6, <2>7, CourseKept
<1>8. CASE ServerEvent
  <2>1. /\ Popped \in State /\ Head(events) \in KnownEvent
        /\ Popped.server = server /\ Popped.events = Tail(events) /\ Tail(events) \in Seq(KnownEvent)
        /\ Popped.down = down
    BY <1>8, PoppedState DEF ServerEvent
  <2>2. ServerEventEffect
    BY <1>8, ServerEventDoes
  <2>3. UNCHANGED <<connected, up, client, copies, scenario>>
    BY <1>8 DEF ServerEvent
  <2>4. ASSUME Now' \in State, server'.seqNum = server.seqNum, server'.primarySeq = server.primarySeq,
               server'.clipSeq <= server.seqNum, Longer(Tail(events), events', Sendings(server.active)),
               \A c \in Clients : down'[c] \in Seq(KnownMessage)
        PROVE  StateInv'
    <3>1. events' \in Seq(EventType)
      BY <1>2, <2>4 DEF State
    <3>2. events' \in Seq(KnownEvent)
      BY <1>5, <2>1, <2>4, <3>1, LongerIn
    <3>3. QED
      BY <1>1, <1>6, <2>3, <2>4, <3>2, CourseKept
  <2>5. CASE Head(events).kind = "grabbed" /\ GrabbedEffect(Now', Popped, Head(events).who, Head(events).seq)
    <3>1. CASE Now' = Popped
      <4>1. Longer(Tail(events), events', Sendings(server.active))
        BY <1>2, <2>1, <3>1, LongerSame
      <4>2. QED
        BY <1>1, <1>2, <2>1, <2>4, <3>1, <4>1
    <3>2. CASE Now' # Popped
      <4>1. /\ Now' \in State /\ server'.seqNum = server.seqNum /\ server'.primarySeq = server.primarySeq
            /\ server'.clipSeq = Head(events).seq /\ Longer(Tail(events), events', Sendings(server.active))
            /\ \A c \in Clients : down'[c] \in {down[c], Append(down[c], GrabTold)}
        BY <1>2, <2>1, <2>5, <3>2 DEF GrabbedEffect
      <4>2. \A c \in Clients : down'[c] \in Seq(KnownMessage)
        <5>1. \A c \in Clients : Append(down[c], GrabTold) \in Seq(KnownMessage)
          BY ONLY <1>1, <1>4, AppendProperties
        <5>2. QED
          BY <1>1, <4>1, <5>1
      <4>3. QED
        BY <2>1, <2>4, <4>1, <4>2 DEF KnownEvent, Known
    <3>3. QED
      BY <3>1, <3>2
  <2>6. CASE Head(events).kind = "changed" /\ ChangedEffect(Now', Popped)
    <3>1. /\ Now' \in State /\ server'.seqNum = server.seqNum /\ server'.primarySeq = server.primarySeq
          /\ server'.clipSeq = server.clipSeq /\ Longer(Tail(events), events', Sendings(server.active))
          /\ down' = down
      BY <1>2, <2>1, <2>6 DEF ChangedEffect, SameCourse
    <3>2. QED
      BY <1>1, <2>4, <3>1
  <2>7. CASE Head(events).kind = "sending"
             /\ Now' = Write(Popped, Head(events).who, Msg("data", 0, Head(events).data))
    <3> DEFINE told == Msg("data", 0, Head(events).data)
    <3>1. Head(events).who \in Clients /\ told \in KnownMessage
      BY <1>3, <2>1, <2>7 DEF KnownEvent, Known, EventType, Msg, Message, KnownMessage
    <3>2. /\ Now' \in State /\ Now'.down = [Popped.down EXCEPT ![Head(events).who] = Append(@, told)]
          /\ Now'.server = Popped.server /\ Now'.events = Popped.events
      BY <2>1, <2>7, <3>1, WriteType DEF KnownMessage
    <3> HIDE DEF told
    <3>3. \A c \in Clients : down'[c] \in Seq(KnownMessage)
      <4>1. Append(down[Head(events).who], told) \in Seq(KnownMessage)
        BY <1>1, <3>1, AppendProperties
      <4>2. down \in [Clients -> Seq(KnownMessage)]
        BY DEF StateInv
      <4>3. QED
        BY <1>1, <1>2, <2>1, <3>1, <3>2, <4>1, <4>2
    <3>4. Longer(Tail(events), events', Sendings(server.active))
      <4>1. events' = Tail(events)
        BY <1>2, <2>1, <3>2
      <4>2. QED
        BY <2>1, <4>1, LongerSame
    <3>5. QED
      BY <1>1, <1>2, <2>1, <2>4, <3>2, <3>3, <3>4
  <2>8. CASE Head(events).kind = "orphan" /\ Now' = Popped
    <3>1. Longer(Tail(events), events', Sendings(server.active))
      BY <1>2, <2>1, <2>8, LongerSame
    <3>2. QED
      BY <1>1, <1>2, <2>1, <2>4, <2>8, <3>1
  <2>9. QED
    BY <2>2, <2>5, <2>6, <2>7, <2>8 DEF ServerEventEffect
<1>9. ASSUME NEW c \in Clients, ServerReceive(c) PROVE StateInv'
  <2>1. /\ Head(up[c]) \in KnownMessage /\ Tail(up[c]) \in Seq(KnownMessage)
    BY <1>9, HeadTailProperties DEF ServerReceive, StateInv
  <2>2. server' \in ServerType /\ SameCourse(server', server)
    <3>1. \/ server' = server
          \/ server' = [server EXCEPT !.buffer = [server.buffer EXCEPT ![c] = Head(up[c]).data]]
      BY <1>9 DEF ServerReceive
    <3>2. Head(up[c]).data \in Contents
      BY <2>1 DEF KnownMessage, Message
    <3>3. QED
      <4>1. server \in ServerType /\ c \in Clients
        BY DEF StateInv
      <4>2. CASE server' = server
        BY <4>1, <4>2 DEF SameCourse
      <4>3. CASE server' = [server EXCEPT !.buffer = [server.buffer EXCEPT ![c] = Head(up[c]).data]]
        <5>1. [server.buffer EXCEPT ![c] = Head(up[c]).data] \in [Clients -> Contents]
          BY <3>2, <4>1 DEF ServerType
        <5>2. QED
          BY <4>1, <4>3, <5>1 DEF ServerType, SameCourse
      <4>4. QED
        BY <3>1, <4>2, <4>3
  <2>3. events' \in Seq(KnownEvent)
    <3>1. Event("grabbed", c, Head(up[c]).seq, Nothing) \in KnownEvent
      BY <1>3, <2>1 DEF Event, EventType, KnownEvent, KnownMessage, Known, Message
    <3>2. Event("changed", c, Head(up[c]).seq, Nothing) \in KnownEvent
      BY <1>3, <2>1 DEF Event, EventType, KnownEvent, KnownMessage, Known, Message
    <3>3. /\ Append(events, Event("grabbed", c, Head(up[c]).seq, Nothing)) \in Seq(KnownEvent)
          /\ Append(events, Event("changed", c, Head(up[c]).seq, Nothing)) \in Seq(KnownEvent)
      BY ONLY <1>1, <3>1, <3>2, AppendProperties
    <3>4. QED
      BY <1>9, <3>3 DEF ServerReceive
  <2>4. KnownEvent = KnownEvent' /\ KnownMessage = KnownMessage' /\ KnownRaised' = KnownRaised
    BY <2>2 DEF SameCourse, KnownEvent, KnownMessage, KnownRaised, Known, Oversized
  <2>5. up' \in [Clients -> Seq(KnownMessage)]
    BY <1>9, <2>1 DEF ServerReceive, StateInv
  <2>6. QED
    BY <1>1, <1>9, <2>2, <2>3, <2>4, <2>5 DEF ServerReceive, StateInv, SameCourse
<1>10. QED
  BY <1>7, <1>8, <1>9

\* What happens on a client or a computer leaves what the server knows.
LEMMA ElsewhereKept ==
    ASSUME StateInv, UNCHANGED <<server, scenario>>,
           connected' \subseteq Clients, copies' \in 0 .. MaxCopies,
           events' \in Seq(KnownEvent),
           down' \in [Clients -> Seq(KnownMessage)], up' \in [Clients -> Seq(KnownMessage)],
           client' \in [Clients -> ClientType],
           \A c \in Clients :
               client'[c].seqNum <= server.seqNum /\ client'[c].events \in Seq(KnownRaised),
           screen' \in [Screens -> ScreenType]
    PROVE  StateInv'
<1>1. KnownEvent = KnownEvent' /\ KnownMessage = KnownMessage' /\ KnownRaised = KnownRaised'
  BY DEF KnownEvent, KnownMessage, KnownRaised, Known, Oversized
<1>2. QED
  BY <1>1 DEF StateInv

KnownClient(k) == k \in ClientType /\ k.seqNum <= server.seqNum /\ k.events \in Seq(KnownRaised)

LEMMA RaisedKnown ==
    ASSUME NEW k, KnownClient(k), Nothing \notin Oversized, server.seqNum \in Nat
    PROVE  /\ KnownClient(raised(k))
           /\ raised(k).active = k.active /\ raised(k).own = k.own /\ raised(k).sent = k.sent
           /\ raised(k).seqNum = k.seqNum
           /\ raised(k).events =
                 Append(k.events, [kind |-> "grabbed", seq |-> 0, data |-> Nothing])
<1> USE Bounds
<1> DEFINE e == [kind |-> "grabbed", seq |-> 0, data |-> Nothing]
           es == Append(k.events, e)
<1>1. e \in KnownRaised /\ e \in Raised
  BY DEF KnownRaised, Raised, Known
<1>2. es \in Seq(KnownRaised) /\ es \in Seq(Raised)
  BY <1>1, AppendProperties DEF KnownClient, ClientType, Raised
<1>3. raised(k) = [k EXCEPT !.events = es]
  BY DEF raised
<1> HIDE DEF es
<1>4. QED
  BY <1>2, <1>3 DEF KnownClient, ClientType, Raised, es

SendEffect(r, k, d) ==
    /\ KnownClient(r)
    /\ r.active = k.active /\ r.own = k.own /\ r.seqNum = k.seqNum
    /\ d \notin Oversized => r.sent
    /\ \/ r = k
       \/ r.events = Append(k.events, [kind |-> "sending", seq |-> k.seqNum, data |-> d])

LEMMA SendKnown ==
    ASSUME NEW k, KnownClient(k), NEW d \in Contents, NEW r, r = sendClipboard(k, d)
    PROVE  SendEffect(r, k, d)
<1> USE DEF SendEffect
<1> DEFINE e == [kind |-> "sending", seq |-> k.seqNum, data |-> d]
           es == Append(k.events, e)
<1>1. \/ r = k /\ (d \in Oversized \/ k.sent)
      \/ d \notin Oversized /\ r = [k EXCEPT !.sent = TRUE, !.last = d, !.events = es]
  BY DEF sendClipboard
<1>2. CASE r = k /\ (d \in Oversized \/ k.sent)
  BY <1>2
<1>3. CASE d \notin Oversized /\ r = [k EXCEPT !.sent = TRUE, !.last = d, !.events = es]
  <2>1. e \in KnownRaised /\ e \in Raised
    BY <1>3 DEF KnownRaised, Raised, Known, KnownClient, ClientType
  <2>2. es \in Seq(KnownRaised) /\ es \in Seq(Raised)
    BY <2>1, AppendProperties DEF KnownClient, ClientType, Raised
  <2> HIDE DEF es
  <2>3. /\ r \in ClientType /\ r.active = k.active /\ r.own = k.own /\ r.seqNum = k.seqNum
        /\ r.sent /\ r.events = es
    BY <1>3, <2>2 DEF KnownClient, ClientType, Raised
  <2>4. QED
    BY <2>2, <2>3 DEF KnownClient, es
<1>4. QED
  BY <1>1, <1>2, <1>3

\* What a client raises while it has the clipboard, or has lost it.
Raisable(c) ==
    {e \in Raised : /\ e.kind = "grabbed" => LostTo(screen[c])
                    /\ e.kind = "sending" => client[c].own
                    /\ e.seq <= client[c].seqNum}

\* What client k becomes, n, when it receives m.
ReceiveEffect(m, k, n, E) ==
    /\ m.kind = "enter" =>
          /\ n.active /\ n.seqNum = m.seq
          /\ n.own = k.own /\ n.sent = k.sent /\ n.events = k.events
    /\ m.kind = "leave" =>
          /\ ~n.active /\ n.seqNum = k.seqNum /\ n.own = k.own
          /\ k.own /\ AllFit => n.sent
          /\ Longer(k.events, n.events, E)
    /\ m.kind \in {"grab", "data"} =>
          /\ ~n.own /\ ~n.sent
          /\ n.active = k.active /\ n.seqNum = k.seqNum /\ n.events = k.events

\* Only the screen of c changes, and nothing is taken from it.
ScreenOf(c) ==
    /\ screen' \in [Screens -> ScreenType]
    /\ \A s \in Screens \ {c} : screen'[s] = screen[s]
    /\ LostTo(screen'[c]) => LostTo(screen[c])

LEMMA ReceiveDoes ==
    ASSUME StateInv, NEW c \in Clients, ClientReceive(c)
    PROVE  /\ Head(down[c]) \in KnownMessage /\ Tail(down[c]) \in Seq(KnownMessage)
           /\ KnownClient(client'[c]) /\ client' = [client EXCEPT ![c] = client'[c]]
           /\ ReceiveEffect(Head(down[c]), client[c], client'[c], Raisable(c))
           /\ ScreenOf(c)
<1> USE Bounds
<1> DEFINE m == Head(down[c])
           k == client[c]
           lost == LostTo(screen[c])
           heard == IF lost THEN raised(k) ELSE k
           left == [heard EXCEPT !.active = FALSE]
<1>1. m \in KnownMessage /\ Tail(down[c]) \in Seq(KnownMessage)
  BY HeadTailProperties DEF ClientReceive, StateInv
<1>2. /\ KnownClient(k) /\ client \in [Clients -> ClientType]
      /\ screen \in [Screens -> ScreenType] /\ screen[c] \in ScreenType
  BY DEF StateInv, KnownClient
<1>3. server.seqNum \in Nat /\ Nothing \notin Oversized
  <2>1. Oversized \subseteq 1 .. MaxCopies
    BY ClipboardAssumption DEF StateInv, Scenario, Oversized
  <2>2. server.seqNum \in Nat
    BY DEF StateInv, ServerType
  <2>3. QED
    BY <2>1, <2>2 DEF Nothing
<1>4. ASSUME NEW d \in Contents, screen' = [screen EXCEPT ![c] = Written(screen[c], d)]
      PROVE  ScreenOf(c)
  <2>1. Written(screen[c], d) \in ScreenType /\ ~LostTo(Written(screen[c], d))
    BY <1>2, WrittenType
  <2>2. QED
    BY <1>2, <1>4, <2>1 DEF ScreenOf
<1>5. CASE m.kind = "enter"
  <2>1. client' = [client EXCEPT ![c] = entered(k, m.seq)] /\ screen' = screen
    BY <1>5 DEF ClientReceive, Received
  <2>2. /\ KnownClient(entered(k, m.seq))
        /\ entered(k, m.seq).active /\ entered(k, m.seq).seqNum = m.seq
        /\ entered(k, m.seq).own = k.own /\ entered(k, m.seq).sent = k.sent
        /\ entered(k, m.seq).events = k.events
    BY <1>1, <1>2 DEF entered, KnownClient, ClientType, KnownMessage, Message, Known
  <2>3. client'[c] = entered(k, m.seq)
    BY <1>2, <2>1
  <2>4. ReceiveEffect(m, k, client'[c], Raisable(c))
    BY <1>5, <2>2, <2>3 DEF ReceiveEffect
  <2>5. ScreenOf(c)
    BY <1>2, <2>1 DEF ScreenOf
  <2>6. QED
    BY <1>1, <2>1, <2>2, <2>3, <2>4, <2>5
<1>6. CASE m.kind \in {"grab", "data"}
  <2>1. /\ client' = [client EXCEPT ![c] = disowned(k)]
        /\ \E d \in {Nothing, m.data} : screen' = [screen EXCEPT ![c] = Written(screen[c], d)]
    BY <1>6 DEF ClientReceive, Received
  <2>2. /\ KnownClient(disowned(k))
        /\ ~disowned(k).own /\ ~disowned(k).sent
        /\ disowned(k).active = k.active /\ disowned(k).seqNum = k.seqNum
        /\ disowned(k).events = k.events
    BY <1>2 DEF disowned, KnownClient, ClientType
  <2>3. client'[c] = disowned(k)
    BY <1>2, <2>1
  <2>4. ReceiveEffect(m, k, client'[c], Raisable(c))
    BY <1>6, <2>2, <2>3 DEF ReceiveEffect
  <2>5. ScreenOf(c)
    BY <1>1, <1>4, <2>1 DEF KnownMessage, Message
  <2>6. QED
    BY <1>1, <2>1, <2>2, <2>3, <2>4, <2>5
<1>7. CASE m.kind = "leave"
  <2> DEFINE n == IF k.own THEN sendClipboard(left, screen[c].board) ELSE left
  <2>1. /\ client' = [client EXCEPT ![c] = n]
        /\ screen' = [screen EXCEPT ![c] = [screen[c] EXCEPT !.own = screen[c].own /\ ~lost]]
    BY <1>7 DEF ClientReceive, Received
  <2>2. /\ KnownClient(heard) /\ heard.active = k.active /\ heard.own = k.own
        /\ heard.sent = k.sent /\ heard.seqNum = k.seqNum
        /\ Longer(k.events, heard.events, Raisable(c))
    <3>1. CASE lost
      <4>1. /\ KnownClient(heard) /\ heard.active = k.active /\ heard.own = k.own
            /\ heard.sent = k.sent /\ heard.seqNum = k.seqNum
            /\ heard.events = Append(k.events, [kind |-> "grabbed", seq |-> 0, data |-> Nothing])
        BY <1>2, <1>3, <3>1, RaisedKnown
      <4>2. [kind |-> "grabbed", seq |-> 0, data |-> Nothing] \in Raisable(c)
        <5>1. k.seqNum \in Nat
          BY <1>2 DEF KnownClient, ClientType
        <5>2. 0 <= k.seqNum
          BY <5>1
        <5>3. QED
          BY <3>1, <5>2 DEF Raisable, Raised
      <4>3. QED
        <5>1. k.events \in Seq(Raised)
          BY <1>2 DEF KnownClient, ClientType, Raised
        <5>2. Longer(k.events, heard.events, Raisable(c))
          BY <4>1, <4>2, <5>1, LongerAppend DEF Raisable
        <5>3. QED
          BY <4>1, <5>2
    <3>2. CASE ~lost
      BY <1>2, <3>2, LongerSame DEF KnownClient
    <3>3. QED
      BY <3>1, <3>2
  <2> HIDE DEF heard
  <2>3. /\ KnownClient(left) /\ ~left.active /\ left.own = k.own /\ left.seqNum = k.seqNum
        /\ left.events = heard.events
    BY <2>2 DEF KnownClient, ClientType
  <2> HIDE DEF left
  <2>4. /\ KnownClient(n) /\ ~n.active /\ n.own = k.own /\ n.seqNum = k.seqNum
        /\ k.own /\ AllFit => n.sent
        /\ Longer(k.events, n.events, Raisable(c))
    <3>1. CASE k.own
      <4>1. screen[c].board \in Contents
        BY <1>2 DEF ScreenType
      <4>2. /\ KnownClient(n) /\ n.active = left.active /\ n.own = left.own /\ n.seqNum = left.seqNum
            /\ screen[c].board \notin Oversized => n.sent
            /\ \/ n = left
               \/ n.events = Append(left.events, [kind |-> "sending", seq |-> left.seqNum,
                                                  data |-> screen[c].board])
        <5>1. SendEffect(n, left, screen[c].board)
          BY <2>3, <3>1, <4>1, SendKnown
        <5>2. QED
          BY <5>1 DEF SendEffect
      <4>3. Longer(left.events, n.events, Raisable(c))
        <5>1. [kind |-> "sending", seq |-> left.seqNum, data |-> screen[c].board] \in Raisable(c)
          <6>1. left.seqNum \in SeqNums /\ left.seqNum <= k.seqNum
            <7>1. k.seqNum \in SeqNums /\ k.seqNum \in Nat
              BY <1>2 DEF KnownClient, ClientType
            <7>2. QED
              BY <2>3, <7>1
          <6>2. QED
            BY <2>3, <3>1, <4>1, <6>1 DEF Raisable, Raised
        <5>2. left.events \in Seq(Raised)
          BY <2>3 DEF KnownClient, ClientType, Raised
        <5>3. QED
          BY <4>2, <5>1, <5>2, LongerAppend, LongerSame DEF Raisable
      <4>4. Longer(k.events, n.events, Raisable(c))
        BY <1>2, <2>2, <2>3, <4>2, <4>3, LongerStill DEF KnownClient
      <4>5. QED
        BY <2>3, <4>2, <4>4 DEF AllFit, Oversized
    <3>2. CASE ~k.own
      BY <2>2, <2>3, <3>2
    <3>3. QED
      BY <3>1, <3>2
  <2> HIDE DEF n
  <2>5. client'[c] = n
    BY <1>2, <2>1
  <2>6. ReceiveEffect(m, k, client'[c], Raisable(c))
    BY <1>7, <2>4, <2>5 DEF ReceiveEffect
  <2>7. ScreenOf(c)
    <3>1. /\ [screen[c] EXCEPT !.own = screen[c].own /\ ~lost] \in ScreenType
          /\ ~LostTo([screen[c] EXCEPT !.own = screen[c].own /\ ~lost])
      BY <1>2 DEF ScreenType, LostTo
    <3>2. QED
      BY <1>2, <2>1, <3>1 DEF ScreenOf
  <2>8. QED
    BY <1>1, <2>1, <2>4, <2>5, <2>6, <2>7
<1>8. QED
  BY <1>1, <1>5, <1>6, <1>7 DEF KnownMessage, Message

\* What client k may have to send.
SendingOf(k) == {x \in Raised : x.kind = "sending" /\ x.seq <= k.seqNum}

\* What client k becomes, n, when its oldest event e has been handled.
ClientEventEffect(e, k, n, q, r) ==
    /\ n.active = k.active /\ n.seqNum = k.seqNum
    /\ e.kind = "grabbed" =>
          /\ r = Append(q, Msg("grab", k.seqNum, Nothing))
          /\ n.own
          /\ ~k.active /\ AllFit => n.sent
          /\ Longer(Tail(k.events), n.events, SendingOf(k))
    /\ e.kind = "sending" =>
          /\ r = Append(q, Msg("data", e.seq, e.data))
          /\ n.own = k.own /\ n.sent = k.sent /\ n.events = Tail(k.events)

LEMMA ClientEventDoes ==
    ASSUME StateInv, NEW c \in Clients, ClientEvent(c)
    PROVE  /\ Head(client[c].events) \in KnownRaised
           /\ KnownClient(client'[c]) /\ client' = [client EXCEPT ![c] = client'[c]]
           /\ up' \in [Clients -> Seq(KnownMessage)] /\ up' = [up EXCEPT ![c] = up'[c]]
           /\ ClientEventEffect(Head(client[c].events), client[c], client'[c], up[c], up'[c])
<1> USE Bounds
<1> DEFINE e == Head(client[c].events)
           k == client[c]
           rest == Tail(k.events)
           j == [k EXCEPT !.events = rest]
<1>1. /\ KnownClient(k) /\ client \in [Clients -> ClientType] /\ k \in ClientType
      /\ up \in [Clients -> Seq(KnownMessage)] /\ screen[c].board \in Contents
  BY DEF StateInv, KnownClient, ScreenType
<1>2. e \in KnownRaised /\ rest \in Seq(KnownRaised)
  BY <1>1, HeadTailProperties DEF ClientEvent, KnownClient
<1>3. server.seqNum \in Nat /\ Nothing \notin Oversized
  <2>1. Oversized \subseteq 1 .. MaxCopies
    BY ClipboardAssumption DEF StateInv, Scenario, Oversized
  <2>2. server.seqNum \in Nat
    BY DEF StateInv, ServerType
  <2>3. QED
    BY <2>1, <2>2 DEF Nothing
<1>4. rest \in Seq(Raised)
  BY <1>2, SeqWider DEF KnownRaised
<1> HIDE DEF rest
<1>5. /\ KnownClient(j) /\ j.active = k.active /\ j.own = k.own /\ j.sent = k.sent
      /\ j.seqNum = k.seqNum /\ j.events = rest
  BY <1>1, <1>2, <1>4 DEF KnownClient, ClientType, Raised
<1> HIDE DEF j
<1>6. CASE e.kind = "grabbed"
  <2> DEFINE owner == [j EXCEPT !.own = TRUE, !.sent = FALSE]
             n == IF j.active THEN owner ELSE sendClipboard(owner, screen[c].board)
             told == Msg("grab", j.seqNum, Nothing)
  <2>1. /\ up' = [up EXCEPT ![c] = Append(up[c], told)]
        /\ client' = [client EXCEPT ![c] = n]
    BY <1>6 DEF ClientEvent, handleClipboardGrabbed, j, rest
  <2>2. /\ KnownClient(owner) /\ owner.active = j.active /\ owner.own
        /\ owner.seqNum = j.seqNum /\ owner.events = j.events
    BY <1>5 DEF KnownClient, ClientType
  <2>3. told \in KnownMessage
    BY <1>3, <1>5 DEF Msg, Message, KnownMessage, Known, KnownClient, ClientType
  <2> HIDE DEF owner, told
  <2>4. /\ KnownClient(n) /\ n.active = k.active /\ n.own /\ n.seqNum = k.seqNum
        /\ ~k.active /\ AllFit => n.sent
        /\ Longer(rest, n.events, SendingOf(k))
    <3>1. CASE j.active
      BY <1>4, <1>5, <2>2, <3>1, LongerSame
    <3>2. CASE ~j.active
      <4>5. n = sendClipboard(owner, screen[c].board)
        BY <3>2
      <4> HIDE DEF n
      <4>1. /\ KnownClient(n) /\ n.active = owner.active /\ n.own = owner.own
            /\ n.seqNum = owner.seqNum
            /\ screen[c].board \notin Oversized => n.sent
            /\ \/ n = owner
               \/ n.events = Append(owner.events, [kind |-> "sending", seq |-> owner.seqNum,
                                                   data |-> screen[c].board])
        <5>1. SendEffect(n, owner, screen[c].board)
          BY <1>1, <2>2, <4>5, SendKnown
        <5>2. QED
          BY <5>1 DEF SendEffect
      <4>2. [kind |-> "sending", seq |-> owner.seqNum, data |-> screen[c].board] \in
                SendingOf(k)
        <5>1. owner.seqNum \in SeqNums /\ owner.seqNum <= k.seqNum
          <6>1. k.seqNum \in SeqNums /\ k.seqNum \in Nat
            BY <1>1 DEF KnownClient, ClientType
          <6>2. QED
            BY <1>5, <2>2, <6>1
        <5>2. QED
          BY <1>1, <5>1 DEF Raised, SendingOf
      <4>3. Longer(rest, n.events, SendingOf(k))
        <5>1. owner.events = rest
          BY <1>5, <2>2
        <5>2. CASE n = owner
          BY <1>4, <5>1, <5>2, LongerSame
        <5>3. CASE n.events = Append(rest, [kind |-> "sending", seq |-> owner.seqNum,
                                            data |-> screen[c].board])
          BY <1>4, <4>2, <5>3, LongerAppend DEF SendingOf
        <5>4. QED
          BY <4>1, <5>1, <5>2, <5>3
      <4>4. QED
        BY <1>5, <2>2, <4>1, <4>3 DEF AllFit, Oversized
    <3>3. QED
      BY <3>1, <3>2
  <2> HIDE DEF n
  <2>5. client'[c] = n /\ up'[c] = Append(up[c], told)
    BY <1>1, <2>1
  <2>6. up' \in [Clients -> Seq(KnownMessage)]
    <3>1. Append(up[c], told) \in Seq(KnownMessage)
      BY <1>1, <2>3, AppendProperties
    <3>2. QED
      BY <1>1, <2>1, <3>1
  <2>7. ClientEventEffect(e, k, client'[c], up[c], up'[c])
    BY <1>5, <1>6, <2>4, <2>5 DEF ClientEventEffect, rest, told
  <2>8. QED
    BY <1>2, <2>1, <2>4, <2>5, <2>6, <2>7
<1>7. CASE e.kind = "sending"
  <2> DEFINE told == Msg("data", e.seq, e.data)
  <2>1. /\ up' = [up EXCEPT ![c] = Append(up[c], told)]
        /\ client' = [client EXCEPT ![c] = j]
    BY <1>7 DEF ClientEvent, j, rest
  <2>2. told \in KnownMessage
    BY <1>2 DEF Msg, Message, KnownMessage, KnownRaised, Raised, Known
  <2> HIDE DEF told
  <2>3. client'[c] = j /\ up'[c] = Append(up[c], told)
    BY <1>1, <2>1
  <2>4. up' \in [Clients -> Seq(KnownMessage)]
    <3>1. Append(up[c], told) \in Seq(KnownMessage)
      BY <1>1, <2>2, AppendProperties
    <3>2. QED
      BY <1>1, <2>1, <3>1
  <2>5. ClientEventEffect(e, k, client'[c], up[c], up'[c])
    BY <1>5, <1>7, <2>3 DEF ClientEventEffect, rest, told
  <2>6. QED
    BY <1>2, <1>5, <2>1, <2>3, <2>4, <2>5
<1>8. QED
  BY <1>2, <1>6, <1>7 DEF KnownRaised, Raised

\* The loss of a connection leaves every event in its place.
Orphaned(c) ==
    [i \in DOMAIN events |->
        IF events[i].who = c THEN Event("orphan", c, 0, Nothing) ELSE events[i]]

LEMMA OrphanedKnown ==
    ASSUME StateInv, NEW c \in Clients
    PROVE  /\ Orphaned(c) \in Seq(KnownEvent) /\ Len(Orphaned(c)) = Len(events)
           /\ \A i \in 1 .. Len(events) :
                 Orphaned(c)[i] = IF events[i].who = c THEN Event("orphan", c, 0, Nothing)
                                  ELSE events[i]
<1> USE Bounds
<1>1. /\ events \in Seq(KnownEvent) /\ Len(events) \in Nat /\ DOMAIN events = 1 .. Len(events)
      /\ \A i \in 1 .. Len(events) : events[i] \in KnownEvent
  BY LenProperties DEF StateInv
<1>2. Event("orphan", c, 0, Nothing) \in KnownEvent
  <2>1. Oversized \subseteq 1 .. MaxCopies
    BY ClipboardAssumption DEF StateInv, Scenario, Oversized
  <2>2. server.seqNum \in Nat
    BY DEF StateInv, ServerType
  <2>3. 0 <= server.seqNum
    BY <2>2
  <2>4. QED
    BY <2>1, <2>3 DEF Event, EventType, KnownEvent, Known, Nothing
<1>3. Orphaned(c) \in [1 .. Len(events) -> KnownEvent]
  BY <1>1, <1>2 DEF Orphaned
<1>4. QED
  BY <1>1, <1>3 DEF Orphaned

LEMMA StateElsewhere ==
    ASSUME StateInv, UNCHANGED scenario,
           \/ \E c \in Clients : ClientReceive(c) \/ ClientEvent(c)
           \/ \E s \in Screens : Copy(s) \/ onClipboardChange(s)
           \/ \E c \in Clients : Connect(c)
    PROVE  StateInv'
<1> USE Bounds
<1>1. /\ server.seqNum \in Nat /\ client \in [Clients -> ClientType]
      /\ \A c \in Clients : KnownClient(client[c])
      /\ screen \in [Screens -> ScreenType] /\ events \in Seq(KnownEvent)
      /\ down \in [Clients -> Seq(KnownMessage)] /\ up \in [Clients -> Seq(KnownMessage)]
      /\ connected \subseteq Clients /\ copies \in 0 .. MaxCopies
  BY DEF StateInv, ServerType, KnownClient
<1>2. Nothing \notin Oversized /\ 0 <= server.seqNum
  <2>1. Oversized \subseteq 1 .. MaxCopies
    BY ClipboardAssumption DEF StateInv, Scenario, Oversized
  <2>2. QED
    BY <1>1, <2>1 DEF Nothing
<1>3. ASSUME NEW c \in Clients, NEW k, KnownClient(k), client' = [client EXCEPT ![c] = k]
      PROVE  /\ client' \in [Clients -> ClientType]
             /\ \A d \in Clients : client'[d].seqNum <= server.seqNum
                                  /\ client'[d].events \in Seq(KnownRaised)
  BY <1>1, <1>3 DEF KnownClient
<1>4. ASSUME NEW c \in Clients, ClientReceive(c) PROVE StateInv'
  <2>1. /\ Tail(down[c]) \in Seq(KnownMessage) /\ KnownClient(client'[c])
        /\ client' = [client EXCEPT ![c] = client'[c]] /\ ScreenOf(c)
    BY <1>4, ReceiveDoes
  <2>2. down' \in [Clients -> Seq(KnownMessage)]
    BY <1>1, <1>4, <2>1 DEF ClientReceive
  <2>3. QED
    BY <1>1, <1>3, <1>4, <2>1, <2>2, ElsewhereKept DEF ClientReceive, ScreenOf
<1>5. ASSUME NEW c \in Clients, ClientEvent(c) PROVE StateInv'
  <2>1. /\ KnownClient(client'[c]) /\ client' = [client EXCEPT ![c] = client'[c]]
        /\ up' \in [Clients -> Seq(KnownMessage)]
    BY <1>5, ClientEventDoes
  <2>2. QED
    BY <1>1, <1>3, <1>5, <2>1, ElsewhereKept DEF ClientEvent
<1>6. ASSUME NEW s \in Screens, Copy(s) PROVE StateInv'
  <2>1. copies + 1 \in 0 .. MaxCopies /\ copies + 1 \in Contents
    <3>1. copies \in 0 .. MaxCopies /\ copies < MaxCopies /\ MaxCopies \in Nat
      BY <1>1, <1>6, ClipboardAssumption DEF Copy
    <3>2. QED
      BY <3>1 DEF Contents
  <2>2. screen' \in [Screens -> ScreenType]
    <3>1. [screen[s] EXCEPT !.board = copies + 1, !.ours = FALSE, !.notice = TRUE] \in ScreenType
      BY <1>1, <2>1 DEF ScreenType
    <3>2. screen' = [screen EXCEPT ![s] = [screen[s] EXCEPT !.board = copies + 1, !.ours = FALSE,
                                                            !.notice = TRUE]]
      BY <1>1, <1>6 DEF Copy, ScreenType
    <3>3. QED
      BY <1>1, <3>1, <3>2
  <2>3. /\ UNCHANGED <<server, events, connected, down, up, client>> /\ copies' = copies + 1
    BY <1>6 DEF Copy
  <2>4. QED
    BY <1>1, <2>1, <2>2, <2>3, ElsewhereKept DEF KnownClient
<1>7. ASSUME NEW s \in Screens, onClipboardChange(s) PROVE StateInv'
  <2>1. screen' \in [Screens -> ScreenType]
    <3>1. [screen[s] EXCEPT !.notice = FALSE, !.own = screen[s].ours] \in ScreenType
      BY <1>1 DEF ScreenType
    <3>2. screen' = [screen EXCEPT ![s] = [screen[s] EXCEPT !.notice = FALSE, !.own = screen[s].ours]]
      BY <1>1, <1>7 DEF onClipboardChange, ScreenType
    <3>3. QED
      BY <1>1, <3>1, <3>2
  <2>2. events' \in Seq(KnownEvent)
    <3>1. Event("grabbed", Primary, server.primarySeq, Nothing) \in KnownEvent
      BY <1>2 DEF Event, EventType, KnownEvent, Known, StateInv, ServerType
    <3>2. Append(events, Event("grabbed", Primary, server.primarySeq, Nothing)) \in Seq(KnownEvent)
      BY ONLY <1>1, <3>1, AppendProperties
    <3>3. QED
      BY <1>1, <1>7, <3>2 DEF onClipboardChange
  <2>3. /\ client' \in [Clients -> ClientType]
        /\ \A d \in Clients : client'[d].seqNum <= server.seqNum
                             /\ client'[d].events \in Seq(KnownRaised)
    <3>1. CASE UNCHANGED client
      BY <1>1, <3>1 DEF KnownClient
    <3>2. CASE s # Primary /\ client' = [client EXCEPT ![s] = raised(client[s])]
      <4>1. s \in Clients
        BY <3>2 DEF Screens
      <4>2. KnownClient(raised(client[s]))
        BY <1>1, <1>2, <4>1, RaisedKnown
      <4>3. QED
        BY <1>3, <3>2, <4>1, <4>2
    <3>3. QED
      BY <1>7, <3>1, <3>2 DEF onClipboardChange
  <2>4. UNCHANGED <<server, connected, down, up, copies>>
    BY <1>7 DEF onClipboardChange
  <2>5. QED
    BY <1>1, <2>1, <2>2, <2>3, <2>4, ElsewhereKept
<1>8. ASSUME NEW c \in Clients, Connect(c) PROVE StateInv'
  <2> DEFINE k == [client[c] EXCEPT !.seqNum = 0, !.own = FALSE, !.sent = FALSE]
  <2>1. KnownClient(k)
    BY <1>1, <1>2 DEF KnownClient, ClientType
  <2>2. client' = [client EXCEPT ![c] = k]
    BY <1>1, <1>8 DEF Connect, ClientType
  <2>3. screen' \in [Screens -> ScreenType]
    <3>1. Written(screen[c], Nothing) \in ScreenType
      BY <1>1, WrittenType
    <3>2. QED
      BY <1>1, <1>8, <3>1 DEF Connect
  <2>4. UNCHANGED <<server, events, down, up, copies>> /\ connected' \subseteq Clients
    BY <1>1, <1>8 DEF Connect
  <2> HIDE DEF k
  <2>5. QED
    BY <1>1, <1>3, <2>1, <2>2, <2>3, <2>4, ElsewhereKept
<1>9. QED
  BY <1>4, <1>5, <1>6, <1>7, <1>8

LEMMA StateLost ==
    ASSUME StateInv, UNCHANGED scenario, NEW c \in Clients, Disconnect(c)
    PROVE  StateInv' /\ events' = Orphaned(c)
<1> USE Bounds
<1> DEFINE rest == freshProxy(server, c)
<1>1. rest \in ServerType /\ SameCourse(rest, server)
  <2>1. /\ server \in ServerType /\ [server.dirty EXCEPT ![c] = TRUE] \in [Screens -> BOOLEAN]
        /\ [server.buffer EXCEPT ![c] = Nothing] \in [Clients -> Contents]
    BY DEF StateInv, ServerType
  <2>2. rest = [server EXCEPT !.dirty = [server.dirty EXCEPT ![c] = TRUE],
                              !.buffer = [server.buffer EXCEPT ![c] = Nothing]]
    BY <2>1 DEF freshProxy, ServerType
  <2>3. QED
    BY <2>1, <2>2 DEF ServerType, SameCourse
<1>2. server' = rest \/ server' = [rest EXCEPT !.active = Primary, !.primarySeq = rest.seqNum]
  BY DEF Disconnect
<1> HIDE DEF rest
<1>3. /\ server' \in ServerType /\ server'.seqNum = server.seqNum /\ server'.clipSeq = server.clipSeq
      /\ server'.primarySeq \in {server.primarySeq, server.seqNum}
  BY <1>1, <1>2 DEF ServerType, SameCourse
<1>4. server'.clipSeq <= server'.seqNum /\ server'.primarySeq <= server'.seqNum
  <2>1. /\ server.seqNum \in Nat /\ server.clipSeq <= server.seqNum
        /\ server.primarySeq <= server.seqNum
    BY DEF StateInv, ServerType
  <2>2. server.seqNum <= server.seqNum
    BY <2>1
  <2>3. QED
    BY <1>3, <2>1, <2>2
<1>5. KnownEvent = KnownEvent' /\ KnownMessage = KnownMessage' /\ KnownRaised = KnownRaised'
  BY <1>3 DEF KnownEvent, KnownMessage, KnownRaised, Known, Oversized
<1>6. events' = Orphaned(c) /\ events' \in Seq(KnownEvent)
  BY OrphanedKnown DEF Disconnect, Orphaned
<1>7. /\ <<>> \in Seq(KnownMessage) /\ <<>> \in Seq(KnownRaised) /\ <<>> \in Seq(Raised)
  OBVIOUS
<1>8. /\ down' \in [Clients -> Seq(KnownMessage)] /\ up' \in [Clients -> Seq(KnownMessage)]
  BY <1>7 DEF Disconnect, StateInv
<1>9. /\ client' \in [Clients -> ClientType]
      /\ \A d \in Clients : client'[d].seqNum <= server.seqNum
                           /\ client'[d].events \in Seq(KnownRaised)
  <2>1. client' = [client EXCEPT ![c] = [client[c] EXCEPT !.events = <<>>]]
    BY DEF Disconnect
  <2>2. /\ [client[c] EXCEPT !.events = <<>>] \in ClientType
        /\ [client[c] EXCEPT !.events = <<>>].seqNum = client[c].seqNum
        /\ [client[c] EXCEPT !.events = <<>>].events = <<>>
    BY <1>7 DEF StateInv, ClientType, Raised
  <2>3. QED
    BY <1>7, <2>1, <2>2 DEF StateInv
<1>10. screen' \in [Screens -> ScreenType]
  <2>1. PICK own \in {screen[c].own, screen[c].own /\ screen[c].ours} :
           screen' = [screen EXCEPT ![c] = [screen[c] EXCEPT !.own = own, !.notice = FALSE]]
    BY DEF Disconnect, StateInv, ScreenType
  <2>2. own \in BOOLEAN /\ screen[c] \in ScreenType
    BY <2>1 DEF StateInv, ScreenType
  <2>3. [screen[c] EXCEPT !.own = own, !.notice = FALSE] \in ScreenType
    BY <2>2 DEF ScreenType
  <2>4. QED
    BY <2>1, <2>3 DEF StateInv
<1>11. connected' \subseteq Clients /\ UNCHANGED <<copies, scenario>>
  BY DEF Disconnect, StateInv
<1>12. QED
  BY <1>3, <1>4, <1>5, <1>6, <1>8, <1>9, <1>10, <1>11 DEF StateInv

LEMMA StateNext == StateInv /\ [Next]_vars => StateInv'
<1> SUFFICES ASSUME StateInv, [Next]_vars PROVE StateInv'
  OBVIOUS
<1>1. CASE UNCHANGED vars
  BY <1>1 DEF vars, StateInv, KnownEvent, KnownMessage, KnownRaised, Known, Oversized
<1>2. CASE Next
  BY <1>2, StateServer, StateElsewhere, StateLost DEF Next
<1>3. QED
  BY <1>1, <1>2

LEMMA StateAlways == Spec => []StateInv
  BY StateInit, StateNext, PTL DEF Spec

------------------------------------------------------------------------------
(* Where a client believes the cursor to be.  The moves it has not heard of are in what *)
(* the server wrote to it, and the last of them is the truth.                           *)

Moves == {"enter", "leave"}

\* The last move in q is m; where q has none, what it would say is known already.
EndsIn(q, m, known) ==
    \/ \E i \in 1 .. Len(q) :
          /\ q[i] = m
          /\ \A j \in 1 .. Len(q) : j > i => q[j].kind \notin Moves
    \/ known /\ \A i \in 1 .. Len(q) : q[i].kind \notin Moves

LEMMA EndsInOther ==
    ASSUME NEW q \in Seq(Message), NEW m, NEW known \in BOOLEAN, EndsIn(q, m, known),
           NEW e \in Message, e.kind \notin Moves
    PROVE  EndsIn(Append(q, e), m, known)
<1>1. /\ Len(q) \in Nat /\ Len(Append(q, e)) = Len(q) + 1 /\ Append(q, e)[Len(q) + 1] = e
      /\ \A i \in 1 .. Len(q) : Append(q, e)[i] = q[i]
  BY LenProperties, AppendProperties
<1>2. ASSUME NEW i \in 1 .. Len(q) + 1, i \notin 1 .. Len(q) PROVE i = Len(q) + 1
  BY <1>1, <1>2
<1>3. CASE known /\ \A i \in 1 .. Len(q) : q[i].kind \notin Moves
  BY <1>1, <1>2, <1>3 DEF EndsIn
<1>4. ASSUME NEW i \in 1 .. Len(q), q[i] = m,
             \A j \in 1 .. Len(q) : j > i => q[j].kind \notin Moves
      PROVE  EndsIn(Append(q, e), m, known)
  <2>1. Append(q, e)[i] = m /\ i \in 1 .. Len(Append(q, e))
    BY <1>1, <1>4
  <2>2. ASSUME NEW j \in 1 .. Len(Append(q, e)), j > i PROVE Append(q, e)[j].kind \notin Moves
    BY <1>1, <1>2, <1>4, <2>2
  <2>3. QED
    BY <2>1, <2>2 DEF EndsIn
<1>5. QED
  BY <1>3, <1>4 DEF EndsIn

LEMMA EndsInMove ==
    ASSUME NEW q \in Seq(Message), NEW m \in Message, NEW known \in BOOLEAN
    PROVE  EndsIn(Append(q, m), m, known)
<1>1. /\ Len(q) \in Nat /\ Len(Append(q, m)) = Len(q) + 1 /\ Append(q, m)[Len(q) + 1] = m
  BY LenProperties, AppendProperties
<1>2. Len(q) + 1 \in 1 .. Len(Append(q, m))
  BY <1>1
<1>3. \A j \in 1 .. Len(Append(q, m)) : ~(j > Len(q) + 1)
  BY <1>1
<1>4. QED
  BY <1>1, <1>2, <1>3 DEF EndsIn

LEMMA EndsInTail ==
    ASSUME NEW q \in Seq(Message), q # <<>>, NEW m, NEW known \in BOOLEAN, EndsIn(q, m, known),
           NEW then \in BOOLEAN,
           Head(q).kind \notin Moves /\ known => then, Head(q) = m => then
    PROVE  EndsIn(Tail(q), m, then)
<1>1. /\ Len(q) \in Nat \ {0} /\ Len(Tail(q)) = Len(q) - 1 /\ Head(q) = q[1]
      /\ \A i \in 1 .. Len(q) - 1 : Tail(q)[i] = q[i + 1]
  BY LenProperties, HeadTailProperties
<1>2. \A i \in 1 .. Len(Tail(q)) : i + 1 \in 1 .. Len(q) /\ i \in Nat
  BY <1>1
<1>3. CASE known /\ \A i \in 1 .. Len(q) : q[i].kind \notin Moves
  <2>1. Head(q).kind \notin Moves
    BY <1>1, <1>3
  <2>2. QED
    BY <1>1, <1>2, <1>3, <2>1 DEF EndsIn
<1>4. ASSUME NEW i \in 1 .. Len(q), q[i] = m,
             \A j \in 1 .. Len(q) : j > i => q[j].kind \notin Moves
      PROVE  EndsIn(Tail(q), m, then)
  <2>1. ASSUME NEW j \in 1 .. Len(Tail(q)), j + 1 > i PROVE Tail(q)[j].kind \notin Moves
    BY <1>1, <1>2, <1>4, <2>1
  <2>2. CASE i = 1
    <3>1. then
      BY <1>1, <1>4, <2>2
    <3>2. \A j \in 1 .. Len(Tail(q)) : Tail(q)[j].kind \notin Moves
      BY <1>2, <2>1, <2>2
    <3>3. QED
      BY <3>1, <3>2 DEF EndsIn
  <2>3. CASE i # 1
    <3>1. i - 1 \in 1 .. Len(Tail(q)) /\ (i - 1) + 1 = i
      BY <1>1, <2>3
    <3>2. Tail(q)[i - 1] = m
      BY <1>1, <1>4, <3>1
    <3>3. \A j \in 1 .. Len(Tail(q)) : j > i - 1 => Tail(q)[j].kind \notin Moves
      BY <1>2, <2>1
    <3>4. QED
      BY <3>1, <3>2, <3>3 DEF EndsIn
  <2>4. QED
    BY <2>2, <2>3
<1>5. QED
  BY <1>3, <1>4 DEF EndsIn

\* The active screen is connected.
ActiveConnected == server.active \in connected \cup {Primary}

\* The client that has the cursor knows it, and the number of the move, or will hear of it.
Here(c) ==
    server.active = c =>
        EndsIn(down[c], EnterTold(server.seqNum),
               client[c].active /\ client[c].seqNum = server.seqNum)

\* So does one that has not, as long as no connection is lost ...
Away(c) == server.active # c => EndsIn(down[c], LeaveTold, ~client[c].active)

\* ... and what it owns was sent.
Sent(c) == client[c].own /\ ~client[c].active => client[c].sent

CourseInv ==
    /\ ActiveConnected
    /\ \A c \in Clients : Here(c)
    /\ NoLoss => \A c \in Clients : Away(c)
    /\ NoLoss /\ AllFit => \A c \in Clients : Sent(c)

LEMMA CourseInit == Init => CourseInv
<1> SUFFICES ASSUME Init PROVE CourseInv
  OBVIOUS
<1>1. ActiveConnected /\ \A c \in Clients : Here(c)
  BY Bounds DEF Init, ActiveConnected, Here
<1>2. ASSUME NEW c \in Clients PROVE Away(c) /\ Sent(c)
  <2>1. down[c] = <<>> /\ client[c].active = FALSE /\ client[c].own = FALSE
    BY DEF Init
  <2>2. QED
    BY <2>1 DEF Away, Sent, EndsIn
<1>3. QED
  BY <1>1, <1>2 DEF CourseInv

\* The server goes on with what it does and the cursor stays: it writes grabs and data.
CursorStays ==
    /\ server'.active = server.active /\ server'.seqNum = server.seqNum
    /\ \A c \in Clients :
          \/ down'[c] = down[c]
          \/ \E m \in Message : m.kind \notin Moves /\ down'[c] = Append(down[c], m)

LEMMA ServerCursorStays ==
    ASSUME StateInv, ServerEvent \/ \E c \in Clients : ServerReceive(c)
    PROVE  CursorStays
<1> USE Bounds
<1>1. CASE ServerEvent
  <2>1. /\ Popped \in State /\ Head(events) \in KnownEvent /\ Popped.server = server
        /\ Popped.down = down
    BY <1>1, PoppedState DEF ServerEvent
  <2>2. Now'.server = server' /\ Now'.down = down' /\ down \in [Clients -> Seq(KnownMessage)]
    BY DEF Now, StateInv
  <2>3. ServerEventEffect
    BY <1>1, ServerEventDoes
  <2>4. GrabTold \in Message /\ GrabTold.kind \notin Moves
    BY DEF GrabTold, Msg, Message, Moves
  <2>5. CASE Head(events).kind = "grabbed" /\ GrabbedEffect(Now', Popped, Head(events).who, Head(events).seq)
    <3>1. CASE Now' = Popped
      BY <2>1, <2>2, <3>1 DEF CursorStays
    <3>2. CASE Now' # Popped
      <4>1. /\ server'.active = server.active /\ server'.seqNum = server.seqNum
            /\ \A c \in Clients : down'[c] \in {down[c], Append(down[c], GrabTold)}
        BY <2>1, <2>2, <2>5, <3>2 DEF GrabbedEffect
      <4>2. QED
        BY <2>4, <4>1 DEF CursorStays
    <3>3. QED
      BY <3>1, <3>2
  <2>6. CASE Head(events).kind = "changed" /\ ChangedEffect(Now', Popped)
    BY <2>1, <2>2, <2>6 DEF ChangedEffect, SameCourse, CursorStays
  <2>7. CASE Head(events).kind = "sending"
             /\ Now' = Write(Popped, Head(events).who, Msg("data", 0, Head(events).data))
    <3> DEFINE told == Msg("data", 0, Head(events).data)
               d == Head(events).who
    <3>1. d \in Clients /\ told \in Message /\ told.kind \notin Moves
      BY <2>1, <2>7 DEF KnownEvent, EventType, Msg, Message, Moves
    <3>2. /\ Now'.down = [Popped.down EXCEPT ![d] = Append(@, told)] /\ Now'.server = Popped.server
      BY <2>1, <2>7, <3>1, WriteType
    <3> HIDE DEF told, d
    <3>3. \A c \in Clients : down'[c] = IF c = d THEN Append(down[c], told) ELSE down[c]
      BY <2>1, <2>2, <3>1, <3>2
    <3>4. QED
      BY <2>1, <2>2, <3>1, <3>2, <3>3 DEF CursorStays
  <2>8. CASE Head(events).kind = "orphan" /\ Now' = Popped
    BY <2>1, <2>2, <2>8 DEF CursorStays
  <2>9. QED
    BY <2>3, <2>5, <2>6, <2>7, <2>8 DEF ServerEventEffect
<1>2. ASSUME NEW c \in Clients, ServerReceive(c) PROVE CursorStays
  <2>1. server' = server \/ server' = [server EXCEPT !.buffer[c] = Head(up[c]).data]
    BY <1>2 DEF ServerReceive
  <2>2. server'.active = server.active /\ server'.seqNum = server.seqNum
    BY <2>1 DEF StateInv, ServerType
  <2>3. QED
    BY <1>2, <2>2 DEF CursorStays, ServerReceive
<1>3. QED
  BY <1>1, <1>2

LEMMA MessagesSeq ==
    ASSUME StateInv, NEW c \in Clients
    PROVE  /\ down[c] \in Seq(Message) /\ client[c] \in ClientType
           /\ client[c].active \in BOOLEAN
           /\ (client[c].active /\ client[c].seqNum = server.seqNum) \in BOOLEAN
           /\ (~client[c].active) \in BOOLEAN
  BY SeqWider DEF StateInv, KnownMessage, ClientType

\* The rest of the state, where the cursor and what is written to a client stay.
LEMMA CourseStays ==
    ASSUME StateInv, CourseInv, UNCHANGED scenario, CursorStays, connected \subseteq connected',
           \A c \in Clients :
               /\ client'[c].active = client[c].active
               /\ server.active = c => client'[c].seqNum = client[c].seqNum
               /\ NoLoss /\ AllFit => Sent(c)'
    PROVE  CourseInv'
<1>1. ASSUME NEW c \in Clients, NEW m \in Message, NEW known \in BOOLEAN, EndsIn(down[c], m, known)
      PROVE  EndsIn(down'[c], m, known)
  <2>1. down[c] \in Seq(Message)
    BY MessagesSeq
  <2>2. CASE down'[c] = down[c]
    BY <1>1, <2>2
  <2>3. ASSUME NEW n \in Message, n.kind \notin Moves, down'[c] = Append(down[c], n)
        PROVE  EndsIn(down'[c], m, known)
    BY <1>1, <2>1, <2>3, EndsInOther
  <2>4. QED
    BY <2>2, <2>3 DEF CursorStays
<1>2. LeaveTold \in Message /\ EnterTold(server.seqNum) \in Message
  BY Bounds DEF LeaveTold, EnterTold, Msg, Message, StateInv, ServerType
<1>3. server'.active = server.active /\ server'.seqNum = server.seqNum
  BY DEF CursorStays
<1>4. ASSUME NEW c \in Clients PROVE Here(c)'
  <2>1. CASE server.active = c
    <3>1. EndsIn(down[c], EnterTold(server.seqNum),
                 client[c].active /\ client[c].seqNum = server.seqNum)
      BY <2>1 DEF CourseInv, Here
    <3>2. EndsIn(down'[c], EnterTold(server.seqNum),
                 client[c].active /\ client[c].seqNum = server.seqNum)
      BY <1>1, <1>2, <3>1, MessagesSeq
    <3>3. (client[c].active /\ client[c].seqNum = server.seqNum) =
              (client'[c].active /\ client'[c].seqNum = server'.seqNum)
      BY <1>3, <2>1
    <3>4. QED
      BY <1>3, <3>2, <3>3 DEF Here
  <2>2. QED
    BY <1>3, <2>1 DEF Here
<1>5. ASSUME NoLoss, NEW c \in Clients PROVE Away(c)'
  <2>1. CASE server.active # c
    <3>1. EndsIn(down'[c], LeaveTold, ~client[c].active)
      BY <1>1, <1>2, <1>5, <2>1, MessagesSeq DEF CourseInv, Away
    <3>2. QED
      BY <1>3, <3>1 DEF Away
  <2>2. QED
    BY <1>3, <2>1 DEF Away
<1>6. ActiveConnected'
  BY <1>3 DEF CourseInv, ActiveConnected
<1>7. NoLoss' = NoLoss /\ AllFit' = AllFit
  BY DEF NoLoss, AllFit
<1>8. QED
  BY <1>4, <1>5, <1>6, <1>7 DEF CourseInv

LEMMA CourseServer ==
    ASSUME StateInv, CourseInv, UNCHANGED scenario,
           SwitchScreen \/ ServerEvent \/ \E c \in Clients : ServerReceive(c)
    PROVE  CourseInv'
<1> USE Bounds
<1>1. UNCHANGED <<connected, client>>
  BY DEF SwitchScreen, ServerEvent, ServerReceive
<1>2. CASE ServerEvent \/ \E c \in Clients : ServerReceive(c)
  <2>1. CursorStays
    BY <1>2, ServerCursorStays
  <2>2. \A c \in Clients : NoLoss /\ AllFit => Sent(c)'
    BY <1>1 DEF CourseInv, Sent
  <2>3. QED
    BY <1>1, <2>1, <2>2, CourseStays
<1>3. CASE SwitchScreen
  <2>1. PICK dst \in (connected \cup {Primary}) \ {server.active} : SwitchEffect(Now', Now, dst)
    BY <1>3, SwitchDoes
  <2>2. /\ server'.active = dst /\ server'.seqNum = server.seqNum + 1 /\ server' \in ServerType
        /\ \A c \in Clients :
              down'[c] = IF c = server.active THEN Append(down[c], LeaveTold)
                         ELSE IF c = dst THEN Append(down[c], EnterTold(server.seqNum + 1))
                         ELSE down[c]
    BY <2>1 DEF SwitchEffect, Now, State
  <2>3. LeaveTold \in Message /\ EnterTold(server.seqNum + 1) \in Message
    BY <2>2 DEF LeaveTold, EnterTold, Msg, Message, ServerType
  <2>4. ASSUME NEW c \in Clients PROVE Here(c)'
    <3>1. CASE c = dst
      <4>1. down'[c] = Append(down[c], EnterTold(server.seqNum + 1))
        BY <2>1, <2>2, <3>1
      <4>2. /\ down[c] \in Seq(Message)
            /\ (client'[c].active /\ client'[c].seqNum = server'.seqNum) \in BOOLEAN
        BY <1>1, MessagesSeq
      <4>3. EndsIn(down'[c], EnterTold(server'.seqNum),
                   client'[c].active /\ client'[c].seqNum = server'.seqNum)
        BY <2>2, <2>3, <4>1, <4>2, EndsInMove
      <4>4. QED
        BY <4>3 DEF Here
    <3>2. QED
      BY <2>2, <3>1 DEF Here
  <2>5. ASSUME NoLoss, NEW c \in Clients PROVE Away(c)'
    <3>1. CASE c = server.active
      <4>1. down'[c] = Append(down[c], LeaveTold) /\ down[c] \in Seq(Message)
            /\ (~client[c].active) \in BOOLEAN
        BY <2>2, <3>1, MessagesSeq
      <4>2. EndsIn(down'[c], LeaveTold, ~client[c].active)
        BY <2>3, <4>1, EndsInMove
      <4>3. QED
        BY <1>1, <4>2 DEF Away
    <3>2. CASE c # server.active /\ c # dst
      <4>1. down'[c] = down[c] /\ Away(c)
        BY <2>2, <2>5, <3>2 DEF CourseInv
      <4>2. QED
        BY <1>1, <3>2, <4>1 DEF Away
    <3>3. QED
      BY <2>2, <3>1, <3>2 DEF Away
  <2>6. ActiveConnected'
    BY <1>1, <2>1, <2>2 DEF ActiveConnected
  <2>7. \A c \in Clients : NoLoss /\ AllFit => Sent(c)'
    BY <1>1 DEF CourseInv, Sent
  <2>8. NoLoss' = NoLoss /\ AllFit' = AllFit
    BY DEF NoLoss, AllFit
  <2>9. QED
    BY <2>4, <2>5, <2>6, <2>7, <2>8 DEF CourseInv
<1>4. QED
  BY <1>2, <1>3

LEMMA CourseReceive ==
    ASSUME StateInv, CourseInv, UNCHANGED scenario, NEW c \in Clients, ClientReceive(c)
    PROVE  CourseInv'
<1> USE Bounds
<1> DEFINE m == Head(down[c])
<1>1. /\ m \in KnownMessage /\ client' = [client EXCEPT ![c] = client'[c]]
      /\ ReceiveEffect(m, client[c], client'[c], Raisable(c)) /\ KnownClient(client'[c])
  BY ReceiveDoes
<1>2. /\ UNCHANGED <<server, connected>> /\ down[c] # <<>>
      /\ down' = [down EXCEPT ![c] = Tail(down[c])]
  BY DEF ClientReceive
<1>3. /\ \A d \in Clients \ {c} : down'[d] = down[d] /\ client'[d] = client[d]
      /\ down'[c] = Tail(down[c])
  BY <1>1, <1>2 DEF StateInv
<1>4. /\ down[c] \in Seq(Message) /\ client[c].active \in BOOLEAN /\ client'[c].active \in BOOLEAN
  BY <1>1, MessagesSeq DEF KnownClient, ClientType
<1>5. \/ m.kind = "enter" /\ client'[c].active /\ client'[c].seqNum = m.seq
      \/ m.kind = "leave" /\ ~client'[c].active
      \/ m.kind \notin Moves /\ client'[c].active = client[c].active
            /\ client'[c].seqNum = client[c].seqNum
  BY <1>1 DEF ReceiveEffect, KnownMessage, Message, Moves
<1>6. Here(c)'
  <2> DEFINE told == EnterTold(server.seqNum)
             known == client[c].active /\ client[c].seqNum = server.seqNum
             then == client'[c].active /\ client'[c].seqNum = server.seqNum
  <2>1. CASE server.active = c
    <3>1. EndsIn(down[c], told, known)
      BY <2>1 DEF CourseInv, Here
    <3>2. m = told => then
      BY <1>5 DEF EnterTold, Msg, Moves
    <3>3. m.kind \notin Moves /\ known => then
      BY <1>5 DEF Moves
    <3>4. known \in BOOLEAN /\ then \in BOOLEAN
      BY <1>4
    <3> HIDE DEF known, then, told
    <3>5. EndsIn(Tail(down[c]), told, then)
      BY <1>2, <1>4, <3>1, <3>2, <3>3, <3>4, EndsInTail
    <3>6. QED
      BY <1>2, <1>3, <3>5 DEF Here, told, then
  <2>2. QED
    BY <1>2, <2>1 DEF Here
<1>7. NoLoss => Away(c)'
  <2> DEFINE known == ~client[c].active
             then == ~client'[c].active
  <2>1. CASE server.active # c /\ NoLoss
    <3>1. EndsIn(down[c], LeaveTold, known)
      BY <2>1 DEF CourseInv, Away
    <3>2. m = LeaveTold => then
      BY <1>5 DEF LeaveTold, Msg, Moves
    <3>3. m.kind \notin Moves /\ known => then
      BY <1>5 DEF Moves
    <3>4. known \in BOOLEAN /\ then \in BOOLEAN
      BY <1>4
    <3> HIDE DEF known, then
    <3>5. EndsIn(Tail(down[c]), LeaveTold, then)
      BY <1>2, <1>4, <3>1, <3>2, <3>3, <3>4, EndsInTail
    <3>6. QED
      BY <1>2, <1>3, <3>5 DEF Away, then
  <2>2. QED
    BY <1>2, <2>1 DEF Away
<1>8. NoLoss /\ AllFit => Sent(c)'
  BY <1>1 DEF ReceiveEffect, CourseInv, Sent, KnownMessage, Message
<1>9. ASSUME NEW d \in Clients, d # c
      PROVE  Here(d)' /\ (NoLoss => Away(d)') /\ (NoLoss /\ AllFit => Sent(d)')
  <2>1. down'[d] = down[d] /\ client'[d] = client[d]
    BY <1>3, <1>9
  <2>2. QED
    BY <1>2, <2>1 DEF CourseInv, Here, Away, Sent
<1>10. ActiveConnected' /\ NoLoss' = NoLoss /\ AllFit' = AllFit
  BY <1>2 DEF CourseInv, ActiveConnected, NoLoss, AllFit
<1>11. QED
  BY <1>6, <1>7, <1>8, <1>9, <1>10 DEF CourseInv

LEMMA CourseElsewhere ==
    ASSUME StateInv, CourseInv, UNCHANGED scenario,
           \/ \E c \in Clients : ClientEvent(c)
           \/ \E s \in Screens : Copy(s) \/ onClipboardChange(s)
           \/ \E c \in Clients : Connect(c)
    PROVE  CourseInv'
<1> USE Bounds
<1>1. UNCHANGED <<server, down>> /\ connected \subseteq connected'
  BY DEF ClientEvent, Copy, onClipboardChange, Connect
<1>2. CursorStays
  BY <1>1 DEF CursorStays
<1>3. ASSUME NEW c \in Clients, client' = [client EXCEPT ![c] = client'[c]],
             /\ client'[c].active = client[c].active
             /\ server.active = c => client'[c].seqNum = client[c].seqNum
             /\ NoLoss /\ AllFit => Sent(c)'
      PROVE  CourseInv'
  <2>1. ASSUME NEW d \in Clients, d # c PROVE client'[d] = client[d]
    BY <1>3, <2>1 DEF StateInv
  <2>2. \A d \in Clients :
           /\ client'[d].active = client[d].active
           /\ server.active = d => client'[d].seqNum = client[d].seqNum
           /\ NoLoss /\ AllFit => Sent(d)'
    BY <1>3, <2>1 DEF CourseInv, Sent
  <2>3. QED
    BY <1>1, <1>2, <2>2, CourseStays
<1>4. ASSUME NEW c \in Clients, ClientEvent(c) PROVE CourseInv'
  <2>1. /\ Head(client[c].events) \in KnownRaised
        /\ client' = [client EXCEPT ![c] = client'[c]]
        /\ ClientEventEffect(Head(client[c].events), client[c], client'[c], up[c], up'[c])
    BY <1>4, ClientEventDoes
  <2>2. client'[c].active = client[c].active /\ client'[c].seqNum = client[c].seqNum
    BY <2>1 DEF ClientEventEffect
  <2>3. NoLoss /\ AllFit => Sent(c)'
    BY <2>1, <2>2 DEF ClientEventEffect, CourseInv, Sent, KnownRaised, Raised
  <2>4. QED
    BY <1>3, <2>1, <2>2, <2>3
<1>5. CASE UNCHANGED client
  BY <1>1, <1>2, <1>5, CourseStays DEF CourseInv, Sent
<1>6. ASSUME NEW s \in Screens, onClipboardChange(s), ~UNCHANGED client PROVE CourseInv'
  <2>1. s \in Clients /\ client' = [client EXCEPT ![s] = raised(client[s])]
    BY <1>6 DEF onClipboardChange, Screens
  <2>2. /\ client'[s] = raised(client[s]) /\ client[s] \in ClientType
    BY <2>1 DEF StateInv
  <2>3. /\ client'[s].active = client[s].active /\ client'[s].seqNum = client[s].seqNum
        /\ client'[s].own = client[s].own /\ client'[s].sent = client[s].sent
    BY <2>2 DEF raised, ClientType
  <2>4. QED
    BY <1>3, <2>1, <2>2, <2>3 DEF CourseInv, Sent
<1>7. ASSUME NEW c \in Clients, Connect(c) PROVE CourseInv'
  <2>1. client'[c] = [client[c] EXCEPT !.seqNum = 0, !.own = FALSE, !.sent = FALSE]
    BY <1>7 DEF Connect, StateInv
  <2>2. client'[c].active = client[c].active /\ client'[c].own = FALSE
    BY <2>1 DEF StateInv, ClientType
  <2>3. server.active # c
    BY <1>7 DEF Connect, CourseInv, ActiveConnected
  <2>4. client' = [client EXCEPT ![c] = client'[c]]
    BY <1>7, <2>1 DEF Connect
  <2>5. QED
    BY <1>3, <2>2, <2>3, <2>4 DEF Sent
<1>8. QED
  BY <1>4, <1>5, <1>6, <1>7 DEF Copy

LEMMA CourseLost ==
    ASSUME StateInv, CourseInv, UNCHANGED scenario, NEW c \in Clients, Disconnect(c)
    PROVE  CourseInv'
<1> USE Bounds
<1>1. ~NoLoss /\ NoLoss' = NoLoss /\ AllFit' = AllFit
  BY DEF Disconnect, NoLoss, AllFit
<1>2. /\ connected' = connected \ {c}
      /\ \A d \in Clients \ {c} : down'[d] = down[d] /\ client'[d] = client[d]
  BY DEF Disconnect, StateInv
<1>3. /\ server'.active = IF server.active = c THEN Primary ELSE server.active
      /\ server'.seqNum = server.seqNum
  BY DEF Disconnect, freshProxy, StateInv, ServerType
<1>4. ASSUME NEW d \in Clients PROVE Here(d)'
  <2>1. CASE server'.active = d
    <3>1. server.active = d /\ d # c
      BY <1>3, <2>1
    <3>2. QED
      BY <1>2, <1>3, <3>1 DEF CourseInv, Here
  <2>2. QED
    BY <2>1 DEF Here
<1>5. ActiveConnected'
  BY <1>2, <1>3 DEF CourseInv, ActiveConnected
<1>6. QED
  BY <1>1, <1>4, <1>5 DEF CourseInv

LEMMA CourseNext == StateInv /\ CourseInv /\ [Next]_vars => CourseInv'
<1> SUFFICES ASSUME StateInv, CourseInv, [Next]_vars PROVE CourseInv'
  OBVIOUS
<1>1. CASE UNCHANGED vars
  BY <1>1 DEF vars, CourseInv, ActiveConnected, Here, Away, Sent, NoLoss, AllFit
<1>2. CASE Next
  BY <1>2, CourseServer, CourseReceive, CourseElsewhere, CourseLost DEF Next
<1>3. QED
  BY <1>1, <1>2

LEMMA CourseAlways == Spec => []CourseInv
<1>1. Init => CourseInv
  BY CourseInit
<1>2. StateInv /\ CourseInv /\ [Next]_vars => CourseInv'
  BY CourseNext
<1>3. QED
  BY <1>1, <1>2, StateAlways, PTL DEF Spec

LEMMA SentEnough == StateInv /\ CourseInv => OwnerSent
<1> SUFFICES ASSUME CourseInv, NoLoss, AllFit, NEW c \in Clients,
                    client[c].own, server.active # c, down[c] = <<>>
             PROVE  client[c].sent
  BY DEF OwnerSent, InactiveOwnerSent, StateInv
<1>1. EndsIn(down[c], LeaveTold, ~client[c].active)
  BY DEF CourseInv, Away
<1>2. QED
  BY <1>1 DEF CourseInv, Sent, EndsIn

------------------------------------------------------------------------------
(* How a client's moves and what it is told follow one another in what was written to it. *)

\* The enters in q come in their order, and none before move n.
Rising(q, n) ==
    \A i \in 1 .. Len(q) : q[i].kind = "enter" =>
        /\ n <= q[i].seq
        /\ \A j \in 1 .. Len(q) : q[j].kind = "enter" /\ i <= j => q[i].seq <= q[j].seq

\* A client at move n that reads q comes to move s, before it reads what is at i.
Reached(q, n, s, i) ==
    n >= s \/ \E j \in 1 .. Len(q) : j < i /\ q[j].kind = "enter" /\ q[j].seq >= s

Reaches(q, n, s) == n >= s \/ \E j \in 1 .. Len(q) : q[j].kind = "enter" /\ q[j].seq >= s

Telling == {"grab", "data"}

\* From move s on it is told that it does not own the clipboard.
ToldIn(q, n, s) == \E i \in 1 .. Len(q) : q[i].kind \in Telling /\ Reached(q, n, s, i)

\* Where reading the first message of q brings a client that is at move n.
Next1(q, n) == IF Head(q).kind = "enter" THEN Head(q).seq ELSE n

LEMMA MessageAppend ==
    ASSUME NEW q \in Seq(Message), NEW m \in Message
    PROVE  /\ Append(q, m) \in Seq(Message) /\ Len(q) \in Nat /\ Len(Append(q, m)) = Len(q) + 1
           /\ Append(q, m)[Len(q) + 1] = m
           /\ \A i \in 1 .. Len(q) : Append(q, m)[i] = q[i] /\ q[i] \in Message /\ i \in Nat
           /\ \A i \in 1 .. Len(q) + 1 : i \in 1 .. Len(q) \/ i = Len(q) + 1
           /\ Len(q) + 1 \in 1 .. Len(q) + 1
  BY LenProperties, AppendProperties

LEMMA MessageTail ==
    ASSUME NEW q \in Seq(Message), q # <<>>
    PROVE  /\ Tail(q) \in Seq(Message) /\ Head(q) = q[1] /\ Head(q) \in Message
           /\ Len(q) \in Nat /\ Len(Tail(q)) \in Nat /\ Len(q) = Len(Tail(q)) + 1
           /\ \A i \in 1 .. Len(Tail(q)) : Tail(q)[i] = q[i + 1] /\ i + 1 \in 1 .. Len(q) /\ i \in Nat
           /\ \A i \in 1 .. Len(q) : i = 1 \/ (i - 1 \in 1 .. Len(Tail(q)) /\ Tail(q)[i - 1] = q[i])
           /\ \A i \in 1 .. Len(q) : q[i] \in Message /\ i \in Nat
<1>1. /\ Tail(q) \in Seq(Message) /\ Head(q) = q[1] /\ Len(q) \in Nat \ {0}
      /\ Len(Tail(q)) = Len(q) - 1 /\ \A i \in 1 .. Len(Tail(q)) : Tail(q)[i] = q[i + 1]
      /\ \A i \in 1 .. Len(q) : q[i] \in Message /\ i \in Nat
  BY LenProperties, HeadTailProperties
<1>2. ASSUME NEW i \in 1 .. Len(q), i # 1
      PROVE  i - 1 \in 1 .. Len(Tail(q)) /\ Tail(q)[i - 1] = q[i]
  <2>1. i - 1 \in 1 .. Len(Tail(q)) /\ (i - 1) + 1 = i
    BY <1>1, <1>2
  <2>2. QED
    BY <1>1, <2>1
<1>3. QED
  BY <1>1, <1>2

LEMMA MessageSeq == \A m \in Message : m.seq \in Nat
  BY Bounds DEF Message

LEMMA RisingAppend ==
    ASSUME NEW q \in Seq(Message), NEW n \in Nat, Rising(q, n), NEW m \in Message,
           m.kind = "enter" => n <= m.seq /\ \A i \in 1 .. Len(q) : q[i].seq <= m.seq
    PROVE  Rising(Append(q, m), n)
<1> DEFINE r == Append(q, m)
<1>1. /\ Len(r) = Len(q) + 1 /\ Len(q) \in Nat /\ r[Len(q) + 1] = m
      /\ \A i \in 1 .. Len(q) : r[i] = q[i] /\ i \in Nat
      /\ \A i \in 1 .. Len(q) + 1 : i \in 1 .. Len(q) \/ i = Len(q) + 1
  BY MessageAppend
<1>2. m.seq <= m.seq
  BY MessageSeq
<1> HIDE DEF r
<1> SUFFICES ASSUME NEW i \in 1 .. Len(q) + 1, r[i].kind = "enter"
             PROVE  /\ n <= r[i].seq
                    /\ \A j \in 1 .. Len(q) + 1 : r[j].kind = "enter" /\ i <= j => r[i].seq <= r[j].seq
  BY <1>1 DEF Rising, r
<1>3. CASE i \in 1 .. Len(q)
  BY <1>1, <1>3 DEF Rising
<1>4. CASE i = Len(q) + 1
  BY <1>1, <1>2, <1>4
<1>5. QED
  BY <1>1, <1>3, <1>4

LEMMA RisingTail ==
    ASSUME NEW q \in Seq(Message), q # <<>>, NEW n \in Nat, Rising(q, n)
    PROVE  Rising(Tail(q), Next1(q, n)) /\ n <= Next1(q, n) /\ Next1(q, n) \in Nat
<1> DEFINE r == Tail(q)
<1>1. /\ Head(q) = q[1] /\ Head(q) \in Message /\ Len(q) = Len(r) + 1 /\ Len(r) \in Nat
      /\ \A i \in 1 .. Len(r) : r[i] = q[i + 1] /\ i + 1 \in 1 .. Len(q) /\ i \in Nat
  BY MessageTail
<1>2. 1 \in 1 .. Len(q) /\ Head(q).seq \in Nat
  BY <1>1, MessageSeq
<1> HIDE DEF r
<1>3. n <= Next1(q, n) /\ Next1(q, n) \in Nat
  BY <1>1, <1>2 DEF Rising, Next1
<1>4. ASSUME NEW i \in 1 .. Len(r), r[i].kind = "enter" PROVE Next1(q, n) <= r[i].seq
  BY <1>1, <1>2, <1>4 DEF Rising, Next1
<1>5. ASSUME NEW i \in 1 .. Len(r), r[i].kind = "enter",
             NEW j \in 1 .. Len(r), r[j].kind = "enter", i <= j
      PROVE  r[i].seq <= r[j].seq
  <2>1. i + 1 \in 1 .. Len(q) /\ j + 1 \in 1 .. Len(q) /\ i + 1 <= j + 1
    BY <1>1, <1>5
  <2>2. q[i + 1].seq <= q[j + 1].seq
    BY <1>1, <1>5, <2>1 DEF Rising
  <2>3. QED
    BY <1>1, <2>2
<1>6. QED
  BY <1>3, <1>4, <1>5 DEF Rising, r

LEMMA ReachesAppend ==
    ASSUME NEW q \in Seq(Message), NEW n \in Nat, NEW s \in Nat, NEW m \in Message
    PROVE  /\ Reaches(q, n, s) => Reaches(Append(q, m), n, s)
           /\ Reaches(Append(q, m), n, s) /\ ~Reaches(q, n, s) => m.kind = "enter" /\ m.seq >= s
           /\ m.kind = "enter" /\ m.seq >= s => Reaches(Append(q, m), n, s)
           /\ Reaches(q, n, s) /\ m.kind \in Telling => ToldIn(Append(q, m), n, s)
           /\ ToldIn(q, n, s) => ToldIn(Append(q, m), n, s)
<1> DEFINE r == Append(q, m)
<1>1. /\ Len(r) = Len(q) + 1 /\ Len(q) \in Nat /\ r[Len(q) + 1] = m
      /\ \A i \in 1 .. Len(q) : r[i] = q[i] /\ i \in Nat /\ i \in 1 .. Len(r) /\ i < Len(q) + 1
      /\ \A i \in 1 .. Len(q) + 1 : i \in 1 .. Len(q) \/ i = Len(q) + 1
      /\ Len(q) + 1 \in 1 .. Len(r)
  BY MessageAppend
<1> HIDE DEF r
<1>2. Reaches(q, n, s) => Reaches(r, n, s)
  BY <1>1 DEF Reaches
<1>3. Reaches(r, n, s) /\ ~Reaches(q, n, s) => m.kind = "enter" /\ m.seq >= s
  BY <1>1 DEF Reaches
<1>4. m.kind = "enter" /\ m.seq >= s => Reaches(r, n, s)
  BY <1>1 DEF Reaches
<1>5. Reaches(q, n, s) => Reached(r, n, s, Len(q) + 1)
  BY <1>1 DEF Reaches, Reached
<1>6. Reaches(q, n, s) /\ m.kind \in Telling => ToldIn(r, n, s)
  BY <1>1, <1>5 DEF ToldIn
<1>7. ASSUME NEW i \in 1 .. Len(q), Reached(q, n, s, i) PROVE Reached(r, n, s, i)
  BY <1>1, <1>7 DEF Reached
<1>8. ToldIn(q, n, s) => ToldIn(r, n, s)
  BY <1>1, <1>7 DEF ToldIn
<1>9. QED
  BY <1>2, <1>3, <1>4, <1>6, <1>8 DEF r

LEMMA ReachesTail ==
    ASSUME NEW q \in Seq(Message), q # <<>>, NEW n \in Nat, NEW s \in Nat, Rising(q, n)
    PROVE  /\ Reaches(q, n, s) <=> Reaches(Tail(q), Next1(q, n), s)
           /\ ToldIn(q, n, s) =>
                 ToldIn(Tail(q), Next1(q, n), s) \/ (Head(q).kind \in Telling /\ n >= s)
<1> DEFINE r == Tail(q)
           t == Next1(q, n)
<1>1. /\ Head(q) = q[1] /\ Head(q) \in Message /\ Len(q) = Len(r) + 1 /\ Len(r) \in Nat
      /\ \A i \in 1 .. Len(r) : r[i] = q[i + 1] /\ i + 1 \in 1 .. Len(q) /\ i \in Nat
      /\ \A i \in 1 .. Len(q) : i = 1 \/ (i - 1 \in 1 .. Len(r) /\ r[i - 1] = q[i])
      /\ \A i \in 1 .. Len(q) : i \in Nat
  BY MessageTail
<1>2. 1 \in 1 .. Len(q) /\ Head(q).seq \in Nat /\ n <= t /\ t \in Nat
  BY <1>1, MessageSeq, RisingTail
<1>3. Head(q).kind = "enter" => t = Head(q).seq
  BY DEF Next1
<1>4. Head(q).kind # "enter" => t = n
  BY DEF Next1
<1> HIDE DEF r, t
<1>5. Reaches(q, n, s) => Reaches(r, t, s)
  <2>1. n >= s => t >= s
    BY <1>2
  <2>2. ASSUME NEW j \in 1 .. Len(q), q[j].kind = "enter", q[j].seq >= s PROVE Reaches(r, t, s)
    <3>1. CASE j = 1
      BY <1>1, <1>3, <2>2, <3>1 DEF Reaches
    <3>2. CASE j # 1
      BY <1>1, <2>2, <3>2 DEF Reaches
    <3>3. QED
      BY <3>1, <3>2
  <2>3. QED
    BY <2>1, <2>2 DEF Reaches
<1>6. Reaches(r, t, s) => Reaches(q, n, s)
  <2>1. t >= s => Reaches(q, n, s)
    BY <1>1, <1>2, <1>3, <1>4 DEF Reaches
  <2>2. QED
    BY <1>1, <2>1 DEF Reaches
<1>7. ASSUME NEW i \in 1 .. Len(q), Reached(q, n, s, i), i # 1 PROVE Reached(r, t, s, i - 1)
  <2>1. n >= s => t >= s
    BY <1>2
  <2>2. ASSUME NEW j \in 1 .. Len(q), j < i, q[j].kind = "enter", q[j].seq >= s
        PROVE  Reached(r, t, s, i - 1)
    <3>1. CASE j = 1
      BY <1>1, <1>3, <2>2, <3>1 DEF Reached
    <3>2. CASE j # 1
      <4>1. j - 1 \in 1 .. Len(r) /\ r[j - 1] = q[j] /\ j - 1 < i - 1
        BY <1>1, <2>2, <3>2
      <4>2. QED
        BY <2>2, <4>1 DEF Reached
    <3>3. QED
      BY <3>1, <3>2
  <2>3. QED
    BY <1>7, <2>1, <2>2 DEF Reached
<1>8. ASSUME NEW i \in 1 .. Len(q), q[i].kind \in Telling, Reached(q, n, s, i)
      PROVE  ToldIn(r, t, s) \/ (Head(q).kind \in Telling /\ n >= s)
  <2>1. CASE i = 1
    <3>1. \A j \in 1 .. Len(q) : ~(j < 1)
      BY <1>1
    <3>2. n >= s
      BY <1>8, <2>1, <3>1 DEF Reached
    <3>3. QED
      BY <1>1, <1>8, <2>1, <3>2
  <2>2. CASE i # 1
    BY <1>1, <1>7, <1>8, <2>2 DEF ToldIn
  <2>3. QED
    BY <2>1, <2>2
<1>9. QED
  BY <1>5, <1>6, <1>8 DEF ToldIn, r, t

------------------------------------------------------------------------------
(* What is on its way belongs to connected clients, and is no newer than they are. *)

PastMessages(n) == {m \in Message : m.seq <= n}
PastRaised(n) == {e \in Raised : e.seq <= n}

\* An event that has a handler is of a connected client, from no later a move than its own,
\* and only a client's data comes as an event.
Attributed ==
    {e \in EventType :
        /\ e.kind # "orphan" /\ e.who \in Clients =>
               e.who \in connected /\ e.seq <= client[e.who].seqNum
        /\ e.kind = "changed" => e.who # Primary}

\* Nothing is left of a client that is not connected.
Fresh(c) ==
    c \notin connected =>
        /\ server.dirty[c] /\ down[c] = <<>> /\ up[c] = <<>>
        /\ client[c].events = <<>> /\ ~screen[c].notice

\* What a client wrote, or is about to, is from no later a move than its own.
Behind(c) ==
    /\ up[c] \in Seq(PastMessages(client[c].seqNum))
    /\ client[c].events \in Seq(PastRaised(client[c].seqNum))

CourierInv ==
    /\ events \in Seq(Attributed)
    /\ \A c \in Clients : Fresh(c) /\ Behind(c) /\ Rising(down[c], client[c].seqNum)

LEMMA PastMore ==
    ASSUME NEW n \in Nat, NEW t \in Nat, n <= t
    PROVE  PastMessages(n) \subseteq PastMessages(t) /\ PastRaised(n) \subseteq PastRaised(t)
<1>1. \A x \in SeqNums : x <= n => x <= t
  BY Bounds
<1>2. QED
  BY <1>1 DEF PastMessages, PastRaised, Message, Raised

LEMMA Numbers ==
    ASSUME StateInv
    PROVE  /\ server.seqNum \in Nat /\ server.clipSeq \in Nat /\ server.clipSeq <= server.seqNum
           /\ \A c \in Clients :
                 /\ client[c].seqNum \in Nat /\ 0 <= client[c].seqNum
                 /\ client[c].seqNum <= server.seqNum
                 /\ down[c] \in Seq(Message)
                 /\ \A i \in 1 .. Len(down[c]) : down[c][i].seq <= server.seqNum
                                                /\ down[c][i] \in Message
<1> USE Bounds
<1>1. server.seqNum \in Nat /\ server.clipSeq \in Nat /\ server.clipSeq <= server.seqNum
  BY DEF StateInv, ServerType
<1>2. ASSUME NEW c \in Clients
      PROVE  /\ client[c].seqNum \in Nat /\ 0 <= client[c].seqNum
             /\ client[c].seqNum <= server.seqNum
             /\ down[c] \in Seq(Message)
             /\ \A i \in 1 .. Len(down[c]) : down[c][i].seq <= server.seqNum
                                            /\ down[c][i] \in Message
  <2>1. client[c].seqNum \in Nat /\ client[c].seqNum <= server.seqNum
    BY DEF StateInv, ClientType
  <2>2. down[c] \in Seq(KnownMessage)
    BY DEF StateInv
  <2>3. \A i \in 1 .. Len(down[c]) : down[c][i] \in KnownMessage
    BY <2>2, LenProperties
  <2>4. 0 <= client[c].seqNum
    BY <2>1
  <2>5. QED
    BY <2>1, <2>3, <2>4, MessagesSeq DEF KnownMessage, Known
<1>3. QED
  BY <1>1, <1>2

LEMMA CourierInit == Init => CourierInv
<1> SUFFICES ASSUME Init PROVE CourierInv
  OBVIOUS
<1>1. <<>> \in Seq(Attributed)
  OBVIOUS
<1>2. ASSUME NEW c \in Clients
      PROVE  Fresh(c) /\ Behind(c) /\ Rising(down[c], client[c].seqNum)
  <2>1. <<>> \in Seq(PastMessages(client[c].seqNum)) /\ <<>> \in Seq(PastRaised(client[c].seqNum))
    OBVIOUS
  <2>2. down[c] = <<>> /\ up[c] = <<>> /\ client[c].events = <<>> /\ ~screen[c].notice
    BY Bounds DEF Init
  <2>3. server.dirty[c]
    BY Bounds DEF Init
  <2>4. QED
    BY <2>1, <2>2, <2>3 DEF Fresh, Behind, Rising
<1>3. QED
  BY <1>1, <1>2 DEF CourierInv, Init

\* The server's steps leave the clients alone.
LEMMA CourierKept ==
    ASSUME CourierInv, UNCHANGED <<connected, client>>,
           events' \in Seq(Attributed),
           \A c \in Clients :
               /\ up'[c] \in Seq(PastMessages(client[c].seqNum))
               /\ Rising(down'[c], client[c].seqNum)
               /\ c \notin connected =>
                     /\ server'.dirty[c] /\ down'[c] = down[c] /\ up'[c] = up[c]
                     /\ screen'[c] = screen[c]
    PROVE  CourierInv'
<1>1. Attributed' = Attributed
  BY DEF Attributed
<1>2. ASSUME NEW c \in Clients PROVE Fresh(c)' /\ Behind(c)' /\ Rising(down'[c], client'[c].seqNum)
  <2>1. Fresh(c)'
    BY DEF CourierInv, Fresh
  <2>2. Behind(c)'
    BY DEF CourierInv, Behind
  <2>3. QED
    BY <2>1, <2>2
<1>3. QED
  BY <1>1, <1>2 DEF CourierInv

LEMMA CourierSwitch ==
    ASSUME StateInv, CourseInv, CourierInv, SwitchScreen
    PROVE  CourierInv'
<1> USE Bounds
<1>1. PICK dst \in (connected \cup {Primary}) \ {server.active} :
         SwitchEffect(Now', Now, dst) /\ SwitchGift(Now', Now, dst)
  BY SwitchDoes
<1>2. UNCHANGED <<connected, up, client, copies>>
  BY DEF SwitchScreen
<1>3. /\ Longer(events, events', Added(Now, dst)) /\ events' \in Seq(EventType)
      /\ server' \in ServerType
      /\ server'.seqNum = server.seqNum + 1
      /\ \A c \in Clients :
            down'[c] = IF c = server.active THEN Append(down[c], LeaveTold)
                       ELSE IF c = dst THEN Append(down[c], EnterTold(server.seqNum + 1))
                       ELSE down[c]
      /\ \A c \in Clients : screen'[c] = screen[c]
  BY <1>1 DEF SwitchEffect, ScreensKept, Now, State
<1>4. \A c \in Clients \ {dst} : server.dirty[c] => server'.dirty[c]
  BY <1>1 DEF SwitchGift, DirtyKept, Now
<1>5. events' \in Seq(Attributed)
  <2>1. Added(Now, dst) \subseteq Attributed
    <3>1. Sendings(dst) \subseteq Attributed
      <4>1. \A e \in Sendings(dst) : e \in EventType /\ e.who = dst /\ e.seq = 0 /\ e.kind = "sending"
        BY DEF Sendings, EventType
      <4>2. \A c \in Clients : 0 <= client[c].seqNum
        BY Numbers
      <4>3. QED
        BY <1>1, <4>1, <4>2 DEF Attributed
    <3>2. PrimaryGrabs(Now) \subseteq Attributed
      <4>1. Event("grabbed", Primary, server.primarySeq, Nothing) \in EventType
        BY DEF Event, EventType, StateInv, ServerType
      <4>2. QED
        BY <4>1 DEF PrimaryGrabs, Attributed, Event, Now
    <3>3. QED
      BY <3>1, <3>2 DEF Added
  <2>2. QED
    BY <1>3, <2>1, LongerIn DEF CourierInv
<1>6. ASSUME NEW c \in Clients PROVE Rising(down'[c], client[c].seqNum)
  <2>1. /\ LeaveTold \in Message /\ LeaveTold.kind # "enter"
        /\ EnterTold(server.seqNum + 1) \in Message
        /\ EnterTold(server.seqNum + 1).seq = server.seqNum + 1
    BY <1>3 DEF LeaveTold, EnterTold, Msg, Message, ServerType
  <2>2. /\ client[c].seqNum <= server.seqNum + 1
        /\ \A i \in 1 .. Len(down[c]) : down[c][i].seq <= server.seqNum + 1
    BY Numbers, MessageSeq
  <2>3. /\ down[c] \in Seq(Message) /\ client[c].seqNum \in Nat /\ Rising(down[c], client[c].seqNum)
    BY Numbers DEF CourierInv
  <2>4. /\ Rising(Append(down[c], LeaveTold), client[c].seqNum)
        /\ Rising(Append(down[c], EnterTold(server.seqNum + 1)), client[c].seqNum)
    BY <2>1, <2>2, <2>3, RisingAppend
  <2>5. QED
    BY <1>3, <2>3, <2>4
<1>7. ASSUME NEW c \in Clients, c \notin connected
      PROVE  server'.dirty[c] /\ down'[c] = down[c] /\ screen'[c] = screen[c]
  BY <1>1, <1>3, <1>4, <1>7 DEF CourierInv, Fresh, CourseInv, ActiveConnected
<1>8. QED
  BY <1>2, <1>5, <1>6, <1>7, CourierKept DEF CourierInv, Behind

LEMMA CourierServer ==
    ASSUME StateInv, CourseInv, CourierInv, ServerEvent
    PROVE  CourierInv'
<1> USE Bounds
<1> DEFINE e == Head(events)
<1>1. UNCHANGED <<connected, up, client, copies>>
  BY DEF ServerEvent
<1>2. /\ e \in Attributed /\ Tail(events) \in Seq(Attributed) /\ e \in EventType
  BY HeadTailProperties DEF CourierInv, ServerEvent, Attributed
<1>3. /\ Popped \in State /\ Popped.server = server /\ Popped.events = Tail(events)
      /\ Popped.down = down /\ Popped.screen = screen
  BY PoppedState DEF ServerEvent
<1>4. ServerEventEffect /\ CursorStays
  BY ServerEventDoes, ServerCursorStays
<1>5. ASSUME NEW c \in Clients PROVE Rising(down'[c], client[c].seqNum)
  <2>1. /\ down[c] \in Seq(Message) /\ client[c].seqNum \in Nat /\ Rising(down[c], client[c].seqNum)
    BY Numbers DEF CourierInv
  <2>2. ASSUME NEW m \in Message, m.kind \notin Moves PROVE Rising(Append(down[c], m), client[c].seqNum)
    BY <2>1, <2>2, RisingAppend DEF Moves
  <2>3. QED
    BY <1>4, <2>1, <2>2 DEF CursorStays
<1>6. server.active \in connected \cup {Primary}
  BY DEF CourseInv, ActiveConnected
<1>7. Sendings(server.active) \subseteq Attributed
  <2>1. \A x \in Sendings(server.active) : /\ x \in EventType /\ x.who = server.active /\ x.seq = 0
                                           /\ x.kind = "sending"
    BY DEF Sendings, EventType
  <2>2. \A c \in Clients : 0 <= client[c].seqNum
    BY Numbers
  <2>3. QED
    BY <1>6, <2>1, <2>2 DEF Attributed
<1>8. ASSUME Now' \in State, Longer(Tail(events), events', Sendings(server.active)),
             \A c \in Clients \ connected :
                (server.dirty[c] => server'.dirty[c]) /\ down'[c] = down[c] /\ screen'[c] = screen[c]
      PROVE  CourierInv'
  <2>1. events' \in Seq(Attributed)
    <3>1. events' \in Seq(EventType)
      BY <1>8 DEF Now, State
    <3>2. QED
      BY <1>2, <1>7, <1>8, <3>1, LongerIn
  <2>2. QED
    BY <1>1, <1>5, <1>8, <2>1, CourierKept DEF CourierInv, Behind, Fresh
<1>9. Now'.server = server' /\ Now'.events = events' /\ Now'.down = down' /\ Now'.screen = screen'
  BY DEF Now
<1>10. CASE Now' = Popped
  <2>1. Longer(Tail(events), events', Sendings(server.active))
    BY <1>2, <1>3, <1>9, <1>10, LongerSame
  <2>2. QED
    BY <1>3, <1>8, <1>9, <1>10, <2>1
<1>11. CASE e.kind = "grabbed" /\ Now' # Popped
  <2>1. GrabbedEffect(Now', Popped, e.who, e.seq) /\ (e.who # Primary => ~(e.seq < server.clipSeq))
    BY <1>3, <1>4, <1>11 DEF ServerEventEffect, GrabbedEffect
  <2>2. GrabbedGift(Now', Popped, e.who)
    BY <1>4, <1>11, <2>1 DEF ServerEventEffect
  <2>3. /\ Now' \in State /\ Longer(Tail(events), events', Sendings(server.active))
        /\ \A c \in Clients : screen'[c] = screen[c]
    BY <1>3, <1>9, <1>11, <2>1 DEF GrabbedEffect, ScreensKept
  <2>4. ASSUME NEW c \in Clients \ connected PROVE server'.dirty[c] /\ down'[c] = down[c]
    <3>1. c # e.who
      BY <1>2, <1>11 DEF Attributed
    <3>2. QED
      BY <1>3, <1>6, <1>9, <2>2, <3>1 DEF GrabbedGift
  <2>5. QED
    BY <1>8, <2>3, <2>4
<1>12. CASE e.kind = "changed"
  <2>1. ChangedEffect(Now', Popped) /\ ChangedGift(Now', Popped, e.who, e.seq)
    BY <1>4, <1>12 DEF ServerEventEffect
  <2>2. /\ Now' \in State /\ Longer(Tail(events), events', Sendings(server.active))
        /\ \A c \in Clients : screen'[c] = screen[c] /\ down'[c] = down[c]
    BY <1>3, <1>9, <2>1 DEF ChangedEffect, ScreensKept
  <2>3. ASSUME NEW c \in Clients \ connected PROVE server.dirty[c] => server'.dirty[c]
    <3>1. c # e.who
      BY <1>2, <1>12 DEF Attributed
    <3>2. QED
      BY <1>3, <1>6, <1>9, <2>1, <3>1 DEF ChangedGift, DirtyKept
  <2>4. QED
    BY <1>8, <2>2, <2>3
<1>13. CASE e.kind = "sending"
  <2> DEFINE told == Msg("data", 0, e.data)
  <2>1. Now' = Write(Popped, e.who, told) /\ told \in Message /\ e.who \in connected /\ e.who \in Clients
    BY <1>2, <1>4, <1>13 DEF ServerEventEffect, EventType, Attributed, Msg, Message
  <2>2. /\ Now' \in State /\ Now'.down = [Popped.down EXCEPT ![e.who] = Append(@, told)]
        /\ Now'.server = Popped.server /\ Now'.events = Popped.events /\ Now'.screen = Popped.screen
    BY <1>3, <2>1, WriteType
  <2>3. Longer(Tail(events), events', Sendings(server.active))
    BY <1>2, <1>3, <1>9, <2>2, LongerSame
  <2>4. \A c \in Clients \ connected : down'[c] = down[c]
    BY <1>3, <1>9, <2>1, <2>2 DEF State
  <2>5. QED
    BY <1>3, <1>8, <1>9, <2>2, <2>3, <2>4
<1>14. QED
  BY <1>4, <1>10, <1>11, <1>12, <1>13 DEF ServerEventEffect

LEMMA CourierRead ==
    ASSUME StateInv, CourierInv, NEW c \in Clients, ServerReceive(c)
    PROVE  CourierInv'
<1> USE Bounds
<1> DEFINE m == Head(up[c])
           n == client[c].seqNum
<1>1. /\ UNCHANGED <<connected, down, client, screen, copies>> /\ up[c] # <<>>
      /\ up' = [up EXCEPT ![c] = Tail(@)]
  BY DEF ServerReceive
<1>2. m \in PastMessages(n) /\ Tail(up[c]) \in Seq(PastMessages(n)) /\ c \in connected
  BY <1>1, HeadTailProperties DEF CourierInv, Behind, Fresh
<1>3. events' \in Seq(Attributed)
  <2>1. \A k \in {"grabbed", "changed"} : Event(k, c, m.seq, Nothing) \in Attributed
    BY <1>2 DEF Event, EventType, Attributed, PastMessages, Message
  <2>2. PICK k \in {"grabbed", "changed"} : events' = Append(events, Event(k, c, m.seq, Nothing))
    BY DEF ServerReceive
  <2>3. QED
    BY <2>1, <2>2, AppendProperties DEF CourierInv
<1>4. server'.dirty = server.dirty
  <2>1. server' = server \/ server' = [server EXCEPT !.buffer[c] = m.data]
    BY DEF ServerReceive
  <2>2. QED
    BY <2>1 DEF StateInv, ServerType
<1>5. \A d \in Clients : up'[d] = IF d = c THEN Tail(up[c]) ELSE up[d]
  BY <1>1 DEF StateInv
<1>6. QED
  BY <1>1, <1>2, <1>3, <1>4, <1>5, CourierKept DEF CourierInv, Behind, Fresh

\* What a step of one client's leaves, as the others see it.
LEMMA CourierOf ==
    ASSUME CourierInv, NEW c \in Clients, UNCHANGED <<server, connected>>,
           events' \in Seq(Attributed'),
           \A d \in Clients \ {c} :
               /\ down'[d] = down[d] /\ up'[d] = up[d]
               /\ client'[d] = client[d] /\ screen'[d] = screen[d],
           Fresh(c)', Behind(c)', Rising(down'[c], client'[c].seqNum)
    PROVE  CourierInv'
<1>1. ASSUME NEW d \in Clients, d # c
      PROVE  Fresh(d)' /\ Behind(d)' /\ Rising(down'[d], client'[d].seqNum)
  BY <1>1 DEF CourierInv, Fresh, Behind
<1>2. QED
  BY <1>1 DEF CourierInv

LEMMA AttributedOn ==
    ASSUME StateInv, CourierInv, NEW c \in Clients, UNCHANGED <<connected, events>>,
           \A d \in Clients \ {c} : client'[d] = client[d],
           client'[c].seqNum \in Nat, client[c].seqNum <= client'[c].seqNum
    PROVE  events' \in Seq(Attributed')
<1>1. Attributed \subseteq Attributed'
  <2>1. ASSUME NEW e \in EventType, e.who \in Clients, e.seq <= client[e.who].seqNum
        PROVE  e.seq <= client'[e.who].seqNum
    <3>1. e.seq \in Nat /\ client[c].seqNum \in Nat
      BY Bounds, Numbers DEF EventType
    <3>2. QED
      BY <2>1, <3>1
  <2>2. QED
    BY <2>1 DEF Attributed
<1>2. QED
  BY <1>1, SeqWider DEF CourierInv

LEMMA CourierReceive ==
    ASSUME StateInv, CourierInv, NEW c \in Clients, ClientReceive(c)
    PROVE  CourierInv' /\ client'[c].seqNum = Next1(down[c], client[c].seqNum)
<1> USE Bounds
<1> DEFINE m == Head(down[c])
           k == client[c]
           n == client'[c]
<1>1. /\ m \in KnownMessage /\ KnownClient(n) /\ client' = [client EXCEPT ![c] = n]
      /\ ReceiveEffect(m, k, n, Raisable(c)) /\ ScreenOf(c)
  BY ReceiveDoes
<1>2. UNCHANGED <<server, events, connected, up, copies>> /\ down' = [down EXCEPT ![c] = Tail(@)]
      /\ down[c] # <<>>
  BY DEF ClientReceive
<1>3. n.seqNum = Next1(down[c], k.seqNum)
  BY <1>1 DEF ReceiveEffect, Next1, KnownMessage, Message
<1>4. /\ down[c] \in Seq(Message) /\ k.seqNum \in Nat /\ Rising(down[c], k.seqNum)
      /\ c \in connected
  BY <1>2, Numbers DEF CourierInv, Fresh
<1>5. Rising(Tail(down[c]), n.seqNum) /\ k.seqNum <= n.seqNum /\ n.seqNum \in Nat
  BY <1>2, <1>3, <1>4, RisingTail
<1>6. /\ \A d \in Clients \ {c} : /\ down'[d] = down[d] /\ up'[d] = up[d]
                                  /\ client'[d] = client[d] /\ screen'[d] = screen[d]
      /\ down'[c] = Tail(down[c]) /\ up'[c] = up[c]
  BY <1>1, <1>2 DEF StateInv, ScreenOf
<1>7. Behind(c)'
  <2>1. /\ PastMessages(k.seqNum) \subseteq PastMessages(n.seqNum)
        /\ PastRaised(k.seqNum) \subseteq PastRaised(n.seqNum)
    BY <1>4, <1>5, PastMore
  <2>2. up'[c] \in Seq(PastMessages(n.seqNum))
    BY <1>6, <2>1, SeqWider DEF CourierInv, Behind
  <2>3. k.events \in Seq(PastRaised(k.seqNum)) /\ n.events \in Seq(KnownRaised)
    BY <1>1 DEF CourierInv, Behind, KnownClient
  <2>4. n.events \in Seq(PastRaised(k.seqNum))
    <3>1. CASE n.events = k.events
      BY <2>3, <3>1
    <3>2. CASE Longer(k.events, n.events, Raisable(c))
      <4>1. Raisable(c) \subseteq PastRaised(k.seqNum)
        BY DEF Raisable, PastRaised
      <4>2. QED
        BY <2>3, <3>2, <4>1, LongerIn
    <3>3. QED
      BY <1>1, <3>1, <3>2 DEF ReceiveEffect, KnownMessage, Message
  <2>5. n.events \in Seq(PastRaised(n.seqNum))
    BY <2>1, <2>4, SeqWider
  <2>6. QED
    BY <2>2, <2>5 DEF Behind
<1>8. events' \in Seq(Attributed')
  BY <1>2, <1>5, <1>6, AttributedOn
<1>9. Fresh(c)'
  BY <1>2, <1>4 DEF Fresh
<1>10. QED
  BY <1>2, <1>3, <1>5, <1>6, <1>7, <1>8, <1>9, CourierOf

LEMMA CourierElsewhere ==
    ASSUME StateInv, CourseInv, CourierInv,
           \/ \E c \in Clients : ClientEvent(c)
           \/ \E s \in Screens : Copy(s) \/ onClipboardChange(s)
           \/ \E c \in Clients : Connect(c)
    PROVE  CourierInv'
<1> USE Bounds
<1>1. ASSUME NEW c \in Clients, ClientEvent(c) PROVE CourierInv'
  <2> DEFINE e == Head(client[c].events)
             k == client[c]
             n == client'[c]
  <2>1. /\ KnownClient(n) /\ client' = [client EXCEPT ![c] = n]
        /\ up' = [up EXCEPT ![c] = up'[c]]
        /\ ClientEventEffect(e, k, n, up[c], up'[c]) /\ e \in KnownRaised
    BY <1>1, ClientEventDoes
  <2>2. UNCHANGED <<server, events, connected, down, screen, copies>> /\ k.events # <<>>
    BY <1>1 DEF ClientEvent
  <2>3. n.seqNum = k.seqNum /\ k.seqNum \in Nat /\ k.seqNum <= k.seqNum
    BY <2>1, Numbers DEF ClientEventEffect
  <2>4. /\ e \in PastRaised(k.seqNum) /\ Tail(k.events) \in Seq(PastRaised(k.seqNum))
        /\ up[c] \in Seq(PastMessages(k.seqNum))
    BY <2>2, HeadTailProperties DEF CourierInv, Behind
  <2>5. up'[c] \in Seq(PastMessages(k.seqNum))
    <3>1. PICK m : up'[c] = Append(up[c], m)
                   /\ m \in {Msg("grab", k.seqNum, Nothing), Msg("data", e.seq, e.data)}
      BY <2>1 DEF ClientEventEffect, KnownRaised, Raised
    <3>2. k.seqNum \in SeqNums
      BY DEF StateInv, ClientType
    <3>3. m \in PastMessages(k.seqNum)
      BY <2>3, <2>4, <3>1, <3>2 DEF PastMessages, PastRaised, Raised, Msg, Message
    <3>4. QED
      BY <2>4, <3>1, <3>3, AppendProperties
  <2>6. n.events \in Seq(PastRaised(k.seqNum))
    <3>1. CASE n.events = Tail(k.events)
      BY <2>4, <3>1
    <3>2. CASE Longer(Tail(k.events), n.events, SendingOf(k))
      <4>1. SendingOf(k) \subseteq PastRaised(k.seqNum) /\ n.events \in Seq(KnownRaised)
        BY <2>1 DEF SendingOf, PastRaised, KnownClient
      <4>2. QED
        BY <2>4, <3>2, <4>1, LongerIn
    <3>3. QED
      BY <2>1, <3>1, <3>2 DEF ClientEventEffect, KnownRaised, Raised
  <2>7. \A d \in Clients \ {c} : client'[d] = client[d] /\ up'[d] = up[d]
    BY <2>1 DEF StateInv
  <2>8. Behind(c)' /\ Fresh(c)' /\ Rising(down'[c], n.seqNum)
    BY <2>2, <2>3, <2>5, <2>6 DEF Behind, Fresh, CourierInv
  <2>9. events' \in Seq(Attributed')
    BY <2>2, <2>3, <2>7, AttributedOn
  <2>10. QED
    BY <2>2, <2>7, <2>8, <2>9, CourierOf
<1>2. ASSUME NEW s \in Screens, Copy(s) PROVE CourierInv'
  <2>1. UNCHANGED <<server, events, connected, down, up, client>> /\ (s \in Clients => s \in connected)
        /\ screen' = [screen EXCEPT ![s].board = copies + 1, ![s].ours = FALSE, ![s].notice = TRUE]
    BY <1>2 DEF Copy
  <2>2. \A c \in Clients \ connected : screen'[c] = screen[c]
    BY <2>1 DEF StateInv
  <2>3. QED
    BY <2>1, <2>2, CourierKept DEF CourierInv, Behind, Fresh
<1>3. ASSUME NEW s \in Screens, onClipboardChange(s) PROVE CourierInv'
  <2>1. UNCHANGED <<server, connected, down, up, copies>> /\ screen[s].notice
        /\ screen' = [screen EXCEPT ![s].notice = FALSE, ![s].own = screen[s].ours]
    BY <1>3 DEF onClipboardChange
  <2>2. \A t \in Screens \ {s} : screen'[t] = screen[t]
    BY <2>1 DEF StateInv
  <2>3. CASE UNCHANGED client
    <3>1. events' \in Seq(Attributed)
      <4>1. Event("grabbed", Primary, server.primarySeq, Nothing) \in Attributed
        BY DEF Event, EventType, StateInv, ServerType, Attributed
      <4>2. Append(events, Event("grabbed", Primary, server.primarySeq, Nothing)) \in Seq(Attributed)
        BY <4>1, AppendProperties DEF CourierInv
      <4>3. QED
        BY <1>3, <4>2 DEF onClipboardChange, CourierInv
    <3>2. \A c \in Clients \ connected : screen'[c] = screen[c]
      BY <2>1, <2>2 DEF CourierInv, Fresh
    <3>3. QED
      BY <2>1, <2>3, <3>1, <3>2, CourierKept DEF CourierInv, Behind, Fresh
  <2>4. CASE ~UNCHANGED client
    <3> DEFINE k == client[s]
               es == Append(k.events, [kind |-> "grabbed", seq |-> 0, data |-> Nothing])
    <3>1. s \in Clients /\ client' = [client EXCEPT ![s] = raised(k)] /\ UNCHANGED events
          /\ s \in connected
      BY <1>3, <2>1, <2>4 DEF onClipboardChange, Screens, CourierInv, Fresh
    <3>2. client'[s].seqNum = k.seqNum /\ client'[s].events = es
      BY <3>1 DEF StateInv, ClientType, raised
    <3>3. k.seqNum \in Nat /\ k.seqNum <= k.seqNum /\ 0 <= k.seqNum
      BY <3>1, Numbers
    <3>4. es \in Seq(PastRaised(k.seqNum))
      <4>1. [kind |-> "grabbed", seq |-> 0, data |-> Nothing] \in PastRaised(k.seqNum)
        BY <3>3 DEF PastRaised, Raised
      <4>2. QED
        BY <3>1, <4>1, AppendProperties DEF CourierInv, Behind
    <3> HIDE DEF es
    <3>5. \A d \in Clients \ {s} : client'[d] = client[d]
      BY <3>1 DEF StateInv
    <3>6. Behind(s)' /\ Fresh(s)' /\ Rising(down'[s], client'[s].seqNum)
      BY <2>1, <3>1, <3>2, <3>4 DEF CourierInv, Behind, Fresh
    <3>7. events' \in Seq(Attributed')
      BY <2>1, <3>1, <3>2, <3>3, <3>5, AttributedOn
    <3>8. QED
      BY <2>1, <2>2, <3>1, <3>5, <3>6, <3>7, CourierOf
  <2>5. QED
    BY <2>3, <2>4
<1>4. ASSUME NEW c \in Clients, Connect(c) PROVE CourierInv'
  <2> DEFINE k == [client[c] EXCEPT !.seqNum = 0, !.own = FALSE, !.sent = FALSE]
  <2>1. /\ c \notin connected /\ connected' = connected \cup {c}
        /\ client' = [client EXCEPT ![c] = k]
        /\ \A s \in Screens \ {c} : screen'[s] = screen[s]
        /\ UNCHANGED <<server, events, down, up, copies>>
    BY <1>4 DEF Connect, StateInv, ClientType
  <2>2. /\ client'[c] = k /\ k.seqNum = 0 /\ k.events = client[c].events
        /\ \A d \in Clients \ {c} : client'[d] = client[d]
    BY <2>1 DEF StateInv, ClientType
  <2>3. down[c] = <<>> /\ up[c] = <<>> /\ client[c].events = <<>>
    BY <2>1 DEF CourierInv, Fresh
  <2>4. <<>> \in Seq(PastMessages(0)) /\ <<>> \in Seq(PastRaised(0))
    OBVIOUS
  <2>5. Fresh(c)' /\ Behind(c)' /\ Rising(down'[c], client'[c].seqNum)
    <3>1. Fresh(c)'
      BY <2>1 DEF Fresh
    <3>2. Behind(c)'
      BY <2>1, <2>2, <2>3, <2>4 DEF Behind
    <3>3. \A n : Rising(<<>>, n)
      BY DEF Rising
    <3>4. QED
      BY <2>1, <2>3, <3>1, <3>2, <3>3
  <2>6. ASSUME NEW d \in Clients, d # c
        PROVE  Fresh(d)' /\ Behind(d)' /\ Rising(down'[d], client'[d].seqNum)
    BY <2>1, <2>2, <2>6 DEF CourierInv, Fresh, Behind
  <2>7. events' \in Seq(Attributed')
    <3>1. Attributed \subseteq Attributed'
      BY <2>1, <2>2 DEF Attributed
    <3>2. QED
      BY <2>1, <3>1, SeqWider DEF CourierInv
  <2>8. QED
    BY <2>5, <2>6, <2>7 DEF CourierInv
<1>5. QED
  BY <1>1, <1>2, <1>3, <1>4

LEMMA CourierLost ==
    ASSUME StateInv, CourierInv, UNCHANGED scenario, NEW c \in Clients, Disconnect(c)
    PROVE  CourierInv'
<1> USE Bounds
<1>1. /\ connected' = connected \ {c} /\ events' = Orphaned(c)
      /\ down' = [down EXCEPT ![c] = <<>>] /\ up' = [up EXCEPT ![c] = <<>>]
      /\ client' = [client EXCEPT ![c].events = <<>>]
  BY DEF Disconnect, Orphaned
<1>2. /\ down'[c] = <<>> /\ up'[c] = <<>> /\ client'[c].events = <<>>
      /\ client'[c].seqNum = client[c].seqNum
      /\ \A d \in Clients \ {c} : down'[d] = down[d] /\ up'[d] = up[d] /\ client'[d] = client[d]
  BY <1>1 DEF StateInv, ClientType
<1>3. ~screen'[c].notice /\ \A d \in Clients \ {c} : screen'[d] = screen[d]
  <2>1. PICK own \in {screen[c].own, screen[c].own /\ screen[c].ours} :
           screen' = [screen EXCEPT ![c] = [screen[c] EXCEPT !.own = own, !.notice = FALSE]]
    BY DEF Disconnect, StateInv, ScreenType
  <2>2. QED
    BY <2>1 DEF StateInv, ScreenType
<1>4. server'.dirty = [server.dirty EXCEPT ![c] = TRUE]
  <2> DEFINE rest == freshProxy(server, c)
  <2>1. rest.dirty = [server.dirty EXCEPT ![c] = TRUE] /\ rest \in ServerType
    <3>1. /\ server \in ServerType /\ [server.dirty EXCEPT ![c] = TRUE] \in [Screens -> BOOLEAN]
          /\ [server.buffer EXCEPT ![c] = Nothing] \in [Clients -> Contents]
      BY DEF StateInv, ServerType
    <3>2. rest = [server EXCEPT !.dirty = [server.dirty EXCEPT ![c] = TRUE],
                                !.buffer = [server.buffer EXCEPT ![c] = Nothing]]
      BY <3>1 DEF freshProxy, ServerType
    <3>3. QED
      BY <3>1, <3>2 DEF ServerType
  <2>2. server' = rest \/ server' = [rest EXCEPT !.active = Primary, !.primarySeq = rest.seqNum]
    BY DEF Disconnect
  <2> HIDE DEF rest
  <2>3. QED
    BY <2>1, <2>2 DEF ServerType
<1>5. ASSUME NEW d \in Clients
      PROVE  Fresh(d)' /\ Behind(d)' /\ Rising(down'[d], client'[d].seqNum)
  <2>1. server'.dirty[d] = (server.dirty[d] \/ d = c)
    BY <1>4 DEF StateInv, ServerType
  <2>2. <<>> \in Seq(PastMessages(client[c].seqNum)) /\ <<>> \in Seq(PastRaised(client[c].seqNum))
    OBVIOUS
  <2>3. CASE d = c
    <3>1. Fresh(d)'
      BY <1>2, <1>3, <2>1, <2>3 DEF Fresh
    <3>2. Behind(d)'
      BY <1>2, <2>2, <2>3 DEF Behind
    <3>3. \A n : Rising(<<>>, n)
      BY DEF Rising
    <3>4. QED
      BY <1>2, <2>3, <3>1, <3>2, <3>3
  <2>4. CASE d # c
    BY <1>1, <1>2, <1>3, <2>1, <2>4 DEF Fresh, Behind, CourierInv
  <2>5. QED
    BY <2>3, <2>4
<1>6. events' \in Seq(Attributed')
  <2>1. /\ Orphaned(c) \in Seq(KnownEvent) /\ Len(Orphaned(c)) = Len(events)
        /\ \A i \in 1 .. Len(events) :
              Orphaned(c)[i] = IF events[i].who = c THEN Event("orphan", c, 0, Nothing) ELSE events[i]
    BY OrphanedKnown
  <2>2. \A i \in 1 .. Len(events) : events[i] \in Attributed
    BY LenProperties DEF CourierInv
  <2>3. Event("orphan", c, 0, Nothing) \in Attributed'
    BY DEF Event, EventType, Attributed
  <2>4. ASSUME NEW e \in Attributed, e.who # c PROVE e \in Attributed'
    BY <1>1, <1>2, <2>4 DEF Attributed
  <2>5. ASSUME NEW i \in 1 .. Len(events) PROVE Orphaned(c)[i] \in Attributed'
    BY <2>1, <2>2, <2>3, <2>4
  <2>6. /\ Orphaned(c) \in [1 .. Len(events) -> Attributed'] /\ Len(events) \in Nat
    BY <2>1, <2>5, LenProperties
  <2>7. QED
    BY <1>1, <2>6
<1>7. QED
  BY <1>5, <1>6 DEF CourierInv

LEMMA CourierNext == StateInv /\ CourseInv /\ CourierInv /\ [Next]_vars => CourierInv'
<1> SUFFICES ASSUME StateInv, CourseInv, CourierInv, [Next]_vars PROVE CourierInv'
  OBVIOUS
<1>1. CASE UNCHANGED vars
  BY <1>1 DEF vars, CourierInv, Fresh, Behind, Attributed
<1>2. CASE Next
  BY <1>2, CourierSwitch, CourierServer, CourierRead, CourierReceive, CourierElsewhere, CourierLost
     DEF Next
<1>3. QED
  BY <1>1, <1>2

------------------------------------------------------------------------------
(* Who takes itself for the owner. *)

\* A grab of c that the server will accept is on its way.
Claimed(c) ==
    \/ \E i \in 1 .. Len(up[c]) : up[c][i].kind = "grab" /\ up[c][i].seq >= server.clipSeq
    \/ \E i \in 1 .. Len(events) :
          /\ events[i].kind = "grabbed" /\ events[i].who = c
          /\ events[i].seq >= server.clipSeq

\* The server is about to send c the clipboard.
Coming(c) == \E i \in 1 .. Len(events) : events[i].kind = "sending" /\ events[i].who = c

ReachesGrab(c) == Reaches(down[c], client[c].seqNum, server.clipSeq)

\* A client that is not the owner will be given the clipboard when it is entered; or it
\* does not take itself for the owner, unless it is about to be; or it will be told.
Claim(c) ==
    server.owner # c =>
        \/ server.dirty[c] /\ ~ReachesGrab(c)
        \/ client[c].seqNum >= server.clipSeq /\ (client[c].own => Claimed(c))
        \/ ToldIn(down[c], client[c].seqNum, server.clipSeq)
        \/ ReachesGrab(c) /\ Coming(c)

ClaimInv == AllFit => \A c \in connected : Claim(c)

LEMMA ClaimInit == Init => ClaimInv
  BY DEF Init, ClaimInv

LEMMA HereReaches ==
    ASSUME StateInv, CourseInv, NEW c \in Clients, server.active = c,
           NEW s \in Nat, s <= server.seqNum
    PROVE  Reaches(down[c], client[c].seqNum, s)
<1>1. server.seqNum \in Nat /\ server.seqNum >= s
  BY Numbers
<1>2. EndsIn(down[c], EnterTold(server.seqNum),
             client[c].active /\ client[c].seqNum = server.seqNum)
  BY DEF CourseInv, Here
<1>3. EnterTold(server.seqNum).kind = "enter" /\ EnterTold(server.seqNum).seq = server.seqNum
  BY DEF EnterTold, Msg
<1>4. QED
  BY <1>1, <1>2, <1>3 DEF EndsIn, Reaches

\* A queue that has grown holds what it held.
LEMMA LongerHolds ==
    ASSUME NEW q \in Seq(EventType), NEW r \in Seq(EventType), NEW E, Longer(q, r, E)
    PROVE  \A i \in 1 .. Len(q) : i \in 1 .. Len(r) /\ r[i] = q[i]
<1>1. Len(q) \in Nat /\ Len(r) \in Nat
  BY LenProperties
<1>2. QED
  BY <1>1 DEF Longer

\* The claim of c where the owner stays and the rest does not take back what was on its way.
LEMMA ClaimKept ==
    ASSUME StateInv, NEW c \in Clients, Claim(c),
           server'.owner = server.owner, server'.clipSeq = server.clipSeq,
           client'[c].seqNum = client[c].seqNum,
           \/ down'[c] = down[c]
           \/ \E m \in Message : down'[c] = Append(down[c], m),
           client'[c].own /\ (client[c].own => Claimed(c)) => Claimed(c)',
           Coming(c) => Coming(c)' \/ (ReachesGrab(c) => ToldIn(down'[c], client[c].seqNum, server.clipSeq)),
           server.dirty[c] /\ ~ReachesGrab(c) =>
               (server'.dirty[c] /\ ~ReachesGrab(c)') \/ (ReachesGrab(c)' /\ Coming(c)')
    PROVE  Claim(c)'
<1>1. /\ down[c] \in Seq(Message) /\ client[c].seqNum \in Nat /\ server.clipSeq \in Nat
  BY Numbers
<1>2. /\ ReachesGrab(c) => ReachesGrab(c)'
      /\ ToldIn(down[c], client[c].seqNum, server.clipSeq) =>
            ToldIn(down'[c], client'[c].seqNum, server'.clipSeq)
  <2>1. CASE down'[c] = down[c]
    BY <2>1 DEF ReachesGrab
  <2>2. ASSUME NEW m \in Message, down'[c] = Append(down[c], m)
        PROVE  /\ ReachesGrab(c) => ReachesGrab(c)'
               /\ ToldIn(down[c], client[c].seqNum, server.clipSeq) =>
                     ToldIn(down'[c], client'[c].seqNum, server'.clipSeq)
    BY <1>1, <2>2, ReachesAppend DEF ReachesGrab
  <2>3. QED
    BY <2>1, <2>2
<1>3. QED
  BY <1>2 DEF Claim

LEMMA ClaimSwitch ==
    ASSUME StateInv, CourseInv, CourierInv, ClaimInv, UNCHANGED scenario, SwitchScreen
    PROVE  ClaimInv'
<1> USE Bounds
<1>1. PICK dst \in (connected \cup {Primary}) \ {server.active} :
         SwitchEffect(Now', Now, dst) /\ SwitchGift(Now', Now, dst)
  BY SwitchDoes
<1>2. UNCHANGED <<connected, up, client, copies>>
  BY DEF SwitchScreen
<1>3. /\ Longer(events, events', Added(Now, dst)) /\ events' \in Seq(EventType)
      /\ server' \in ServerType
      /\ server'.owner = server.owner /\ server'.clipSeq = server.clipSeq
      /\ \A c \in Clients :
            down'[c] = IF c = server.active THEN Append(down[c], LeaveTold)
                       ELSE IF c = dst THEN Append(down[c], EnterTold(server.seqNum + 1))
                       ELSE down[c]
      /\ server'.seqNum = server.seqNum + 1
  BY <1>1 DEF SwitchEffect, Now, State
<1>4. \A i \in 1 .. Len(events) : i \in 1 .. Len(events') /\ events'[i] = events[i]
  <2>1. events \in Seq(EventType)
    BY NowState DEF Now, State
  <2>2. QED
    BY <1>3, <2>1, LongerHolds
<1>5. LeaveTold \in Message /\ LeaveTold.kind = "leave"
      /\ EnterTold(server.seqNum + 1) \in Message
      /\ EnterTold(server.seqNum + 1).kind = "enter"
      /\ EnterTold(server.seqNum + 1).seq = server.seqNum + 1
  BY <1>3 DEF LeaveTold, EnterTold, Msg, Message, ServerType
<1>6. ASSUME AllFit, NEW c \in connected PROVE Claim(c)'
  <2>1. c \in Clients /\ Claim(c)
    BY <1>6 DEF StateInv, ClaimInv
  <2>2. Claimed(c) => Claimed(c)'
    BY <1>2, <1>3, <1>4 DEF Claimed
  <2>3. Coming(c) => Coming(c)'
    BY <1>4 DEF Coming
  <2>4. /\ down[c] \in Seq(Message) /\ client[c].seqNum \in Nat /\ server.clipSeq \in Nat
        /\ server.seqNum + 1 >= server.clipSeq
    BY <2>1, Numbers
  <2>5. ASSUME server.dirty[c], ~ReachesGrab(c)
        PROVE  (server'.dirty[c] /\ ~ReachesGrab(c)') \/ (ReachesGrab(c)' /\ Coming(c)')
    <3>1. CASE c = dst
      <4>1. down'[c] = Append(down[c], EnterTold(server.seqNum + 1))
        BY <1>1, <1>3, <2>1, <3>1
      <4>2. ReachesGrab(c)'
        BY <1>2, <1>3, <1>5, <2>4, <4>1, ReachesAppend DEF ReachesGrab
      <4>3. Coming(c)'
        <5>1. /\ Len(events') > 0 /\ events'[Len(events')].kind = "sending"
              /\ events'[Len(events')].who = c
          BY <1>1, <1>6, <2>1, <2>5, <3>1 DEF SwitchGift, Now
        <5>2. Len(events') \in Nat
          BY <1>3, LenProperties
        <5>3. Len(events') \in 1 .. Len(events')
          BY <5>1, <5>2
        <5>4. QED
          BY <5>1, <5>3 DEF Coming
      <4>4. QED
        BY <4>2, <4>3
    <3>2. CASE c # dst
      <4>1. server'.dirty[c]
        BY <1>1, <2>1, <2>5, <3>2 DEF SwitchGift, DirtyKept, Now
      <4>2. ~ReachesGrab(c)'
        <5>1. down'[c] = down[c] \/ down'[c] = Append(down[c], LeaveTold)
          BY <1>3, <2>1, <3>2
        <5>2. QED
          <6>1. CASE down'[c] = down[c]
            BY <1>2, <1>3, <2>5, <6>1 DEF ReachesGrab
          <6>2. CASE down'[c] = Append(down[c], LeaveTold)
            <7>1. ~Reaches(Append(down[c], LeaveTold), client[c].seqNum, server.clipSeq)
              BY <1>5, <2>4, <2>5, ReachesAppend DEF ReachesGrab
            <7>2. QED
              BY <1>2, <1>3, <6>2, <7>1 DEF ReachesGrab
          <6>3. QED
            BY <5>1, <6>1, <6>2
      <4>3. QED
        BY <4>1, <4>2
    <3>3. QED
      BY <3>1, <3>2
  <2>6. down'[c] = down[c] \/ \E m \in Message : down'[c] = Append(down[c], m)
    BY <1>3, <1>5, <2>1
  <2>7. QED
    BY <1>2, <1>3, <2>1, <2>2, <2>3, <2>5, <2>6, ClaimKept
<1>7. AllFit' = AllFit
  BY DEF AllFit
<1>8. QED
  BY <1>2, <1>6, <1>7 DEF ClaimInv

LEMMA ClaimServer ==
    ASSUME StateInv, CourseInv, CourierInv, ClaimInv, UNCHANGED scenario, ServerEvent
    PROVE  ClaimInv'
<1> USE Bounds
<1> DEFINE e == Head(events)
<1>1. UNCHANGED <<connected, up, client, copies>>
  BY DEF ServerEvent
<1>2. /\ e \in KnownEvent /\ e \in Attributed /\ Popped \in State
      /\ Popped.server = server /\ Popped.events = Tail(events) /\ Popped.down = down
      /\ Tail(events) \in Seq(EventType)
  BY PoppedState, HeadTailProperties, SeqWider DEF ServerEvent, CourierInv, KnownEvent
<1>3. ServerEventEffect
  BY ServerEventDoes
<1>4. /\ Now'.server = server' /\ Now'.events = events' /\ Now'.down = down'
      /\ AllFit' = AllFit
  BY DEF Now, AllFit
<1>5. /\ e = events[1]
      /\ \A i \in 1 .. Len(events) : i = 1 \/ (i - 1 \in 1 .. Len(Tail(events))
                                              /\ Tail(events)[i - 1] = events[i])
  <2>1. /\ Len(events) \in Nat \ {0} /\ Len(Tail(events)) = Len(events) - 1
        /\ \A i \in 1 .. Len(Tail(events)) : Tail(events)[i] = events[i + 1]
    BY HeadTailProperties, LenProperties DEF ServerEvent, StateInv
  <2>2. ASSUME NEW i \in 1 .. Len(events), i # 1
        PROVE  i - 1 \in 1 .. Len(Tail(events)) /\ Tail(events)[i - 1] = events[i]
    <3>1. i - 1 \in 1 .. Len(Tail(events)) /\ (i - 1) + 1 = i
      BY <2>1, <2>2
    <3>2. QED
      BY <2>1, <3>1
  <2>3. QED
    BY <2>2
<1>6. ASSUME NEW E, Now' \in State, Longer(Tail(events), events', E)
      PROVE  \A i \in 1 .. Len(events) : i = 1 \/ (i - 1 \in 1 .. Len(events')
                                                  /\ events'[i - 1] = events[i])
  <2>1. events' \in Seq(EventType)
    BY <1>4, <1>6 DEF State
  <2>2. \A i \in 1 .. Len(Tail(events)) : i \in 1 .. Len(events') /\ events'[i] = Tail(events)[i]
    BY <1>2, <1>6, <2>1, LongerHolds
  <2>3. QED
    BY <1>5, <2>2
<1>7. ASSUME NEW c \in Clients, server'.clipSeq = server.clipSeq,
             \A i \in 1 .. Len(events) : i = 1 \/ (i - 1 \in 1 .. Len(events')
                                                  /\ events'[i - 1] = events[i])
      PROVE  /\ Claimed(c) /\ (e.kind = "grabbed" => e.seq < server.clipSeq) => Claimed(c)'
             /\ Coming(c) /\ ~(e.kind = "sending" /\ e.who = c) => Coming(c)'
  <2>1. e.seq \in Nat /\ server.clipSeq \in Nat
    BY <1>2, Numbers DEF KnownEvent, EventType
  <2>2. e.seq < server.clipSeq => ~(e.seq >= server.clipSeq)
    BY <2>1
  <2>3. QED
    BY <1>1, <1>5, <1>7, <2>2 DEF Claimed, Coming
<1>8. ASSUME NEW c \in Clients, server.dirty[c], ~ReachesGrab(c)
      PROVE  c # server.active /\ client[c].seqNum < server.clipSeq
  <2>1. c # server.active
    BY <1>8, HereReaches, Numbers DEF ReachesGrab
  <2>2. client[c].seqNum \in Nat /\ server.clipSeq \in Nat /\ ~(client[c].seqNum >= server.clipSeq)
    BY <1>8, Numbers DEF ReachesGrab, Reaches
  <2>3. QED
    BY <2>1, <2>2
<1>9. CASE Now' = Popped /\ e.kind # "sending" /\ (e.kind = "grabbed" => e.seq < server.clipSeq)
  <2>1. server' = server /\ down' = down /\ events' = Tail(events)
    BY <1>2, <1>4, <1>9
  <2>2. ASSUME AllFit, NEW c \in connected PROVE Claim(c)'
    <3>1. c \in Clients /\ Claim(c)
      BY <2>2 DEF StateInv, ClaimInv
    <3>2. (Claimed(c) => Claimed(c)') /\ (Coming(c) => Coming(c)')
      BY <1>5, <1>7, <1>9, <2>1, <3>1
    <3>3. ReachesGrab(c)' = ReachesGrab(c)
      BY <1>1, <2>1 DEF ReachesGrab
    <3>4. QED
      BY <1>1, <2>1, <3>1, <3>2, <3>3, ClaimKept
  <2>3. QED
    BY <1>1, <1>4, <2>2 DEF ClaimInv
<1>10. CASE e.kind = "grabbed" /\ ~(Now' = Popped /\ e.seq < server.clipSeq)
  <2>1. GrabbedEffect(Now', Popped, e.who, e.seq) /\ (e.who # Primary => ~(e.seq < server.clipSeq))
    BY <1>2, <1>3, <1>10 DEF ServerEventEffect, GrabbedEffect
  <2>2. GrabbedGift(Now', Popped, e.who)
    BY <1>3, <1>10, <2>1 DEF ServerEventEffect
  <2>3. server'.owner = e.who /\ server'.clipSeq = e.seq
    BY <1>2, <1>4, <1>10, <2>1 DEF GrabbedEffect
  <2>4. ASSUME AllFit, NEW c \in connected, c # e.who PROVE Claim(c)'
    <3>1. c \in Clients /\ down'[c] = Append(down[c], GrabTold)
          /\ (c # server.active => server'.dirty[c])
      BY <1>2, <1>4, <2>2, <2>4 DEF StateInv, GrabbedGift
    <3>2. /\ down[c] \in Seq(Message) /\ client[c].seqNum \in Nat
          /\ e.seq \in Nat /\ e.seq <= server.seqNum
      BY <1>2, <3>1, Numbers DEF KnownEvent, Known, EventType
    <3>3. GrabTold \in Message /\ GrabTold.kind = "grab"
      BY DEF GrabTold, Msg, Message
    <3>4. CASE Reaches(down[c], client[c].seqNum, e.seq)
      <4>1. ToldIn(down'[c], client[c].seqNum, e.seq)
        BY <3>1, <3>2, <3>3, <3>4, ReachesAppend DEF Telling
      <4>2. QED
        BY <1>1, <2>3, <4>1 DEF Claim
    <3>5. CASE ~Reaches(down[c], client[c].seqNum, e.seq)
      <4>1. ~Reaches(down'[c], client[c].seqNum, e.seq)
        BY <3>1, <3>2, <3>3, <3>5, ReachesAppend
      <4>2. c # server.active
        BY <3>1, <3>2, <3>5, HereReaches
      <4>3. QED
        BY <1>1, <2>3, <3>1, <4>1, <4>2 DEF Claim, ReachesGrab
    <3>6. QED
      BY <3>4, <3>5
  <2>5. QED
    BY <1>1, <1>4, <2>3, <2>4 DEF ClaimInv, Claim
<1>11. CASE e.kind = "changed"
  <2>1. ChangedEffect(Now', Popped) /\ ChangedGift(Now', Popped, e.who, e.seq)
    BY <1>3, <1>11 DEF ServerEventEffect
  <2>2. /\ Now' \in State /\ Longer(Tail(events), events', Sendings(server.active))
        /\ down' = down /\ server'.owner = server.owner /\ server'.clipSeq = server.clipSeq
    BY <1>2, <1>4, <2>1 DEF ChangedEffect, SameCourse
  <2>3. ASSUME AllFit, NEW c \in connected PROVE Claim(c)'
    <3>1. c \in Clients /\ Claim(c)
      BY <2>3 DEF StateInv, ClaimInv
    <3>2. (Claimed(c) => Claimed(c)') /\ (Coming(c) => Coming(c)')
      BY <1>6, <1>7, <1>11, <2>2, <3>1
    <3>3. ReachesGrab(c)' = ReachesGrab(c)
      BY <1>1, <2>2 DEF ReachesGrab
    <3>4. server.dirty[c] /\ ~ReachesGrab(c) => server'.dirty[c]
      <4>1. ASSUME server.dirty[c], ~ReachesGrab(c), c = e.who PROVE e.seq < server.clipSeq
        <5>1. e.seq <= client[c].seqNum
          BY <1>2, <1>11, <3>1, <4>1 DEF Attributed
        <5>2. e.seq \in Nat /\ client[c].seqNum \in Nat /\ server.clipSeq \in Nat
          BY <1>2, <3>1, Numbers DEF KnownEvent, EventType
        <5>3. client[c].seqNum < server.clipSeq
          BY <1>8, <3>1, <4>1
        <5>4. QED
          BY <5>1, <5>2, <5>3
      <4>2. QED
        BY <1>2, <1>4, <1>8, <2>1, <3>1, <4>1 DEF ChangedGift, DirtyKept
    <3>5. QED
      BY <1>1, <2>2, <3>1, <3>2, <3>3, <3>4, ClaimKept
  <2>4. QED
    BY <1>1, <1>4, <2>3 DEF ClaimInv
<1>12. CASE e.kind = "sending"
  <2> DEFINE told == Msg("data", 0, e.data)
  <2>1. /\ Now' = Write(Popped, e.who, told) /\ told \in Message /\ e.who \in Clients
        /\ told.kind = "data"
    BY <1>2, <1>3, <1>12 DEF ServerEventEffect, EventType, Attributed, Msg, Message
  <2>2. /\ Now' \in State /\ Now'.down = [Popped.down EXCEPT ![e.who] = Append(@, told)]
        /\ Now'.server = Popped.server /\ Now'.events = Popped.events
    BY <1>2, <2>1, WriteType
  <2> HIDE DEF told
  <2>3. /\ server' = server /\ events' = Tail(events)
        /\ \A c \in Clients : down'[c] = IF c = e.who THEN Append(down[c], told) ELSE down[c]
    BY <1>2, <1>4, <2>1, <2>2 DEF State
  <2>4. ASSUME AllFit, NEW c \in connected PROVE Claim(c)'
    <3>1. c \in Clients /\ Claim(c) /\ down[c] \in Seq(Message) /\ client[c].seqNum \in Nat
          /\ server.clipSeq \in Nat
      BY <2>4, Numbers DEF StateInv, ClaimInv
    <3>2. Claimed(c) => Claimed(c)'
      BY <1>5, <1>7, <1>12, <2>3, <3>1
    <3>3. Coming(c) => Coming(c)' \/ (ReachesGrab(c) => ToldIn(down'[c], client[c].seqNum, server.clipSeq))
      <4>1. CASE c = e.who
        BY <2>1, <2>3, <3>1, <4>1, ReachesAppend DEF ReachesGrab, Telling
      <4>2. CASE c # e.who
        BY <1>5, <1>7, <2>3, <3>1, <4>2
      <4>3. QED
        BY <4>1, <4>2
    <3>4. ~ReachesGrab(c) => ~ReachesGrab(c)'
      BY <1>1, <2>1, <2>3, <3>1, ReachesAppend DEF ReachesGrab
    <3>5. down'[c] = down[c] \/ \E m \in Message : down'[c] = Append(down[c], m)
      BY <2>1, <2>3, <3>1
    <3>6. QED
      BY <1>1, <2>3, <3>1, <3>2, <3>3, <3>4, <3>5, ClaimKept
  <2>5. QED
    BY <1>1, <1>4, <2>4 DEF ClaimInv
<1>13. QED
  BY <1>3, <1>9, <1>10, <1>11, <1>12 DEF ServerEventEffect

LEMMA ClaimRead ==
    ASSUME StateInv, CourierInv, ClaimInv, UNCHANGED scenario, NEW d \in Clients, ServerReceive(d)
    PROVE  ClaimInv'
<1> DEFINE m == Head(up[d])
<1>1. /\ UNCHANGED <<connected, down, client, screen, copies>> /\ up[d] # <<>>
      /\ up' = [up EXCEPT ![d] = Tail(up[d])] /\ up[d] \in Seq(KnownMessage)
  BY DEF ServerReceive, StateInv
<1>2. SameCourse(server', server) /\ server'.dirty = server.dirty
  <2>1. server' = server \/ server' = [server EXCEPT !.buffer[d] = m.data]
    BY DEF ServerReceive
  <2>2. QED
    BY <2>1 DEF StateInv, ServerType, SameCourse
<1>3. PICK k \in {"grabbed", "changed"} :
         events' = Append(events, Event(k, d, m.seq, Nothing)) /\ (m.kind = "grab" => k = "grabbed")
  BY DEF ServerReceive
<1>4. /\ \A i \in 1 .. Len(events) : i \in 1 .. Len(events') /\ events'[i] = events[i]
      /\ Len(events') \in 1 .. Len(events')
      /\ events'[Len(events')] = Event(k, d, m.seq, Nothing)
  <2>1. Event(k, d, m.seq, Nothing) \in KnownEvent /\ events \in Seq(KnownEvent)
    <3>1. m \in KnownMessage
      BY <1>1, HeadTailProperties
    <3>2. Oversized \subseteq 1 .. MaxCopies
      BY ClipboardAssumption DEF StateInv, Scenario, Oversized
    <3>3. QED
      BY <3>1, <3>2, Bounds DEF KnownMessage, KnownEvent, Known, Message, Event, EventType, StateInv,
                                Nothing
  <2>2. /\ Len(events) \in Nat /\ Len(events') = Len(events) + 1
        /\ \A i \in 1 .. Len(events) : events'[i] = events[i]
        /\ events'[Len(events) + 1] = Event(k, d, m.seq, Nothing)
    BY <1>3, <2>1, LenProperties, AppendProperties
  <2>3. QED
    BY <2>2
<1>5. m = up[d][1] /\ \A i \in 1 .. Len(up[d]) : i = 1 \/ (i - 1 \in 1 .. Len(Tail(up[d]))
                                                      /\ Tail(up[d])[i - 1] = up[d][i])
  <2>1. up[d] \in Seq(Message)
    BY <1>1, SeqWider DEF KnownMessage
  <2>2. QED
    BY <1>1, <2>1, MessageTail
<1>6. up'[d] = Tail(up[d]) /\ \A c \in Clients \ {d} : up'[c] = up[c]
  BY <1>1 DEF StateInv
<1>7. ASSUME AllFit, NEW c \in connected PROVE Claim(c)'
  <2>1. c \in Clients /\ Claim(c)
    BY <1>7 DEF StateInv, ClaimInv
  <2>2. Coming(c) => Coming(c)'
    BY <1>4 DEF Coming
  <2>3. ASSUME NEW i \in 1 .. Len(events), events[i].kind = "grabbed", events[i].who = c,
               events[i].seq >= server.clipSeq
        PROVE  Claimed(c)'
    BY <1>2, <1>4, <2>3 DEF Claimed, SameCourse
  <2>4. ASSUME NEW i \in 1 .. Len(up[c]), up[c][i].kind = "grab", up[c][i].seq >= server.clipSeq
        PROVE  Claimed(c)'
    <3>1. CASE c # d
      BY <1>2, <1>6, <2>1, <2>4, <3>1 DEF Claimed, SameCourse
    <3>2. CASE c = d /\ i # 1
      <4>1. i - 1 \in 1 .. Len(up'[c]) /\ up'[c][i - 1] = up[c][i]
        BY <1>5, <1>6, <2>4, <3>2
      <4>2. /\ up'[c][i - 1].kind = "grab"
            /\ up'[c][i - 1].seq >= server'.clipSeq
        BY <1>2, <2>4, <4>1 DEF SameCourse
      <4>3. QED
        BY <4>1, <4>2 DEF Claimed
    <3>3. CASE c = d /\ i = 1
      <4>1. m.kind = "grab" /\ m.seq >= server.clipSeq
        BY <1>5, <2>4, <3>3
      <4>2. /\ events'[Len(events')].kind = "grabbed" /\ events'[Len(events')].who = c
            /\ events'[Len(events')].seq >= server'.clipSeq
        BY <1>2, <1>3, <1>4, <3>3, <4>1 DEF Event, SameCourse
      <4>3. QED
        BY <1>4, <4>2 DEF Claimed
    <3>4. QED
      BY <3>1, <3>2, <3>3
  <2>5. Claimed(c) => Claimed(c)'
    BY <2>3, <2>4 DEF Claimed
  <2>6. ReachesGrab(c)' = ReachesGrab(c)
    BY <1>1, <1>2 DEF ReachesGrab, SameCourse
  <2>7. QED
    BY <1>1, <1>2, <2>1, <2>2, <2>5, <2>6, ClaimKept DEF SameCourse
<1>8. AllFit' = AllFit
  BY DEF AllFit
<1>9. QED
  BY <1>1, <1>7, <1>8 DEF ClaimInv

\* A step elsewhere leaves the claims of the other clients.
LEMMA ClaimOf ==
    ASSUME StateInv, ClaimInv, UNCHANGED <<server, scenario>>, NEW c \in Clients,
           connected' \subseteq connected \cup {c},
           \A i \in 1 .. Len(events) :
               events[i].who # c => i \in 1 .. Len(events') /\ events'[i] = events[i],
           \A d \in Clients \ {c} :
               down'[d] = down[d] /\ up'[d] = up[d] /\ client'[d] = client[d],
           AllFit /\ c \in connected' => Claim(c)'
    PROVE  ClaimInv'
<1>1. ASSUME AllFit, NEW d \in connected', d # c PROVE Claim(d)'
  <2>1. d \in Clients /\ d \in connected /\ Claim(d)
    BY <1>1 DEF StateInv, ClaimInv
  <2>2. (Claimed(d) => Claimed(d)') /\ (Coming(d) => Coming(d)')
    BY <1>1, <2>1 DEF Claimed, Coming
  <2>3. ReachesGrab(d)' = ReachesGrab(d)
    BY <1>1, <2>1 DEF ReachesGrab
  <2>4. QED
    BY <1>1, <2>1, <2>2, <2>3, ClaimKept
<1>2. AllFit' = AllFit
  BY DEF AllFit
<1>3. QED
  BY <1>1, <1>2 DEF ClaimInv

LEMMA ClaimReceive ==
    ASSUME StateInv, CourierInv, ClaimInv, UNCHANGED scenario, NEW c \in Clients, ClientReceive(c)
    PROVE  ClaimInv'
<1> DEFINE m == Head(down[c])
           k == client[c]
           n == client'[c]
<1>1. /\ m \in KnownMessage /\ client' = [client EXCEPT ![c] = n] /\ KnownClient(n)
      /\ ReceiveEffect(m, k, n, Raisable(c))
  BY ReceiveDoes
<1>2. /\ UNCHANGED <<server, events, connected, up, copies>> /\ down' = [down EXCEPT ![c] = Tail(@)]
      /\ down[c] # <<>>
  BY DEF ClientReceive
<1>3. n.seqNum = Next1(down[c], k.seqNum)
  BY CourierReceive
<1>4. /\ down[c] \in Seq(Message) /\ k.seqNum \in Nat /\ Rising(down[c], k.seqNum)
      /\ server.clipSeq \in Nat
  BY Numbers DEF CourierInv
<1>5. /\ \A d \in Clients \ {c} : down'[d] = down[d] /\ up'[d] = up[d] /\ client'[d] = client[d]
      /\ down'[c] = Tail(down[c]) /\ up'[c] = up[c]
  BY <1>1, <1>2 DEF StateInv
<1>6. k.seqNum <= n.seqNum /\ n.seqNum \in Nat
  BY <1>2, <1>3, <1>4, RisingTail
<1>7. /\ ReachesGrab(c) <=> ReachesGrab(c)'
      /\ ToldIn(down[c], k.seqNum, server.clipSeq) =>
            ToldIn(down'[c], n.seqNum, server'.clipSeq)
            \/ (m.kind \in Telling /\ k.seqNum >= server.clipSeq)
  BY <1>2, <1>3, <1>4, <1>5, ReachesTail DEF ReachesGrab
<1>8. k.seqNum >= server.clipSeq => n.seqNum >= server.clipSeq
  BY <1>4, <1>6
<1>9. n.own => k.own /\ m.kind \notin Telling
  BY <1>1 DEF ReceiveEffect, KnownMessage, Message, Telling, KnownClient, ClientType
<1>10. Claimed(c)' = Claimed(c) /\ Coming(c)' = Coming(c)
  BY <1>2, <1>5 DEF Claimed, Coming
<1>11. AllFit /\ c \in connected' => Claim(c)'
  <2>1. ASSUME AllFit, c \in connected PROVE Claim(c)'
    <3>1. Claim(c)
      BY <2>1 DEF ClaimInv
    <3>2. QED
      BY <1>2, <1>7, <1>8, <1>9, <1>10, <3>1 DEF Claim
  <2>2. QED
    BY <1>2, <2>1
<1>12. QED
  BY <1>2, <1>5, <1>11, ClaimOf

LEMMA ClaimElsewhere ==
    ASSUME StateInv, CourierInv, ClaimInv, UNCHANGED scenario,
           \/ \E c \in Clients : ClientEvent(c)
           \/ \E s \in Screens : Copy(s) \/ onClipboardChange(s)
           \/ \E c \in Clients : Connect(c)
    PROVE  ClaimInv'
<1> USE Bounds
<1>1. ASSUME NEW c \in Clients, ClientEvent(c) PROVE ClaimInv'
  <2> DEFINE e == Head(client[c].events)
             k == client[c]
             n == client'[c]
  <2>1. /\ client' = [client EXCEPT ![c] = n] /\ up' = [up EXCEPT ![c] = up'[c]]
        /\ ClientEventEffect(e, k, n, up[c], up'[c]) /\ e \in KnownRaised
    BY <1>1, ClientEventDoes
  <2>2. UNCHANGED <<server, events, connected, down, screen, copies>>
    BY <1>1 DEF ClientEvent
  <2>3. \A d \in Clients \ {c} : client'[d] = client[d] /\ up'[d] = up[d]
    BY <2>1 DEF StateInv
  <2>4. PICK m \in Message : /\ up'[c] = Append(up[c], m)
                             /\ e.kind = "grabbed" => m = Msg("grab", k.seqNum, Nothing)
    <3>1. k.seqNum \in SeqNums
      BY DEF StateInv, ClientType
    <3>2. e.seq \in SeqNums /\ e.data \in Contents /\ e.kind \in {"grabbed", "sending"}
      BY <2>1 DEF KnownRaised, Raised
    <3>3. /\ Msg("grab", k.seqNum, Nothing) \in Message /\ Msg("data", e.seq, e.data) \in Message
      BY <3>1, <3>2 DEF Msg, Message
    <3>4. QED
      BY <2>1, <3>2, <3>3 DEF ClientEventEffect
  <2>5. /\ Len(up[c]) \in Nat /\ Len(up'[c]) = Len(up[c]) + 1 /\ up'[c][Len(up[c]) + 1] = m
        /\ \A i \in 1 .. Len(up[c]) : up'[c][i] = up[c][i]
    <3>1. up[c] \in Seq(Message)
      BY SeqWider DEF StateInv, KnownMessage
    <3>2. QED
      BY <2>4, <3>1, MessageAppend
  <2>6. Claimed(c) => Claimed(c)'
    <3>1. \A i \in 1 .. Len(up[c]) : i \in 1 .. Len(up'[c])
      BY <2>5
    <3>2. QED
      BY <2>2, <2>5, <3>1 DEF Claimed
  <2>7. AllFit /\ c \in connected' => Claim(c)'
    <3>1. ASSUME AllFit, c \in connected PROVE Claim(c)'
      <4>1. Claim(c) /\ n.seqNum = k.seqNum
        BY <2>1, <3>1 DEF ClaimInv, ClientEventEffect
      <4>2. Coming(c)' = Coming(c) /\ ReachesGrab(c)' = ReachesGrab(c)
        BY <2>2, <4>1 DEF Coming, ReachesGrab
      <4>3. CASE e.kind = "sending"
        <5>1. n.own = k.own
          BY <2>1, <4>3 DEF ClientEventEffect
        <5>2. QED
          BY <2>2, <2>6, <4>1, <4>2, <5>1, ClaimKept
      <4>4. CASE e.kind = "grabbed"
        <5>1. k.seqNum >= server.clipSeq => Claimed(c)'
          <6>1. m = Msg("grab", k.seqNum, Nothing)
            BY ONLY <2>4, <4>4
          <6>2. m.kind = "grab" /\ m.seq = k.seqNum
            BY ONLY <6>1 DEF Msg
          <6>3. Len(up[c]) + 1 \in 1 .. Len(up'[c])
            BY <2>5
          <6>4. QED
            BY <2>2, <2>5, <6>2, <6>3 DEF Claimed
        <5>2. QED
          BY <2>2, <4>1, <4>2, <5>1 DEF Claim
      <4>5. QED
        BY <2>1, <4>3, <4>4 DEF KnownRaised, Raised
    <3>2. QED
      BY <2>2, <3>1
  <2>8. QED
    BY <2>2, <2>3, <2>7, ClaimOf
<1>2. ASSUME UNCHANGED <<server, connected, down, up>>,
             \A c \in Clients : client'[c].own = client[c].own /\ client'[c].seqNum = client[c].seqNum,
             \A i \in 1 .. Len(events) : i \in 1 .. Len(events') /\ events'[i] = events[i]
      PROVE  ClaimInv'
  <2>1. ASSUME AllFit, NEW c \in connected PROVE Claim(c)'
    <3>1. c \in Clients /\ Claim(c)
      BY <2>1 DEF StateInv, ClaimInv
    <3>2. (Claimed(c) => Claimed(c)') /\ (Coming(c) => Coming(c)')
      BY <1>2 DEF Claimed, Coming
    <3>3. ReachesGrab(c)' = ReachesGrab(c)
      BY <1>2, <3>1 DEF ReachesGrab
    <3>4. QED
      BY <1>2, <3>1, <3>2, <3>3, ClaimKept
  <2>2. AllFit' = AllFit
    BY DEF AllFit
  <2>3. QED
    BY <1>2, <2>1, <2>2 DEF ClaimInv
<1>3. ASSUME NEW s \in Screens, Copy(s) PROVE ClaimInv'
  BY <1>2, <1>3 DEF Copy
<1>4. ASSUME NEW s \in Screens, onClipboardChange(s) PROVE ClaimInv'
  <2>1. UNCHANGED <<server, connected, down, up, copies>>
    BY <1>4 DEF onClipboardChange
  <2>2. \A i \in 1 .. Len(events) : i \in 1 .. Len(events') /\ events'[i] = events[i]
    <3>1. events \in Seq(EventType) /\ Event("grabbed", Primary, server.primarySeq, Nothing) \in EventType
      BY NowState DEF Now, State, Event, EventType, StateInv, ServerType
    <3>2. Longer(events, events', EventType) /\ events' \in Seq(EventType)
      <4>1. CASE UNCHANGED events
        BY <3>1, <4>1, LongerSame
      <4>2. CASE events' = Append(events, Event("grabbed", Primary, server.primarySeq, Nothing))
        BY <3>1, <4>2, LongerAppend, AppendProperties
      <4>3. QED
        BY <1>4, <4>1, <4>2 DEF onClipboardChange
    <3>3. QED
      BY <3>1, <3>2, LongerHolds
  <2>3. \A c \in Clients : client'[c].own = client[c].own /\ client'[c].seqNum = client[c].seqNum
    <3>1. client' = client \/ (s \in Clients /\ client' = [client EXCEPT ![s] = raised(client[s])])
      BY <1>4 DEF onClipboardChange, Screens
    <3>2. \A k \in ClientType : raised(k).own = k.own /\ raised(k).seqNum = k.seqNum
      BY DEF raised, ClientType
    <3>3. QED
      BY <3>1, <3>2 DEF StateInv
  <2>4. QED
    BY <1>2, <2>1, <2>2, <2>3
<1>5. ASSUME NEW c \in Clients, Connect(c) PROVE ClaimInv'
  <2> DEFINE k == [client[c] EXCEPT !.seqNum = 0, !.own = FALSE, !.sent = FALSE]
  <2>1. /\ c \notin connected /\ connected' = connected \cup {c}
        /\ client' = [client EXCEPT ![c] = k]
        /\ UNCHANGED <<server, events, down, up, copies>>
    BY <1>5 DEF Connect, StateInv, ClientType
  <2>2. /\ client'[c].seqNum = 0 /\ client'[c].own = FALSE
        /\ \A d \in Clients \ {c} : client'[d] = client[d]
    BY <2>1 DEF StateInv, ClientType
  <2>3. down[c] = <<>> /\ server.dirty[c]
    BY <2>1 DEF CourierInv, Fresh
  <2>4. Claim(c)'
    <3>1. CASE 0 >= server.clipSeq
      BY <2>1, <2>2, <3>1 DEF Claim
    <3>2. CASE ~(0 >= server.clipSeq)
      BY <2>1, <2>2, <2>3, <3>2 DEF Claim, ReachesGrab, Reaches
    <3>3. QED
      BY <3>1, <3>2
  <2>5. QED
    BY <2>1, <2>2, <2>4, ClaimOf
<1>6. QED
  BY <1>1, <1>3, <1>4, <1>5

LEMMA ClaimLost ==
    ASSUME StateInv, CourierInv, ClaimInv, UNCHANGED scenario, NEW c \in Clients, Disconnect(c)
    PROVE  ClaimInv'
<1> USE Bounds
<1>1. /\ connected' = connected \ {c} /\ events' = Orphaned(c)
      /\ \A d \in Clients \ {c} : down'[d] = down[d] /\ up'[d] = up[d] /\ client'[d] = client[d]
      /\ AllFit' = AllFit
  BY DEF Disconnect, Orphaned, StateInv, AllFit
<1>2. /\ server'.owner = server.owner /\ server'.clipSeq = server.clipSeq
      /\ \A d \in Clients \ {c} : server'.dirty[d] = server.dirty[d]
  <2> DEFINE rest == freshProxy(server, c)
  <2>1. /\ rest.dirty = [server.dirty EXCEPT ![c] = TRUE] /\ rest \in ServerType
        /\ rest.owner = server.owner /\ rest.clipSeq = server.clipSeq
    <3>1. /\ server \in ServerType /\ [server.dirty EXCEPT ![c] = TRUE] \in [Screens -> BOOLEAN]
          /\ [server.buffer EXCEPT ![c] = Nothing] \in [Clients -> Contents]
      BY DEF StateInv, ServerType
    <3>2. rest = [server EXCEPT !.dirty = [server.dirty EXCEPT ![c] = TRUE],
                                !.buffer = [server.buffer EXCEPT ![c] = Nothing]]
      BY <3>1 DEF freshProxy, ServerType
    <3>3. QED
      BY <3>1, <3>2 DEF ServerType
  <2>2. server' = rest \/ server' = [rest EXCEPT !.active = Primary, !.primarySeq = rest.seqNum]
    BY DEF Disconnect
  <2> HIDE DEF rest
  <2>3. QED
    BY <2>1, <2>2 DEF ServerType, StateInv
<1>3. \A i \in 1 .. Len(events) : events[i].who # c => i \in 1 .. Len(events') /\ events'[i] = events[i]
  BY <1>1, OrphanedKnown
<1>4. ASSUME AllFit, NEW d \in connected' PROVE Claim(d)'
  <2>1. d \in Clients /\ d # c /\ Claim(d)
    BY <1>1, <1>4 DEF StateInv, ClaimInv
  <2>2. (Claimed(d) => Claimed(d)') /\ (Coming(d) => Coming(d)')
    BY <1>1, <1>2, <1>3, <2>1 DEF Claimed, Coming
  <2>3. ReachesGrab(d)' = ReachesGrab(d)
    BY <1>1, <1>2, <2>1 DEF ReachesGrab
  <2>4. QED
    BY <1>1, <1>2, <2>1, <2>2, <2>3, ClaimKept
<1>5. QED
  BY <1>1, <1>4 DEF ClaimInv

LEMMA ClaimNext == StateInv /\ CourseInv /\ CourierInv /\ ClaimInv /\ [Next]_vars => ClaimInv'
<1> SUFFICES ASSUME StateInv, CourseInv, CourierInv, ClaimInv, [Next]_vars PROVE ClaimInv'
  OBVIOUS
<1>1. CASE UNCHANGED vars
  BY <1>1 DEF vars, ClaimInv, Claim, Claimed, Coming, ReachesGrab, AllFit
<1>2. CASE Next
  BY <1>2, ClaimSwitch, ClaimServer, ClaimRead, ClaimReceive, ClaimElsewhere, ClaimLost DEF Next
<1>3. QED
  BY <1>1, <1>2

GrabInv == StateInv /\ CourseInv /\ CourierInv /\ ClaimInv

LEMMA GrabAlways == Spec => []GrabInv
<1>1. Init => GrabInv
  BY StateInit, CourseInit, CourierInit, ClaimInit DEF GrabInv
<1>2. GrabInv /\ [Next]_vars => GrabInv'
  BY StateNext, CourseNext, CourierNext, ClaimNext DEF GrabInv
<1>3. QED
  BY <1>1, <1>2, PTL DEF Spec

LEMMA KnowsOwner == GrabInv => (AllFit => ActiveKnowsOwner)
<1> SUFFICES ASSUME GrabInv, AllFit, NEW c \in Clients, c = server.active, c \in connected,
                    Settled, client[c].own, server.owner # c
             PROVE  FALSE
  BY DEF ActiveKnowsOwner, GrabInv, StateInv
<1>1. Claim(c) /\ events = <<>> /\ down[c] = <<>> /\ up[c] = <<>>
  BY DEF GrabInv, ClaimInv, Settled, AtRest
<1>2. ReachesGrab(c)
  BY Numbers, HereReaches DEF GrabInv, ReachesGrab
<1>3. ~Claimed(c) /\ ~Coming(c) /\ ~ToldIn(down[c], client[c].seqNum, server.clipSeq)
  BY <1>1 DEF Claimed, Coming, ToldIn
<1>4. QED
  BY <1>1, <1>2, <1>3 DEF Claim

LEMMA GrabAccepted == GrabInv => ActiveGrabAccepted
<1> SUFFICES ASSUME GrabInv, NEW c \in Clients, c = server.active,
                    \A i \in DOMAIN down[c] : down[c][i].kind # "enter",
                    NEW i \in DOMAIN events, events[i].seq = client[c].seqNum
             PROVE  events[i].seq >= server.clipSeq
  BY DEF ActiveGrabAccepted, GrabInv, StateInv
<1>1. EndsIn(down[c], EnterTold(server.seqNum),
             client[c].active /\ client[c].seqNum = server.seqNum)
  BY DEF GrabInv, CourseInv, Here
<1>2. EnterTold(server.seqNum).kind = "enter"
  BY DEF EnterTold, Msg
<1>3. DOMAIN down[c] = 1 .. Len(down[c])
  BY Numbers, LenProperties DEF GrabInv
<1>4. client[c].seqNum = server.seqNum
  BY <1>1, <1>2, <1>3 DEF EndsIn
<1>5. server.seqNum \in Nat /\ server.clipSeq \in Nat /\ server.clipSeq <= server.seqNum
  BY Numbers DEF GrabInv
<1>6. QED
  BY <1>4, <1>5

\* Server and clients agree on who owns the clipboard once all is settled, where everything
\* fits, and the grab of the client that has the cursor is accepted
\* (Server::handleClipboardGrabbed, Server::switchScreen, Client::setClipboard).
THEOREM OwnersAgreeAlways == Spec => []OwnersAgree
<1>1. GrabInv => OwnersAgree
  BY KnowsOwner, GrabAccepted DEF OwnersAgree
<1>2. QED
  BY <1>1, GrabAlways, PTL

------------------------------------------------------------------------------
(* Where one client copies. *)

\* What a client has told the server.
Told(e) == e.kind \in {"grabbed", "changed"} /\ e.who # Primary

\* Where no other client than c copies, the others have nothing to lose and nothing to tell.
Alone(c) ==
    /\ \A d \in Clients \ {c} :
          ~LostTo(screen[d]) /\ ~client[d].own /\ client[d].events = <<>> /\ up[d] = <<>>
    /\ \A i \in 1 .. Len(events) : Told(events[i]) => events[i].who = c

AloneInv == \A c \in Clients : OnlyClient(c) => Alone(c)

\* Nor has the primary where nobody copies there.
Idle ==
    /\ ~LostTo(screen[Primary])
    /\ \A i \in 1 .. Len(events) : events[i].kind = "grabbed" => events[i].who # Primary

IdleInv == Primary \notin scenario.copiers => Idle

GrabHeard == \E i \in 1 .. Len(events) : Told(events[i]) /\ events[i].kind = "grabbed"
GrabComing(c) == GrabHeard \/ \E i \in 1 .. Len(up[c]) : up[c][i].kind = "grab"

\* Until the server makes it the owner, what c sends comes after its first grab, which the
\* server will not take for an old one.
GrabFirst(c) ==
    server.owner # c =>
        /\ server.clipSeq = 0
        /\ client[c].own => GrabComing(c)
        /\ \A i \in 1 .. Len(client[c].events) :
              client[c].events[i].kind = "sending" => GrabComing(c)
        /\ \A j \in 1 .. Len(up[c]) :
              up[c][j].kind # "grab" =>
                  GrabHeard \/ \E i \in 1 .. Len(up[c]) : i < j /\ up[c][i].kind = "grab"
        /\ \A j \in 1 .. Len(events) :
              Told(events[j]) =>
                  \E i \in 1 .. Len(events) :
                      i <= j /\ Told(events[i]) /\ events[i].kind = "grabbed"

FirstInv == \A c \in Clients : OnlyCopier(c) => GrabFirst(c)

LEMMA AloneInit == Init => AloneInv /\ IdleInv /\ FirstInv
  BY Bounds DEF Init, AloneInv, Alone, IdleInv, Idle, FirstInv, GrabFirst, LostTo

\* What clients have told the server is, after a step, what they had, k places on.
Shifted(k) ==
    /\ \A i \in 1 .. Len(events') :
          Told(events'[i]) => i + k \in 1 .. Len(events) /\ events[i + k] = events'[i]
    /\ \A i \in 1 .. Len(events) :
          Told(events[i]) /\ i > k => i - k \in 1 .. Len(events') /\ events'[i - k] = events[i]

\* What is told in the first k places is no grab.
NoGrabTaken(k) ==
    \A i \in 1 .. Len(events) : i <= k => ~(Told(events[i]) /\ events[i].kind = "grabbed")

\* The client has no more to send than before.
NoMoreToSend(c) ==
    /\ up'[c] = up[c] /\ (client'[c].own => client[c].own)
    /\ \A i \in 1 .. Len(client'[c].events) :
          client'[c].events[i].kind = "sending" =>
              \/ client[c].own
              \/ \E j \in 1 .. Len(client[c].events) : client[c].events[j].kind = "sending"

LEMMA GrabFirstShifted ==
    ASSUME NEW c \in Clients, GrabFirst(c), NEW k \in {0, 1}, Shifted(k), NoGrabTaken(k),
           NoMoreToSend(c), server'.owner = server.owner, server'.clipSeq = server.clipSeq,
           Len(events) \in Nat, Len(events') \in Nat
    PROVE  GrabFirst(c)'
<1> SUFFICES ASSUME server.owner # c PROVE GrabFirst(c)'
  BY DEF GrabFirst
<1>1. \A i \in 1 .. Len(events) :
         Told(events[i]) /\ events[i].kind = "grabbed" =>
             i - k \in 1 .. Len(events') /\ events'[i - k] = events[i]
  BY DEF Shifted, NoGrabTaken
<1>2. GrabComing(c) => GrabComing(c)'
  BY <1>1 DEF GrabComing, NoMoreToSend, GrabHeard
<1>3. ASSUME NEW j \in 1 .. Len(events'), Told(events'[j])
      PROVE  \E i \in 1 .. Len(events') : i <= j /\ Told(events'[i]) /\ events'[i].kind = "grabbed"
  <2>1. j + k \in 1 .. Len(events) /\ Told(events[j + k]) /\ j \in Nat
    BY <1>3 DEF Shifted
  <2>2. PICK i \in 1 .. Len(events) : i <= j + k /\ Told(events[i]) /\ events[i].kind = "grabbed"
    BY <2>1 DEF GrabFirst
  <2>3. i - k \in 1 .. Len(events') /\ events'[i - k] = events[i]
    BY <1>1, <2>2
  <2>4. i - k <= j
    BY <2>1, <2>2
  <2>5. QED
    BY <2>2, <2>3, <2>4
<1>4. \A i \in 1 .. Len(client'[c].events) :
          client'[c].events[i].kind = "sending" => GrabComing(c)'
  BY <1>2 DEF GrabFirst, NoMoreToSend
<1>5. GrabHeard => GrabHeard'
  BY <1>1 DEF GrabHeard
<1>6. /\ client'[c].own => GrabComing(c)'
      /\ \A j \in 1 .. Len(up'[c]) :
              up'[c][j].kind # "grab" =>
                  GrabHeard' \/ \E i \in 1 .. Len(up'[c]) : i < j /\ up'[c][i].kind = "grab"
  BY <1>2, <1>5 DEF GrabFirst, NoMoreToSend
<1>7. server'.clipSeq = 0
  BY DEF GrabFirst
<1>8. QED
  BY <1>3, <1>4, <1>6, <1>7 DEF GrabFirst

\* What the server adds to its queue itself was told by no client.
LEMMA LongerShifts ==
    ASSUME NEW q \in Seq(EventType), events' \in Seq(EventType), NEW E, Longer(q, events', E),
           \A e \in E : ~Told(e), events \in Seq(EventType)
    PROVE  /\ events = q => Shifted(0)
           /\ events # <<>> /\ q = Tail(events) => Shifted(1)
<1>1. /\ Len(q) \in Nat /\ Len(events') \in Nat /\ Len(q) <= Len(events')
      /\ \A i \in 1 .. Len(q) : events'[i] = q[i]
      /\ \A i \in 1 .. Len(events') : Told(events'[i]) => i \in 1 .. Len(q)
  BY LenProperties DEF Longer
<1>2. CASE events = q
  <2>1. Shifted(0)
    BY <1>1, <1>2 DEF Shifted
  <2>2. events # <<>> => q # Tail(events)
    BY <1>2, HeadTailProperties, LenProperties
  <2>3. QED
    BY <2>1, <2>2
<1>3. CASE events # <<>> /\ q = Tail(events)
  <2>1. /\ Len(events) \in Nat /\ Len(events) = Len(q) + 1
        /\ \A i \in 1 .. Len(q) : q[i] = events[i + 1]
    BY <1>3, HeadTailProperties, LenProperties
  <2>2. ASSUME NEW i \in 1 .. Len(events), i > 1
        PROVE  i - 1 \in 1 .. Len(events') /\ events'[i - 1] = events[i]
    <3>1. i - 1 \in 1 .. Len(q) /\ (i - 1) + 1 = i
      BY <2>1, <2>2
    <3>2. QED
      BY <1>1, <2>1, <3>1
  <2>3. ASSUME NEW i \in 1 .. Len(events'), Told(events'[i])
        PROVE  i + 1 \in 1 .. Len(events) /\ events[i + 1] = events'[i]
    BY <1>1, <2>1, <2>3
  <2>4. Shifted(1)
    BY <2>2, <2>3 DEF Shifted
  <2>5. QED
    BY <2>1, <2>4
<1>4. QED
  BY <1>2, <1>3

LEMMA SameEvents ==
    ASSUME UNCHANGED events, Len(events) \in Nat PROVE Shifted(0)
  BY DEF Shifted

\* No client's screen but that of c has anything to lose.
Unlost(c) == \A d \in Clients \ {c} : LostTo(screen'[d]) => LostTo(screen[d])

LEMMA AloneShifted ==
    ASSUME NEW c \in Clients, Alone(c), NEW k \in {0, 1}, Shifted(k), Unlost(c),
           \A d \in Clients \ {c} :
               ~client'[d].own /\ client'[d].events = <<>> /\ up'[d] = <<>>
    PROVE  Alone(c)'
  BY DEF Alone, Shifted, Unlost

\* What the server does with an event, and what it leaves of the queue.
Handled(e) ==
    /\ Now' \in State /\ ScreensKept(Now', Popped)
    /\ Longer(Tail(events), events', Sendings(server.active))
    /\ \/ SameCourse(server', server) /\ e.kind # "grabbed"
       \/ /\ e.kind = "grabbed" /\ server'.active = server.active
          /\ \/ server'.owner = e.who /\ server'.clipSeq = e.seq
             \/ server' = server /\ e.who # Primary /\ e.seq < server.clipSeq

LEMMA EventHandled ==
    ASSUME StateInv, ServerEvent
    PROVE  /\ Head(events) \in KnownEvent /\ Head(events) = events[1] /\ 1 \in 1 .. Len(events)
           /\ events \in Seq(EventType) /\ events' \in Seq(EventType)
           /\ events # <<>> /\ Tail(events) \in Seq(EventType)
           /\ Handled(Head(events))
<1> USE Bounds
<1> DEFINE e == Head(events)
<1>1. /\ Now'.server = server' /\ Now'.events = events' /\ Now'.screen = screen'
      /\ events \in Seq(EventType) /\ events # <<>>
  BY SeqWider DEF Now, StateInv, KnownEvent, ServerEvent
<1>2. /\ e \in KnownEvent /\ Popped \in State
      /\ Popped.server = server /\ Popped.events = Tail(events) /\ Popped.screen = screen
      /\ Tail(events) \in Seq(EventType) /\ e = events[1] /\ 1 \in 1 .. Len(events)
  BY <1>1, PoppedState, HeadTailProperties, LenProperties
<1>3. ServerEventEffect
  BY ServerEventDoes
<1>4. Longer(Tail(events), Tail(events), Sendings(server.active))
  BY <1>2, LongerSame
<1>5. ASSUME e.kind = "grabbed", GrabbedEffect(Now', Popped, e.who, e.seq) PROVE Handled(e)
  <2>1. CASE Now' = Popped /\ e.who # Primary /\ e.seq < server.clipSeq
    <3>1. Now' \in State /\ ScreensKept(Now', Popped) /\ server' = server /\ events' = Tail(events)
      BY <1>1, <1>2, <2>1 DEF ScreensKept
    <3>2. QED
      BY <1>4, <1>5, <2>1, <3>1 DEF Handled
  <2>2. CASE /\ Now' \in State /\ server'.active = server.active
             /\ server'.owner = e.who /\ server'.clipSeq = e.seq
             /\ Longer(Tail(events), events', Sendings(server.active))
             /\ ScreensKept(Now', Popped)
    BY <1>5, <2>2 DEF Handled
  <2>3. QED
    BY <1>1, <1>2, <1>5, <2>1, <2>2 DEF GrabbedEffect
<1>6. ASSUME e.kind = "changed", ChangedEffect(Now', Popped) PROVE Handled(e)
  <2>1. /\ Now' \in State /\ ScreensKept(Now', Popped) /\ SameCourse(server', server)
        /\ Longer(Tail(events), events', Sendings(server.active))
    BY <1>1, <1>2, <1>6 DEF ChangedEffect
  <2>2. QED
    BY <1>6, <2>1 DEF Handled
<1>7. ASSUME e.kind \in {"sending", "orphan"}, Now' \in State, Now'.server = server,
             Now'.events = Tail(events), Now'.screen = screen
      PROVE  Handled(e)
  <2>1. ScreensKept(Now', Popped) /\ SameCourse(server', server) /\ events' = Tail(events)
    BY <1>1, <1>2, <1>7 DEF ScreensKept, SameCourse
  <2>2. QED
    BY <1>4, <1>7, <2>1 DEF Handled
<1>8. ASSUME e.kind = "sending", Now' = Write(Popped, e.who, Msg("data", 0, e.data))
      PROVE  Handled(e)
  <2>1. e.who \in Clients /\ Msg("data", 0, e.data) \in Message
    BY <1>2, <1>8 DEF KnownEvent, EventType, Msg, Message
  <2>2. QED
    BY <1>2, <1>7, <1>8, <2>1, WriteType
<1>9. ASSUME e.kind = "orphan", Now' = Popped PROVE Handled(e)
  BY <1>2, <1>7, <1>9
<1>10. Handled(e)
  BY <1>3, <1>5, <1>6, <1>8, <1>9 DEF ServerEventEffect
<1>11. events' \in Seq(EventType)
  BY <1>1, <1>10 DEF Handled, State
<1>12. QED
  BY <1>1, <1>2, <1>10, <1>11

LEMMA ServerShifts ==
    ASSUME StateInv, SwitchScreen \/ ServerEvent
    PROVE  /\ UNCHANGED <<connected, up, client, copies>>
           /\ ServerEvent => Shifted(1)
           /\ SwitchScreen =>
                 Shifted(0) /\ server'.owner = server.owner /\ server'.clipSeq = server.clipSeq
           /\ \A c \in Clients : screen'[c] = screen[c]
           /\ LostTo(screen'[Primary]) => LostTo(screen[Primary])
           /\ Len(events) \in Nat /\ Len(events') \in Nat
<1> USE Bounds
<1>1. UNCHANGED <<connected, up, client, copies>>
  BY DEF SwitchScreen, ServerEvent
<1>2. /\ Now'.server = server' /\ Now'.events = events' /\ Now'.screen = screen'
      /\ Now.server = server /\ Now.events = events /\ Now.screen = screen
      /\ events \in Seq(EventType) /\ Len(events) \in Nat
  BY SeqWider, LenProperties DEF Now, StateInv, KnownEvent
<1> DEFINE Kept == /\ \A c \in Clients : screen'[c] = screen[c]
                   /\ LostTo(screen'[Primary]) => LostTo(screen[Primary])
                   /\ Len(events') \in Nat
<1>3. ASSUME SwitchScreen
      PROVE  Kept /\ Shifted(0) /\ server'.owner = server.owner /\ server'.clipSeq = server.clipSeq
  <2>1. PICK dst \in (connected \cup {Primary}) \ {server.active} : SwitchEffect(Now', Now, dst)
    BY <1>3, SwitchDoes
  <2>2. /\ Now' \in State /\ ScreensKept(Now', Now)
        /\ server'.owner = server.owner /\ server'.clipSeq = server.clipSeq
        /\ Longer(events, events', Added(Now, dst)) /\ events' \in Seq(EventType)
    BY <1>2, <2>1 DEF SwitchEffect, State
  <2>3. \A e \in Added(Now, dst) : ~Told(e)
    BY DEF Added, PrimaryGrabs, Sendings, Told, Event
  <2>4. Shifted(0)
    BY <1>2, <2>2, <2>3, LongerShifts
  <2>5. QED
    BY <1>2, <2>2, <2>4, LenProperties DEF ScreensKept
<1>4. ASSUME ServerEvent PROVE Kept /\ Shifted(1)
  <2>1. /\ events' \in Seq(EventType) /\ events # <<>> /\ Tail(events) \in Seq(EventType)
        /\ Handled(Head(events)) /\ Popped.screen = screen
    BY <1>4, EventHandled, PoppedState
  <2>2. \A e \in Sendings(server.active) : ~Told(e)
    BY DEF Sendings, Told
  <2>3. Shifted(1)
    BY <1>2, <2>1, <2>2, LongerShifts DEF Handled
  <2>4. QED
    BY <1>2, <2>1, <2>3, LenProperties DEF Handled, ScreensKept
<1>5. QED
  BY <1>1, <1>2, <1>3, <1>4

LEMMA AloneServer ==
    ASSUME StateInv, NEW c \in Clients, Alone(c), SwitchScreen \/ ServerEvent PROVE Alone(c)'
<1>1. Unlost(c) /\ \E k \in {0, 1} : Shifted(k)
  BY ServerShifts DEF Unlost
<1>2. QED
  BY <1>1, ServerShifts, AloneShifted DEF Alone

LEMMA FirstServer ==
    ASSUME StateInv, NEW c \in Clients, Alone(c), Idle, GrabFirst(c), SwitchScreen \/ ServerEvent
    PROVE  GrabFirst(c)'
<1> USE Bounds
<1>1. NoMoreToSend(c) /\ Len(events) \in Nat /\ Len(events') \in Nat
  BY ServerShifts DEF NoMoreToSend
<1>2. CASE SwitchScreen
  <2>1. NoGrabTaken(0)
    BY DEF NoGrabTaken
  <2>2. Shifted(0) /\ server'.owner = server.owner /\ server'.clipSeq = server.clipSeq
    BY <1>2, ServerShifts
  <2>3. QED
    BY <1>1, <2>1, <2>2, GrabFirstShifted
<1>3. CASE ServerEvent
  <2> DEFINE e == Head(events)
  <2>1. /\ e \in KnownEvent /\ e = events[1] /\ 1 \in 1 .. Len(events) /\ Handled(e)
    BY <1>3, EventHandled
  <2>2. CASE e.kind # "grabbed"
    <3>1. NoGrabTaken(1)
      BY <1>1, <2>1, <2>2 DEF NoGrabTaken
    <3>2. server'.owner = server.owner /\ server'.clipSeq = server.clipSeq
      BY <2>1, <2>2 DEF Handled, SameCourse
    <3>3. Shifted(1)
      BY <1>3, ServerShifts
    <3>4. QED
      BY <1>1, <3>1, <3>2, <3>3, GrabFirstShifted
  <2>3. CASE e.kind = "grabbed"
    <3>1. e.who = c
      BY <2>1, <2>3 DEF Alone, Idle, Told
    <3>2. e.seq \in Nat /\ server.clipSeq \in Nat
      <4>1. \A x \in EventType : x.kind = "grabbed" => x.seq \in SeqNums
        BY DEF EventType
      <4>2. QED
        BY <2>1, <2>3, <4>1 DEF KnownEvent, StateInv, ServerType
    <3>3. server'.owner = c
      BY <2>1, <2>3, <3>1, <3>2 DEF Handled, SameCourse, GrabFirst
    <3>4. QED
      BY <3>3 DEF GrabFirst
  <2>4. QED
    BY <2>2, <2>3
<1>4. QED
  BY <1>2, <1>3

LEMMA AloneRead ==
    ASSUME StateInv, NEW c \in Clients, Alone(c), NEW d \in Clients, ServerReceive(d)
    PROVE  Alone(c)' /\ (GrabFirst(c) => GrabFirst(c)')
<1> USE Bounds
<1>1. UNCHANGED <<connected, down, client, screen, copies>> /\ up[d] # <<>>
      /\ up' = [up EXCEPT ![d] = Tail(up[d])]
  BY DEF ServerReceive
<1>2. d = c
  BY <1>1 DEF Alone
<1> DEFINE m == Head(up[c])
           q == Tail(up[c])
<1>3. up[c] \in Seq(Message) /\ up'[c] = q /\ \A b \in Clients \ {c} : up'[b] = up[b]
  BY <1>1, <1>2, SeqWider DEF StateInv, KnownMessage
<1>4. /\ m = up[c][1] /\ m \in Message /\ 1 \in 1 .. Len(up[c])
      /\ \A i \in 1 .. Len(q) : q[i] = up[c][i + 1] /\ i + 1 \in 1 .. Len(up[c]) /\ i \in Nat
      /\ \A i \in 1 .. Len(up[c]) : i \in Nat /\ (i = 1 \/ (i - 1 \in 1 .. Len(q) /\ q[i - 1] = up[c][i]))
  BY <1>1, <1>2, <1>3, MessageTail
<1>5. server'.owner = server.owner /\ server'.clipSeq = server.clipSeq
  <2>1. server' = server \/ server' = [server EXCEPT !.buffer[d] = Head(up[d]).data]
    BY DEF ServerReceive
  <2>2. QED
    BY <2>1 DEF StateInv, ServerType
<1>6. PICK k \in {"grabbed", "changed"} :
         /\ events' = Append(events, Event(k, c, m.seq, Nothing))
         /\ (k = "grabbed") = (m.kind = "grab")
  BY <1>2 DEF ServerReceive
<1>7. /\ Len(events) \in Nat /\ Len(events') = Len(events) + 1
      /\ \A i \in 1 .. Len(events) : events'[i] = events[i]
      /\ events'[Len(events) + 1].kind = k /\ events'[Len(events) + 1].who = c
      /\ Told(events'[Len(events) + 1])
  <2> DEFINE e == Event(k, c, m.seq, Nothing)
  <2>1. e \in EventType /\ e.kind = k /\ e.who = c /\ Told(e)
    BY <1>4 DEF Event, EventType, Message, Told
  <2>2. events \in Seq(EventType)
    BY SeqWider DEF StateInv, KnownEvent
  <2> HIDE DEF e
  <2>3. /\ Len(events) \in Nat /\ Len(Append(events, e)) = Len(events) + 1
        /\ \A i \in 1 .. Len(events) : Append(events, e)[i] = events[i]
        /\ Append(events, e)[Len(events) + 1] = e
    BY <2>1, <2>2, LenProperties, AppendProperties
  <2>4. events' = Append(events, e)
    BY <1>6 DEF e
  <2>5. QED
    BY <2>1, <2>3, <2>4
<1> HIDE DEF m, q
<1>8. /\ \A i \in 1 .. Len(events') : i \in 1 .. Len(events) \/ i = Len(events) + 1
      /\ \A i \in 1 .. Len(events) : i \in 1 .. Len(events') /\ i < Len(events) + 1
      /\ Len(events) + 1 \in 1 .. Len(events')
  BY <1>7
<1>9. Alone(c)'
  BY <1>1, <1>3, <1>7, <1>8 DEF Alone
<1>10. ASSUME server.owner # c, GrabFirst(c) PROVE GrabFirst(c)'
  <2>1. GrabHeard => GrabHeard'
    BY <1>7, <1>8 DEF GrabHeard
  <2>2. m.kind = "grab" => GrabHeard'
    BY <1>6, <1>7, <1>8 DEF GrabHeard
  <2>3. GrabComing(c) => GrabComing(c)'
    <3>1. ASSUME NEW i \in 1 .. Len(up[c]), up[c][i].kind = "grab" PROVE GrabComing(c)'
      <4>1. CASE i = 1
        BY <1>4, <2>2, <3>1, <4>1 DEF GrabComing
      <4>2. CASE i # 1
        BY <1>3, <1>4, <3>1, <4>2 DEF GrabComing
      <4>3. QED
        BY <4>1, <4>2
    <3>2. QED
      BY <2>1, <3>1 DEF GrabComing
  <2>4. ASSUME NEW j \in 1 .. Len(up'[c]), up'[c][j].kind # "grab", ~GrabHeard'
        PROVE  \E i \in 1 .. Len(up'[c]) : i < j /\ up'[c][i].kind = "grab"
    <3>1. j + 1 \in 1 .. Len(up[c]) /\ up[c][j + 1].kind # "grab" /\ j \in Nat
      BY <1>3, <1>4, <2>4
    <3>2. PICK i \in 1 .. Len(up[c]) : i < j + 1 /\ up[c][i].kind = "grab"
      BY <1>10, <2>1, <2>4, <3>1 DEF GrabFirst
    <3>3. i # 1 /\ i \in Nat
      BY <1>4, <2>2, <2>4, <3>2
    <3>4. i - 1 \in 1 .. Len(q) /\ q[i - 1].kind = "grab"
      BY <1>4, <3>2, <3>3
    <3>5. i - 1 < j
      BY <3>1, <3>2, <3>3
    <3>6. QED
      BY <1>3, <3>4, <3>5
  <2>5. ASSUME NEW j \in 1 .. Len(events'), Told(events'[j])
        PROVE  \E i \in 1 .. Len(events') :
                   i <= j /\ Told(events'[i]) /\ events'[i].kind = "grabbed"
    <3>1. CASE j \in 1 .. Len(events)
      <4>1. PICK i \in 1 .. Len(events) : i <= j /\ Told(events[i]) /\ events[i].kind = "grabbed"
        BY <1>7, <1>10, <2>5, <3>1 DEF GrabFirst
      <4>2. QED
        BY <1>7, <1>8, <4>1
    <3>2. CASE j = Len(events) + 1 /\ k = "grabbed"
      BY <1>7, <1>8, <3>2
    <3>3. CASE j = Len(events) + 1 /\ k = "changed"
      <4>1. m.kind # "grab"
        BY <1>6, <3>3
      <4>2. ~\E i \in 1 .. Len(up[c]) : i < 1 /\ up[c][i].kind = "grab"
        BY <1>4
      <4>3. GrabHeard
        BY <1>4, <1>10, <4>1, <4>2 DEF GrabFirst
      <4>4. QED
        BY <1>7, <1>8, <3>3, <4>3 DEF GrabHeard
    <3>4. QED
      BY <1>8, <3>1, <3>2, <3>3
  <2>6. ASSUME NEW i \in 1 .. Len(client'[c].events), client'[c].events[i].kind = "sending"
        PROVE  GrabComing(c)'
    BY <1>1, <1>10, <2>3, <2>6 DEF GrabFirst
  <2>7. client'[c].own => GrabComing(c)'
    BY <1>1, <1>10, <2>3 DEF GrabFirst
  <2>8. server'.clipSeq = 0
    BY <1>5, <1>10 DEF GrabFirst
  <2>9. QED
    BY <2>4, <2>5, <2>6, <2>7, <2>8 DEF GrabFirst
<1>11. GrabFirst(c) => GrabFirst(c)'
  BY <1>5, <1>10 DEF GrabFirst
<1>12. QED
  BY <1>9, <1>11

LEMMA AloneReceive ==
    ASSUME StateInv, NEW c \in Clients, Alone(c), NEW d \in Clients, ClientReceive(d)
    PROVE  Alone(c)' /\ (GrabFirst(c) => GrabFirst(c)')
<1> USE Bounds
<1> DEFINE k == client[d]
           n == client'[d]
<1>1. /\ Head(down[d]) \in KnownMessage /\ KnownClient(n) /\ client' = [client EXCEPT ![d] = n]
      /\ ReceiveEffect(Head(down[d]), k, n, Raisable(d)) /\ ScreenOf(d)
  BY ReceiveDoes
<1>2. UNCHANGED <<server, events, connected, up, copies>>
  BY DEF ClientReceive
<1>3. /\ n.own => k.own
      /\ n.events = k.events \/ Longer(k.events, n.events, Raisable(d))
      /\ k.events \in Seq(KnownRaised) /\ n.events \in Seq(KnownRaised)
  BY <1>1 DEF ReceiveEffect, KnownMessage, Message, StateInv, KnownClient
<1>4. Len(k.events) \in Nat /\ Len(n.events) \in Nat
  BY <1>3, LenProperties
<1>5. \A b \in Clients \ {d} : client'[b] = client[b]
  BY <1>1 DEF StateInv
<1>6. Unlost(c)
  BY <1>1 DEF ScreenOf, Unlost, Screens
<1>7. ASSUME d # c PROVE ~n.own /\ n.events = <<>>
  <2>1. ~k.own /\ k.events = <<>> /\ ~LostTo(screen[d])
    BY <1>7 DEF Alone
  <2>2. Raisable(d) = {}
    BY <2>1 DEF Raisable, Raised
  <2>3. Len(n.events) = 0
    <3>1. Len(n.events) > Len(k.events) => Len(n.events) \in 1 .. Len(n.events)
      BY <1>4
    <3>2. QED
      BY <1>3, <1>4, <2>1, <2>2, <3>1 DEF Longer
  <2>4. QED
    BY <1>3, <2>1, <2>3, EmptySeq
<1>8. NoMoreToSend(c)
  <2>1. CASE d # c
    BY <1>2, <1>5, <2>1 DEF NoMoreToSend
  <2>2. CASE d = c
    <3>1. ASSUME NEW i \in 1 .. Len(n.events), n.events[i].kind = "sending"
          PROVE  k.own \/ \E j \in 1 .. Len(k.events) : k.events[j].kind = "sending"
      <4>1. CASE n.events = k.events \/ i <= Len(k.events)
        <5>1. i \in 1 .. Len(k.events) /\ k.events[i] = n.events[i]
          BY <1>3, <1>4, <4>1 DEF Longer
        <5>2. QED
          BY <3>1, <5>1
      <4>2. CASE n.events # k.events /\ i > Len(k.events)
        <5>1. n.events[i] \in Raisable(d)
          BY <1>3, <4>2 DEF Longer
        <5>2. QED
          BY <3>1, <5>1 DEF Raisable
      <4>3. QED
        BY <1>4, <4>1, <4>2
    <3>2. QED
      BY <1>2, <1>3, <2>2, <3>1 DEF NoMoreToSend
  <2>3. QED
    BY <2>1, <2>2
<1>9. Shifted(0) /\ Len(events) \in Nat
  BY <1>2, SameEvents, LenProperties DEF StateInv
<1>10. Alone(c)'
  BY <1>2, <1>5, <1>6, <1>7, <1>9, AloneShifted DEF Alone
<1>11. NoGrabTaken(0)
  BY <1>9 DEF NoGrabTaken
<1>12. GrabFirst(c) => GrabFirst(c)'
  BY <1>2, <1>8, <1>9, <1>11, GrabFirstShifted
<1>13. QED
  BY <1>10, <1>12

LEMMA AloneEvent ==
    ASSUME StateInv, NEW c \in Clients, Alone(c), NEW d \in Clients, ClientEvent(d)
    PROVE  Alone(c)' /\ (GrabFirst(c) => GrabFirst(c)')
<1> USE Bounds
<1>1. UNCHANGED <<server, events, connected, down, screen, copies>> /\ client[d].events # <<>>
  BY DEF ClientEvent
<1>2. d = c
  BY <1>1 DEF Alone
<1> DEFINE k == client[c]
           n == client'[c]
           e == Head(k.events)
<1>3. /\ KnownClient(n) /\ client' = [client EXCEPT ![c] = n] /\ up' = [up EXCEPT ![c] = up'[c]]
      /\ ClientEventEffect(e, k, n, up[c], up'[c]) /\ e \in KnownRaised
  BY <1>2, ClientEventDoes
<1>4. \A b \in Clients \ {c} : client'[b] = client[b] /\ up'[b] = up[b]
  BY <1>3 DEF StateInv
<1>5. Alone(c)'
  BY <1>1, <1>4 DEF Alone
<1>6. /\ k.events \in Seq(KnownRaised) /\ k.events # <<>> /\ n.events \in Seq(KnownRaised)
  BY <1>1, <1>2, <1>3 DEF StateInv, KnownClient
<1>7. /\ e = k.events[1] /\ 1 \in 1 .. Len(k.events) /\ Len(n.events) \in Nat
      /\ Len(Tail(k.events)) \in Nat
      /\ \A i \in 1 .. Len(Tail(k.events)) :
            i + 1 \in 1 .. Len(k.events) /\ Tail(k.events)[i] = k.events[i + 1]
  BY <1>6, HeadTailProperties, LenProperties
<1>8. PICK m \in Message : /\ up'[c] = Append(up[c], m)
                          /\ (e.kind = "grabbed") = (m.kind = "grab")
  <2>1. e.seq \in SeqNums /\ e.data \in Contents /\ e.kind \in {"grabbed", "sending"}
    BY <1>3 DEF KnownRaised, Raised
  <2>2. k.seqNum \in SeqNums
    BY DEF StateInv, ClientType
  <2>3. CASE e.kind = "grabbed"
    <3>1. Msg("grab", k.seqNum, Nothing) \in Message /\ Msg("grab", k.seqNum, Nothing).kind = "grab"
      BY <2>2 DEF Msg, Message
    <3>2. QED
      BY <1>3, <2>3, <3>1 DEF ClientEventEffect
  <2>4. CASE e.kind = "sending"
    <3>1. Msg("data", e.seq, e.data) \in Message /\ Msg("data", e.seq, e.data).kind = "data"
      BY <2>1 DEF Msg, Message
    <3>2. QED
      BY <1>3, <2>4, <3>1 DEF ClientEventEffect
  <2>5. QED
    BY <2>1, <2>3, <2>4
<1>9. /\ Len(up[c]) \in Nat /\ Len(up'[c]) = Len(up[c]) + 1 /\ up'[c][Len(up[c]) + 1] = m
      /\ \A i \in 1 .. Len(up[c]) : up'[c][i] = up[c][i] /\ i \in Nat
  <2>1. up[c] \in Seq(Message)
    BY SeqWider DEF StateInv, KnownMessage
  <2>2. QED
    BY <1>8, <2>1, MessageAppend
<1>10. /\ \A i \in 1 .. Len(up'[c]) : i \in 1 .. Len(up[c]) \/ i = Len(up[c]) + 1
       /\ \A i \in 1 .. Len(up[c]) : i \in 1 .. Len(up'[c]) /\ i < Len(up[c]) + 1
       /\ Len(up[c]) + 1 \in 1 .. Len(up'[c])
  BY <1>9
<1> HIDE DEF k, n, e
<1>11. ASSUME server.owner # c, GrabFirst(c) PROVE GrabFirst(c)'
  <2>1. GrabHeard' = GrabHeard
    BY <1>1 DEF GrabHeard
  <2>2. GrabComing(c) => GrabComing(c)'
    BY <1>9, <1>10, <2>1 DEF GrabComing
  <2>3. GrabComing(c)'
    <3>1. CASE e.kind = "grabbed"
      BY <1>8, <1>9, <1>10, <3>1 DEF GrabComing
    <3>2. CASE e.kind = "sending"
      <4>1. GrabComing(c)
        BY <1>7, <1>11, <3>2 DEF GrabFirst, k
      <4>2. QED
        BY <2>2, <4>1
    <3>3. QED
      BY <1>3, <3>1, <3>2 DEF KnownRaised, Raised
  <2>4. ASSUME NEW j \in 1 .. Len(up'[c]), up'[c][j].kind # "grab", ~GrabHeard'
        PROVE  \E i \in 1 .. Len(up'[c]) : i < j /\ up'[c][i].kind = "grab"
    <3>1. CASE j \in 1 .. Len(up[c])
      <4>1. PICK i \in 1 .. Len(up[c]) : i < j /\ up[c][i].kind = "grab"
        BY <1>9, <1>11, <2>1, <2>4, <3>1 DEF GrabFirst
      <4>2. QED
        BY <1>9, <1>10, <4>1
    <3>2. CASE j = Len(up[c]) + 1
      <4>1. PICK i \in 1 .. Len(up'[c]) : up'[c][i].kind = "grab"
        BY <2>3, <2>4 DEF GrabComing
      <4>2. i \in 1 .. Len(up[c])
        BY <1>10, <2>4, <3>2, <4>1
      <4>3. QED
        BY <1>10, <3>2, <4>1, <4>2
    <3>3. QED
      BY <1>10, <3>1, <3>2
  <2>5. ASSUME NEW j \in 1 .. Len(events'), Told(events'[j])
        PROVE  \E i \in 1 .. Len(events') :
                   i <= j /\ Told(events'[i]) /\ events'[i].kind = "grabbed"
    BY <1>1, <1>11, <2>5 DEF GrabFirst
  <2>6. server'.clipSeq = 0
    BY <1>1, <1>11 DEF GrabFirst
  <2>7. QED
    BY <2>3, <2>4, <2>5, <2>6 DEF GrabFirst
<1>12. GrabFirst(c) => GrabFirst(c)'
  BY <1>1, <1>11 DEF GrabFirst
<1>13. QED
  BY <1>5, <1>12

LEMMA AloneElsewhere ==
    ASSUME StateInv, CourierInv, NEW c \in Clients, OnlyClient(c), Alone(c),
           \/ \E s \in Screens : Copy(s) \/ onClipboardChange(s)
           \/ \E d \in Clients : Connect(d)
    PROVE  Alone(c)' /\ (GrabFirst(c) => GrabFirst(c)')
<1> USE Bounds
<1>1. Len(events) \in Nat
  BY LenProperties DEF StateInv
<1> DEFINE Kept == Alone(c)' /\ (GrabFirst(c) => GrabFirst(c)')
<1>2. ASSUME Unlost(c), UNCHANGED <<server, up>>, Shifted(0), Len(events') \in Nat, NoMoreToSend(c),
             \A d \in Clients \ {c} : ~client'[d].own /\ client'[d].events = <<>>
      PROVE  Kept
  <2>1. NoGrabTaken(0)
    BY <1>1 DEF NoGrabTaken
  <2>2. Alone(c)'
    BY <1>2, AloneShifted DEF Alone
  <2>3. GrabFirst(c) => GrabFirst(c)'
    BY <1>1, <1>2, <2>1, GrabFirstShifted
  <2>4. QED
    BY <2>2, <2>3
<1> HIDE DEF Kept
<1>3. ASSUME NEW s \in Screens, Copy(s) PROVE Kept
  <2>1. s \in {c, Primary}
    BY <1>3 DEF Copy, OnlyClient
  <2>2. UNCHANGED <<server, events, up, client>>
        /\ \A d \in Clients \ {c} : screen'[d] = screen[d]
    BY <1>3, <2>1 DEF Copy, StateInv
  <2>3. NoMoreToSend(c) /\ Unlost(c) /\ Shifted(0)
    BY <1>1, <2>2, SameEvents DEF NoMoreToSend, Unlost
  <2>4. QED
    BY <1>1, <1>2, <2>2, <2>3 DEF Alone
<1>4. ASSUME NEW s \in Screens, onClipboardChange(s) PROVE Kept
  <2>1. UNCHANGED <<server, connected, down, up, copies>>
        /\ screen' = [screen EXCEPT ![s].notice = FALSE, ![s].own = screen[s].ours]
    BY <1>4 DEF onClipboardChange
  <2>2. Unlost(c)
    BY <2>1 DEF StateInv, ScreenType, Unlost, LostTo
  <2>3. Shifted(0) /\ Len(events') \in Nat
    <3> DEFINE e == Event("grabbed", Primary, server.primarySeq, Nothing)
    <3>1. e \in EventType /\ ~Told(e)
      BY DEF Event, EventType, Told, StateInv, ServerType
    <3> HIDE DEF e
    <3>2. events \in Seq(EventType)
      BY SeqWider DEF StateInv, KnownEvent
    <3>3. CASE events' = Append(events, e)
      <4>1. Longer(events, Append(events, e), {e}) /\ Append(events, e) \in Seq(EventType)
        BY <3>1, <3>2, LongerAppend, AppendProperties
      <4>2. QED
        BY <3>1, <3>2, <3>3, <4>1, LongerShifts, LenProperties
    <3>4. CASE UNCHANGED events
      BY <1>1, <3>4, SameEvents
    <3>5. QED
      BY <1>4, <3>3, <3>4 DEF onClipboardChange, e
  <2>4. CASE UNCHANGED client
    <3>1. NoMoreToSend(c)
      BY <2>1, <2>4 DEF NoMoreToSend
    <3>2. QED
      BY <1>2, <2>1, <2>2, <2>3, <2>4, <3>1 DEF Alone
  <2>5. CASE ~UNCHANGED client
    <3>1. s = c /\ client' = [client EXCEPT ![c] = raised(client[c])]
      BY <1>4, <2>5 DEF onClipboardChange, Alone, Screens
    <3> DEFINE x == [kind |-> "grabbed", seq |-> 0, data |-> Nothing]
               es == Append(client[c].events, x)
    <3>2. /\ client'[c].own = client[c].own /\ client'[c].events = es
          /\ \A d \in Clients \ {c} : client'[d] = client[d]
      BY <3>1 DEF StateInv, ClientType, raised
    <3>3. x \in Raised /\ client[c].events \in Seq(Raised) /\ x.kind # "sending"
      <4>1. x \in Raised /\ x.kind # "sending"
        BY DEF Raised
      <4>2. client[c].events \in Seq(KnownRaised) /\ KnownRaised \subseteq Raised
        BY DEF StateInv, KnownRaised
      <4>3. QED
        BY <4>1, <4>2, SeqWider
    <3>4. \A i \in 1 .. Len(es) : \/ i \in 1 .. Len(client[c].events) /\ es[i] = client[c].events[i]
                                 \/ es[i] = x
      <4> HIDE DEF x
      <4>1. QED
        BY <3>3, LenProperties, AppendProperties
    <3> HIDE DEF x, es
    <3>5. NoMoreToSend(c)
      BY <2>1, <3>2, <3>3, <3>4 DEF NoMoreToSend
    <3>6. QED
      BY <1>2, <2>1, <2>2, <2>3, <3>2, <3>5 DEF Alone
  <2>6. QED
    BY <2>4, <2>5
<1>5. ASSUME NEW d \in Clients, Connect(d) PROVE Kept
  <2> DEFINE k == [client[d] EXCEPT !.seqNum = 0, !.own = FALSE, !.sent = FALSE]
  <2>1. /\ client' = [client EXCEPT ![d] = k] /\ UNCHANGED <<server, events, up>>
        /\ screen' = [screen EXCEPT ![d] = Written(screen[d], Nothing)]
    BY <1>5 DEF Connect
  <2>2. /\ ~client'[d].own /\ client'[d].events = client[d].events
        /\ \A b \in Clients \ {d} : client'[b] = client[b]
    BY <2>1 DEF StateInv, ClientType
  <2>3. ~LostTo(screen'[d]) /\ \A s \in Screens \ {d} : screen'[s] = screen[s]
    BY <2>1, WrittenType DEF StateInv
  <2>4. Unlost(c) /\ NoMoreToSend(c) /\ Shifted(0)
    BY <1>1, <2>1, <2>2, <2>3, SameEvents DEF Unlost, NoMoreToSend
  <2>5. QED
    BY <1>1, <1>2, <2>1, <2>2, <2>4 DEF Alone
<1>6. QED
  BY <1>3, <1>4, <1>5 DEF Kept

LEMMA AloneLost ==
    ASSUME StateInv, NEW c \in Clients, OnlyClient(c), Alone(c),
           UNCHANGED scenario, NEW d \in Clients, Disconnect(d)
    PROVE  Alone(c)' /\ (GrabFirst(c) => GrabFirst(c)')
<1> USE Bounds
<1>1. d # c
  BY DEF Disconnect, OnlyClient
<1>2. /\ events' = Orphaned(d) /\ up' = [up EXCEPT ![d] = <<>>]
      /\ client' = [client EXCEPT ![d].events = <<>>]
  BY DEF Disconnect, Orphaned
<1>3. /\ up'[d] = <<>> /\ client'[d].events = <<>> /\ client'[d].own = client[d].own
      /\ \A b \in Clients \ {d} : up'[b] = up[b] /\ client'[b] = client[b]
  BY <1>2 DEF StateInv, ClientType
<1>4. Unlost(c)
  <2>1. PICK own \in {screen[d].own, screen[d].own /\ screen[d].ours} :
           screen' = [screen EXCEPT ![d] = [screen[d] EXCEPT !.own = own, !.notice = FALSE]]
    BY DEF Disconnect, StateInv, ScreenType
  <2>2. QED
    BY <2>1 DEF StateInv, ScreenType, Unlost, LostTo
<1>5. server'.owner = server.owner /\ server'.clipSeq = server.clipSeq
  <2> DEFINE rest == freshProxy(server, d)
  <2>1. rest \in ServerType /\ rest.owner = server.owner /\ rest.clipSeq = server.clipSeq
    <3>1. /\ server \in ServerType /\ [server.dirty EXCEPT ![d] = TRUE] \in [Screens -> BOOLEAN]
          /\ [server.buffer EXCEPT ![d] = Nothing] \in [Clients -> Contents]
      BY DEF StateInv, ServerType
    <3>2. rest = [server EXCEPT !.dirty = [server.dirty EXCEPT ![d] = TRUE],
                                !.buffer = [server.buffer EXCEPT ![d] = Nothing]]
      BY <3>1 DEF freshProxy, ServerType
    <3>3. QED
      BY <3>1, <3>2 DEF ServerType
  <2>2. server' = rest \/ server' = [rest EXCEPT !.active = Primary, !.primarySeq = rest.seqNum]
    BY DEF Disconnect
  <2> HIDE DEF rest
  <2>3. QED
    BY <2>1, <2>2 DEF ServerType
<1>6. Shifted(0) /\ Len(events) \in Nat /\ Len(events') \in Nat
  <2>1. /\ Len(events') = Len(events) /\ Len(events) \in Nat
        /\ \A i \in 1 .. Len(events) :
              events'[i] = IF events[i].who = d THEN Event("orphan", d, 0, Nothing) ELSE events[i]
    BY <1>2, OrphanedKnown, LenProperties DEF StateInv
  <2>2. Event("orphan", d, 0, Nothing).kind = "orphan"
    BY DEF Event
  <2>3. \A i \in 1 .. Len(events) :
           Told(events[i]) \/ Told(events'[i]) => events'[i] = events[i]
    BY <1>1, <2>1, <2>2 DEF Alone, Told
  <2>4. QED
    BY <2>1, <2>3 DEF Shifted
<1>7. NoMoreToSend(c)
  BY <1>1, <1>3 DEF NoMoreToSend
<1>8. \A b \in Clients \ {c} : ~client'[b].own /\ client'[b].events = <<>> /\ up'[b] = <<>>
  BY <1>3 DEF Alone
<1>9. Alone(c)'
  BY <1>4, <1>6, <1>8, AloneShifted
<1>10. NoGrabTaken(0)
  BY <1>6 DEF NoGrabTaken
<1>11. GrabFirst(c) => GrabFirst(c)'
  BY <1>5, <1>6, <1>7, <1>10, GrabFirstShifted
<1>12. QED
  BY <1>9, <1>11

LEMMA AloneNext == StateInv /\ CourierInv /\ AloneInv /\ [Next]_vars => AloneInv'
<1> SUFFICES ASSUME StateInv, CourierInv, AloneInv, [Next]_vars, NEW c \in Clients, OnlyClient(c)'
             PROVE  Alone(c)'
  BY DEF AloneInv
<1>1. UNCHANGED scenario
  BY DEF Next, vars
<1>2. OnlyClient(c) /\ Alone(c)
  BY <1>1 DEF OnlyClient, AloneInv
<1>3. CASE UNCHANGED vars
  BY <1>2, <1>3 DEF vars, Alone
<1>4. CASE Next
  BY <1>1, <1>2, <1>4, AloneServer, AloneRead, AloneReceive, AloneEvent, AloneElsewhere, AloneLost
     DEF Next
<1>5. QED
  BY <1>3, <1>4

LEMMA FirstNext == StateInv /\ CourierInv /\ AloneInv /\ IdleInv /\ FirstInv /\ [Next]_vars => FirstInv'
<1> SUFFICES ASSUME StateInv, CourierInv, AloneInv, IdleInv, FirstInv, [Next]_vars,
                    NEW c \in Clients, OnlyCopier(c)'
             PROVE  GrabFirst(c)'
  BY DEF FirstInv
<1>1. UNCHANGED scenario
  BY DEF Next, vars
<1>2. OnlyClient(c) /\ Alone(c) /\ GrabFirst(c) /\ Idle
  BY <1>1 DEF OnlyCopier, OnlyClient, AloneInv, IdleInv, FirstInv
<1>3. CASE UNCHANGED vars
  BY <1>2, <1>3 DEF vars, GrabFirst, GrabComing, GrabHeard
<1>4. CASE Next
  BY <1>1, <1>2, <1>4, FirstServer, AloneRead, AloneReceive, AloneEvent, AloneElsewhere, AloneLost
     DEF Next
<1>5. QED
  BY <1>3, <1>4

LEMMA IdleNext == StateInv /\ IdleInv /\ [Next]_vars => IdleInv'
<1> SUFFICES ASSUME StateInv, IdleInv, [Next]_vars, Primary \notin scenario.copiers PROVE Idle'
  BY DEF IdleInv, Next, vars
<1> USE Bounds
<1>1. Idle /\ events \in Seq(EventType)
  BY SeqWider DEF IdleInv, StateInv, KnownEvent
<1>2. CASE UNCHANGED vars
  BY <1>1, <1>2 DEF vars, Idle
<1>3. ASSUME NEW q \in Seq(EventType), NEW E, Longer(q, events', E), events' \in Seq(EventType),
             \A e \in E : e.kind # "grabbed" \/ e.who # Primary,
             \A i \in 1 .. Len(q) : q[i].kind = "grabbed" => q[i].who # Primary,
             ~LostTo(screen'[Primary])
      PROVE  Idle'
  BY <1>3, LenProperties DEF Longer, Idle
<1>4. ASSUME SwitchScreen PROVE Idle'
  <2>1. PICK dst \in (connected \cup {Primary}) \ {server.active} : SwitchEffect(Now', Now, dst)
    BY <1>4, SwitchDoes
  <2>2. /\ Longer(events, events', Added(Now, dst)) /\ events' \in Seq(EventType)
    BY <2>1 DEF SwitchEffect, State, Now
  <2>3. \A e \in Added(Now, dst) : e.kind # "grabbed"
    BY <1>1 DEF Added, PrimaryGrabs, Sendings, Now, Idle
  <2>4. ~LostTo(screen'[Primary])
    BY <1>1, <1>4, ServerShifts DEF Idle
  <2>5. QED
    BY <1>1, <1>3, <2>2, <2>3, <2>4 DEF Idle
<1>5. ASSUME ServerEvent PROVE Idle'
  <2>1. /\ Longer(Tail(events), events', Sendings(server.active)) /\ events' \in Seq(EventType)
        /\ events # <<>> /\ Tail(events) \in Seq(EventType)
    BY <1>5, EventHandled DEF Handled
  <2>2. \A i \in 1 .. Len(Tail(events)) : i + 1 \in 1 .. Len(events) /\ Tail(events)[i] = events[i + 1]
    BY <1>1, <2>1, HeadTailProperties, LenProperties
  <2>3. ~LostTo(screen'[Primary])
    BY <1>1, <1>5, ServerShifts DEF Idle
  <2>4. \A e \in Sendings(server.active) : e.kind # "grabbed"
    BY DEF Sendings
  <2>5. \A i \in 1 .. Len(Tail(events)) :
           Tail(events)[i].kind = "grabbed" => Tail(events)[i].who # Primary
    BY <1>1, <2>2 DEF Idle
  <2>6. QED
    BY <1>3, <2>1, <2>3, <2>4, <2>5
<1>6. ASSUME NEW c \in Clients, ServerReceive(c) PROVE Idle'
  <2>1. PICK k \in {"grabbed", "changed"} : events' = Append(events, Event(k, c, Head(up[c]).seq, Nothing))
    BY <1>6 DEF ServerReceive
  <2> DEFINE e == Event(k, c, Head(up[c]).seq, Nothing)
  <2>2. e.who = c /\ e \in EventType
    <3>1. up[c] \in Seq(KnownMessage) /\ up[c] # <<>>
      BY <1>6 DEF ServerReceive, StateInv
    <3>2. Head(up[c]) \in Message
      BY <3>1, HeadTailProperties DEF KnownMessage
    <3>3. QED
      BY <3>2 DEF Event, EventType, Message
  <2> HIDE DEF e
  <2>3. Longer(events, Append(events, e), {e}) /\ Append(events, e) \in Seq(EventType)
    BY <1>1, <2>2, LongerAppend, AppendProperties
  <2>4. UNCHANGED screen
    BY <1>6 DEF ServerReceive
  <2>5. QED
    BY <1>1, <1>3, <2>1, <2>2, <2>3, <2>4 DEF Idle, e
<1>7. ASSUME UNCHANGED events, screen'[Primary] = screen[Primary] PROVE Idle'
  BY <1>1, <1>7 DEF Idle
<1>8. ASSUME NEW c \in Clients, ClientReceive(c) \/ ClientEvent(c) \/ Connect(c) PROVE Idle'
  <2>1. UNCHANGED events /\ screen'[Primary] = screen[Primary]
    <3>1. CASE ClientReceive(c)
      BY <3>1, ReceiveDoes DEF ScreenOf, ClientReceive
    <3>2. CASE ClientEvent(c)
      BY <3>2 DEF ClientEvent
    <3>3. CASE Connect(c)
      BY <3>3 DEF Connect, StateInv
    <3>4. QED
      BY <1>8, <3>1, <3>2, <3>3
  <2>2. QED
    BY <1>7, <2>1
<1>9. ASSUME NEW s \in Screens, Copy(s) PROVE Idle'
  BY <1>7, <1>9 DEF Copy, StateInv
<1>10. ASSUME NEW s \in Screens, onClipboardChange(s) PROVE Idle'
  <2>1. UNCHANGED events
    BY <1>1, <1>10 DEF onClipboardChange, Idle
  <2>2. LostTo(screen'[Primary]) => LostTo(screen[Primary])
    BY <1>10 DEF onClipboardChange, StateInv, ScreenType, LostTo
  <2>3. QED
    BY <1>1, <2>1, <2>2 DEF Idle
<1>11. ASSUME NEW c \in Clients, Disconnect(c) PROVE Idle'
  <2>1. /\ Len(events') = Len(events)
        /\ \A i \in 1 .. Len(events) :
              events'[i] = IF events[i].who = c THEN Event("orphan", c, 0, Nothing) ELSE events[i]
    BY <1>11, OrphanedKnown DEF Disconnect, Orphaned
  <2>2. Event("orphan", c, 0, Nothing).who = c
    BY DEF Event
  <2>3. screen'[Primary] = screen[Primary]
    BY <1>11 DEF Disconnect, StateInv, ScreenType
  <2>4. QED
    BY <1>1, <2>1, <2>2, <2>3 DEF Idle
<1>12. QED
  BY <1>2, <1>4, <1>5, <1>6, <1>8, <1>9, <1>10, <1>11 DEF Next

LoneInv == GrabInv /\ AloneInv /\ IdleInv /\ FirstInv

LEMMA LoneAlways == Spec => []LoneInv
<1>1. Init => AloneInv /\ IdleInv /\ FirstInv
  BY AloneInit
<1>2. LoneInv /\ GrabInv' /\ [Next]_vars => LoneInv'
  BY AloneNext, IdleNext, FirstNext DEF GrabInv, LoneInv
<1>3. LoneInv <=> GrabInv /\ AloneInv /\ IdleInv /\ FirstInv
  BY DEF LoneInv
<1>4. QED
  BY <1>1, <1>2, <1>3, GrabAlways, PTL DEF Spec

LEMMA SenderExpected ==
    ASSUME LoneInv, NEW c \in Clients, OnlyCopier(c) PROVE ExpectedSender
<1> SUFFICES ASSUME events # <<>>, Head(events).kind = "changed"
             PROVE  Head(events).who = server.owner
  BY DEF ExpectedSender
<1>1. Head(events) = events[1] /\ 1 \in 1 .. Len(events)
  BY HeadTailProperties, LenProperties DEF LoneInv, GrabInv, StateInv
<1>2. OnlyClient(c) /\ Alone(c) /\ GrabFirst(c)
  BY DEF OnlyCopier, LoneInv, AloneInv, FirstInv
<1>3. Told(events[1]) => events[1].who = c /\ server.owner = c
  BY <1>1, <1>2 DEF Alone, GrabFirst
<1>4. events[1].kind = "changed" => Told(events[1])
  BY <1>1, LenProperties DEF LoneInv, GrabInv, CourierInv, Attributed, Told
<1>5. QED
  BY <1>1, <1>3, <1>4

\* The types, and the limit on what a message carries.
LEMMA Typed == StateInv => TypeOK /\ LimitRespected
<1> SUFFICES ASSUME StateInv PROVE TypeOK /\ LimitRespected
  OBVIOUS
<1>1. /\ KnownEvent \subseteq EventType /\ KnownMessage \subseteq Message
      /\ \A m \in KnownMessage : m.data \notin Oversized
  BY DEF KnownEvent, KnownMessage, Known
<1>2. events \in Seq(EventType)
  BY <1>1, SeqWider DEF StateInv
<1>3. /\ down \in [Clients -> Seq(Message)] /\ up \in [Clients -> Seq(Message)]
      /\ down \in [Clients -> Seq(KnownMessage)] /\ up \in [Clients -> Seq(KnownMessage)]
  <2>1. \A c \in Clients : down[c] \in Seq(Message) /\ up[c] \in Seq(Message)
    BY <1>1, SeqWider DEF StateInv
  <2>2. QED
    BY <2>1 DEF StateInv
<1>4. TypeOK
  BY <1>2, <1>3 DEF StateInv, TypeOK
<1>5. \A q \in Seq(KnownMessage) : \A i \in DOMAIN q : q[i].data \notin Oversized
  <2>1. \A q \in Seq(KnownMessage) : \A i \in DOMAIN q : q[i] \in KnownMessage
    BY LenProperties
  <2>2. QED
    BY <1>1, <2>1
<1>6. LimitRespected
  BY <1>3, <1>5 DEF LimitRespected
<1>7. QED
  BY <1>4, <1>6

\* The server takes data from the owner only where one client copies, and nothing that is
\* sent exceeds the limit (Server::onClipboardChanged, Client::sendClipboard).
THEOREM DataExpectedAlways == Spec => []DataExpected
<1>1. LoneInv => DataExpected
  BY Typed, SenderExpected DEF DataExpected, LoneInv, GrabInv
<1>2. QED
  BY <1>1, LoneAlways, PTL

\* A client that owns the clipboard and has not the cursor sent what it owns, where no
\* connection is lost and all fits (Client::leave, Client::handleClipboardGrabbed).
THEOREM OwnerSentAlways == Spec => []OwnerSent
  BY SentEnough, StateAlways, CourseAlways, PTL

------------------------------------------------------------------------------
(* The last of a kind in a queue. *)

\* The last of q that is in T is in V; where q has none, it is so already.
LastIn(q, T, V, already) ==
    \/ \E i \in 1 .. Len(q) :
          q[i] \in T /\ q[i] \in V /\ \A j \in 1 .. Len(q) : j > i => q[j] \notin T
    \/ already /\ \A i \in 1 .. Len(q) : q[i] \notin T

LEMMA LastInLonger ==
    ASSUME NEW S, NEW q \in Seq(S), NEW r \in Seq(S), NEW E, Longer(q, r, E), NEW T,
           \A e \in E : e \notin T, NEW V, NEW before \in BOOLEAN, LastIn(q, T, V, before)
    PROVE  LastIn(r, T, V, before)
<1>1. /\ Len(q) \in Nat /\ Len(r) \in Nat /\ Len(q) <= Len(r)
      /\ \A i \in 1 .. Len(q) : r[i] = q[i] /\ i \in 1 .. Len(r)
      /\ \A i \in 1 .. Len(r) : i \in 1 .. Len(q) \/ r[i] \notin T
  BY LenProperties DEF Longer
<1>2. QED
  BY <1>1 DEF LastIn

LEMMA LastInAppend ==
    ASSUME NEW S, NEW q \in Seq(S), NEW e \in S, NEW T, NEW V, NEW before \in BOOLEAN,
           (e \in T /\ e \in V) \/ (e \notin T /\ LastIn(q, T, V, before))
    PROVE  LastIn(Append(q, e), T, V, before)
<1> DEFINE r == Append(q, e)
<1>1. /\ Len(q) \in Nat /\ Len(r) = Len(q) + 1 /\ r[Len(q) + 1] = e
      /\ \A i \in 1 .. Len(q) : r[i] = q[i]
  BY LenProperties, AppendProperties
<1> HIDE DEF r
<1>2. /\ \A i \in 1 .. Len(r) : i \in 1 .. Len(q) \/ i = Len(q) + 1
      /\ \A i \in 1 .. Len(q) : i \in 1 .. Len(r) /\ i \in Nat
      /\ Len(q) + 1 \in 1 .. Len(r) /\ \A j \in 1 .. Len(r) : ~(j > Len(q) + 1)
  BY <1>1
<1>3. QED
  BY <1>1, <1>2 DEF LastIn, r

LEMMA LastInTail ==
    ASSUME NEW S, NEW q \in Seq(S), q # <<>>, NEW T, NEW V, NEW before \in BOOLEAN,
           LastIn(q, T, V, before), NEW after \in BOOLEAN,
           Head(q) \in T /\ Head(q) \in V => after,
           Head(q) \notin T /\ before => after
    PROVE  LastIn(Tail(q), T, V, after)
<1> DEFINE r == Tail(q)
<1>1. /\ Len(q) \in Nat \ {0} /\ Len(r) = Len(q) - 1 /\ Head(q) = q[1]
      /\ \A i \in 1 .. Len(r) : r[i] = q[i + 1]
  BY LenProperties, HeadTailProperties
<1> HIDE DEF r
<1>2. /\ \A i \in 1 .. Len(r) : i + 1 \in 1 .. Len(q) /\ i \in Nat /\ i + 1 > 1
      /\ \A i \in 1 .. Len(q) : i = 1 \/ (i - 1 \in 1 .. Len(r) /\ r[i - 1] = q[i] /\ i \in Nat)
      /\ 1 \in 1 .. Len(q)
  <2>1. \A i \in 1 .. Len(q) : i # 1 => i - 1 \in 1 .. Len(r) /\ (i - 1) + 1 = i
    BY <1>1
  <2>2. QED
    BY <1>1, <2>1
<1>3. CASE \E i \in 1 .. Len(q) :
              q[i] \in T /\ q[i] \in V /\ \A j \in 1 .. Len(q) : j > i => q[j] \notin T
  <2>1. PICK i \in 1 .. Len(q) :
             q[i] \in T /\ q[i] \in V /\ \A j \in 1 .. Len(q) : j > i => q[j] \notin T
    BY <1>3
  <2>2. CASE i = 1
    <3>1. after /\ \A j \in 1 .. Len(r) : r[j] \notin T
      BY <1>1, <1>2, <2>1, <2>2
    <3>2. QED
      BY <3>1 DEF LastIn, r
  <2>3. CASE i # 1
    <3>1. /\ i - 1 \in 1 .. Len(r) /\ r[i - 1] = q[i] /\ i \in Nat
      BY <1>2, <2>3
    <3>2. \A j \in 1 .. Len(r) : j > i - 1 => r[j] \notin T
      BY <1>1, <1>2, <2>1, <3>1
    <3>3. QED
      BY <2>1, <3>1, <3>2 DEF LastIn, r
  <2>4. QED
    BY <2>2, <2>3
<1>4. CASE before /\ \A i \in 1 .. Len(q) : q[i] \notin T
  <2>1. after /\ \A j \in 1 .. Len(r) : r[j] \notin T
    BY <1>1, <1>2, <1>4
  <2>2. QED
    BY <2>1 DEF LastIn, r
<1>5. QED
  BY <1>3, <1>4 DEF LastIn

LEMMA LastInMore ==
    ASSUME NEW q, NEW T, NEW V, NEW W, NEW before, NEW after, LastIn(q, T, V, before),
           \A x \in T : x \in V => x \in W, before => after
    PROVE  LastIn(q, T, W, after)
  BY DEF LastIn

\* What giving a screen the clipboard does, exactly.
SetClipboardExact(r, w, s) ==
    \/ r = w /\ ~w.server.dirty[s]
    \/ /\ w.server.dirty[s] /\ r \in State /\ r.down = w.down
       /\ SameCourse(r.server, w.server)
       /\ r.server.cache = w.server.cache /\ r.server.data = w.server.data
       /\ r.server.dirty = [w.server.dirty EXCEPT ![s] = FALSE]
       /\ s = Primary =>
             /\ r.server.buffer = w.server.buffer /\ r.events = w.events
             /\ r.screen = [w.screen EXCEPT ![Primary] = Written(@, w.server.cache)]
       /\ s # Primary =>
             /\ r.server.buffer = [w.server.buffer EXCEPT ![s] = w.server.cache]
             /\ r.events = Append(w.events, Event("sending", s, 0, w.server.cache))
             /\ r.screen = w.screen

LEMMA SetClipboardExactly ==
    ASSUME NEW w \in State, NEW s \in Screens, NEW r, r = setClipboard(w, s)
    PROVE  SetClipboardExact(r, w, s)
<1> USE DEF SetClipboardExact
<1> USE Bounds
<1> DEFINE clean == [w EXCEPT !.server.dirty[s] = FALSE]
           d == w.server.cache
<1>1. /\ w.server \in ServerType /\ w.events \in Seq(EventType)
      /\ w.screen \in [Screens -> ScreenType] /\ w.down \in [Clients -> Seq(Message)]
  BY DEF State
<1>2. d \in Contents
  BY <1>1 DEF ServerType
<1>3. /\ clean \in State /\ clean.events = w.events /\ clean.down = w.down /\ clean.screen = w.screen
      /\ clean.server = [w.server EXCEPT !.dirty[s] = FALSE]
  <2>1. [w.server EXCEPT !.dirty[s] = FALSE] \in ServerType
    BY <1>1 DEF ServerType
  <2>2. QED
    BY <1>1, <2>1 DEF State
<1>4. /\ SameCourse(clean.server, w.server) /\ clean.server.cache = d
      /\ clean.server.data = w.server.data /\ clean.server.buffer = w.server.buffer
      /\ clean.server.dirty = [w.server.dirty EXCEPT ![s] = FALSE]
  <2>1. clean.server = [w.server EXCEPT !.dirty = [w.server.dirty EXCEPT ![s] = FALSE]]
    BY <1>3
  <2>2. w.server \in ServerType
    BY <1>1
  <2> HIDE DEF clean
  <2>3. QED
    BY <2>1, <2>2 DEF ServerType, SameCourse
<1>5. CASE ~w.server.dirty[s]
  BY <1>5 DEF setClipboard
<1>6. CASE w.server.dirty[s] /\ s = Primary
  <2>1. r = [clean EXCEPT !.screen[s] = Written(@, d)]
    BY <1>6 DEF setClipboard
  <2> HIDE DEF clean
  <2>2. r = [clean EXCEPT !.screen = [clean.screen EXCEPT ![s] = Written(clean.screen[s], d)]]
    BY <2>1
  <2>3. [clean.screen EXCEPT ![s] = Written(clean.screen[s], d)] \in [Screens -> ScreenType]
    <3>1. clean.screen \in [Screens -> ScreenType] /\ clean.screen[s] \in ScreenType
      BY <1>1, <1>3
    <3>2. QED
      BY <1>2, <3>1, WrittenType
  <2>4. /\ r \in State /\ r.server = clean.server /\ r.events = clean.events /\ r.down = clean.down
        /\ r.screen = [clean.screen EXCEPT ![s] = Written(clean.screen[s], d)]
    BY <1>3, <2>2, <2>3 DEF State
  <2>5. QED
    BY <1>3, <1>4, <1>6, <2>4
<1>7. CASE w.server.dirty[s] /\ s # Primary
  <2> DEFINE full == [clean EXCEPT !.server.buffer[s] = d]
             e == Event("sending", s, 0, d)
  <2>1. r = Add(full, e) /\ s \in Clients
    BY <1>7 DEF setClipboard, Screens
  <2> HIDE DEF clean
  <2>2. /\ full.server = [clean.server EXCEPT !.buffer[s] = d] /\ full.events = clean.events
        /\ full.down = clean.down /\ full.screen = clean.screen /\ full \in State
    <3>1. clean.server \in ServerType
      BY <1>3 DEF State
    <3>2. [clean.server EXCEPT !.buffer[s] = d] \in ServerType
      BY <3>1, <1>2, <2>1 DEF ServerType
    <3>3. QED
      BY <1>3, <3>1, <3>2 DEF State
  <2>3. /\ SameCourse(full.server, clean.server) /\ full.server.cache = clean.server.cache
        /\ full.server.data = clean.server.data /\ full.server.dirty = clean.server.dirty
        /\ full.server.buffer = [clean.server.buffer EXCEPT ![s] = d]
    BY <1>3, <2>2 DEF ServerType, SameCourse, State
  <2>4. e \in EventType
    BY <1>2, <2>1 DEF Event, EventType
  <2> HIDE DEF full, e
  <2>5. r \in State /\ r.events = Append(full.events, e) /\ r.server = full.server
        /\ r.down = full.down /\ r.screen = full.screen
    BY <2>1, <2>2, <2>4, AddType
  <2>6. QED
    BY <1>3, <1>4, <1>7, <2>1, <2>2, <2>3, <2>5 DEF SameCourse, e
<1>8. QED
  BY <1>5, <1>6, <1>7

\* What taking over the data of screen s does: nothing, or it is only noted, or it is given
\* to the active screen.  u is the server after it has taken the data over.
Updated(u, w, s) ==
    /\ u \in State /\ u.events = w.events /\ u.down = w.down /\ u.screen = w.screen
    /\ SameCourse(u.server, w.server) /\ u.server.buffer = w.server.buffer
    /\ u.server.cache = getClipboard(w, s) /\ u.server.data = getClipboard(w, s)
    /\ u.server.dirty = [t \in Screens |-> t # s]

Noted(r, w, s) ==
    /\ r \in State /\ r.events = w.events /\ r.down = w.down /\ r.screen = w.screen
    /\ SameCourse(r.server, w.server) /\ r.server.buffer = w.server.buffer
    /\ r.server.dirty = w.server.dirty /\ r.server.data = w.server.data
    /\ r.server.cache = getClipboard(w, s)

ChangedExact(r, w, s, seq) ==
    \/ r = w /\ seq < w.server.clipSeq
    \/ /\ Noted(r, w, s) /\ ~(seq < w.server.clipSeq)
       /\ getClipboard(w, s) \in Oversized \/ getClipboard(w, s) = w.server.data
    \/ /\ getClipboard(w, s) \notin Oversized /\ ~(seq < w.server.clipSeq)
       /\ \E u \in State : Updated(u, w, s) /\ SetClipboardExact(r, u, w.server.active)

LEMMA ChangedExactly ==
    ASSUME NEW w \in State, NEW s \in Screens, NEW seq, NEW r, r = onClipboardChanged(w, s, seq)
    PROVE  ChangedExact(r, w, s, seq)
<1> USE Bounds
<1> DEFINE d == getClipboard(w, s)
           cached == [w EXCEPT !.server.cache = d]
           updated == [cached EXCEPT !.server.data = d, !.server.dirty = [t \in Screens |-> t # s]]
<1>1. /\ w.server \in ServerType /\ w.events \in Seq(EventType)
      /\ w.screen \in [Screens -> ScreenType] /\ w.down \in [Clients -> Seq(Message)]
      /\ w.server.active \in Screens
  BY DEF State, ServerType
<1>2. d \in Contents
  <2>1. CASE s = Primary
    BY <1>1, <2>1 DEF getClipboard, ScreenType
  <2>2. CASE s # Primary
    BY <1>1, <2>2 DEF getClipboard, ServerType, Screens
  <2>3. QED
    BY <2>1, <2>2
<1>3. \/ r = w /\ seq < w.server.clipSeq
      \/ r = cached /\ (d \in Oversized \/ d = w.server.data) /\ ~(seq < w.server.clipSeq)
      \/ /\ d \notin Oversized /\ r = setClipboard(updated, w.server.active)
         /\ ~(seq < w.server.clipSeq)
  BY DEF onClipboardChanged
<1> HIDE DEF d
<1>4. /\ cached \in State /\ cached.events = w.events /\ cached.down = w.down
      /\ cached.screen = w.screen /\ cached.server = [w.server EXCEPT !.cache = d]
  <2>1. [w.server EXCEPT !.cache = d] \in ServerType
    BY <1>1, <1>2 DEF ServerType
  <2>2. QED
    BY <1>1, <2>1 DEF State
<1>5. /\ SameCourse(cached.server, w.server) /\ cached.server.cache = d
      /\ cached.server.buffer = w.server.buffer /\ cached.server.dirty = w.server.dirty
      /\ cached.server.data = w.server.data
  BY <1>1, <1>4 DEF ServerType, SameCourse
<1>6. Noted(cached, w, s)
  BY <1>4, <1>5 DEF Noted, d
<1>7. Updated(updated, w, s)
  <2> DEFINE over == [cached.server EXCEPT !.data = d, !.dirty = [t \in Screens |-> t # s]]
  <2>1. /\ over \in ServerType /\ SameCourse(over, cached.server) /\ over.cache = d
        /\ over.data = d /\ over.buffer = cached.server.buffer
        /\ over.dirty = [t \in Screens |-> t # s]
    <3> HIDE DEF cached
    <3>1. cached.server \in ServerType
      BY <1>4 DEF State
    <3>2. [t \in Screens |-> t # s] \in [Screens -> BOOLEAN]
      OBVIOUS
    <3>3. QED
      BY <1>2, <1>5, <3>1, <3>2 DEF ServerType, SameCourse
  <2>2. updated = [cached EXCEPT !.server = over]
    <3>1. cached \in State
      BY <1>4
    <3> HIDE DEF cached
    <3>2. updated = [[cached EXCEPT !.server = [cached.server EXCEPT !.data = d]]
                        EXCEPT !.server = [@ EXCEPT !.dirty = [t \in Screens |-> t # s]]]
      OBVIOUS
    <3>3. QED
      BY <3>1, <3>2 DEF State, ServerType
  <2> HIDE DEF cached, updated, over
  <2>3. /\ updated \in State /\ updated.server = over /\ updated.events = w.events
        /\ updated.down = w.down /\ updated.screen = w.screen
    BY <1>4, <2>1, <2>2 DEF State
  <2>4. SameCourse(updated.server, w.server) /\ updated.server.buffer = w.server.buffer
    BY <1>5, <2>1, <2>3 DEF SameCourse
  <2>5. QED
    BY <2>1, <2>3, <2>4 DEF Updated, d
<1> HIDE DEF cached, updated
<1>8. CASE /\ d \notin Oversized /\ r = setClipboard(updated, w.server.active)
           /\ ~(seq < w.server.clipSeq)
  <2>1. updated \in State
    BY <1>7 DEF Updated
  <2>2. SetClipboardExact(r, updated, w.server.active)
    BY <1>1, <1>8, <2>1, SetClipboardExactly
  <2>3. QED
    BY <1>7, <1>8, <2>1, <2>2 DEF ChangedExact, d
<1>9. QED
  BY <1>3, <1>6, <1>8 DEF ChangedExact, d

\* What a grab that is accepted leaves, before what the primary has is taken over.
Grab(t, w, g, seq) ==
    /\ t \in State /\ t.events = w.events
    /\ t.server.active = w.server.active /\ t.server.owner = g /\ t.server.clipSeq = seq
    /\ t.server.cache = Nothing /\ t.server.data = Nothing
    /\ t.server.dirty = [s \in Screens |-> s # g] /\ t.server.buffer = w.server.buffer
    /\ \A c \in Clients : t.down[c] \in {w.down[c], Append(w.down[c], GrabTold)}
    /\ \A c \in Clients : t.screen[c] = w.screen[c]
    /\ t.screen[Primary] = IF g = Primary THEN w.screen[Primary]
                           ELSE Written(w.screen[Primary], Nothing)

GrabbedExact(r, w, g, seq) ==
    \/ r = w /\ g # Primary /\ seq < w.server.clipSeq
    \/ \E t \in State :
          /\ Grab(t, w, g, seq) /\ (g # Primary => ~(seq < w.server.clipSeq))
          /\ r = t \/ (g = Primary /\ r = onClipboardChanged(t, Primary, seq))

LEMMA GrabbedExactly ==
    ASSUME NEW w \in State, NEW g \in Screens, NEW seq \in SeqNums, NEW r,
           r = onClipboardGrabbed(w, g, seq)
    PROVE  GrabbedExact(r, w, g, seq)
<1> USE Bounds
<1> DEFINE dirt == [s \in Screens |-> s # g]
           over == [w.server EXCEPT !.owner = g, !.clipSeq = seq, !.cache = Nothing,
                                    !.data = Nothing, !.dirty = dirt]
           taken == [w EXCEPT !.server = over]
           told == grabOthers(taken, g)
<1>1. w.server \in ServerType /\ w.screen \in [Screens -> ScreenType]
      /\ w.down \in [Clients -> Seq(Message)]
  BY DEF State
<1>2. dirt \in [Screens -> BOOLEAN]
  OBVIOUS
<1>3. \/ r = w /\ g # Primary /\ seq < w.server.clipSeq
      \/ /\ g # Primary => ~(seq < w.server.clipSeq)
         /\ r = told \/ (g = Primary /\ r = onClipboardChanged(told, Primary, seq))
  BY <1>1 DEF onClipboardGrabbed, State, ServerType
<1> HIDE DEF dirt
<1>4. /\ over \in ServerType /\ over.dirty = dirt /\ over.active = w.server.active
      /\ over.owner = g /\ over.clipSeq = seq /\ over.cache = Nothing /\ over.data = Nothing
      /\ over.buffer = w.server.buffer
  BY <1>1, <1>2 DEF ServerType
<1> HIDE DEF over
<1>5. /\ taken \in State /\ taken.server = over /\ taken.down = w.down
      /\ taken.events = w.events /\ taken.screen = w.screen
  BY <1>4 DEF State
<1> HIDE DEF taken
<1>6. GrabOthersEffect(told, taken)
  BY <1>5, GrabOthersDoes
<1>7. told.screen = [taken.screen EXCEPT ![Primary] = IF g = Primary THEN taken.screen[Primary]
                                                      ELSE Written(taken.screen[Primary], Nothing)]
  BY <1>5 DEF grabOthers, State
<1> HIDE DEF told
<1>8. Grab(told, w, g, seq)
  <2>1. /\ \A c \in Clients : told.screen[c] = w.screen[c]
        /\ told.screen[Primary] = IF g = Primary THEN w.screen[Primary]
                                  ELSE Written(w.screen[Primary], Nothing)
    BY <1>1, <1>5, <1>7
  <2>2. /\ told \in State /\ told.server = over /\ told.events = w.events
        /\ \A c \in Clients : told.down[c] \in {w.down[c], Append(w.down[c], GrabTold)}
    BY <1>5, <1>6 DEF GrabOthersEffect
  <2>3. QED
    BY <1>4, <2>1, <2>2 DEF Grab, dirt
<1>9. told \in State
  BY <1>8 DEF Grab
<1>10. QED
  BY <1>3, <1>8, <1>9 DEF GrabbedExact

\* The primary's screen has looked whether it lost its clipboard.
Checked(l, w) ==
    /\ l \in State /\ l.server = w.server /\ l.down = w.down
    /\ Longer(w.events, l.events, PrimaryGrabs(w))
    /\ \A c \in Clients : l.screen[c] = w.screen[c]
    /\ l.screen[Primary].board = w.screen[Primary].board
    /\ l.screen[Primary].ours = w.screen[Primary].ours

LeaveExact(r, w) ==
    \/ /\ w.server.active # Primary
       /\ r \in State /\ r.server = w.server /\ r.events = w.events /\ r.screen = w.screen
       /\ r.down = [w.down EXCEPT ![w.server.active] = Append(@, LeaveTold)]
    \/ /\ w.server.active = Primary
       /\ \E l \in State :
             /\ Checked(l, w)
             /\ \/ r = l /\ w.server.owner # Primary
                \/ w.server.owner = Primary /\ r = onClipboardChanged(l, Primary, w.server.clipSeq)

LEMMA LeaveExactly ==
    ASSUME NEW w \in State, NEW r, r = leave(w)
    PROVE  LeaveExact(r, w)
<1> USE Bounds
<1> DEFINE l == checkClipboards(w)
<1>1. /\ w.screen \in [Screens -> ScreenType] /\ w.server.active \in Screens
      /\ w.server \in ServerType
  BY DEF State, ServerType
<1>2. CheckEffect(l, w)
  BY CheckClipboardsDoes
<1>3. /\ l.screen[Primary].board = w.screen[Primary].board
      /\ l.screen[Primary].ours = w.screen[Primary].ours
  <2> DEFINE scr == [w.screen EXCEPT ![Primary] = [w.screen[Primary] EXCEPT !.own = FALSE]]
             e == Event("grabbed", Primary, w.server.primarySeq, Nothing)
             v == [w EXCEPT !.screen = scr]
  <2>1. l = w \/ l = Add(v, e)
    BY DEF checkClipboards
  <2>2. scr \in [Screens -> ScreenType] /\ scr[Primary].board = w.screen[Primary].board
        /\ scr[Primary].ours = w.screen[Primary].ours
    BY <1>1 DEF ScreenType
  <2>3. e \in EventType
    BY <1>1 DEF Event, EventType, ServerType
  <2> HIDE DEF scr, e
  <2>4. v \in State /\ v.screen = scr
    BY <2>2 DEF State
  <2> HIDE DEF v
  <2>5. Add(v, e).screen = scr
    BY <2>3, <2>4, AddType
  <2>6. QED
    BY <2>1, <2>2, <2>5
<1>4. Checked(l, w) /\ l \in State
  BY <1>2, <1>3 DEF CheckEffect, Checked, ScreensKept
<1>5. \/ w.server.active # Primary /\ r = Write(w, w.server.active, LeaveTold)
      \/ /\ w.server.active = Primary
         /\ \/ r = l /\ w.server.owner # Primary
            \/ w.server.owner = Primary /\ r = onClipboardChanged(l, Primary, w.server.clipSeq)
  BY DEF leave, LeaveTold
<1> HIDE DEF l
<1>6. CASE w.server.active # Primary /\ r = Write(w, w.server.active, LeaveTold)
  <2>1. w.server.active \in Clients /\ LeaveTold \in Message
    BY <1>1, <1>6 DEF Screens, LeaveTold, Msg, Message
  <2>0. w \in State
    OBVIOUS
  <2>2. /\ r \in State /\ r.down = [w.down EXCEPT ![w.server.active] = Append(@, LeaveTold)]
        /\ r.server = w.server /\ r.events = w.events /\ r.screen = w.screen
    BY ONLY <2>0, <1>6, <2>1, WriteType
  <2>3. QED
    BY <1>6, <2>2 DEF LeaveExact
<1>7. QED
  BY <1>4, <1>5, <1>6 DEF LeaveExact

\* Entering a screen leaves the clipboard as it is.
EnterExact(r, w, dst) ==
    /\ r \in State /\ r.server.active = dst
    /\ r.server.owner = w.server.owner /\ r.server.clipSeq = w.server.clipSeq
    /\ r.server.cache = w.server.cache /\ r.server.data = w.server.data
    /\ r.server.dirty = w.server.dirty /\ r.server.buffer = w.server.buffer
    /\ r.events = w.events /\ r.screen = w.screen
    /\ \A c \in Clients :
          r.down[c] \in {w.down[c], Append(w.down[c], EnterTold(w.server.seqNum + 1))}

LEMMA EnterExactly ==
    ASSUME NEW w \in State, NEW dst \in Screens, NEW r, r = enter(w, dst),
           w.server.seqNum + 1 \in SeqNums
    PROVE  EnterExact(r, w, dst)
<1> USE Bounds
<1> DEFINE seq == w.server.seqNum + 1
           moved == [w.server EXCEPT !.active = dst, !.seqNum = seq]
           over == [w EXCEPT !.server = moved]
           home == [moved EXCEPT !.primarySeq = seq]
           Kept(sv) == /\ sv.cache = w.server.cache /\ sv.data = w.server.data
                       /\ sv.dirty = w.server.dirty /\ sv.buffer = w.server.buffer
<1>1. EnterEffect(r, w, dst)
  BY EnterDoes
<1>2. w.server \in ServerType /\ w.down \in [Clients -> Seq(Message)]
  BY DEF State
<1>3. moved \in ServerType /\ Kept(moved) /\ Kept(home) /\ home \in ServerType
  BY <1>2 DEF ServerType
<1>4. \/ dst = Primary /\ r = [over EXCEPT !.server = home]
      \/ dst # Primary /\ r = Write(over, dst, EnterTold(seq))
  BY <1>2 DEF enter, EnterTold, State, ServerType
<1>5. EnterTold(seq) \in Message
  BY DEF EnterTold, Msg, Message
<1> HIDE DEF moved, home, seq, Kept
<1>6. over \in State /\ over.server = moved
  BY <1>3 DEF State
<1>7. Kept(r.server)
  <2>1. CASE dst = Primary
    BY <1>3, <1>4, <1>6, <2>1 DEF State
  <2>2. CASE dst # Primary
    <3>1. dst \in Clients
      BY <2>2 DEF Screens
    <3> HIDE DEF over
    <3>4. r = Write(over, dst, EnterTold(seq))
      BY <1>4, <2>2
    <3>5. over \in State /\ EnterTold(seq) \in Message
      BY <1>5, <1>6
    <3>2. r.server = over.server
      BY ONLY <3>1, <3>4, <3>5, WriteType
    <3>3. QED
      BY <1>3, <1>6, <3>2
  <2>3. QED
    BY <2>1, <2>2
<1>8. \A c \in Clients : r.down[c] \in {w.down[c], Append(w.down[c], EnterTold(w.server.seqNum + 1))}
  BY <1>1, <1>2 DEF EnterEffect
<1>9. QED
  BY <1>1, <1>7, <1>8 DEF EnterExact, EnterEffect, Kept

\* The cursor leaves a screen and enters another, which is given a clipboard that fits.
SwitchExact(r, w, dst) ==
    \E l \in State, t \in State :
        /\ LeaveExact(l, w) /\ l.server.seqNum + 1 \in SeqNums /\ EnterExact(t, l, dst)
        /\ \/ r = t /\ t.server.cache \in Oversized
           \/ t.server.cache \notin Oversized /\ SetClipboardExact(r, t, dst)

LEMMA SwitchExactly ==
    ASSUME StateInv, SwitchScreen
    PROVE  \E dst \in (connected \cup {Primary}) \ {server.active} :
               Now' \in State /\ SwitchExact(Now', Now, dst)
<1> USE Bounds
<1>1. PICK dst \in (connected \cup {Primary}) \ {server.active} : Become(switchScreen(Now, dst))
  BY DEF SwitchScreen
<1>2. Now \in State /\ Now.server = server /\ dst \in Screens
  BY <1>1, NowState DEF StateInv, Now
<1>3. server.seqNum + 1 \in SeqNums
  <2>1. scenario.moves \in 0 .. MaxSeq /\ server.seqNum \in 0 .. MaxSeq /\ server.seqNum < scenario.moves
    BY ClipboardAssumption DEF SwitchScreen, StateInv, ServerType, SeqNums, Scenario
  <2>2. QED
    BY <2>1, ClipboardAssumption DEF SeqNums
<1> DEFINE r == switchScreen(Now, dst)
           l == leave(Now)
           t == enter(l, dst)
<1>4. l \in State /\ l.server.seqNum = server.seqNum /\ LeaveExact(l, Now)
  BY <1>2, LeaveDoes, LeaveExactly DEF LeaveEffect, SameCourse
<1>5. r = IF t.server.cache \in Oversized THEN t ELSE setClipboard(t, dst)
  BY DEF switchScreen
<1> HIDE DEF l
<1>6. EnterExact(t, l, dst) /\ t \in State
  BY <1>2, <1>3, <1>4, EnterExactly DEF EnterExact
<1> HIDE DEF t, r
<1>7. \/ r = t /\ t.server.cache \in Oversized
      \/ t.server.cache \notin Oversized /\ SetClipboardExact(r, t, dst)
  BY <1>2, <1>5, <1>6, SetClipboardExactly
<1>8. SwitchExact(r, Now, dst) /\ r \in State
  BY <1>2, <1>3, <1>4, <1>6, <1>7 DEF SwitchExact, SetClipboardExact
<1>9. Now' = r
  BY <1>1, <1>8, BecomeNow DEF r
<1>10. QED
  BY <1>1, <1>8, <1>9

\* What the server does with its oldest event e, exactly.
EventExact(e) ==
    \/ e.kind = "grabbed" /\ e.who \in Screens /\ e.seq \in SeqNums
         /\ GrabbedExact(Now', Popped, e.who, e.seq)
    \/ e.kind = "changed" /\ e.who \in Screens /\ ChangedExact(Now', Popped, e.who, e.seq)
    \/ /\ e.kind = "sending" /\ e.who \in Clients
       /\ server' = server /\ events' = Tail(events) /\ screen' = screen
       /\ down' = [down EXCEPT ![e.who] = Append(@, Msg("data", 0, e.data))]
    \/ e.kind = "orphan" /\ Now' = Popped

LEMMA EventExactly ==
    ASSUME StateInv, ServerEvent
    PROVE  Now' \in State /\ EventExact(Head(events))
<1> USE Bounds
<1> DEFINE e == Head(events)
<1>1. /\ Popped \in State /\ e \in EventType
      /\ Popped.server = server /\ Popped.events = Tail(events)
      /\ Popped.down = down /\ Popped.screen = screen
  BY PoppedState DEF ServerEvent, KnownEvent
<1>2. /\ e.kind = "grabbed" \/ e.kind = "changed" => e.who \in Screens /\ e.seq \in SeqNums
      /\ e.kind = "sending" => e.who \in Clients /\ Msg("data", 0, e.data) \in Message
      /\ e.kind \in {"grabbed", "changed", "sending", "orphan"}
  BY <1>1 DEF EventType, Msg, Message
<1>3. Now' \in State
  BY EventHandled DEF Handled
<1>4. Become(CASE e.kind = "grabbed" -> onClipboardGrabbed(Popped, e.who, e.seq)
               [] e.kind = "changed" -> onClipboardChanged(Popped, e.who, e.seq)
               [] e.kind = "sending" -> Write(Popped, e.who, Msg("data", 0, e.data))
               [] e.kind = "orphan" -> Popped)
  BY DEF ServerEvent, Popped, Now
<1> HIDE DEF e
<1>5. CASE e.kind = "grabbed"
  <2>1. Become(onClipboardGrabbed(Popped, e.who, e.seq))
    BY <1>4, <1>5
  <2>5. GrabbedEffect(onClipboardGrabbed(Popped, e.who, e.seq), Popped, e.who, e.seq)
    BY <1>1, <1>2, <1>5, OnClipboardGrabbedDoes
  <2>2. onClipboardGrabbed(Popped, e.who, e.seq) \in State
    BY <1>1, <2>5 DEF GrabbedEffect
  <2>3. Now' = onClipboardGrabbed(Popped, e.who, e.seq)
    BY <2>1, <2>2, BecomeNow
  <2>4. QED
    BY <1>1, <1>2, <1>3, <1>5, <2>3, GrabbedExactly DEF EventExact, e
<1>6. CASE e.kind = "changed"
  <2>1. Become(onClipboardChanged(Popped, e.who, e.seq))
    BY <1>4, <1>6
  <2>2. onClipboardChanged(Popped, e.who, e.seq) \in State
    BY <1>1, <1>2, <1>6, OnClipboardChangedDoes DEF ChangedEffect
  <2>3. Now' = onClipboardChanged(Popped, e.who, e.seq)
    BY <2>1, <2>2, BecomeNow
  <2>4. QED
    BY <1>1, <1>2, <1>3, <1>6, <2>3, ChangedExactly DEF EventExact, e
<1>7. CASE e.kind = "sending"
  <2>1. Become(Write(Popped, e.who, Msg("data", 0, e.data)))
    BY <1>4, <1>7
  <2>4. e.who \in Clients /\ Msg("data", 0, e.data) \in Message /\ Popped \in State
    BY <1>1, <1>2, <1>7
  <2>2. /\ Write(Popped, e.who, Msg("data", 0, e.data)).server = server
        /\ Write(Popped, e.who, Msg("data", 0, e.data)).events = Tail(events)
        /\ Write(Popped, e.who, Msg("data", 0, e.data)).screen = screen
        /\ Write(Popped, e.who, Msg("data", 0, e.data)).down
              = [down EXCEPT ![e.who] = Append(@, Msg("data", 0, e.data))]
    BY ONLY <1>1, <2>4, WriteType
  <2>3. QED
    BY <1>3, <1>7, <2>1, <2>2, <2>4 DEF EventExact, Become, e
<1>8. CASE e.kind = "orphan"
  <2>1. Become(Popped)
    BY <1>4, <1>8
  <2>2. QED
    BY <1>1, <1>3, <1>8, <2>1, BecomeNow DEF EventExact, e
<1>9. QED
  BY <1>2, <1>5, <1>6, <1>7, <1>8

------------------------------------------------------------------------------
(* What the primary shows. *)

\* What a client owns fits, and so does what the server has of each.
Fits(w) ==
    /\ w.server.owner # Primary => w.server.cache \notin Oversized
    /\ \A c \in Clients : w.server.buffer[c] \notin Oversized

HomeShown(w) == w.screen[Primary].ours => w.screen[Primary].board = w.server.data

\* What a client owns is what the server holds, and the primary has it or is to be given it.
HomeDue(w) ==
    w.server.owner # Primary =>
        /\ w.server.cache = w.server.data
        /\ HomeShown(w) \/ w.server.dirty[Primary]

\* The primary has it where the cursor is home.
Home(w) ==
    HomeDue(w) /\ (w.server.owner # Primary /\ w.server.active = Primary => HomeShown(w))

LEMMA Fitting ==
    ASSUME StateInv
    PROVE  Nothing \notin Oversized
<1>1. Oversized \subseteq 1 .. MaxCopies
  BY ClipboardAssumption DEF StateInv, Scenario, Oversized
<1>2. QED
  BY <1>1 DEF Nothing

LEMMA FitsSet ==
    ASSUME NEW w \in State, NEW s \in Screens, NEW r, SetClipboardExact(r, w, s),
           w.server.cache \notin Oversized, Fits(w)
    PROVE  Fits(r) /\ (HomeDue(w) /\ s = w.server.active => Home(r))
<1> USE Bounds
<1>1. w.server \in ServerType /\ w.screen \in [Screens -> ScreenType]
  BY DEF State
<1>2. w.server.dirty \in [Screens -> BOOLEAN] /\ w.server.buffer \in [Clients -> Contents]
      /\ w.server.cache \in Contents /\ w.screen[Primary] \in ScreenType
  BY <1>1 DEF ServerType
<1>3. CASE r = w /\ ~w.server.dirty[s]
  BY <1>3 DEF HomeDue, Home, Fits
<1>4. CASE w.server.dirty[s] /\ s = Primary
  <2>1. /\ r.server.owner = w.server.owner /\ r.server.active = w.server.active
        /\ r.server.cache = w.server.cache /\ r.server.data = w.server.data
        /\ r.server.buffer = w.server.buffer
        /\ r.screen = [w.screen EXCEPT ![Primary] = Written(@, w.server.cache)]
    BY <1>4 DEF SetClipboardExact, SameCourse
  <2>2. r.screen[Primary] = Written(w.screen[Primary], w.server.cache)
    BY <1>1, <2>1
  <2>3. r.screen[Primary].board = w.server.cache
    BY <1>2, <2>2 DEF Written, ScreenType
  <2>4. HomeDue(w) /\ r.server.owner # Primary => HomeShown(r)
    BY <2>1, <2>3 DEF HomeDue, HomeShown
  <2>5. QED
    BY <2>1, <2>4 DEF HomeDue, Home, Fits
<1>5. CASE w.server.dirty[s] /\ s # Primary
  <2>1. /\ r.server.owner = w.server.owner /\ r.server.active = w.server.active
        /\ r.server.cache = w.server.cache /\ r.server.data = w.server.data
        /\ r.server.buffer = [w.server.buffer EXCEPT ![s] = w.server.cache]
        /\ r.server.dirty = [w.server.dirty EXCEPT ![s] = FALSE]
        /\ r.screen = w.screen
    BY <1>5 DEF SetClipboardExact, SameCourse
  <2>2. r.server.dirty[Primary] = w.server.dirty[Primary]
    BY <1>2, <1>5, <2>1
  <2>3. Fits(r)
    BY <1>2, <2>1 DEF Fits
  <2>4. QED
    BY <1>5, <2>1, <2>2, <2>3 DEF HomeDue, Home, HomeShown
<1>6. QED
  BY <1>3, <1>4, <1>5 DEF SetClipboardExact

LEMMA FitsChanged ==
    ASSUME NEW w \in State, NEW s \in Screens, NEW seq, NEW r, ChangedExact(r, w, s, seq),
           s = Primary => w.server.owner = Primary, Fits(w)
    PROVE  Fits(r) /\ (Home(w) => Home(r))
<1> USE Bounds
<1> DEFINE d == getClipboard(w, s)
<1>1. w.server \in ServerType /\ w.server.active \in Screens
  BY DEF State, ServerType
<1>2. s # Primary => d \notin Oversized
  BY DEF getClipboard, Fits, Screens
<1> HIDE DEF d
<1>3. CASE r = w
  BY <1>3
<1>4. CASE Noted(r, w, s) /\ (d \in Oversized \/ d = w.server.data)
  <2>1. /\ r.server.owner = w.server.owner /\ r.server.active = w.server.active
        /\ r.server.buffer = w.server.buffer /\ r.server.dirty = w.server.dirty
        /\ r.server.data = w.server.data /\ r.server.cache = d /\ r.screen = w.screen
    BY <1>4 DEF Noted, SameCourse, d
  <2>2. Fits(r)
    BY <1>2, <2>1 DEF Fits
  <2>3. Home(w) => Home(r)
    BY <1>2, <1>4, <2>1 DEF Home, HomeDue, HomeShown
  <2>4. QED
    BY <2>2, <2>3
<1>5. CASE d \notin Oversized
           /\ \E u \in State : Updated(u, w, s) /\ SetClipboardExact(r, u, w.server.active)
  <2>1. PICK u \in State : Updated(u, w, s) /\ SetClipboardExact(r, u, w.server.active)
    BY <1>5
  <2>2. /\ u.server.owner = w.server.owner /\ u.server.active = w.server.active
        /\ u.server.buffer = w.server.buffer /\ u.server.cache = d /\ u.server.data = d
        /\ u.server.dirty = [t \in Screens |-> t # s]
    BY <2>1 DEF Updated, SameCourse, d
  <2>3. Fits(u)
    BY <1>5, <2>2 DEF Fits
  <2>4. HomeDue(u)
    BY <2>2 DEF HomeDue
  <2>5. QED
    BY <1>1, <1>5, <2>1, <2>2, <2>3, <2>4, FitsSet
<1>6. QED
  BY <1>3, <1>4, <1>5 DEF ChangedExact, d

LEMMA FitsGrabbed ==
    ASSUME NEW w \in State, NEW g \in Screens, NEW seq \in SeqNums, NEW r,
           GrabbedExact(r, w, g, seq), Fits(w), Nothing \notin Oversized
    PROVE  Fits(r) /\ (Home(w) => Home(r))
<1> USE Bounds
<1>1. CASE r = w
  BY <1>1
<1>2. ASSUME NEW t \in State, Grab(t, w, g, seq),
             r = t \/ (g = Primary /\ r = onClipboardChanged(t, Primary, seq))
      PROVE  Fits(r) /\ (Home(w) => Home(r))
  <2>1. /\ t.server.owner = g /\ t.server.cache = Nothing /\ t.server.data = Nothing
        /\ t.server.buffer = w.server.buffer
        /\ t.screen[Primary] = IF g = Primary THEN w.screen[Primary]
                               ELSE Written(w.screen[Primary], Nothing)
    BY <1>2 DEF Grab
  <2>2. Fits(t)
    BY <2>1 DEF Fits
  <2>3. g # Primary => t.screen[Primary].board = Nothing
    <3>1. w.screen[Primary] \in ScreenType
      BY DEF State
    <3>2. QED
      BY <2>1, <3>1 DEF Written, ScreenType
  <2>4. Home(t)
    BY <2>1, <2>3 DEF Home, HomeDue, HomeShown
  <2>5. CASE r = t
    BY <2>2, <2>4, <2>5
  <2>6. CASE g = Primary /\ r = onClipboardChanged(t, Primary, seq)
    <3>1. ChangedExact(r, t, Primary, seq)
      BY <1>2, <2>6, ChangedExactly
    <3>2. QED
      BY <1>2, <2>1, <2>2, <2>4, <2>6, <3>1, FitsChanged
  <2>7. QED
    BY <1>2, <2>5, <2>6
<1>3. QED
  BY <1>1, <1>2 DEF GrabbedExact

LEMMA FitsLeave ==
    ASSUME NEW w \in State, NEW r, LeaveExact(r, w), Fits(w)
    PROVE  Fits(r) /\ (Home(w) => Home(r))
<1> USE Bounds
<1>1. CASE r.server = w.server /\ r.screen = w.screen
  BY <1>1 DEF Fits, Home, HomeDue, HomeShown
<1>2. ASSUME NEW l \in State, Checked(l, w),
             \/ r = l
             \/ w.server.owner = Primary /\ r = onClipboardChanged(l, Primary, w.server.clipSeq)
      PROVE  Fits(r) /\ (Home(w) => Home(r))
  <2>1. l.server = w.server /\ l.screen[Primary].board = w.screen[Primary].board
        /\ l.screen[Primary].ours = w.screen[Primary].ours
    BY <1>2 DEF Checked
  <2>2. Fits(l) /\ (Home(w) => Home(l))
    BY <2>1 DEF Fits, Home, HomeDue, HomeShown
  <2>3. CASE r = l
    BY <2>2, <2>3
  <2>4. CASE w.server.owner = Primary /\ r = onClipboardChanged(l, Primary, w.server.clipSeq)
    <3>1. ChangedExact(r, l, Primary, w.server.clipSeq)
      BY <1>2, <2>4, ChangedExactly
    <3>2. QED
      BY <1>2, <2>1, <2>2, <2>4, <3>1, FitsChanged
  <2>5. QED
    BY <1>2, <2>3, <2>4
<1>3. QED
  BY <1>1, <1>2 DEF LeaveExact

LEMMA FitsSwitch ==
    ASSUME NEW w \in State, NEW dst \in Screens, NEW r, SwitchExact(r, w, dst), Fits(w)
    PROVE  Fits(r) /\ (Home(w) => Home(r))
<1>1. PICK l \in State, t \in State :
          /\ LeaveExact(l, w) /\ EnterExact(t, l, dst)
          /\ \/ r = t /\ t.server.cache \in Oversized
             \/ t.server.cache \notin Oversized /\ SetClipboardExact(r, t, dst)
  BY DEF SwitchExact
<1>2. Fits(l) /\ (Home(w) => Home(l))
  BY <1>1, FitsLeave
<1>3. /\ t.server.active = dst /\ t.server.owner = l.server.owner
      /\ t.server.cache = l.server.cache /\ t.server.data = l.server.data
      /\ t.server.dirty = l.server.dirty /\ t.server.buffer = l.server.buffer
      /\ t.screen = l.screen
  BY <1>1 DEF EnterExact
<1>4. Fits(t) /\ (Home(w) => HomeDue(t))
  BY <1>2, <1>3 DEF Fits, Home, HomeDue, HomeShown
<1>5. CASE r = t /\ t.server.cache \in Oversized
  BY <1>4, <1>5 DEF Fits, Home
<1>6. CASE t.server.cache \notin Oversized /\ SetClipboardExact(r, t, dst)
  BY <1>1, <1>3, <1>4, <1>6, FitsSet
<1>7. QED
  BY <1>1, <1>5, <1>6

FitsInv == Fits(Now)
HomeInv == NoLoss => Home(Now)

LEMMA FitsInit == Init => FitsInv /\ HomeInv
<1> SUFFICES ASSUME Init PROVE FitsInv /\ HomeInv
  OBVIOUS
<1>1. Scenarios \subseteq Scenario /\ scenario \in Scenarios
  BY ClipboardAssumption DEF Init
<1>2. Nothing \notin Oversized
  BY <1>1 DEF Scenario, Oversized, Nothing
<1>3. QED
  BY <1>2, Bounds DEF Init, FitsInv, HomeInv, Home, HomeDue, HomeShown, Fits, Now

LEMMA NowFields ==
    /\ Now.server = server /\ Now.events = events /\ Now.down = down /\ Now.screen = screen
    /\ Now'.server = server' /\ Now'.events = events' /\ Now'.down = down'
    /\ Now'.screen = screen'
  BY DEF Now

LEMMA HomeServer ==
    ASSUME StateInv, CourierInv, FitsInv, SwitchScreen \/ ServerEvent
    PROVE  Fits(Now') /\ (Home(Now) => Home(Now'))
<1> USE Bounds
<1>1. Now \in State /\ Fits(Now)
  BY NowState DEF FitsInv
<1>2. CASE SwitchScreen
  <2>1. PICK dst \in (connected \cup {Primary}) \ {server.active} : SwitchExact(Now', Now, dst)
    BY <1>2, SwitchExactly
  <2>2. dst \in Screens
    BY <2>1 DEF StateInv
  <2>3. QED
    BY <1>1, <2>1, <2>2, FitsSwitch
<1>3. CASE ServerEvent
  <2> DEFINE e == Head(events)
  <2>1. /\ Popped \in State /\ Popped.server = server /\ Popped.screen = screen /\ EventExact(e)
        /\ e \in Attributed
    <3>1. e \in Attributed
      BY <1>3, HeadTailProperties DEF CourierInv, ServerEvent
    <3>2. QED
      BY <1>3, <3>1, PoppedState, EventExactly DEF ServerEvent
  <2> HIDE DEF e
  <2>2. Fits(Popped) /\ (Home(Now) => Home(Popped))
    BY <1>1, <2>1, NowFields DEF Fits, Home, HomeDue, HomeShown
  <2>3. CASE e.who \in Screens /\ e.seq \in SeqNums /\ GrabbedExact(Now', Popped, e.who, e.seq)
    BY <2>1, <2>2, <2>3, FitsGrabbed, Fitting
  <2>4. CASE e.kind = "changed" /\ e.who \in Screens /\ ChangedExact(Now', Popped, e.who, e.seq)
    <3>1. e.who # Primary
      BY <2>1, <2>4 DEF Attributed
    <3>2. QED
      BY <2>1, <2>2, <2>4, <3>1, FitsChanged
  <2>5. CASE server' = server /\ screen' = screen
    BY <1>1, <2>5, NowFields DEF Fits, Home, HomeDue, HomeShown
  <2>6. CASE Now' = Popped
    BY <2>2, <2>6
  <2>7. QED
    BY <2>1, <2>3, <2>4, <2>5, <2>6 DEF EventExact
<1>4. QED
  BY <1>2, <1>3

\* A step that leaves the server's course, or ends a connection.
LEMMA HomeElsewhere ==
    ASSUME FitsInv, UNCHANGED scenario,
           server'.owner = server.owner, server'.cache = server.cache, server'.data = server.data,
           \A c \in Clients : server'.buffer[c] = server.buffer[c]
                              \/ server'.buffer[c] \notin Oversized
    PROVE  /\ FitsInv'
           /\ (/\ HomeInv
               /\ NoLoss => server'.active = server.active
                            /\ server'.dirty[Primary] = server.dirty[Primary]
               /\ screen'[Primary].ours =>
                     screen[Primary].ours /\ screen'[Primary].board = screen[Primary].board)
              => HomeInv'
<1>1. FitsInv'
  BY DEF FitsInv, Fits, Now, Oversized
<1>2. ASSUME HomeInv,
             NoLoss => server'.active = server.active
                       /\ server'.dirty[Primary] = server.dirty[Primary],
             screen'[Primary].ours =>
                 screen[Primary].ours /\ screen'[Primary].board = screen[Primary].board
      PROVE  HomeInv'
  BY <1>2 DEF HomeInv, NoLoss, Home, HomeDue, HomeShown, Now
<1>3. QED
  BY <1>1, <1>2

LEMMA HomeNext ==
    ASSUME StateInv, CourierInv, FitsInv, HomeInv, [Next]_vars
    PROVE  FitsInv' /\ HomeInv'
<1> USE Bounds
<1>1. UNCHANGED scenario
  BY DEF Next, vars
<1>2. CASE UNCHANGED vars
  BY <1>2 DEF vars, FitsInv, HomeInv, NoLoss, Home, HomeDue, HomeShown, Fits, Now, Oversized
<1>3. CASE SwitchScreen \/ ServerEvent
  <2>1. Fits(Now') /\ (Home(Now) => Home(Now'))
    BY <1>3, HomeServer
  <2>2. QED
    BY <1>1, <2>1 DEF FitsInv, HomeInv, NoLoss, Home, HomeDue, HomeShown, Fits, Now, Oversized
<1> DEFINE HomeKept ==
              screen'[Primary].ours =>
                  screen[Primary].ours /\ screen'[Primary].board = screen[Primary].board
<1>4. ASSUME UNCHANGED server, HomeKept PROVE FitsInv' /\ HomeInv'
  BY <1>1, <1>4, HomeElsewhere
<1>5. ASSUME NEW c \in Clients, ServerReceive(c) PROVE FitsInv' /\ HomeInv'
  <2> DEFINE m == Head(up[c])
  <2>1. m \in KnownMessage
    BY <1>5, HeadTailProperties DEF ServerReceive, StateInv
  <2>2. m.data \notin Oversized
    BY <2>1 DEF KnownMessage, Known
  <2>3. /\ server' = server \/ server' = [server EXCEPT !.buffer[c] = m.data]
        /\ UNCHANGED screen
    BY <1>5 DEF ServerReceive
  <2> HIDE DEF m
  <2>4. /\ server'.owner = server.owner /\ server'.cache = server.cache
        /\ server'.data = server.data /\ server'.active = server.active
        /\ server'.dirty = server.dirty
        /\ \A d \in Clients : server'.buffer[d] = server.buffer[d]
                              \/ server'.buffer[d] \notin Oversized
    BY <2>2, <2>3 DEF StateInv, ServerType
  <2>5. QED
    BY <1>1, <2>3, <2>4, HomeElsewhere
<1>6. ASSUME NEW c \in Clients, ClientReceive(c) \/ ClientEvent(c) \/ Connect(c)
      PROVE  FitsInv' /\ HomeInv'
  <2>1. UNCHANGED server /\ screen'[Primary] = screen[Primary]
    <3>1. CASE ClientReceive(c)
      BY <3>1, ReceiveDoes DEF ScreenOf, ClientReceive
    <3>2. CASE ClientEvent(c)
      BY <3>2 DEF ClientEvent
    <3>3. CASE Connect(c)
      BY <3>3 DEF Connect, StateInv
    <3>4. QED
      BY <1>6, <3>1, <3>2, <3>3
  <2>2. QED
    BY <1>4, <2>1
<1>7. ASSUME NEW s \in Screens, Copy(s) PROVE FitsInv' /\ HomeInv'
  <2>1. UNCHANGED server /\ HomeKept
    BY <1>7 DEF Copy, StateInv, ScreenType
  <2>2. QED
    BY <1>4, <2>1
<1>8. ASSUME NEW s \in Screens, onClipboardChange(s) PROVE FitsInv' /\ HomeInv'
  <2>1. UNCHANGED server /\ HomeKept
    BY <1>8 DEF onClipboardChange, StateInv, ScreenType
  <2>2. QED
    BY <1>4, <2>1
<1>9. ASSUME NEW c \in Clients, Disconnect(c) PROVE FitsInv' /\ HomeInv'
  <2>1. ~NoLoss /\ screen'[Primary] = screen[Primary]
    BY <1>9 DEF Disconnect, NoLoss, StateInv
  <2> DEFINE rest == freshProxy(server, c)
  <2>2. /\ rest \in ServerType /\ rest.owner = server.owner /\ rest.cache = server.cache
        /\ rest.data = server.data
        /\ \A d \in Clients : rest.buffer[d] = server.buffer[d] \/ rest.buffer[d] = Nothing
    <3>1. /\ server \in ServerType /\ [server.dirty EXCEPT ![c] = TRUE] \in [Screens -> BOOLEAN]
          /\ [server.buffer EXCEPT ![c] = Nothing] \in [Clients -> Contents]
      BY DEF StateInv, ServerType
    <3>2. rest = [server EXCEPT !.dirty = [server.dirty EXCEPT ![c] = TRUE],
                                !.buffer = [server.buffer EXCEPT ![c] = Nothing]]
      BY <3>1 DEF freshProxy, ServerType
    <3>3. QED
      BY <3>1, <3>2 DEF ServerType
  <2>3. server' = rest \/ server' = [rest EXCEPT !.active = Primary, !.primarySeq = rest.seqNum]
    BY <1>9 DEF Disconnect
  <2> HIDE DEF rest
  <2>4. /\ server'.owner = server.owner /\ server'.cache = server.cache
        /\ server'.data = server.data
        /\ \A d \in Clients : server'.buffer[d] = server.buffer[d]
                              \/ server'.buffer[d] \notin Oversized
    BY <2>2, <2>3, Fitting DEF ServerType
  <2>5. QED
    BY <1>1, <2>1, <2>4, HomeElsewhere
<1>10. CASE Next
  BY <1>3, <1>5, <1>6, <1>7, <1>8, <1>9, <1>10 DEF Next
<1>11. QED
  BY <1>2, <1>10

LEMMA HomeEnough == HomeInv => (NoLoss => HomeUpToDate)
  BY DEF HomeInv, NoLoss, Home, HomeShown, HomeUpToDate, Stale, Now

------------------------------------------------------------------------------
(* What a clean screen shows. *)

SendingTo(d) == {e \in EventType : e.kind = "sending" /\ e.who = d}
Carrying(v) == {e \in EventType : e.data = v}

\* What tells a client that it does not own the clipboard, and what it is told to hold.
Tells == {m \in Message : m.kind \in Telling}
TellsOf(v) == {m \in Message : IF m.kind = "grab" THEN v = Nothing ELSE m.data = v}

ShownAt(w, d) == w.screen[d].ours => w.screen[d].board = w.server.data
ToldLast(w, d) == LastIn(w.down[d], Tells, TellsOf(w.server.data), ShownAt(w, d))
SentLast(w, d) == LastIn(w.events, SendingTo(d), Carrying(w.server.data), ToldLast(w, d))

\* The last that a clean screen that does not own the clipboard was sent is what the server
\* holds, and nothing is too large to send.
Clean(w) ==
    /\ w.server.cache = w.server.data /\ w.server.cache \notin Oversized
    /\ w.screen[Primary].board \notin Oversized
    /\ \A d \in Clients : ~w.server.dirty[d] /\ w.server.owner # d => SentLast(w, d)

LEMMA LastBoolean ==
    ASSUME NEW w, NEW d PROVE ShownAt(w, d) \in BOOLEAN /\ ToldLast(w, d) \in BOOLEAN
  BY DEF ShownAt, ToldLast, LastIn

LEMMA CleanSet ==
    ASSUME NEW w \in State, NEW s \in Screens, NEW r, SetClipboardExact(r, w, s), Clean(w)
    PROVE  Clean(r)
<1> USE Bounds
<1>1. /\ w.server \in ServerType /\ w.screen \in [Screens -> ScreenType]
      /\ w.events \in Seq(EventType)
  BY DEF State
<1>2. w.server.dirty \in [Screens -> BOOLEAN] /\ w.server.cache \in Contents
      /\ w.screen[Primary] \in ScreenType
  BY <1>1 DEF ServerType
<1>3. CASE r = w /\ ~w.server.dirty[s]
  BY <1>3
<1>4. CASE w.server.dirty[s] /\ s = Primary
  <2>1. /\ r.server.owner = w.server.owner /\ r.down = w.down /\ r.events = w.events
        /\ r.server.cache = w.server.cache /\ r.server.data = w.server.data
        /\ r.server.dirty = [w.server.dirty EXCEPT ![s] = FALSE]
        /\ r.screen = [w.screen EXCEPT ![Primary] = Written(@, w.server.cache)]
    BY <1>4 DEF SetClipboardExact, SameCourse
  <2>2. r.screen[Primary] = Written(w.screen[Primary], w.server.cache)
        /\ \A d \in Clients : r.screen[d] = w.screen[d]
    BY <1>1, <2>1
  <2>3. r.screen[Primary].board = w.server.cache
    BY <1>2, <2>2 DEF Written, ScreenType
  <2>4. \A d \in Clients : r.server.dirty[d] = w.server.dirty[d]
    BY <1>2, <1>4, <2>1
  <2>5. \A d \in Clients : SentLast(r, d) = SentLast(w, d)
    BY <2>1, <2>2 DEF SentLast, ToldLast, ShownAt
  <2>6. QED
    BY <2>1, <2>3, <2>4, <2>5 DEF Clean
<1>5. CASE w.server.dirty[s] /\ s # Primary
  <2> DEFINE e == Event("sending", s, 0, w.server.cache)
  <2>1. /\ r.server.owner = w.server.owner /\ r.down = w.down /\ r.screen = w.screen
        /\ r.server.cache = w.server.cache /\ r.server.data = w.server.data
        /\ r.server.dirty = [w.server.dirty EXCEPT ![s] = FALSE]
        /\ r.events = Append(w.events, e)
    BY <1>5 DEF SetClipboardExact, SameCourse
  <2>2. e \in EventType /\ e.kind = "sending" /\ e.who = s /\ e.data = w.server.cache
    BY <1>2, <1>5 DEF Event, EventType, Screens
  <2> HIDE DEF e
  <2>3. \A d \in Clients \ {s} : r.server.dirty[d] = w.server.dirty[d]
    BY <1>2, <2>1
  <2>4. ASSUME NEW d \in Clients, ~r.server.dirty[d], r.server.owner # d PROVE SentLast(r, d)
    <3>1. ToldLast(r, d) = ToldLast(w, d) /\ ToldLast(w, d) \in BOOLEAN
      BY <2>1, LastBoolean DEF ToldLast, ShownAt
    <3>2. \/ e \in SendingTo(d) /\ e \in Carrying(w.server.data)
          \/ e \notin SendingTo(d)
             /\ LastIn(w.events, SendingTo(d), Carrying(w.server.data), ToldLast(w, d))
      <4>1. CASE d = s
        BY <2>2, <4>1 DEF SendingTo, Carrying, Clean
      <4>2. CASE d # s
        BY <2>1, <2>2, <2>3, <2>4, <4>2 DEF SendingTo, Clean, SentLast
      <4>3. QED
        BY <4>1, <4>2
    <3>3. LastIn(Append(w.events, e), SendingTo(d), Carrying(w.server.data), ToldLast(w, d))
      BY ONLY <1>1, <2>2, <3>1, <3>2, LastInAppend
    <3>4. QED
      BY <2>1, <3>1, <3>3 DEF SentLast
  <2>5. QED
    BY <2>1, <2>4 DEF Clean
<1>6. QED
  BY <1>3, <1>4, <1>5 DEF SetClipboardExact

LEMMA CleanSame ==
    ASSUME NEW w, NEW r, Clean(w), r.server.cache = w.server.cache,
           r.server.data = w.server.data, r.server.owner = w.server.owner,
           r.screen[Primary].board = w.screen[Primary].board,
           \A d \in Clients : r.server.dirty[d] = w.server.dirty[d],
           \A d \in Clients : SentLast(w, d) => SentLast(r, d)
    PROVE  Clean(r)
  BY DEF Clean

LEMMA CleanChanged ==
    ASSUME NEW w \in State, NEW s \in Screens, NEW seq, NEW r, ChangedExact(r, w, s, seq),
           ~(seq < w.server.clipSeq) => w.server.owner = s, Fits(w), Clean(w)
    PROVE  Clean(r)
<1> USE Bounds
<1> DEFINE d == getClipboard(w, s)
<1>1. w.server \in ServerType /\ w.server.active \in Screens
  BY DEF State, ServerType
<1>2. d \notin Oversized
  BY DEF getClipboard, Fits, Clean, Screens
<1> HIDE DEF d
<1>3. CASE r = w
  BY <1>3
<1>4. CASE Noted(r, w, s) /\ (d \in Oversized \/ d = w.server.data)
  <2>1. /\ r.server.owner = w.server.owner /\ r.events = w.events /\ r.down = w.down
        /\ r.server.dirty = w.server.dirty
        /\ r.server.data = w.server.data /\ r.server.cache = d /\ r.screen = w.screen
    BY <1>4 DEF Noted, SameCourse, d
  <2>2. r.server.cache = w.server.cache
    BY <1>2, <1>4, <2>1 DEF Clean
  <2>3. \A t \in Clients : SentLast(w, t) => SentLast(r, t)
    BY <2>1 DEF SentLast, ToldLast, ShownAt
  <2>4. QED
    BY <2>1, <2>2, <2>3, CleanSame
<1>5. CASE ~(seq < w.server.clipSeq)
           /\ \E u \in State : Updated(u, w, s) /\ SetClipboardExact(r, u, w.server.active)
  <2>1. PICK u \in State : Updated(u, w, s) /\ SetClipboardExact(r, u, w.server.active)
    BY <1>5
  <2>2. /\ u.server.owner = s /\ u.server.cache = d /\ u.server.data = d
        /\ u.server.dirty = [t \in Screens |-> t # s] /\ u.screen = w.screen
    BY <1>5, <2>1 DEF Updated, SameCourse, d
  <2>3. Clean(u)
    BY <1>2, <2>2 DEF Clean
  <2>4. QED
    BY <1>1, <2>1, <2>3, CleanSet
<1>6. QED
  BY <1>3, <1>4, <1>5 DEF ChangedExact, d

LEMMA CleanGrabbed ==
    ASSUME NEW w \in State, NEW g \in Clients, NEW seq \in SeqNums, NEW r,
           GrabbedExact(r, w, g, seq), Clean(w), Nothing \notin Oversized
    PROVE  Clean(r)
<1> USE Bounds
<1>1. CASE r = w
  BY <1>1
<1>2. CASE Grab(r, w, g, seq)
  <2>1. /\ r.server.owner = g /\ r.server.cache = Nothing /\ r.server.data = Nothing
        /\ r.server.dirty = [s \in Screens |-> s # g]
        /\ r.screen[Primary] = Written(w.screen[Primary], Nothing)
    BY <1>2 DEF Grab
  <2>2. r.screen[Primary].board = Nothing
    <3>1. w.screen[Primary] \in ScreenType
      BY DEF State
    <3>2. QED
      BY <2>1, <3>1 DEF Written, ScreenType
  <2>3. QED
    BY <2>1, <2>2 DEF Clean
<1>3. QED
  BY <1>1, <1>2 DEF GrabbedExact

\* Something that tells a client nothing is written to one, or to none.
LEMMA CleanWritten ==
    ASSUME NEW w \in State, NEW r, Clean(w), r.server.cache = w.server.cache,
           r.server.data = w.server.data, r.server.owner = w.server.owner,
           r.server.dirty = w.server.dirty, r.screen = w.screen, r.events = w.events,
           NEW m \in Message, m \notin Tells,
           \A c \in Clients : r.down[c] \in {w.down[c], Append(w.down[c], m)}
    PROVE  Clean(r)
<1>1. ASSUME NEW d \in Clients, SentLast(w, d) PROVE SentLast(r, d)
  <2>1. w.down[d] \in Seq(Message) /\ ShownAt(r, d) = ShownAt(w, d)
        /\ ToldLast(w, d) \in BOOLEAN /\ ToldLast(r, d) \in BOOLEAN
    BY LastBoolean DEF State, ShownAt
  <2>2. ToldLast(w, d) => ToldLast(r, d)
    <3>1. CASE r.down[d] = w.down[d]
      BY <2>1, <3>1 DEF ToldLast
    <3>2. CASE r.down[d] = Append(w.down[d], m)
      <4>1. ASSUME LastIn(w.down[d], Tells, TellsOf(w.server.data), ShownAt(w, d))
            PROVE  LastIn(Append(w.down[d], m), Tells, TellsOf(w.server.data), ShownAt(w, d))
        BY ONLY <2>1, <4>1, m \in Message, m \notin Tells, LastBoolean, LastInAppend
      <4>2. QED
        BY <2>1, <3>2, <4>1 DEF ToldLast
    <3>3. QED
      BY <3>1, <3>2
  <2>3. QED
    BY <1>1, <2>1, <2>2, LastInMore DEF SentLast
<1>2. QED
  BY <1>1, CleanSame

LEMMA CleanLeave ==
    ASSUME NEW w \in State, NEW r, LeaveExact(r, w), Fits(w), Clean(w), ~LostTo(w.screen[Primary])
    PROVE  Clean(r)
<1> USE Bounds
<1>1. CASE /\ w.server.active # Primary
           /\ r.server = w.server /\ r.events = w.events /\ r.screen = w.screen
           /\ r.down = [w.down EXCEPT ![w.server.active] = Append(@, LeaveTold)]
  <2>1. LeaveTold \in Message /\ LeaveTold \notin Tells
    BY DEF LeaveTold, Msg, Message, Tells, Telling
  <2>2. \A c \in Clients : r.down[c] \in {w.down[c], Append(w.down[c], LeaveTold)}
    BY <1>1 DEF State
  <2>3. QED
    BY <1>1, <2>1, <2>2, CleanWritten
<1>2. ASSUME NEW l \in State, Checked(l, w),
             \/ r = l
             \/ w.server.owner = Primary /\ r = onClipboardChanged(l, Primary, w.server.clipSeq)
      PROVE  Clean(r)
  <2>1. l.server = w.server /\ l.screen[Primary].board = w.screen[Primary].board
        /\ l.down = w.down /\ \A d \in Clients : l.screen[d] = w.screen[d]
    BY <1>2 DEF Checked
  <2>2. Longer(w.events, l.events, {}) /\ w.events \in Seq(EventType) /\ l.events \in Seq(EventType)
    BY <1>2 DEF Checked, PrimaryGrabs, State, Longer
  <2>3. ASSUME NEW d \in Clients, SentLast(w, d) PROVE SentLast(l, d)
    <3>1. ToldLast(l, d) = ToldLast(w, d) /\ ToldLast(w, d) \in BOOLEAN
      BY <2>1, LastBoolean DEF ToldLast, ShownAt
    <3>2. LastIn(w.events, SendingTo(d), Carrying(w.server.data), ToldLast(w, d))
      BY <2>3 DEF SentLast
    <3>3. LastIn(l.events, SendingTo(d), Carrying(w.server.data), ToldLast(w, d))
      BY ONLY <2>2, <3>1, <3>2, LastInLonger
    <3>4. QED
      BY <2>1, <3>1, <3>3 DEF SentLast
  <2>4. Clean(l)
    BY <2>1, <2>3, CleanSame
  <2>5. CASE r = l
    BY <2>4, <2>5
  <2>6. CASE w.server.owner = Primary /\ r = onClipboardChanged(l, Primary, w.server.clipSeq)
    <3>1. ChangedExact(r, l, Primary, w.server.clipSeq) /\ Fits(l)
      BY <1>2, <2>1, <2>6, ChangedExactly DEF Fits
    <3>2. QED
      BY <1>2, <2>1, <2>4, <2>6, <3>1, CleanChanged
  <2>7. QED
    BY <1>2, <2>5, <2>6
<1>3. QED
  BY <1>1, <1>2 DEF LeaveExact

LEMMA CleanSwitch ==
    ASSUME NEW w \in State, NEW dst \in Screens, NEW r, SwitchExact(r, w, dst), Fits(w), Clean(w),
           ~LostTo(w.screen[Primary])
    PROVE  Clean(r)
<1> USE Bounds
<1>1. PICK l \in State, t \in State :
          /\ LeaveExact(l, w) /\ l.server.seqNum + 1 \in SeqNums /\ EnterExact(t, l, dst)
          /\ \/ r = t /\ t.server.cache \in Oversized
             \/ t.server.cache \notin Oversized /\ SetClipboardExact(r, t, dst)
  BY DEF SwitchExact
<1>2. Clean(l)
  BY <1>1, CleanLeave
<1> DEFINE m == EnterTold(l.server.seqNum + 1)
<1>3. /\ t.server.owner = l.server.owner
      /\ t.server.cache = l.server.cache /\ t.server.data = l.server.data
      /\ t.server.dirty = l.server.dirty /\ t.events = l.events /\ t.screen = l.screen
      /\ \A c \in Clients : t.down[c] \in {l.down[c], Append(l.down[c], m)}
  BY <1>1 DEF EnterExact
<1>4. m \in Message /\ m \notin Tells
  BY <1>1 DEF EnterTold, Msg, Message, Tells, Telling
<1> HIDE DEF m
<1>5. Clean(t)
  BY <1>1, <1>2, <1>3, <1>4, CleanWritten
<1>6. QED
  BY <1>1, <1>5, CleanSet

CleanInv == \A c \in Clients : OnlyCopier(c) => Clean(Now)

LEMMA CleanInit == Init => CleanInv
<1> SUFFICES ASSUME Init PROVE Clean(Now)
  BY DEF CleanInv
<1>1. Scenarios \subseteq Scenario /\ scenario \in Scenarios
  BY ClipboardAssumption DEF Init
<1>2. Nothing \notin Oversized
  BY <1>1 DEF Scenario, Oversized, Nothing
<1>3. \A d \in Clients : server.dirty[d]
  BY Bounds DEF Init
<1>4. QED
  BY <1>2, <1>3, Bounds DEF Init, Clean, Now

LEMMA CleanSending ==
    ASSUME StateInv, NEW h \in Clients, events # <<>>, Head(events).kind = "sending",
           Head(events).who = h, server' = server, events' = Tail(events), screen' = screen,
           down' = [down EXCEPT ![h] = Append(@, Msg("data", 0, Head(events).data))],
           Clean(Now)
    PROVE  Clean(Now')
<1> USE Bounds
<1> DEFINE e == Head(events)
           m == Msg("data", 0, e.data)
<1>1. /\ events \in Seq(EventType) /\ e \in EventType /\ Tail(events) \in Seq(EventType)
      /\ down \in [Clients -> Seq(Message)]
  BY NowState, HeadTailProperties DEF State, Now
<1>2. m \in Message /\ m \in Tells /\ m.data = e.data /\ m.kind = "data"
  BY <1>1 DEF Msg, Message, EventType, Tells, Telling
<1>3. \A d \in Clients : down'[d] = IF d = h THEN Append(down[d], m) ELSE down[d]
  BY <1>1
<1> HIDE DEF m, e
<1>4. ASSUME NEW d \in Clients, SentLast(Now, d) PROVE SentLast(Now', d)
  <2>1. /\ ToldLast(Now, d) \in BOOLEAN /\ ToldLast(Now', d) \in BOOLEAN
        /\ ShownAt(Now, d) \in BOOLEAN /\ ShownAt(Now', d) = ShownAt(Now, d)
    BY NowFields, LastBoolean DEF ShownAt
  <2>2. ASSUME d = h, e \in Carrying(server.data) PROVE ToldLast(Now', d)
    <3>1. m \in TellsOf(server.data)
      BY <1>2, <2>2 DEF Carrying, TellsOf
    <3>2. LastIn(Append(down[d], m), Tells, TellsOf(server.data), ShownAt(Now, d))
      BY ONLY <1>1, <1>2, <2>1, <3>1, d \in Clients, LastInAppend
    <3>3. QED
      BY <1>3, <2>1, <2>2, <3>2, NowFields DEF ToldLast
  <2>3. d # h => ToldLast(Now', d) = ToldLast(Now, d)
    BY <1>3, <2>1, NowFields DEF ToldLast
  <2>4. /\ e \in SendingTo(d) => d = h
        /\ e \notin SendingTo(d) => d # h
    BY <1>1 DEF SendingTo, e
  <2>5. LastIn(events, SendingTo(d), Carrying(server.data), ToldLast(Now, d))
    BY <1>4, NowFields DEF SentLast
  <2>6. /\ e \in SendingTo(d) /\ e \in Carrying(server.data) => ToldLast(Now', d)
        /\ e \notin SendingTo(d) /\ ToldLast(Now, d) => ToldLast(Now', d)
    BY <2>2, <2>3, <2>4
  <2>7. LastIn(Tail(events), SendingTo(d), Carrying(server.data), ToldLast(Now', d))
    <3>1. events # <<>> /\ e = Head(events)
      BY DEF e
    <3>2. QED
      BY ONLY <1>1, <2>1, <2>5, <2>6, <3>1, LastInTail
  <2>8. QED
    BY <2>7, NowFields DEF SentLast
<1>5. QED
  BY <1>4, NowFields, CleanSame

LEMMA CleanPopped ==
    ASSUME StateInv, events # <<>>, Head(events).kind # "sending", Clean(Now)
    PROVE  Clean(Popped)
<1>1. /\ events \in Seq(EventType) /\ Popped.server = server /\ Popped.events = Tail(events)
      /\ Popped.down = down /\ Popped.screen = screen
  BY NowState, PoppedState DEF State, Now
<1>2. ASSUME NEW d \in Clients, SentLast(Now, d) PROVE SentLast(Popped, d)
  <2>1. /\ ToldLast(Now, d) \in BOOLEAN /\ ToldLast(Popped, d) = ToldLast(Now, d)
    BY <1>1, NowFields, LastBoolean DEF ToldLast, ShownAt
  <2>2. Head(events) \notin SendingTo(d)
    BY DEF SendingTo
  <2>3. LastIn(events, SendingTo(d), Carrying(server.data), ToldLast(Now, d))
    BY <1>2, NowFields DEF SentLast
  <2>4. LastIn(Tail(events), SendingTo(d), Carrying(server.data), ToldLast(Now, d))
    BY ONLY <1>1, <2>1, <2>2, <2>3, events # <<>>, LastInTail
  <2>5. QED
    BY <1>1, <2>1, <2>4 DEF SentLast
<1>3. QED
  BY <1>1, <1>2, NowFields, CleanSame

LEMMA CleanServer ==
    ASSUME LoneInv, FitsInv, NEW c \in Clients, OnlyCopier(c), Clean(Now),
           SwitchScreen \/ ServerEvent
    PROVE  Clean(Now')
<1> USE Bounds
<1>1. /\ StateInv /\ CourierInv /\ Idle /\ Now \in State /\ Fits(Now)
  BY NowState DEF LoneInv, GrabInv, IdleInv, FitsInv, OnlyCopier
<1>2. CASE SwitchScreen
  <2>1. PICK dst \in (connected \cup {Primary}) \ {server.active} : SwitchExact(Now', Now, dst)
    BY <1>1, <1>2, SwitchExactly
  <2>2. dst \in Screens /\ ~LostTo(Now.screen[Primary])
    BY <1>1, <2>1, NowFields DEF StateInv, Idle
  <2>3. QED
    BY <1>1, <2>1, <2>2, CleanSwitch
<1>3. CASE ServerEvent
  <2> DEFINE e == Head(events)
  <2>1. /\ Popped \in State /\ Popped.server = server /\ EventExact(e)
        /\ e \in EventType /\ events # <<>> /\ e = events[1] /\ 1 \in 1 .. Len(events)
    BY <1>1, <1>3, PoppedState, EventExactly, EventHandled DEF ServerEvent, KnownEvent
  <2>2. Fits(Popped)
    BY <1>1, <2>1, NowFields DEF Fits
  <2>3. CASE e.kind = "grabbed" /\ e.who \in Screens /\ e.seq \in SeqNums
             /\ GrabbedExact(Now', Popped, e.who, e.seq)
    <3>1. e.who \in Clients
      BY <1>1, <2>1, <2>3 DEF Idle, Screens
    <3>2. Clean(Popped) /\ Nothing \notin Oversized
      BY <1>1, <2>1, <2>3, CleanPopped, Fitting
    <3> HIDE DEF e
    <3>3. QED
      BY <2>1, <2>3, <3>1, <3>2, CleanGrabbed
  <2>4. CASE e.kind = "changed" /\ e.who \in Screens /\ ChangedExact(Now', Popped, e.who, e.seq)
    <3>1. Clean(Popped)
      BY <1>1, <2>1, <2>4, CleanPopped
    <3>2. ~(e.seq < server.clipSeq) => server.owner = e.who
      <4>1. e.seq \in Nat /\ server.clipSeq \in Nat
        BY <1>1, <2>1, <2>4 DEF EventType, StateInv, ServerType
      <4>2. QED
        BY <2>1, <2>4, <4>1, SenderExpected DEF ExpectedSender
    <3> HIDE DEF e
    <3>3. QED
      BY <2>1, <2>2, <2>4, <3>1, <3>2, CleanChanged
  <2>5. CASE /\ e.kind = "sending" /\ e.who \in Clients
             /\ server' = server /\ events' = Tail(events) /\ screen' = screen
             /\ down' = [down EXCEPT ![e.who] = Append(@, Msg("data", 0, e.data))]
    BY <1>1, <2>1, <2>5, CleanSending
  <2>6. CASE e.kind = "orphan" /\ Now' = Popped
    BY <1>1, <2>1, <2>6, CleanPopped
  <2> HIDE DEF e
  <2>7. QED
    BY <2>1, <2>3, <2>4, <2>5, <2>6 DEF EventExact
<1>4. QED
  BY <1>2, <1>3

\* A step elsewhere that leaves what clean screens were sent, or makes them dirty.
LEMMA CleanElsewhere ==
    ASSUME Clean(Now), server'.cache = server.cache, server'.data = server.data,
           server'.owner = server.owner, screen'[Primary].board = screen[Primary].board,
           \A d \in Clients : ~server'.dirty[d] =>
               ~server.dirty[d] /\ (SentLast(Now, d) => SentLast(Now', d))
    PROVE  Clean(Now')
  BY NowFields DEF Clean

\* What a client has been told is no more than the screen shows once it is read.
LEMMA ToldMore ==
    ASSUME NEW d \in Clients, server'.data = server.data, events' = events,
           ToldLast(Now, d) => ToldLast(Now', d), SentLast(Now, d)
    PROVE  SentLast(Now', d)
  BY NowFields, LastInMore DEF SentLast

LEMMA ShownMore ==
    ASSUME NEW d \in Clients, server'.data = server.data, down'[d] = down[d],
           screen'[d].ours => screen[d].ours /\ screen'[d].board = screen[d].board,
           ToldLast(Now, d)
    PROVE  ToldLast(Now', d)
<1>1. ShownAt(Now, d) => ShownAt(Now', d)
  BY NowFields DEF ShownAt
<1>2. QED
  BY <1>1, NowFields, LastInMore DEF ToldLast

LEMMA ScreenRead ==
    ASSUME StateInv, NEW c \in Clients, ClientReceive(c)
    PROVE  /\ Head(down[c]) \in Tells =>
                  \A v : Head(down[c]) \in TellsOf(v) => screen'[c].board = v
           /\ Head(down[c]) \notin Tells =>
                  screen'[c].board = screen[c].board /\ screen'[c].ours = screen[c].ours
<1> DEFINE m == Head(down[c])
<1>1. m \in Message /\ screen \in [Screens -> ScreenType] /\ c \in Screens
  BY ReceiveDoes, Bounds DEF KnownMessage, StateInv
<1>2. screen[c] \in ScreenType /\ m.kind \in {"enter", "leave", "grab", "data"}
  BY <1>1 DEF Message
<1>3. CASE m.kind = "enter"
  <2>1. UNCHANGED screen
    BY <1>3 DEF ClientReceive, Received
  <2>2. QED
    BY <1>3, <2>1 DEF Tells, Telling
<1>4. CASE m.kind = "leave"
  <2>1. \E own : screen' = [screen EXCEPT ![c].own = own]
    BY <1>4 DEF ClientReceive, Received
  <2>2. screen'[c].board = screen[c].board /\ screen'[c].ours = screen[c].ours
    BY <1>1, <1>2, <2>1 DEF ScreenType
  <2>3. QED
    BY <1>4, <2>2 DEF Tells, Telling
<1>5. CASE m.kind = "grab"
  <2>1. screen' = [screen EXCEPT ![c] = Written(@, Nothing)]
    BY <1>5 DEF ClientReceive, Received
  <2>2. screen'[c].board = Nothing
    BY <1>1, <1>2, <2>1 DEF ScreenType, Written
  <2>3. QED
    BY <1>1, <1>5, <2>2 DEF Tells, Telling, TellsOf
<1>6. CASE m.kind = "data"
  <2>1. screen' = [screen EXCEPT ![c] = Written(@, m.data)]
    BY <1>6 DEF ClientReceive, Received
  <2>2. screen'[c].board = m.data
    BY <1>1, <1>2, <2>1 DEF ScreenType, Written
  <2>3. QED
    BY <1>1, <1>6, <2>2 DEF Tells, Telling, TellsOf
<1>7. QED
  BY <1>2, <1>3, <1>4, <1>5, <1>6

LEMMA CleanReceive ==
    ASSUME StateInv, NEW c \in Clients, ClientReceive(c), Clean(Now) PROVE Clean(Now')
<1> USE Bounds
<1>1. UNCHANGED <<server, events>> /\ screen'[Primary] = screen[Primary]
      /\ down[c] # <<>> /\ down' = [down EXCEPT ![c] = Tail(down[c])]
      /\ down \in [Clients -> Seq(Message)]
      /\ \A d \in Clients \ {c} : screen'[d] = screen[d]
  BY ReceiveDoes, NowState DEF ScreenOf, ClientReceive, State, Now
<1>2. ASSUME NEW d \in Clients, ToldLast(Now, d) PROVE ToldLast(Now', d)
  <2>1. CASE d # c
    <3>1. down'[d] = down[d] /\ screen'[d] = screen[d]
      BY <1>1, <2>1
    <3>2. QED
      BY <1>1, <1>2, <3>1, ShownMore
  <2>2. CASE d = c
    <3>1. ShownAt(Now, c) \in BOOLEAN /\ ShownAt(Now', c) \in BOOLEAN /\ down[c] \in Seq(Message)
          /\ down'[c] = Tail(down[c])
      BY <1>1, LastBoolean
    <3>2. /\ Head(down[c]) \in Tells /\ Head(down[c]) \in TellsOf(server.data) => ShownAt(Now', c)
          /\ Head(down[c]) \notin Tells /\ ShownAt(Now, c) => ShownAt(Now', c)
      BY <1>1, ScreenRead, NowFields DEF ShownAt
    <3>3. LastIn(down[c], Tells, TellsOf(server.data), ShownAt(Now, c))
      BY <1>2, <2>2, NowFields DEF ToldLast
    <3>4. LastIn(Tail(down[c]), Tells, TellsOf(server.data), ShownAt(Now', c))
      BY ONLY <1>1, <3>1, <3>2, <3>3, LastInTail
    <3>5. QED
      BY <1>1, <2>2, <3>1, <3>4, NowFields DEF ToldLast
  <2>3. QED
    BY <2>1, <2>2
<1>3. \A d \in Clients : SentLast(Now, d) => SentLast(Now', d)
  BY <1>1, <1>2, ToldMore
<1>4. QED
  BY <1>1, <1>3, CleanElsewhere

LEMMA CleanRead ==
    ASSUME StateInv, NEW c \in Clients, ServerReceive(c), Clean(Now) PROVE Clean(Now')
<1> USE Bounds
<1> DEFINE m == Head(up[c])
<1>1. m \in Message
  BY HeadTailProperties DEF ServerReceive, StateInv, KnownMessage
<1>2. PICK k \in {"grabbed", "changed"} : events' = Append(events, Event(k, c, m.seq, Nothing))
  BY DEF ServerReceive
<1>3. /\ server' = server \/ server' = [server EXCEPT !.buffer[c] = m.data]
      /\ UNCHANGED <<down, screen>>
  BY DEF ServerReceive
<1>4. /\ server'.cache = server.cache /\ server'.data = server.data
      /\ server'.owner = server.owner /\ server'.dirty = server.dirty
  BY <1>3 DEF StateInv, ServerType
<1> DEFINE e == Event(k, c, m.seq, Nothing)
<1>5. e \in EventType /\ e.kind # "sending" /\ events \in Seq(EventType)
  BY <1>1, NowState DEF Event, EventType, Message, State, Now
<1> HIDE DEF e, m
<1>6. ASSUME NEW d \in Clients, SentLast(Now, d) PROVE SentLast(Now', d)
  <2>1. ToldLast(Now, d) \in BOOLEAN /\ ToldLast(Now', d) = ToldLast(Now, d)
    BY <1>3, <1>4, LastBoolean, NowFields DEF ToldLast, ShownAt
  <2>2. LastIn(events, SendingTo(d), Carrying(server.data), ToldLast(Now, d))
    BY <1>6, NowFields DEF SentLast
  <2>3. e \notin SendingTo(d)
    BY <1>5 DEF SendingTo
  <2>4. LastIn(Append(events, e), SendingTo(d), Carrying(server.data), ToldLast(Now, d))
    BY ONLY <1>5, <2>1, <2>2, <2>3, LastInAppend
  <2>5. QED
    BY <1>2, <1>4, <2>1, <2>4, NowFields DEF SentLast, e
<1>7. QED
  BY <1>3, <1>4, <1>6, CleanElsewhere

LEMMA CleanLost ==
    ASSUME StateInv, CourierInv, UNCHANGED scenario, NEW c \in Clients, Disconnect(c), Clean(Now)
    PROVE  Clean(Now')
<1> USE Bounds
<1>1. /\ Len(events') = Len(events) /\ Len(events) \in Nat
      /\ \A i \in 1 .. Len(events) :
            events'[i] = IF events[i].who = c THEN Event("orphan", c, 0, Nothing) ELSE events[i]
  BY OrphanedKnown, LenProperties DEF Disconnect, Orphaned, StateInv
<1>2. /\ down' = [down EXCEPT ![c] = <<>>] /\ screen'[Primary] = screen[Primary]
      /\ \A d \in Clients \ {c} : screen'[d] = screen[d] /\ down'[d] = down[d]
  BY DEF Disconnect, StateInv
<1> DEFINE rest == freshProxy(server, c)
<1>3. /\ rest \in ServerType /\ rest.owner = server.owner /\ rest.cache = server.cache
      /\ rest.data = server.data /\ rest.dirty = [server.dirty EXCEPT ![c] = TRUE]
  <2>1. /\ server \in ServerType /\ [server.dirty EXCEPT ![c] = TRUE] \in [Screens -> BOOLEAN]
        /\ [server.buffer EXCEPT ![c] = Nothing] \in [Clients -> Contents]
    BY DEF StateInv, ServerType
  <2>2. rest = [server EXCEPT !.dirty = [server.dirty EXCEPT ![c] = TRUE],
                              !.buffer = [server.buffer EXCEPT ![c] = Nothing]]
    BY <2>1 DEF freshProxy, ServerType
  <2>3. QED
    BY <2>1, <2>2 DEF ServerType
<1>4. server' = rest \/ server' = [rest EXCEPT !.active = Primary, !.primarySeq = rest.seqNum]
  BY DEF Disconnect
<1> HIDE DEF rest
<1>5. /\ server'.owner = server.owner /\ server'.cache = server.cache
      /\ server'.data = server.data /\ server'.dirty = [server.dirty EXCEPT ![c] = TRUE]
  BY <1>3, <1>4 DEF ServerType
<1>6. ASSUME NEW d \in Clients \ {c}, SentLast(Now, d) PROVE SentLast(Now', d)
  <2>1. ToldLast(Now', d) = ToldLast(Now, d)
    BY <1>2, <1>5, NowFields DEF ToldLast, ShownAt
  <2>2. \A i \in 1 .. Len(events) :
           /\ events[i] \in SendingTo(d) => events'[i] = events[i]
           /\ events'[i] \in SendingTo(d) => events'[i] = events[i]
    <3>1. Event("orphan", c, 0, Nothing) \notin SendingTo(d)
      BY DEF Event, SendingTo
    <3>2. \A e \in SendingTo(d) : e.who # c
      BY DEF SendingTo
    <3>3. QED
      BY <1>1, <3>1, <3>2
  <2>3. LastIn(events, SendingTo(d), Carrying(server.data), ToldLast(Now, d))
    BY <1>6, NowFields DEF SentLast
  <2>4. LastIn(events', SendingTo(d), Carrying(server.data), ToldLast(Now, d))
    BY ONLY <1>1, <2>2, <2>3 DEF LastIn
  <2>5. QED
    BY <1>5, <2>1, <2>4, NowFields DEF SentLast
<1>7. \A d \in Clients : ~server'.dirty[d] => ~server.dirty[d] /\ d # c
  BY <1>5 DEF StateInv, ServerType
<1>8. QED
  BY <1>2, <1>5, <1>6, <1>7, CleanElsewhere

LEMMA CleanNext ==
    ASSUME LoneInv, FitsInv, CleanInv, [Next]_vars PROVE CleanInv'
<1> SUFFICES ASSUME NEW c \in Clients, OnlyCopier(c)' PROVE Clean(Now)'
  BY DEF CleanInv
<1> USE Bounds
<1>1. UNCHANGED scenario
  BY DEF Next, vars
<1>2. OnlyCopier(c) /\ Clean(Now) /\ StateInv /\ CourierInv /\ Idle
  BY <1>1 DEF OnlyCopier, OnlyClient, CleanInv, LoneInv, GrabInv, IdleInv
<1>3. Clean(Now') => Clean(Now)'
  BY <1>1 DEF Clean, SentLast, ToldLast, ShownAt, Oversized
<1>4. CASE UNCHANGED vars
  <2>1. Now' = Now
    BY <1>4 DEF vars, Now
  <2>2. QED
    BY <1>2, <1>3, <2>1
<1>5. ASSUME UNCHANGED <<server, down, events>>, screen'[Primary].board = screen[Primary].board,
             \A d \in Clients : ~server.dirty[d] =>
                 (screen'[d].ours => screen[d].ours /\ screen'[d].board = screen[d].board)
      PROVE  Clean(Now')
  <2>1. \A d \in Clients : ~server.dirty[d] /\ ToldLast(Now, d) => ToldLast(Now', d)
    BY <1>5, ShownMore
  <2>2. \A d \in Clients : ~server.dirty[d] /\ SentLast(Now, d) => SentLast(Now', d)
    BY <1>5, <2>1, ToldMore
  <2>3. QED
    BY <1>2, <1>5, <2>2, CleanElsewhere
<1>6. ASSUME NEW d \in Clients, ClientEvent(d) PROVE Clean(Now')
  BY <1>5, <1>6 DEF ClientEvent
<1>7. ASSUME NEW s \in Screens, Copy(s) PROVE Clean(Now')
  <2>1. s \in Clients
    BY <1>2, <1>7 DEF Copy, OnlyCopier, OnlyClient
  <2>2. /\ screen'[Primary] = screen[Primary] /\ ~screen'[s].ours
        /\ \A d \in Clients \ {s} : screen'[d] = screen[d]
    BY <1>2, <1>7, <2>1 DEF Copy, StateInv, ScreenType
  <2>3. QED
    BY <1>5, <1>7, <2>1, <2>2 DEF Copy
<1>8. ASSUME NEW s \in Screens, onClipboardChange(s) PROVE Clean(Now')
  <2>1. UNCHANGED <<server, down, events>>
    BY <1>2, <1>8 DEF onClipboardChange, Idle
  <2>2. \A d \in Screens : screen'[d].board = screen[d].board /\ screen'[d].ours = screen[d].ours
    BY <1>2, <1>8 DEF onClipboardChange, StateInv, ScreenType
  <2>3. QED
    BY <1>5, <2>1, <2>2
<1>9. ASSUME NEW d \in Clients, Connect(d) PROVE Clean(Now')
  <2>1. /\ UNCHANGED <<server, down, events>> /\ server.dirty[d]
        /\ \A s \in Screens \ {d} : screen'[s] = screen[s]
    BY <1>2, <1>9 DEF Connect, StateInv, CourierInv, Fresh
  <2>2. QED
    BY <1>5, <2>1
<1>10. CASE Next
  BY <1>2, <1>3, <1>6, <1>7, <1>8, <1>9, <1>1, <1>10, CleanServer, CleanRead, CleanReceive, CleanLost DEF Next
<1>11. QED
  BY <1>4, <1>10

LEMMA CleanEnough ==
    ASSUME StateInv, CleanInv, NEW c \in Clients, OnlyCopier(c) PROVE CleanIsUpToDate
<1> SUFFICES ASSUME Settled, NEW d \in connected, ~server.dirty[d], server.owner # d
             PROVE  ~Stale(d)
  BY DEF CleanIsUpToDate
<1>0. d \in Clients
  BY DEF StateInv
<1>1. SentLast(Now, d) /\ Len(events) = 0 /\ Len(down[d]) = 0
  BY <1>0 DEF CleanInv, Clean, Now, Settled, AtRest
<1>2. ShownAt(Now, d)
  BY <1>1, NowFields DEF SentLast, ToldLast, LastIn
<1>3. QED
  BY <1>2, NowFields DEF ShownAt, Stale

------------------------------------------------------------------------------
(* What the owner sent last. *)

FromClient(c) == {e \in EventType : e.who = c /\ e.kind \in {"grabbed", "changed"}}

\* Client c was sent the clipboard, or had it taken away, and has not read so.
Disowned(c) ==
    \/ \E i \in 1 .. Len(events) : events[i] \in SendingTo(c)
    \/ \E i \in 1 .. Len(down[c]) : down[c][i] \in Tells

\* No grab of c that the server took, or is to take, is from a later move than n.
Limit(c, n) ==
    /\ server.owner = c => server.clipSeq <= n
    /\ \A i \in 1 .. Len(events) :
          events[i] \in FromClient(c) /\ events[i].kind = "grabbed" => events[i].seq <= n
    /\ \A i \in 1 .. Len(up[c]) : up[c][i].kind = "grab" => up[c][i].seq <= n

\* The last that c said is v, said in move n: it is still on the client, or on its way, or
\* in the proxy while its event waits, or the server has it.
Had(c, v) == server.owner = c => server.data = v
Fetched(c, n, v) == {e \in EventType : e.kind = "changed" /\ e.seq = n /\ server.buffer[c] = v}
Bringing(n, v) == {m \in Message : m.kind = "data" /\ m.seq = n /\ m.data = v}
ToSend == {x \in Raised : x.kind = "sending"}
ToBring(n, v) == {x \in Raised : x.seq = n /\ x.data = v}

HeardLast(c, n, v) == LastIn(events, FromClient(c), Fetched(c, n, v), Had(c, v))
WroteLast(c, n, v) == LastIn(up[c], Message, Bringing(n, v), HeardLast(c, n, v))
RaisedLast(c, n, v) == LastIn(client[c].events, ToSend, ToBring(n, v), WroteLast(c, n, v))

Kept(c) ==
    /\ server.owner = c => c \in connected /\ server.clipSeq <= client[c].seqNum
    /\ client[c].own /\ client[c].sent =>
          Disowned(c) \/ \E n \in SeqNums : Limit(c, n) /\ RaisedLast(c, n, client[c].last)

KeptInv == \A c \in Clients : OnlyClient(c) => Kept(c)

\* What a step of the server may do to what it has of c.
Buffered(r, w, c) ==
    \/ r.server.buffer[c] = w.server.buffer[c]
    \/ \E i \in 1 .. Len(r.events) : r.events[i] \in SendingTo(c)

LEMMA SetBuffers ==
    ASSUME NEW w \in State, NEW s \in Screens, NEW r, SetClipboardExact(r, w, s), NEW c \in Clients
    PROVE  Buffered(r, w, c) /\ r.server.data = w.server.data /\ r.server.owner = w.server.owner
<1> USE Bounds
<1>1. w.server \in ServerType /\ w.events \in Seq(EventType) /\ w.server.cache \in Contents
      /\ w.server.buffer \in [Clients -> Contents]
  BY DEF State, ServerType
<1>2. CASE r = w
  BY <1>2 DEF Buffered
<1>3. CASE w.server.dirty[s] /\ s = Primary
  BY <1>3 DEF SetClipboardExact, SameCourse, Buffered
<1>4. CASE w.server.dirty[s] /\ s # Primary
  <2> DEFINE e == Event("sending", s, 0, w.server.cache)
  <2>1. /\ r.server.buffer = [w.server.buffer EXCEPT ![s] = w.server.cache]
        /\ r.events = Append(w.events, e)
        /\ r.server.data = w.server.data /\ r.server.owner = w.server.owner
    BY <1>4 DEF SetClipboardExact, SameCourse
  <2>2. e \in SendingTo(s) /\ e \in EventType
    BY <1>1, <1>4 DEF Event, EventType, Screens, SendingTo
  <2> HIDE DEF e
  <2>3. /\ Len(w.events) + 1 \in 1 .. Len(r.events) /\ r.events[Len(w.events) + 1] = e
    BY <1>1, <2>1, <2>2, AppendProperties, LenProperties
  <2>4. CASE s = c
    BY <2>1, <2>2, <2>3, <2>4 DEF Buffered
  <2>5. CASE s # c
    BY <1>1, <2>1, <2>5 DEF Buffered
  <2>6. QED
    BY <2>1, <2>4, <2>5
<1>5. QED
  BY <1>2, <1>3, <1>4 DEF SetClipboardExact

\* The data of s is taken over, unless it is too old.
Taken(r, w, s, seq) ==
    /\ r.server.owner = w.server.owner
    /\ r.server.data = w.server.data \/ r.server.data = getClipboard(w, s)
    /\ ~(seq < w.server.clipSeq) /\ getClipboard(w, s) \notin Oversized
           => r.server.data = getClipboard(w, s)

LEMMA ChangedTakes ==
    ASSUME NEW w \in State, NEW s \in Screens, NEW seq, NEW r, ChangedExact(r, w, s, seq),
           NEW c \in Clients
    PROVE  Buffered(r, w, c) /\ Taken(r, w, s, seq)
<1>1. w.server.active \in Screens
  BY DEF State, ServerType
<1>2. CASE r = w /\ seq < w.server.clipSeq
  BY <1>2 DEF Buffered, Taken
<1>3. CASE Noted(r, w, s)
           /\ (getClipboard(w, s) \in Oversized \/ getClipboard(w, s) = w.server.data)
  BY <1>3 DEF Noted, SameCourse, Buffered, Taken
<1>4. ASSUME NEW u \in State, Updated(u, w, s), SetClipboardExact(r, u, w.server.active)
      PROVE  Buffered(r, w, c) /\ Taken(r, w, s, seq)
  <2>1. Buffered(r, u, c) /\ r.server.data = u.server.data /\ r.server.owner = u.server.owner
    BY <1>1, <1>4, SetBuffers
  <2>2. /\ u.server.owner = w.server.owner /\ u.server.buffer = w.server.buffer
        /\ u.server.data = getClipboard(w, s)
    BY <1>4 DEF Updated, SameCourse
  <2>3. QED
    BY <2>1, <2>2 DEF Buffered, Taken
<1>5. QED
  BY <1>2, <1>3, <1>4 DEF ChangedExact

LEMMA GrabbedTakes ==
    ASSUME NEW w \in State, NEW g \in Screens, NEW seq \in SeqNums, NEW r,
           GrabbedExact(r, w, g, seq), NEW c \in Clients
    PROVE  Buffered(r, w, c) /\ (r = w \/ r.server.owner = g)
<1> USE Bounds
<1>1. CASE r = w
  BY <1>1 DEF Buffered
<1>2. ASSUME NEW t \in State, Grab(t, w, g, seq),
             r = t \/ (g = Primary /\ r = onClipboardChanged(t, Primary, seq))
      PROVE  Buffered(r, w, c) /\ r.server.owner = g
  <2>1. t.server.owner = g /\ t.server.buffer = w.server.buffer
    BY <1>2 DEF Grab
  <2>2. CASE r = t
    BY <2>1, <2>2 DEF Buffered
  <2>3. CASE g = Primary /\ r = onClipboardChanged(t, Primary, seq)
    <3>1. Buffered(r, t, c) /\ Taken(r, t, Primary, seq)
      BY <1>2, <2>3, ChangedExactly, ChangedTakes
    <3>2. QED
      BY <2>1, <3>1 DEF Buffered, Taken
  <2>4. QED
    BY <1>2, <2>2, <2>3
<1>3. QED
  BY <1>1, <1>2 DEF GrabbedExact

LEMMA SwitchTakes ==
    ASSUME NEW w \in State, NEW dst \in Screens, NEW r, SwitchExact(r, w, dst), NEW c \in Clients
    PROVE  /\ Buffered(r, w, c) /\ r.server.owner = w.server.owner
           /\ w.server.owner # Primary => r.server.data = w.server.data
<1> USE Bounds
<1>1. PICK l \in State, t \in State :
          /\ LeaveExact(l, w) /\ l.server.seqNum + 1 \in SeqNums /\ EnterExact(t, l, dst)
          /\ \/ r = t /\ t.server.cache \in Oversized
             \/ t.server.cache \notin Oversized /\ SetClipboardExact(r, t, dst)
  BY DEF SwitchExact
<1>2. /\ l.server.buffer[c] = w.server.buffer[c] /\ l.server.owner = w.server.owner
      /\ w.server.owner # Primary => l.server.data = w.server.data
  <2>1. CASE l.server = w.server
    BY <2>1
  <2>2. ASSUME NEW k \in State, Checked(k, w), w.server.active = Primary,
               w.server.owner = Primary, l = onClipboardChanged(k, Primary, w.server.clipSeq)
        PROVE  l.server.buffer[c] = w.server.buffer[c] /\ l.server.owner = w.server.owner
    <3>1. ChangedExact(l, k, Primary, w.server.clipSeq) /\ k.server = w.server
      BY <2>2, ChangedExactly DEF Checked
    <3>2. CASE l = k \/ Noted(l, k, Primary)
      BY <3>1, <3>2 DEF Noted, SameCourse
    <3>3. ASSUME NEW u \in State, Updated(u, k, Primary), SetClipboardExact(l, u, Primary)
          PROVE  l.server.buffer[c] = w.server.buffer[c] /\ l.server.owner = w.server.owner
      BY <3>1, <3>3 DEF Updated, SetClipboardExact, SameCourse
    <3>4. QED
      BY <2>2, <3>1, <3>2, <3>3 DEF ChangedExact
  <2>3. QED
    BY <1>1, <2>1, <2>2 DEF LeaveExact, Checked
<1>3. /\ t.server.owner = l.server.owner /\ t.server.data = l.server.data
      /\ t.server.buffer = l.server.buffer
  BY <1>1 DEF EnterExact
<1>4. CASE r = t
  BY <1>2, <1>3, <1>4 DEF Buffered
<1>5. CASE SetClipboardExact(r, t, dst)
  <2>1. Buffered(r, t, c) /\ r.server.data = t.server.data /\ r.server.owner = t.server.owner
    BY <1>1, <1>5, SetBuffers
  <2>2. QED
    BY <1>2, <1>3, <2>1 DEF Buffered
<1>6. QED
  BY <1>1, <1>4, <1>5

\* What was written to a client stays in its place.
LEMMA DownGrows ==
    ASSUME StateInv, SwitchScreen \/ ServerEvent, NEW c \in Clients
    PROVE  \A i \in 1 .. Len(down[c]) : i \in 1 .. Len(down'[c]) /\ down'[c][i] = down[c][i]
<1> USE Bounds
<1>1. Now \in State /\ down[c] \in Seq(Message) /\ server.active \in Screens
  BY NowState, NowFields DEF State, StateInv, ServerType
<1>2. ASSUME NEW m \in Message, down'[c] \in {down[c], Append(down[c], m)}
      PROVE  \A i \in 1 .. Len(down[c]) : i \in 1 .. Len(down'[c]) /\ down'[c][i] = down[c][i]
  BY <1>1, <1>2, MessageAppend, LenProperties
<1>3. CASE SwitchScreen
  <2>1. PICK dst \in (connected \cup {Primary}) \ {server.active} : SwitchEffect(Now', Now, dst)
    BY <1>3, SwitchDoes
  <2>2. /\ LeaveTold \in Message
        /\ down'[c] = Append(down[c], LeaveTold) \/ down'[c] = down[c]
              \/ (down'[c] = Append(down[c], EnterTold(server.seqNum + 1)) /\ c = dst)
    BY <2>1, NowFields DEF SwitchEffect, LeaveTold, Msg, Message
  <2>3. EnterTold(server.seqNum + 1) \in Message
    <3>1. server'.seqNum = server.seqNum + 1 /\ Now' \in State
      BY <2>1, NowFields DEF SwitchEffect
    <3>2. server.seqNum + 1 \in SeqNums
      BY <3>1, NowFields DEF State, ServerType
    <3>3. QED
      BY <3>2 DEF EnterTold, Msg, Message
  <2>4. QED
    BY <1>2, <2>2, <2>3
<1>4. CASE ServerEvent
  <2> DEFINE e == Head(events)
  <2>1. ServerEventEffect /\ Popped.down = down /\ e \in EventType
    BY <1>4, ServerEventDoes, PoppedState DEF ServerEvent, KnownEvent
  <2>2. GrabTold \in Message
    BY DEF GrabTold, Msg, Message
  <2>3. CASE Now' = Popped
    BY <1>2, <2>1, <2>2, <2>3, NowFields
  <2>4. CASE GrabbedEffect(Now', Popped, e.who, e.seq)
    BY <1>2, <2>1, <2>2, <2>3, <2>4, NowFields DEF GrabbedEffect
  <2>5. CASE ChangedEffect(Now', Popped)
    BY <1>2, <2>1, <2>2, <2>5, NowFields DEF ChangedEffect
  <2>6. CASE e.kind = "sending"
    <3>1. e.who \in Clients /\ Msg("data", 0, e.data) \in Message
      BY <2>1, <2>6 DEF EventType, Msg, Message
    <3>2. down' = [down EXCEPT ![e.who] = Append(@, Msg("data", 0, e.data))]
      BY <1>4, <2>6, EventExactly DEF EventExact
    <3>3. down'[c] \in {down[c], Append(down[c], Msg("data", 0, e.data))}
      BY <1>1, <3>1, <3>2, NowFields DEF State
    <3>4. QED
      BY <1>2, <3>1, <3>3
  <2>7. QED
    BY <2>1, <2>3, <2>4, <2>5, <2>6 DEF ServerEventEffect
<1>5. QED
  BY <1>3, <1>4

LEMMA HeardBoolean ==
    ASSUME NEW c, NEW n, NEW v
    PROVE  /\ Had(c, v) \in BOOLEAN /\ HeardLast(c, n, v) \in BOOLEAN
           /\ WroteLast(c, n, v) \in BOOLEAN /\ RaisedLast(c, n, v) \in BOOLEAN
  BY DEF Had, HeardLast, WroteLast, RaisedLast, LastIn

\* A step of the server leaves what is kept, where its queue, once q is what is left of it,
\* grows by nothing of c's.
LEMMA KeptBy ==
    ASSUME NEW c \in Clients, NEW q \in Seq(EventType), events' \in Seq(EventType), NEW E,
           Longer(q, events', E), \A e \in E : e \notin FromClient(c),
           \A i \in 1 .. Len(q) : \E j \in 1 .. Len(events) : q[i] = events[j],
           UNCHANGED <<connected, up, client>>, Disowned(c) => Disowned(c)',
           Buffered(Now', Now, c),
           server'.owner = c => c \in connected /\ server'.clipSeq <= client[c].seqNum,
           \A n \in SeqNums : Limit(c, n) => (server'.owner = c => server'.clipSeq <= n),
           \A n \in SeqNums, v \in Contents : Limit(c, n) /\ HeardLast(c, n, v) =>
               LastIn(q, FromClient(c), Fetched(c, n, v), Had(c, v)'),
           client[c].last \in Contents, Kept(c)
    PROVE  Kept(c)'
<1> DEFINE v == client[c].last
<1>1. CASE Disowned(c)'
  BY <1>1 DEF Kept
<1>2. ASSUME ~Disowned(c)', client[c].own, client[c].sent
      PROVE  \E n \in SeqNums : Limit(c, n)' /\ RaisedLast(c, n, v)'
  <2>1. PICK n \in SeqNums : Limit(c, n) /\ RaisedLast(c, n, v)
    BY <1>2 DEF Kept
  <2>2. server'.buffer[c] = server.buffer[c]
    BY <1>2, NowFields DEF Buffered, Disowned
  <2>3. Fetched(c, n, v)' = Fetched(c, n, v)
    BY <2>2 DEF Fetched
  <2>4. HeardLast(c, n, v) => HeardLast(c, n, v)'
    <3>1. ASSUME LastIn(q, FromClient(c), Fetched(c, n, v), Had(c, v)')
          PROVE  LastIn(events', FromClient(c), Fetched(c, n, v), Had(c, v)')
      <4>1. Had(c, v)' \in BOOLEAN
        BY DEF Had
      <4>2. /\ q \in Seq(EventType) /\ events' \in Seq(EventType) /\ Longer(q, events', E)
            /\ \A e \in E : e \notin FromClient(c)
        OBVIOUS
      <4>3. QED
        BY ONLY <3>1, <4>1, <4>2, LastInLonger
    <3>2. HeardLast(c, n, v)' <=> LastIn(events', FromClient(c), Fetched(c, n, v), Had(c, v)')
      BY <2>3 DEF HeardLast, FromClient
    <3>3. QED
      BY <2>1, <3>1, <3>2
  <2>5. WroteLast(c, n, v) => WroteLast(c, n, v)'
    <3>1. ASSUME WroteLast(c, n, v)
          PROVE  LastIn(up[c], Message, Bringing(n, v), HeardLast(c, n, v)')
      BY <2>4, <3>1, LastInMore DEF WroteLast
    <3>2. QED
      BY <3>1 DEF WroteLast, Bringing
  <2>6. RaisedLast(c, n, v)'
    <3>1. LastIn(client[c].events, ToSend, ToBring(n, v), WroteLast(c, n, v)')
      BY <2>1, <2>5, LastInMore DEF RaisedLast
    <3>2. QED
      BY <3>1 DEF RaisedLast, ToSend, ToBring
  <2>7. Limit(c, n)'
    <3>1. \A i \in 1 .. Len(events') : events'[i] \in FromClient(c) =>
             \E j \in 1 .. Len(events) : events'[i] = events[j]
      BY LenProperties DEF Longer
    <3>2. \A i \in 1 .. Len(events') :
             events'[i] \in FromClient(c) /\ events'[i].kind = "grabbed" => events'[i].seq <= n
      BY <2>1, <3>1 DEF Limit
    <3>3. QED
      BY <2>1, <3>2 DEF Limit, FromClient
  <2>8. QED
    BY <2>6, <2>7
<1>3. QED
  BY <1>1, <1>2 DEF Kept

LEMMA DisownedStays ==
    ASSUME StateInv, SwitchScreen \/ ServerEvent, NEW c \in Clients, Disowned(c)
    PROVE  Disowned(c)'
<1> USE Bounds
<1>1. ASSUME NEW i \in 1 .. Len(down'[c]), down'[c][i] \in Tells PROVE Disowned(c)'
  BY <1>1 DEF Disowned, Tells
<1>2. ASSUME NEW i \in 1 .. Len(events'), events'[i] \in SendingTo(c) PROVE Disowned(c)'
  BY <1>2 DEF Disowned, SendingTo
<1>3. CASE \E i \in 1 .. Len(down[c]) : down[c][i] \in Tells
  BY <1>1, <1>3, DownGrows
<1>4. ASSUME NEW i \in 1 .. Len(events), events[i] \in SendingTo(c) PROVE Disowned(c)'
  <2>1. CASE SwitchScreen
    <3>1. PICK dst \in (connected \cup {Primary}) \ {server.active} : SwitchEffect(Now', Now, dst)
      BY <2>1, SwitchDoes
    <3>2. /\ Longer(events, events', Added(Now, dst)) /\ events' \in Seq(EventType)
          /\ events \in Seq(EventType)
      BY <3>1, NowFields, NowState DEF SwitchEffect, State
    <3>3. events'[i] = events[i] /\ i \in 1 .. Len(events')
      BY <1>4, <3>2, LenProperties DEF Longer
    <3>4. QED
      BY <1>2, <1>4, <3>3
  <2>2. CASE ServerEvent
    <3>1. /\ Longer(Tail(events), events', Sendings(server.active)) /\ events' \in Seq(EventType)
          /\ events # <<>> /\ Tail(events) \in Seq(EventType) /\ events \in Seq(EventType)
          /\ Head(events) = events[1]
      BY <2>2, EventHandled DEF Handled
    <3>2. CASE i # 1
      <4>1. i - 1 \in 1 .. Len(Tail(events)) /\ Tail(events)[i - 1] = events[i]
        BY <1>4, <3>1, <3>2, HeadTailProperties, LenProperties
      <4>2. events'[i - 1] = events[i] /\ i - 1 \in 1 .. Len(events')
        BY <3>1, <4>1, LenProperties DEF Longer
      <4>3. QED
        BY <1>2, <1>4, <4>2
    <3>3. CASE i = 1
      <4> DEFINE m == Msg("data", 0, Head(events).data)
      <4>1. Head(events).kind = "sending" /\ Head(events).who = c /\ Head(events) \in EventType
        BY <1>4, <3>1, <3>3 DEF SendingTo
      <4>2. down' = [down EXCEPT ![c] = Append(@, m)]
        BY <2>2, <4>1, EventExactly DEF EventExact
      <4>3. m \in Message /\ m \in Tells
        BY <4>1 DEF EventType, Msg, Message, Tells, Telling
      <4>4. down \in [Clients -> Seq(Message)]
        BY NowState, NowFields DEF State
      <4> HIDE DEF m
      <4>5. Len(down[c]) + 1 \in 1 .. Len(down'[c]) /\ down'[c][Len(down[c]) + 1] = m
        BY <4>2, <4>3, <4>4, AppendProperties, LenProperties
      <4>6. QED
        BY <1>1, <4>3, <4>5
    <3>4. QED
      BY <3>2, <3>3
  <2>3. QED
    BY <2>1, <2>2
<1>5. QED
  BY <1>3, <1>4 DEF Disowned

LEMMA KeptSwitch ==
    ASSUME StateInv, NEW c \in Clients, Kept(c), SwitchScreen PROVE Kept(c)'
<1> USE Bounds
<1>1. PICK dst \in (connected \cup {Primary}) \ {server.active} :
         Now' \in State /\ SwitchExact(Now', Now, dst)
  BY SwitchExactly
<1>2. Now \in State /\ dst \in Screens
  BY <1>1, NowState DEF StateInv
<1>3. /\ Buffered(Now', Now, c) /\ server'.owner = server.owner
      /\ server.owner # Primary => server'.data = server.data
  BY <1>1, <1>2, SwitchTakes, NowFields
<1>4. PICK d \in (connected \cup {Primary}) \ {server.active} : SwitchEffect(Now', Now, d)
  BY SwitchDoes
<1>5. /\ Longer(events, events', Added(Now, d)) /\ server'.clipSeq = server.clipSeq
      /\ events \in Seq(EventType) /\ events' \in Seq(EventType)
  BY <1>1, <1>2, <1>4, NowFields DEF SwitchEffect, State
<1>6. \A e \in Added(Now, d) : e \notin FromClient(c)
  BY DEF Added, PrimaryGrabs, Sendings, Event, FromClient
<1>7. UNCHANGED <<connected, up, client>>
  BY DEF SwitchScreen
<1>8. \A n \in SeqNums, v \in Contents : Limit(c, n) /\ HeardLast(c, n, v) =>
          LastIn(events, FromClient(c), Fetched(c, n, v), Had(c, v)')
  <2>1. \A v : Had(c, v)' <=> (server'.owner = c => server'.data = v)
    BY DEF Had
  <2>2. \A v : Had(c, v) => Had(c, v)'
    BY <1>3, <2>1 DEF Had
  <2>3. QED
    BY <2>2, LastInMore DEF HeardLast
<1>9. client[c].last \in Contents
  BY DEF StateInv, ClientType
<1>10. Disowned(c) => Disowned(c)'
  BY DisownedStays
<1>11. /\ server'.owner = c => c \in connected /\ server'.clipSeq <= client[c].seqNum
       /\ \A n \in SeqNums : Limit(c, n) => (server'.owner = c => server'.clipSeq <= n)
  BY <1>3, <1>5 DEF Kept, Limit
<1>12. \A i \in 1 .. Len(events) : \E j \in 1 .. Len(events) : events[i] = events[j]
  OBVIOUS
<1>13. QED
  BY <1>3, <1>5, <1>6, <1>7, <1>8, <1>9, <1>10, <1>11, <1>12, KeptBy

LEMMA KeptEvent ==
    ASSUME StateInv, CourierInv, FitsInv, NEW c \in Clients, Alone(c), Kept(c), ServerEvent
    PROVE  Kept(c)'
<1> USE Bounds
<1> DEFINE e == Head(events)
           q == Tail(events)
<1>1. /\ e \in KnownEvent /\ e = events[1] /\ 1 \in 1 .. Len(events)
      /\ events \in Seq(EventType) /\ events' \in Seq(EventType)
      /\ events # <<>> /\ q \in Seq(EventType)
      /\ Longer(q, events', Sendings(server.active)) /\ e \in EventType
  BY EventHandled DEF Handled, KnownEvent
<1>2. /\ Popped \in State /\ Popped.server = server /\ Popped.events = q
      /\ Popped.screen = screen
  BY <1>1, PoppedState
<1>3. EventExact(e)
  BY EventExactly
<1>4. e \in Attributed
  BY <1>1, LenProperties DEF CourierInv
<1>5. \A x \in Sendings(server.active) : x \notin FromClient(c)
  BY DEF Sendings, FromClient
<1>6. \A i \in 1 .. Len(q) : \E j \in 1 .. Len(events) : q[i] = events[j]
  <2>1. \A i \in 1 .. Len(q) : i + 1 \in 1 .. Len(events) /\ q[i] = events[i + 1]
    BY <1>1, HeadTailProperties, LenProperties
  <2>2. QED
    BY <2>1
<1>7. UNCHANGED <<connected, up, client>>
  BY DEF ServerEvent
<1>8. client[c].last \in Contents /\ server.clipSeq \in Nat
  BY DEF StateInv, ClientType, ServerType
<1>9. Disowned(c) => Disowned(c)'
  BY DisownedStays
<1> HIDE DEF q
<1>10. ASSUME Buffered(Now', Popped, c),
              server'.owner = c => c \in connected /\ server'.clipSeq <= client[c].seqNum,
              \A n \in SeqNums : Limit(c, n) => (server'.owner = c => server'.clipSeq <= n),
              \A n \in SeqNums, v \in Contents : Limit(c, n) =>
                  /\ e \in FromClient(c) /\ e \in Fetched(c, n, v) => Had(c, v)'
                  /\ e \notin FromClient(c) /\ Had(c, v) => Had(c, v)'
       PROVE  Kept(c)'
  <2>1. Buffered(Now', Now, c)
    BY <1>2, <1>10, NowFields DEF Buffered
  <2>2. ASSUME NEW n \in SeqNums, NEW v \in Contents, Limit(c, n), HeardLast(c, n, v)
        PROVE  LastIn(q, FromClient(c), Fetched(c, n, v), Had(c, v)')
    <3>1. /\ Had(c, v) \in BOOLEAN /\ Had(c, v)' \in BOOLEAN
      BY DEF Had
    <3>2. /\ e \in FromClient(c) /\ e \in Fetched(c, n, v) => Had(c, v)'
          /\ e \notin FromClient(c) /\ Had(c, v) => Had(c, v)'
      BY <1>10, <2>2
    <3>3. LastIn(events, FromClient(c), Fetched(c, n, v), Had(c, v))
      BY <2>2 DEF HeardLast
    <3>4. LastIn(Tail(events), FromClient(c), Fetched(c, n, v), Had(c, v)')
      BY ONLY <1>1, <3>1, <3>2, <3>3, LastInTail
    <3>5. QED
      BY <3>4 DEF q
  <2>3. QED
    BY <1>1, <1>5, <1>6, <1>7, <1>8, <1>9, <1>10, <2>1, <2>2, KeptBy
<1>11. ASSUME Buffered(Now', Popped, c), server'.owner = server.owner,
              server'.clipSeq = server.clipSeq, server'.data = server.data,
              e \notin FromClient(c) \/ e.kind = "grabbed"
       PROVE  Kept(c)'
  <2>1. \A v : Had(c, v)' <=> Had(c, v)
    BY <1>11 DEF Had
  <2>2. \A n, v : ~(e \in FromClient(c) /\ e \in Fetched(c, n, v))
    BY <1>11 DEF Fetched
  <2>3. QED
    BY <1>10, <1>11, <2>1, <2>2 DEF Kept, Limit
<1>12. CASE e.kind = "grabbed" /\ e.who \in Screens /\ e.seq \in SeqNums
            /\ GrabbedExact(Now', Popped, e.who, e.seq)
  <2>1. Buffered(Now', Popped, c) /\ (Now' = Popped \/ server'.owner = e.who)
    <3> HIDE DEF e
    <3>0. /\ e.who \in Screens /\ e.seq \in SeqNums /\ GrabbedExact(Now', Popped, e.who, e.seq)
          /\ Popped \in State /\ c \in Clients
      BY <1>2, <1>12
    <3>1. Buffered(Now', Popped, c) /\ (Now' = Popped \/ Now'.server.owner = e.who)
      BY ONLY <3>0, GrabbedTakes
    <3>2. QED
      BY <3>1, NowFields
  <2>2. CASE Now' = Popped
    BY <1>2, <1>11, <1>12, <2>1, <2>2, NowFields
  <2>3. CASE Now' # Popped
    <3>1. server'.owner = e.who /\ server'.clipSeq = e.seq
      <4>1. server'.owner = e.who
        BY <2>1, <2>3
      <4>2. GrabbedEffect(Now', Popped, e.who, e.seq)
        BY <1>12, ServerEventDoes DEF ServerEventEffect
      <4>3. QED
        BY <2>3, <4>1, <4>2, NowFields DEF GrabbedEffect
    <3>2. CASE e.who = Primary
      BY <1>10, <2>1, <3>1, <3>2 DEF Had
    <3>3. CASE e.who # Primary
      <4>1. e.who = c /\ e \in FromClient(c)
        BY <1>1, <1>12, <3>3 DEF Alone, Told, FromClient
      <4>2. c \in connected /\ server'.clipSeq <= client[c].seqNum
        BY <1>4, <1>12, <3>1, <4>1 DEF Attributed
      <4>3. \A n \in SeqNums : Limit(c, n) => server'.clipSeq <= n
        BY <1>1, <1>12, <3>1, <4>1 DEF Limit
      <4>4. \A n, v : ~(e \in Fetched(c, n, v))
        BY <1>12 DEF Fetched
      <4>5. QED
        BY <1>10, <2>1, <4>1, <4>2, <4>3, <4>4
    <3>4. QED
      BY <3>2, <3>3
  <2>4. QED
    BY <2>2, <2>3
<1>13. CASE e.kind = "changed" /\ e.who \in Screens /\ ChangedExact(Now', Popped, e.who, e.seq)
  <2>1. e.who = c /\ e \in FromClient(c)
    BY <1>1, <1>4, <1>13 DEF Alone, Told, FromClient, Attributed
  <2>2. Buffered(Now', Popped, c) /\ Taken(Now', Popped, c, e.seq)
    BY <1>2, <1>13, <2>1, ChangedTakes
  <2>3. getClipboard(Popped, c) = server.buffer[c] /\ server.buffer[c] \notin Oversized
    BY <1>2, NowFields DEF getClipboard, FitsInv, Fits
  <2>4. /\ server'.owner = server.owner
        /\ ~(e.seq < server.clipSeq) => server'.data = server.buffer[c]
    BY <1>2, <2>2, <2>3, NowFields DEF Taken
  <2>5. server'.clipSeq = server.clipSeq
    <3>1. ChangedEffect(Now', Popped)
      BY <1>13, ServerEventDoes DEF ServerEventEffect
    <3>2. QED
      BY <1>2, <3>1, NowFields DEF ChangedEffect, SameCourse
  <2>6. ASSUME NEW n \in SeqNums, NEW v \in Contents, Limit(c, n), e \in Fetched(c, n, v)
        PROVE  Had(c, v)'
    <3>1. e.seq = n /\ server.buffer[c] = v
      BY <2>6 DEF Fetched
    <3>2. server.owner = c => ~(e.seq < server.clipSeq)
      BY <1>8, <2>6, <3>1 DEF Limit
    <3>3. QED
      BY <2>4, <3>1, <3>2 DEF Had
  <2>7. QED
    BY <1>10, <2>1, <2>2, <2>4, <2>5, <2>6 DEF Kept, Limit
<1>14. CASE e.kind \in {"sending", "orphan"} /\ server' = server
  BY <1>2, <1>11, <1>14, NowFields DEF Buffered, FromClient
<1>15. QED
  BY <1>2, <1>3, <1>12, <1>13, <1>14, NowFields DEF EventExact

\* What c says in its present move is from no earlier one than all it said before.
Limited ==
    \A c \in Clients :
        /\ client[c].seqNum \in SeqNums /\ client[c].last \in Contents
        /\ (server.owner = c => server.clipSeq <= client[c].seqNum) => Limit(c, client[c].seqNum)

LEMMA LimitNow == StateInv /\ CourierInv => Limited
<1> SUFFICES ASSUME StateInv, CourierInv, NEW c \in Clients
             PROVE  /\ client[c].seqNum \in SeqNums /\ client[c].last \in Contents
                    /\ (server.owner = c => server.clipSeq <= client[c].seqNum)
                           => Limit(c, client[c].seqNum)
  BY DEF Limited
<1>1. client[c].seqNum \in SeqNums /\ client[c].last \in Contents
  BY DEF StateInv, ClientType
<1>2. \A i \in 1 .. Len(events) : events[i] \in FromClient(c) => events[i].seq <= client[c].seqNum
  <2>1. \A i \in 1 .. Len(events) : events[i] \in Attributed
    BY LenProperties DEF CourierInv
  <2>2. QED
    BY <2>1 DEF Attributed, FromClient
<1>3. \A i \in 1 .. Len(up[c]) : up[c][i].seq <= client[c].seqNum
  <2>1. up[c] \in Seq(PastMessages(client[c].seqNum))
    BY DEF CourierInv, Behind
  <2>2. \A i \in 1 .. Len(up[c]) : up[c][i] \in PastMessages(client[c].seqNum)
    BY <2>1, LenProperties
  <2>3. QED
    BY <2>2 DEF PastMessages
<1>4. QED
  BY <1>1, <1>2, <1>3 DEF Limit

\* Once the client has the present clipboard to send, that is the last it says.
LEMMA KeptSending ==
    ASSUME Limited', NEW c \in Clients, Kept(c), UNCHANGED <<server, connected>>,
           client[c].seqNum <= client'[c].seqNum,
           server.clipSeq \in Nat, client[c].seqNum \in Nat, client'[c].seqNum \in Nat,
           NEW q \in Seq(Raised),
           client'[c].events = Append(q, [kind |-> "sending", seq |-> client'[c].seqNum,
                                          data |-> client'[c].last])
    PROVE  Kept(c)'
<1> DEFINE n == client'[c].seqNum
           v == client'[c].last
           x == [kind |-> "sending", seq |-> n, data |-> v]
<1>1. server'.owner = c => c \in connected' /\ server'.clipSeq <= n
  BY DEF Kept
<1>3. n \in SeqNums /\ v \in Contents /\ Limit(c, client[c].seqNum)'
  BY <1>1 DEF Limited
<1>4. x \in Raised /\ x \in ToSend /\ x \in ToBring(n, v)
  BY <1>3 DEF Raised, ToSend, ToBring
<1>5. RaisedLast(c, client[c].seqNum, client[c].last)'
  <2>1. WroteLast(c, client[c].seqNum, client[c].last)' \in BOOLEAN
    BY DEF WroteLast, LastIn
  <2> HIDE DEF n, v, x
  <2>2. LastIn(Append(q, x), ToSend, ToBring(n, v), WroteLast(c, client[c].seqNum, client[c].last)')
    BY ONLY <1>4, <2>1, q \in Seq(Raised), LastInAppend
  <2>3. QED
    BY <2>2 DEF RaisedLast, ToSend, ToBring, n, v, x
<1>6. QED
  BY <1>1, <1>3, <1>5 DEF Kept

\* A step elsewhere: what c has to say, and what the server has of it, stay.
LEMMA KeptElsewhere ==
    ASSUME NEW c \in Clients, Kept(c), Disowned(c) => Disowned(c)',
           server'.owner = server.owner, server'.data = server.data,
           server'.clipSeq = server.clipSeq, server'.buffer[c] = server.buffer[c],
           c \in connected => c \in connected',
           up'[c] = up[c], client'[c].seqNum = client[c].seqNum,
           client'[c].own = client[c].own, client'[c].sent = client[c].sent,
           client'[c].last = client[c].last,
           NEW E, NEW S, client[c].events \in Seq(S), client'[c].events \in Seq(S),
           Longer(client[c].events, client'[c].events, E), \A x \in E : x \notin ToSend,
           \A n, v : HeardLast(c, n, v) => HeardLast(c, n, v)',
           \A n : Limit(c, n) => Limit(c, n)'
    PROVE  Kept(c)'
<1>1. ASSUME NEW n, NEW v, RaisedLast(c, n, v) PROVE RaisedLast(c, n, v)'
  <2>1. WroteLast(c, n, v) => WroteLast(c, n, v)'
    <3>1. ASSUME WroteLast(c, n, v)
          PROVE  LastIn(up[c], Message, Bringing(n, v), HeardLast(c, n, v)')
      BY <3>1, LastInMore DEF WroteLast
    <3>2. QED
      BY <3>1 DEF WroteLast, Bringing
  <2>2. LastIn(client[c].events, ToSend, ToBring(n, v), WroteLast(c, n, v)')
    BY <1>1, <2>1, LastInMore DEF RaisedLast
  <2>3. WroteLast(c, n, v)' \in BOOLEAN
    BY DEF WroteLast, LastIn
  <2>4. LastIn(client'[c].events, ToSend, ToBring(n, v), WroteLast(c, n, v)')
    <3>1. /\ client[c].events \in Seq(S) /\ client'[c].events \in Seq(S)
          /\ Longer(client[c].events, client'[c].events, E) /\ \A x \in E : x \notin ToSend
      OBVIOUS
    <3>2. QED
      BY ONLY <2>2, <2>3, <3>1, LastInLonger
  <2>5. QED
    BY <2>4 DEF RaisedLast, ToSend, ToBring
<1>2. QED
  BY <1>1 DEF Kept

\* The server's queue grows by what c did not say.
LEMMA HeardLonger ==
    ASSUME NEW c \in Clients, server'.owner = server.owner, server'.data = server.data,
           server'.clipSeq = server.clipSeq, server'.buffer[c] = server.buffer[c],
           up'[c] = up[c], events \in Seq(EventType), events' \in Seq(EventType),
           NEW E, Longer(events, events', E), \A e \in E : e \notin FromClient(c)
    PROVE  /\ \A n, v : HeardLast(c, n, v) => HeardLast(c, n, v)'
           /\ \A n : Limit(c, n) => Limit(c, n)'
           /\ down'[c] = down[c] /\ Disowned(c) => Disowned(c)'
<1>1. ASSUME NEW n, NEW v, HeardLast(c, n, v) PROVE HeardLast(c, n, v)'
  <2>1. LastIn(events, FromClient(c), Fetched(c, n, v), Had(c, v)) /\ Had(c, v) \in BOOLEAN
    BY <1>1 DEF HeardLast, Had
  <2>2. LastIn(events', FromClient(c), Fetched(c, n, v), Had(c, v))
    <3>1. /\ events \in Seq(EventType) /\ events' \in Seq(EventType)
          /\ Longer(events, events', E) /\ \A e \in E : e \notin FromClient(c)
      OBVIOUS
    <3>2. QED
      BY ONLY <2>1, <3>1, LastInLonger
  <2>3. (Had(c, v)' <=> Had(c, v)) /\ Fetched(c, n, v)' = Fetched(c, n, v)
    BY DEF Had, Fetched
  <2>4. QED
    BY <2>1, <2>2, <2>3, LastInMore DEF HeardLast, FromClient
<1>2. ASSUME NEW n, Limit(c, n) PROVE Limit(c, n)'
  <2>1. \A i \in 1 .. Len(events') : events'[i] \in FromClient(c) =>
           i \in 1 .. Len(events) /\ events'[i] = events[i]
    BY LenProperties DEF Longer
  <2>2. \A i \in 1 .. Len(events') :
           events'[i] \in FromClient(c) /\ events'[i].kind = "grabbed" => events'[i].seq <= n
    BY <1>2, <2>1 DEF Limit
  <2>3. QED
    BY <1>2, <2>2 DEF Limit, FromClient
<1>3. ASSUME down'[c] = down[c], Disowned(c) PROVE Disowned(c)'
  <2>1. \A i \in 1 .. Len(events) : i \in 1 .. Len(events') /\ events'[i] = events[i]
    BY LenProperties DEF Longer
  <2>2. QED
    BY <1>3, <2>1 DEF Disowned, SendingTo, Tells
<1>4. QED
  BY <1>1, <1>2, <1>3

LEMMA KeptRead ==
    ASSUME StateInv, NEW c \in Clients, Kept(c), ServerReceive(c) PROVE Kept(c)'
<1> USE Bounds
<1> DEFINE m == Head(up[c])
           kd == IF m.kind = "grab" THEN "grabbed" ELSE "changed"
           x == Event(kd, c, m.seq, Nothing)
<1>1. /\ m \in Message /\ up[c] # <<>> /\ up[c] \in Seq(Message) /\ up \in [Clients -> Seq(KnownMessage)]
      /\ Len(up[c]) \in Nat /\ 1 \in 1 .. Len(up[c]) /\ m = up[c][1]
  <2>1. up[c] # <<>> /\ up[c] \in Seq(KnownMessage)
    BY DEF ServerReceive, StateInv
  <2>2. up[c] \in Seq(Message)
    BY <2>1, SeqWider DEF KnownMessage
  <2>3. QED
    BY <2>1, <2>2, HeadTailProperties, LenProperties DEF StateInv
<1>2. /\ events' = Append(events, x) /\ up' = [up EXCEPT ![c] = Tail(@)]
      /\ UNCHANGED <<connected, down, client>>
      /\ m.kind # "grab" => server' = [server EXCEPT !.buffer[c] = m.data]
      /\ m.kind = "grab" => server' = server
  BY DEF ServerReceive
<1>3. /\ x \in EventType /\ x \in FromClient(c) /\ events \in Seq(EventType)
      /\ x.kind = kd /\ x.seq = m.seq
  BY <1>1, NowState DEF Event, EventType, Message, FromClient, State, Now
<1>4. /\ server'.owner = server.owner /\ server'.data = server.data
      /\ server'.clipSeq = server.clipSeq /\ up'[c] = Tail(up[c])
      /\ m.kind # "grab" => server'.buffer[c] = m.data
  BY <1>1, <1>2 DEF StateInv, ServerType
<1>5. /\ Len(events) \in Nat /\ Len(events') = Len(events) + 1 /\ events'[Len(events) + 1] = x
      /\ \A i \in 1 .. Len(events) : events'[i] = events[i] /\ i \in 1 .. Len(events')
      /\ \A i \in 1 .. Len(events') : i \in 1 .. Len(events) \/ i = Len(events) + 1
  <2> HIDE DEF x
  <2>1. QED
    BY <1>2, <1>3, AppendProperties, LenProperties
<1>6. Disowned(c) => Disowned(c)'
  BY <1>2, <1>5 DEF Disowned, SendingTo, Tells
<1>7. ASSUME NEW n, Limit(c, n) PROVE Limit(c, n)'
  <2>1. kd = "grabbed" => m.seq <= n
    BY <1>1, <1>7 DEF Limit
  <2>2. \A i \in 1 .. Len(Tail(up[c])) : i + 1 \in 1 .. Len(up[c]) /\ Tail(up[c])[i] = up[c][i + 1]
    BY <1>1, HeadTailProperties, LenProperties
  <2>3. \A i \in 1 .. Len(up'[c]) : up'[c][i].kind = "grab" => up'[c][i].seq <= n
    BY <1>4, <1>7, <2>2 DEF Limit
  <2> HIDE DEF x, kd
  <2>4. \A i \in 1 .. Len(events') :
           events'[i] \in FromClient(c) /\ events'[i].kind = "grabbed" => events'[i].seq <= n
    BY <1>3, <1>5, <1>7, <2>1 DEF Limit
  <2>5. QED
    BY <1>4, <1>7, <2>3, <2>4 DEF Limit, FromClient
<1>8. ASSUME NEW n, NEW v, WroteLast(c, n, v) PROVE WroteLast(c, n, v)'
  <2>1. HeardLast(c, n, v)' \in BOOLEAN /\ HeardLast(c, n, v) \in BOOLEAN /\ Had(c, v)' \in BOOLEAN
    BY DEF HeardLast, LastIn, Had
  <2>2. ASSUME m \in Bringing(n, v) PROVE HeardLast(c, n, v)'
    <3>1. m.kind = "data" /\ m.seq = n /\ m.data = v
      BY <2>2 DEF Bringing
    <3>2. x \in Fetched(c, n, v)'
      BY <1>3, <1>4, <3>1 DEF Fetched
    <3> HIDE DEF x
    <3>3. LastIn(Append(events, x), FromClient(c), Fetched(c, n, v)', Had(c, v)')
      BY ONLY <1>3, <2>1, <3>2, LastInAppend
    <3>4. QED
      BY <1>2, <3>3 DEF HeardLast, FromClient
  <2>3. LastIn(up[c], Message, Bringing(n, v), HeardLast(c, n, v))
    BY <1>8 DEF WroteLast
  <2>4. LastIn(Tail(up[c]), Message, Bringing(n, v), HeardLast(c, n, v)')
    BY ONLY <1>1, <2>1, <2>2, <2>3, LastInTail
  <2>5. QED
    BY <1>4, <2>4 DEF WroteLast, Bringing
<1>9. ASSUME NEW n, NEW v, RaisedLast(c, n, v) PROVE RaisedLast(c, n, v)'
  <2>1. LastIn(client[c].events, ToSend, ToBring(n, v), WroteLast(c, n, v)')
    BY <1>8, <1>9, LastInMore DEF RaisedLast
  <2>2. QED
    BY <1>2, <2>1 DEF RaisedLast, ToSend, ToBring
<1>10. QED
  BY <1>2, <1>4, <1>6, <1>7, <1>9 DEF Kept

\* What a client that may send the clipboard becomes.
SendExact(r, k, d) ==
    \/ r = k
    \/ /\ r.own = k.own /\ r.sent /\ r.last = d /\ r.seqNum = k.seqNum
       /\ r.events = Append(k.events, [kind |-> "sending", seq |-> k.seqNum, data |-> d])

LEMMA SendExactly ==
    ASSUME NEW k \in ClientType, NEW d, NEW r, r = sendClipboard(k, d)
    PROVE  SendExact(r, k, d)
<1> DEFINE es == Append(k.events, [kind |-> "sending", seq |-> k.seqNum, data |-> d])
<1>1. r = k \/ r = [k EXCEPT !.sent = TRUE, !.last = d, !.events = es]
  BY DEF sendClipboard
<1> HIDE DEF es
<1>2. CASE r = [k EXCEPT !.sent = TRUE, !.last = d, !.events = es]
  <2>1. r.own = k.own /\ r.sent /\ r.last = d /\ r.seqNum = k.seqNum /\ r.events = es
    BY <1>2 DEF ClientType
  <2>2. QED
    BY <2>1 DEF SendExact, es
<1>3. QED
  BY <1>1, <1>2 DEF SendExact

LEMMA KeptTold ==
    ASSUME Limited', StateInv, NEW c \in Clients, Alone(c), Kept(c),
           NEW d \in Clients, ClientEvent(d)
    PROVE  Kept(c)'
<1> USE Bounds
<1> DEFINE k == client[c]
           e == Head(k.events)
           rest == Tail(k.events)
           j == [k EXCEPT !.events = rest]
<1>1. /\ d = c /\ k.events # <<>>
  BY DEF ClientEvent, Alone
<1>2. /\ k \in ClientType /\ client \in [Clients -> ClientType] /\ k.events \in Seq(Raised)
      /\ rest \in Seq(Raised) /\ e \in Raised
      /\ up \in [Clients -> Seq(KnownMessage)] /\ up[c] \in Seq(Message)
      /\ server.clipSeq \in Nat
  <2>1. k \in ClientType /\ k.events \in Seq(Raised)
    BY DEF StateInv, ClientType, Raised
  <2>2. up[c] \in Seq(Message)
    BY SeqWider DEF StateInv, KnownMessage
  <2>3. QED
    BY <1>1, <2>1, <2>2, HeadTailProperties DEF StateInv, ServerType
<1>3. /\ UNCHANGED <<server, events, connected, down, screen>>
      /\ e.kind = "grabbed" =>
            /\ up' = [up EXCEPT ![c] = Append(@, Msg("grab", k.seqNum, Nothing))]
            /\ client' = [client EXCEPT ![c] = handleClipboardGrabbed(j, screen[c].board)]
      /\ e.kind # "grabbed" =>
            /\ up' = [up EXCEPT ![c] = Append(@, Msg("data", e.seq, e.data))]
            /\ client' = [client EXCEPT ![c] = j]
  <2>1. j.seqNum = k.seqNum
    BY <1>2 DEF ClientType
  <2>2. QED
    BY <1>1, <2>1 DEF ClientEvent
<1>4. /\ j \in ClientType /\ j.events = rest /\ j.seqNum = k.seqNum /\ j.own = k.own
      /\ j.sent = k.sent /\ j.last = k.last
  BY <1>2 DEF ClientType, Raised
<1> HIDE DEF j, rest
<1>5. Disowned(c)' <=> Disowned(c)
  BY <1>3 DEF Disowned, SendingTo, Tells
<1>6. CASE e.kind # "grabbed"
  <2> DEFINE m == Msg("data", e.seq, e.data)
  <2>1. client'[c] = j /\ up'[c] = Append(up[c], m)
    BY <1>2, <1>3, <1>6
  <2>2. /\ m \in Message /\ m.kind = "data" /\ m.seq = e.seq /\ m.data = e.data
        /\ e \in ToSend
    BY <1>2, <1>6 DEF Msg, Message, Raised, ToSend
  <2> HIDE DEF m
  <2>3. ASSUME NEW n, Limit(c, n) PROVE Limit(c, n)'
    <3>1. \A i \in 1 .. Len(up'[c]) : up'[c][i].kind = "grab" =>
             i \in 1 .. Len(up[c]) /\ up'[c][i] = up[c][i]
      BY <1>2, <2>1, <2>2, MessageAppend
    <3>2. \A i \in 1 .. Len(up'[c]) : up'[c][i].kind = "grab" => up'[c][i].seq <= n
      BY <2>3, <3>1 DEF Limit
    <3>3. QED
      BY <1>3, <2>3, <3>2 DEF Limit, FromClient
  <2>4. ASSUME NEW n, NEW v, RaisedLast(c, n, v) PROVE RaisedLast(c, n, v)'
    <3>1. WroteLast(c, n, v) \in BOOLEAN /\ WroteLast(c, n, v)' \in BOOLEAN
          /\ HeardLast(c, n, v)' \in BOOLEAN
      BY DEF WroteLast, HeardLast, LastIn
    <3>2. ASSUME e \in ToBring(n, v) PROVE WroteLast(c, n, v)'
      <4>1. m \in Bringing(n, v)
        BY <2>2, <3>2 DEF ToBring, Bringing
      <4>2. LastIn(Append(up[c], m), Message, Bringing(n, v), HeardLast(c, n, v)')
        BY ONLY <1>2, <2>2, <3>1, <4>1, LastInAppend
      <4>3. QED
        BY <2>1, <4>2 DEF WroteLast, Bringing
    <3>3. LastIn(k.events, ToSend, ToBring(n, v), WroteLast(c, n, v))
      BY <2>4 DEF RaisedLast
    <3>4. LastIn(Tail(k.events), ToSend, ToBring(n, v), WroteLast(c, n, v)')
      BY ONLY <1>1, <1>2, <2>2, <3>1, <3>2, <3>3, LastInTail
    <3>5. QED
      BY <1>4, <2>1, <3>4 DEF RaisedLast, ToSend, ToBring, rest
  <2>5. QED
    BY <1>3, <1>4, <1>5, <2>1, <2>3, <2>4 DEF Kept
<1>7. CASE e.kind = "grabbed"
  <2> DEFINE owner == [j EXCEPT !.own = TRUE, !.sent = FALSE]
             b == screen[c].board
             r == client'[c]
  <2>1. r = owner \/ r = sendClipboard(owner, b)
    BY <1>2, <1>3, <1>7 DEF handleClipboardGrabbed
  <2>2. owner \in ClientType /\ ~owner.sent /\ owner.seqNum = k.seqNum /\ owner.events = rest
    BY <1>4 DEF ClientType
  <2> HIDE DEF owner, b, r
  <2>3. SendExact(r, owner, b)
    BY <2>1, <2>2, SendExactly DEF SendExact
  <2>4. CASE r = owner
    BY <1>3, <2>2, <2>4 DEF Kept, r
  <2>5. CASE /\ r.sent /\ r.last = b /\ r.seqNum = k.seqNum
             /\ r.events = Append(rest, [kind |-> "sending", seq |-> k.seqNum, data |-> b])
    <3>1. k.seqNum \in Nat /\ k.seqNum <= k.seqNum
      <4>1. k.seqNum \in Nat
        BY <1>2 DEF ClientType
      <4>2. QED
        BY <4>1
    <3>2. QED
      BY <1>2, <1>3, <2>5, <3>1, KeptSending DEF r
  <2>6. QED
    BY <2>2, <2>3, <2>4, <2>5 DEF SendExact
<1>8. QED
  BY <1>6, <1>7

\* What client k becomes, n, when it is left, besides what it is to send.
LeftExact(n, k) ==
    \E q \in Seq(Raised) :
        /\ Longer(k.events, q, {x \in Raised : x.kind = "grabbed"})
        /\ n.own = k.own /\ n.seqNum = k.seqNum
        /\ \/ n.sent = k.sent /\ n.last = k.last /\ n.events = q
           \/ n.events = Append(q, [kind |-> "sending", seq |-> n.seqNum, data |-> n.last])

LEMMA LeftExactly ==
    ASSUME StateInv, NEW c \in Clients, ClientReceive(c), Head(down[c]).kind = "leave"
    PROVE  LeftExact(client'[c], client[c])
<1> DEFINE k == client[c]
           heard == IF LostTo(screen[c]) THEN raised(k) ELSE k
           left == [heard EXCEPT !.active = FALSE]
           n == client'[c]
           E == {x \in Raised : x.kind = "grabbed"}
<1>1. KnownClient(k) /\ Nothing \notin Oversized /\ server.seqNum \in Nat /\ client \in [Clients -> ClientType]
      /\ k.events \in Seq(Raised)
  <2>1. Nothing \notin Oversized
    BY Fitting
  <2>2. KnownClient(k) /\ client \in [Clients -> ClientType] /\ k \in ClientType
    BY DEF StateInv, KnownClient
  <2>3. server.seqNum \in Nat
    BY Bounds DEF StateInv, ServerType
  <2>4. QED
    BY <2>1, <2>2, <2>3 DEF ClientType, Raised
<1>2. n = IF k.own THEN sendClipboard(left, screen[c].board) ELSE left
  BY <1>1 DEF ClientReceive, Received
<1>3. /\ heard \in ClientType /\ heard.own = k.own /\ heard.sent = k.sent
      /\ heard.seqNum = k.seqNum /\ heard.last = k.last
      /\ heard.events \in Seq(Raised) /\ Longer(k.events, heard.events, E)
  <2>1. CASE heard = k
    <3>1. Longer(k.events, k.events, E)
      BY ONLY <1>1, LongerSame
    <3>2. QED
      BY <1>1, <2>1, <3>1 DEF KnownClient
  <2>2. CASE heard = raised(k)
    <3> DEFINE x == [kind |-> "grabbed", seq |-> 0, data |-> Nothing]
    <3>1. KnownClient(raised(k)) /\ raised(k).own = k.own /\ raised(k).sent = k.sent
          /\ raised(k).seqNum = k.seqNum /\ raised(k).events = Append(k.events, x)
      BY ONLY <1>1, RaisedKnown
    <3>2. raised(k).last = k.last
      BY <1>1 DEF raised, KnownClient, ClientType
    <3>3. x \in Raised /\ x \in E
      BY Bounds DEF Raised
    <3> HIDE DEF x, E
    <3>4. Append(k.events, x) \in Seq(Raised) /\ Longer(k.events, Append(k.events, x), E)
      BY ONLY <1>1, <3>3, LongerAppend, AppendProperties
    <3>5. QED
      BY <2>2, <3>1, <3>2, <3>4 DEF KnownClient
  <2>3. QED
    BY <2>1, <2>2
<1> HIDE DEF heard, E
<1>4. /\ left \in ClientType /\ left.own = k.own /\ left.sent = k.sent
      /\ left.seqNum = k.seqNum /\ left.last = k.last /\ left.events = heard.events
  BY <1>3 DEF ClientType
<1> HIDE DEF left, n
<1>5. SendExact(n, left, screen[c].board)
  BY <1>2, <1>4, SendExactly DEF SendExact
<1>6. QED
  BY <1>3, <1>4, <1>5 DEF SendExact, LeftExact, n, E

LEMMA DisownedRead ==
    ASSUME StateInv, NEW c \in Clients, ClientReceive(c), Head(down[c]) \notin Tells, Disowned(c)
    PROVE  Disowned(c)'
<1>1. /\ UNCHANGED events /\ down[c] # <<>> /\ down'[c] = Tail(down[c]) /\ down[c] \in Seq(Message)
  BY NowState, NowFields DEF ClientReceive, StateInv, State
<1>2. CASE \E i \in 1 .. Len(events) : events[i] \in SendingTo(c)
  BY <1>1, <1>2 DEF Disowned, SendingTo
<1>3. ASSUME NEW i \in 1 .. Len(down[c]), down[c][i] \in Tells PROVE Disowned(c)'
  <2>1. /\ i # 1 /\ i - 1 \in 1 .. Len(down'[c]) /\ down'[c][i - 1] = down[c][i]
    BY <1>1, <1>3, HeadTailProperties, LenProperties
  <2>2. QED
    BY <1>3, <2>1 DEF Disowned, Tells
<1>4. QED
  BY <1>2, <1>3 DEF Disowned

LEMMA KeptReceive ==
    ASSUME Limited', StateInv, CourierInv, NEW c \in Clients, Kept(c),
           NEW d \in Clients, ClientReceive(d)
    PROVE  Kept(c)'
<1> USE Bounds
<1> DEFINE m == Head(down[d])
           k == client[c]
           n == client'[c]
<1>1. /\ UNCHANGED <<server, events, connected, up>> /\ down' = [down EXCEPT ![d] = Tail(@)]
      /\ client' = [client EXCEPT ![d] = client'[d]] /\ m \in Message
  BY ReceiveDoes DEF ClientReceive, KnownMessage
<1>2. k \in ClientType /\ n \in ClientType /\ k.events \in Seq(Raised) /\ server.clipSeq \in Nat
      /\ k.seqNum \in Nat /\ n.seqNum \in Nat
  BY <1>1, ReceiveDoes DEF StateInv, KnownClient, ClientType, Raised, ServerType
<1>3. /\ \A t, v : HeardLast(c, t, v) => HeardLast(c, t, v)'
      /\ \A t : Limit(c, t) => Limit(c, t)'
  BY <1>1 DEF HeardLast, FromClient, Fetched, Had, Limit
<1>4. CASE d # c
  <2> DEFINE E == {x \in Raised : x.kind = "grabbed"}
  <2>1. client'[c] = client[c] /\ down'[c] = down[c]
    BY <1>1, <1>4 DEF StateInv
  <2>2. Disowned(c) => Disowned(c)'
    BY <1>1, <2>1 DEF Disowned, SendingTo, Tells
  <2>3. Longer(client[c].events, client'[c].events, E)
    <3>1. Longer(client[c].events, client[c].events, E)
      BY ONLY <1>2, LongerSame
    <3>2. QED
      BY <2>1, <3>1
  <2>4. \A x \in E : x \notin ToSend
    BY DEF ToSend
  <2> HIDE DEF m, E
  <2>5. QED
    BY <1>1, <1>2, <1>3, <2>1, <2>2, <2>3, <2>4, KeptElsewhere
<1>5. CASE d = c /\ m \in Tells
  <2>1. ~n.own
    BY <1>5, ReceiveDoes DEF ReceiveEffect, Tells, Telling
  <2>2. n.seqNum = k.seqNum
    BY <1>5, ReceiveDoes DEF ReceiveEffect, Tells, Telling
  <2>3. QED
    BY <1>1, <2>1, <2>2 DEF Kept
<1>6. CASE d = c /\ m.kind = "enter"
  <2>1. n = entered(k, m.seq)
    BY <1>6 DEF ClientReceive, Received, StateInv
  <2>2. n.own = k.own /\ n.sent = k.sent /\ n.last = k.last /\ n.events = k.events
        /\ n.seqNum = m.seq
    BY <1>2, <2>1 DEF entered, ClientType
  <2>3. k.seqNum <= m.seq
    <3>1. down[c] # <<>> /\ down[c] \in Seq(Message) /\ Rising(down[c], k.seqNum)
      BY <1>6, NowState, NowFields DEF ClientReceive, CourierInv, State
    <3>2. m = down[c][1] /\ 1 \in 1 .. Len(down[c])
      BY <1>6, <3>1, HeadTailProperties, LenProperties
    <3>3. QED
      BY <1>6, <3>1, <3>2 DEF Rising
  <2>4. Disowned(c) => Disowned(c)'
    BY <1>6, DisownedRead DEF Tells, Telling
  <2>5. ASSUME NEW t, NEW v, RaisedLast(c, t, v) PROVE RaisedLast(c, t, v)'
    BY <1>1, <2>2, <2>5 DEF RaisedLast, WroteLast, HeardLast, FromClient, Fetched, Had,
       ToSend, ToBring, Bringing
  <2>6. server'.owner = c => server'.clipSeq <= n.seqNum
    BY <1>1, <1>2, <2>2, <2>3 DEF Kept
  <2> HIDE DEF m
  <2>7. QED
    BY <1>1, <1>3, <2>2, <2>4, <2>5, <2>6 DEF Kept
<1>7. CASE d = c /\ m.kind = "leave"
  <2>1. PICK q \in Seq(Raised) :
          /\ Longer(k.events, q, {x \in Raised : x.kind = "grabbed"})
          /\ n.own = k.own /\ n.seqNum = k.seqNum
          /\ \/ n.sent = k.sent /\ n.last = k.last /\ n.events = q
             \/ n.events = Append(q, [kind |-> "sending", seq |-> n.seqNum, data |-> n.last])
    BY <1>7, LeftExactly DEF LeftExact
  <2>2. Disowned(c) => Disowned(c)'
    BY <1>7, DisownedRead DEF Tells, Telling
  <2>3. k.seqNum <= n.seqNum
    BY <1>2, <2>1
  <2>4. \A x \in {y \in Raised : y.kind = "grabbed"} : x \notin ToSend
    BY DEF ToSend
  <2> HIDE DEF m
  <2>5. CASE n.sent = k.sent /\ n.last = k.last /\ n.events = q
    BY <1>1, <1>2, <1>3, <2>1, <2>2, <2>4, <2>5, KeptElsewhere
  <2>6. CASE n.events = Append(q, [kind |-> "sending", seq |-> n.seqNum, data |-> n.last])
    BY <1>1, <1>2, <2>3, <2>6, KeptSending
  <2>7. QED
    BY <2>1, <2>5, <2>6
<1>8. QED
  BY <1>1, <1>4, <1>5, <1>6, <1>7 DEF Message, Tells, Telling

LEMMA KeptComputer ==
    ASSUME StateInv, NEW c \in Clients, Kept(c),
           (\E s \in Screens : Copy(s) \/ onClipboardChange(s))
               \/ (\E d \in Clients : d # c /\ Connect(d))
    PROVE  Kept(c)'
<1> USE Bounds
<1> DEFINE x == [kind |-> "grabbed", seq |-> 0, data |-> Nothing]
           E == {y \in Raised : y.kind = "grabbed"}
           g == Event("grabbed", Primary, server.primarySeq, Nothing)
           F == {e \in EventType : e.who = Primary}
<1>1. UNCHANGED <<server, down, up>> /\ c \in Screens /\ c # Primary /\ connected \subseteq connected'
  BY DEF Copy, onClipboardChange, Connect
<1>2. /\ client \in [Clients -> ClientType] /\ client[c].events \in Seq(Raised)
      /\ client[c] \in ClientType /\ events \in Seq(EventType) /\ x \in E /\ x \in Raised
      /\ g \in EventType /\ g \in F
  <2>1. client \in [Clients -> ClientType] /\ server \in ServerType
    BY DEF StateInv
  <2>2. client[c].events \in Seq(Raised) /\ client[c] \in ClientType
    BY <2>1 DEF ClientType, Raised
  <2>3. events \in Seq(EventType)
    BY NowState, NowFields DEF State
  <2>4. x \in E /\ x \in Raised
    BY DEF Raised
  <2>5. g \in EventType /\ g \in F
    BY <2>1 DEF ServerType, Event, EventType
  <2>6. QED
    BY <2>1, <2>2, <2>3, <2>4, <2>5
<1>3. events' = events \/ events' = Append(events, g)
  BY DEF Copy, onClipboardChange, Connect
<1>4. client'[c] = client[c] \/ client'[c] = raised(client[c])
  BY <1>2 DEF Copy, onClipboardChange, Connect
<1>5. /\ client'[c].seqNum = client[c].seqNum /\ client'[c].own = client[c].own
      /\ client'[c].sent = client[c].sent /\ client'[c].last = client[c].last
      /\ client'[c].events \in {client[c].events, Append(client[c].events, x)}
  BY <1>2, <1>4 DEF raised, ClientType
<1> HIDE DEF x, E, g, F
<1>6. Longer(events, events', F) /\ events' \in Seq(EventType)
  <2>1. Longer(events, events, F)
    BY ONLY <1>2, LongerSame
  <2>2. Longer(events, Append(events, g), F)
    BY ONLY <1>2, LongerAppend
  <2>3. Append(events, g) \in Seq(EventType)
    BY ONLY <1>2, AppendProperties
  <2>4. QED
    <3>1. CASE events' = events
      BY ONLY <1>2, <2>1, <3>1
    <3>2. CASE events' = Append(events, g)
      BY ONLY <2>2, <2>3, <3>2
    <3>3. QED
      BY <1>3, <3>1, <3>2
<1>7. Longer(client[c].events, client'[c].events, E) /\ client'[c].events \in Seq(Raised)
  <2>1. Longer(client[c].events, client[c].events, E)
    BY ONLY <1>2, LongerSame
  <2>2. Longer(client[c].events, Append(client[c].events, x), E)
    BY ONLY <1>2, LongerAppend
  <2>3. Append(client[c].events, x) \in Seq(Raised)
    BY ONLY <1>2, AppendProperties
  <2>4. QED
    <3>1. CASE client'[c].events = client[c].events
      BY ONLY <1>2, <2>1, <3>1
    <3>2. CASE client'[c].events = Append(client[c].events, x)
      BY ONLY <2>2, <2>3, <3>2
    <3>3. QED
      BY <1>5, <3>1, <3>2
<1>8. (\A e \in F : e \notin FromClient(c)) /\ \A y \in E : y \notin ToSend
  BY <1>1 DEF F, E, FromClient, ToSend
<1>9. /\ server'.owner = server.owner /\ server'.data = server.data
      /\ server'.clipSeq = server.clipSeq /\ server'.buffer[c] = server.buffer[c]
      /\ up'[c] = up[c] /\ down'[c] = down[c] /\ (c \in connected => c \in connected')
  BY <1>1
<1>10. /\ \A n, v : HeardLast(c, n, v) => HeardLast(c, n, v)'
       /\ \A n : Limit(c, n) => Limit(c, n)'
       /\ Disowned(c) => Disowned(c)'
  BY <1>2, <1>6, <1>8, <1>9, HeardLonger
<1>11. QED
  BY <1>2, <1>5, <1>7, <1>8, <1>9, <1>10, KeptElsewhere

LEMMA KeptLost ==
    ASSUME StateInv, UNCHANGED scenario, NEW c \in Clients, Kept(c),
           NEW d \in Clients, d # c, Disconnect(d)
    PROVE  Kept(c)'
<1> USE Bounds
<1> DEFINE E == {y \in Raised : y.kind = "grabbed"}
           o == Event("orphan", d, 0, Nothing)
<1>1. /\ Len(events') = Len(events)
      /\ \A i \in 1 .. Len(events) :
            events'[i] = IF events[i].who = d THEN o ELSE events[i]
  BY OrphanedKnown DEF Disconnect, Orphaned
<1>2. /\ up'[c] = up[c] /\ down'[c] = down[c] /\ client'[c] = client[c]
      /\ (c \in connected => c \in connected')
  BY DEF Disconnect, StateInv
<1> DEFINE rest == freshProxy(server, d)
<1>3. /\ rest \in ServerType /\ rest.owner = server.owner /\ rest.clipSeq = server.clipSeq
      /\ rest.data = server.data /\ rest.buffer[c] = server.buffer[c]
  <2>1. /\ server \in ServerType /\ [server.dirty EXCEPT ![d] = TRUE] \in [Screens -> BOOLEAN]
        /\ [server.buffer EXCEPT ![d] = Nothing] \in [Clients -> Contents]
    BY DEF StateInv, ServerType
  <2>2. rest = [server EXCEPT !.dirty = [server.dirty EXCEPT ![d] = TRUE],
                              !.buffer = [server.buffer EXCEPT ![d] = Nothing]]
    BY <2>1 DEF freshProxy, ServerType
  <2>3. QED
    BY <2>1, <2>2 DEF ServerType
<1>4. server' = rest \/ server' = [rest EXCEPT !.active = Primary, !.primarySeq = rest.seqNum]
  BY DEF Disconnect
<1> HIDE DEF rest
<1>5. /\ server'.owner = server.owner /\ server'.data = server.data
      /\ server'.clipSeq = server.clipSeq /\ server'.buffer[c] = server.buffer[c]
  BY <1>3, <1>4 DEF ServerType
<1>6. \A S \in {FromClient(c), SendingTo(c)} : \A i \in 1 .. Len(events) :
         /\ events[i] \in S => events'[i] = events[i]
         /\ events'[i] \in S => events'[i] = events[i]
  <2>1. o \notin FromClient(c) /\ o \notin SendingTo(c)
    BY DEF Event, FromClient, SendingTo
  <2>2. (\A e \in FromClient(c) : e.who # d) /\ (\A e \in SendingTo(c) : e.who # d)
    BY DEF FromClient, SendingTo
  <2> HIDE DEF o
  <2>3. QED
    BY <1>1, <2>1, <2>2
<1> HIDE DEF o
<1>7. ASSUME NEW n, NEW v, HeardLast(c, n, v) PROVE HeardLast(c, n, v)'
  <2>1. LastIn(events, FromClient(c), Fetched(c, n, v), Had(c, v))
    BY <1>7 DEF HeardLast
  <2>2. LastIn(events', FromClient(c), Fetched(c, n, v), Had(c, v))
    BY ONLY <1>1, <1>6, <2>1 DEF LastIn
  <2>3. (Had(c, v)' <=> Had(c, v)) /\ Fetched(c, n, v)' = Fetched(c, n, v)
    BY <1>5 DEF Had, Fetched
  <2>4. QED
    BY <2>2, <2>3, LastInMore DEF HeardLast, FromClient
<1>8. ASSUME NEW n, Limit(c, n) PROVE Limit(c, n)'
  <2>1. \A i \in 1 .. Len(events') :
           events'[i] \in FromClient(c) /\ events'[i].kind = "grabbed" => events'[i].seq <= n
    BY <1>1, <1>6, <1>8 DEF Limit
  <2>2. QED
    BY <1>2, <1>5, <1>8, <2>1 DEF Limit, FromClient
<1>9. Disowned(c) => Disowned(c)'
  BY <1>1, <1>2, <1>6 DEF Disowned, SendingTo, Tells
<1>10. client[c].events \in Seq(Raised)
  BY DEF StateInv, ClientType, Raised
<1>11. Longer(client[c].events, client'[c].events, E) /\ client'[c].events \in Seq(Raised)
  <2>1. Longer(client[c].events, client[c].events, E)
    BY ONLY <1>10, LongerSame
  <2>2. QED
    BY <1>2, <1>10, <2>1
<1>12. \A y \in E : y \notin ToSend
  BY DEF ToSend
<1> HIDE DEF E
<1>13. QED
  BY <1>2, <1>5, <1>7, <1>8, <1>9, <1>10, <1>11, <1>12, KeptElsewhere

LEMMA KeptInit == Init => KeptInv
  BY Bounds DEF Init, KeptInv, Kept

LEMMA KeptNext ==
    ASSUME LoneInv, FitsInv, Limited', KeptInv, [Next]_vars PROVE KeptInv'
<1> SUFFICES ASSUME NEW c \in Clients, OnlyClient(c)' PROVE Kept(c)'
  BY DEF KeptInv
<1> USE Bounds
<1>1. UNCHANGED scenario
  BY DEF Next, vars
<1>2. OnlyClient(c) /\ Kept(c) /\ StateInv /\ CourierInv /\ Alone(c)
  BY <1>1 DEF OnlyClient, KeptInv, LoneInv, GrabInv, AloneInv
<1>3. CASE UNCHANGED vars
  BY <1>2, <1>3 DEF vars, Kept, Disowned, Limit, RaisedLast, WroteLast, HeardLast, Had, Fetched,
     FromClient, SendingTo, Tells, ToSend, ToBring, Bringing
<1>4. CASE SwitchScreen \/ ServerEvent
  BY <1>2, <1>4, KeptSwitch, KeptEvent
<1>5. ASSUME NEW d \in Clients, ServerReceive(d) PROVE Kept(c)'
  <2>1. d = c
    BY <1>2, <1>5 DEF ServerReceive, Alone
  <2>2. QED
    BY <1>2, <1>5, <2>1, KeptRead
<1>6. ASSUME NEW d \in Clients, ClientReceive(d) \/ ClientEvent(d) PROVE Kept(c)'
  BY <1>2, <1>6, KeptReceive, KeptTold
<1>7. ASSUME NEW s \in Screens, Copy(s) \/ onClipboardChange(s) PROVE Kept(c)'
  BY <1>2, <1>7, KeptComputer
<1>8. ASSUME NEW d \in Clients, Connect(d) PROVE Kept(c)'
  <2>1. CASE d # c
    BY <1>2, <1>8, <2>1, KeptComputer
  <2>2. CASE d = c
    <3>1. ~client'[c].own /\ server' = server /\ c \notin connected
      BY <1>2, <1>8, <2>2 DEF Connect, StateInv, ClientType
    <3>2. QED
      BY <1>2, <3>1 DEF Kept
  <2>3. QED
    BY <2>1, <2>2
<1>9. ASSUME NEW d \in Clients, Disconnect(d) PROVE Kept(c)'
  <2>1. d # c
    BY <1>2, <1>9 DEF Disconnect, OnlyClient
  <2>2. QED
    BY <1>1, <1>2, <1>9, <2>1, KeptLost
<1>10. CASE Next
  BY <1>4, <1>5, <1>6, <1>7, <1>8, <1>9, <1>10 DEF Next
<1>11. QED
  BY <1>3, <1>10

LEMMA KeptEnough ==
    ASSUME LoneInv, KeptInv, NEW c \in Clients, OnlyClient(c) PROVE OwnerDataKept
<1> SUFFICES ASSUME Settled, NEW d \in connected, server.owner = d, client[d].own, client[d].sent
             PROVE  server.data = client[d].last
  BY DEF OwnerDataKept
<1>1. d = c /\ Kept(c)
  BY DEF LoneInv, GrabInv, StateInv, AloneInv, Alone, KeptInv
<1>2. Len(events) = 0 /\ Len(down[c]) = 0 /\ Len(up[c]) = 0 /\ Len(client[c].events) = 0
  BY <1>1 DEF Settled, AtRest
<1>3. PICK n \in SeqNums : RaisedLast(c, n, client[c].last)
  BY <1>1, <1>2 DEF Kept, Disowned
<1>4. QED
  BY <1>1, <1>2, <1>3 DEF RaisedLast, WroteLast, HeardLast, Had, LastIn

\* Where all is settled, the screens that are known to be up to date are, and the server has
\* what the owner sent last (Server::switchScreen, ClientProxy1_6::setClipboard).
THEOREM UpToDateAlways == Spec => []UpToDate
<1>1. LoneInv => StateInv /\ CourierInv
  BY DEF LoneInv, GrabInv
<1>2. Init => FitsInv /\ HomeInv /\ CleanInv /\ KeptInv
  BY FitsInit, CleanInit, KeptInit
<1>3. LoneInv /\ FitsInv /\ HomeInv /\ CleanInv /\ KeptInv /\ Limited' /\ [Next]_vars
         => FitsInv' /\ HomeInv' /\ CleanInv' /\ KeptInv'
  BY <1>1, HomeNext, CleanNext, KeptNext
<1>4. LoneInv /\ HomeInv /\ CleanInv /\ KeptInv => UpToDate
  BY <1>1, HomeEnough, CleanEnough, KeptEnough DEF UpToDate
<1>5. QED
  BY <1>1, <1>2, <1>3, <1>4, LimitNow, LoneAlways, PTL DEF Spec
=============================================================================
