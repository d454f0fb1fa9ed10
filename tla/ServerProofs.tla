---------------------------- MODULE ServerProofs ----------------------------
(***************************************************************************)
(* Proofs about the screen-switching core, for any number of clients, names *)
(* and configurations.                                                      *)
(***************************************************************************)
EXTENDS Server, TLAPS

\* A pending switch that aims at a screen of C, or is idle.
Aims(p, C) ==
    /\ p \in Pending
    /\ p.screen \in C \cup {NoScreen}
    /\ p.screen = NoScreen => p = Idle

\* Every known name is canonical.
Unaliased(canon) == \A n \in Name : canon[n] \in {n, NoName}

\* The cursor is locked by the server itself.
ServerLock == locked /\ ~opts["disableLock"]

-----------------------------------------------------------------------------
(***************************************************************************)
(* The pending switch.                                                      *)
(***************************************************************************)

\* Two pending switches with the same parts are the same.
LEMMA PendingEqual ==
    ASSUME NEW p \in Pending, NEW q \in Pending,
           p.screen = q.screen, p.dir = q.dir, p.tap = q.tap, p.wait = q.wait
    PROVE  p = q
  BY DEF Pending

LEMMA IdleAims == ASSUME NEW C PROVE Aims(Idle, C)
  BY DEF Aims, Idle, Pending, MaybeClient

\* No delay timer is started where there was none, unless the option for it is on.
TimerFrom(q, p) == q.wait # NoScreen => opts["wait"] \/ p.wait # NoScreen

\* The outcome r of an attempt to cross an edge keeps the aim among the candidates;
\* it switches only to its destination, never while the cursor is locked, and with
\* the double tap on only at the edge the tap is armed for.
OkaySound(r, p, dst, dir, C) ==
    /\ r.pend \in Pending
    /\ Aims(p, C) => Aims(r.pend, C)
    /\ Aims(p, C) => r.pend.dir \in {dir, "NoDirection"}
    /\ r.to \in {NoScreen, dst}
    /\ r.to # NoScreen =>
          ~ServerLock /\ (opts["twoTap"] => p.tap = "armed" /\ p.dir = dir)
    /\ TimerFrom(r.pend, p)

LEMMA OkayOutcome ==
    ASSUME TypeOK, NEW C, NoScreen \notin C,
           NEW p \in Pending, NEW dst \in C \cup {NoScreen}, dst \in MaybeClient,
           NEW dir \in Direction,
           NEW inTime \in BOOLEAN, NEW inCorner \in BOOLEAN, NEW held \in BOOLEAN
    PROVE  OkaySound(isSwitchOkay(p, dst, dir, inTime, inCorner, held), p, dst, dir, C)
<1> DEFINE r == isSwitchOkay(p, dst, dir, inTime, inCorner, held)
<1>1. r.pend \in Pending
  BY DEF isSwitchOkay, shouldSwitchTwoTap, stopSwitch, Idle, Pending, MaybeClient
<1>2. Aims(p, C) => Aims(r.pend, C)
  BY <1>1 DEF Aims, isSwitchOkay, shouldSwitchTwoTap, stopSwitch, Idle, Pending, MaybeClient
<1>3. Aims(p, C) => r.pend.dir \in {dir, "NoDirection"}
  BY DEF Aims, isSwitchOkay, shouldSwitchTwoTap, stopSwitch, Idle, Pending, MaybeClient
<1>4. r.to \in {NoScreen, dst}
  BY DEF isSwitchOkay
<1>5. r.to # NoScreen => ~ServerLock /\ (opts["twoTap"] => p.tap = "armed" /\ p.dir = dir)
  BY DEF isSwitchOkay, shouldSwitchTwoTap, isLockedToScreen, ServerLock
<1>6. TimerFrom(r.pend, p)
  BY DEF TimerFrom, isSwitchOkay, shouldSwitchTwoTap, stopSwitch, Idle, Pending
<1>7. QED
  BY <1>1, <1>2, <1>3, <1>4, <1>5, <1>6 DEF OkaySound

\* A motion that crosses no edge and a stopped switch keep the aim.
LEMMA NoSwitchOutcome ==
    ASSUME NEW C, NEW p \in Pending, NEW late \in BOOLEAN, NEW back \in BOOLEAN
    PROVE  /\ noSwitch(p, late, back) \in Pending
           /\ Aims(p, C) => Aims(noSwitch(p, late, back), C)
           /\ stopSwitch(p) \in Pending
           /\ Aims(p, C) => Aims(stopSwitch(p), C)
           /\ Aims(p, C) => stopSwitch(p) = Idle
<1> DEFINE t == IF p.tap = "off" \/ late THEN "off" ELSE IF back THEN "armed" ELSE p.tap
<1>1. noSwitch(p, late, back) = [p EXCEPT !.wait = NoScreen, !.tap = t]
  BY DEF noSwitch
<1>2. /\ noSwitch(p, late, back) \in Pending
      /\ Aims(p, C) => Aims(noSwitch(p, late, back), C)
  <2>1. t \in {"off", "engaged", "armed"} /\ (p.tap = "off" => t = "off")
    BY DEF Pending
  <2> HIDE DEF t
  <2>2. [p EXCEPT !.wait = NoScreen, !.tap = t] \in Pending
    BY <2>1 DEF Pending, MaybeClient
  <2>3. ASSUME Aims(p, C) PROVE Aims([p EXCEPT !.wait = NoScreen, !.tap = t], C)
    <3>1. [p EXCEPT !.wait = NoScreen, !.tap = t].screen = p.screen
      BY DEF Pending
    <3>2. ASSUME p.screen = NoScreen PROVE [p EXCEPT !.wait = NoScreen, !.tap = t] = Idle
      <4>1. p = Idle /\ t = "off"
        BY <2>1, <2>3, <3>2 DEF Aims, Idle
      <4>2. Idle \in Pending
        BY DEF Idle, Pending, MaybeClient
      <4> DEFINE q == [p EXCEPT !.wait = NoScreen, !.tap = t]
      <4>3. q \in Pending /\ q.screen = Idle.screen /\ q.dir = Idle.dir
            /\ q.tap = Idle.tap /\ q.wait = Idle.wait
        BY <2>2, <4>1, <4>2 DEF Idle, Pending
      <4>4. QED
        BY <4>2, <4>3, PendingEqual
    <3>3. QED
      BY <2>2, <2>3, <3>1, <3>2 DEF Aims
  <2>4. QED
    BY <1>1, <2>2, <2>3
<1>3. /\ stopSwitch(p) \in Pending
      /\ Aims(p, C) => Aims(stopSwitch(p), C)
      /\ Aims(p, C) => stopSwitch(p) = Idle
  BY DEF stopSwitch, Aims, Idle, Pending, MaybeClient
<1>4. QED
  BY <1>2, <1>3

\* Stopping the delay timer, the double tap, or both, keeps the aim.
LEMMA StoppedOutcome ==
    ASSUME NEW C, NEW p \in Pending, Aims(p, C), NEW noWait, NEW noTap
    PROVE  LET q == [p EXCEPT !.wait = IF noWait THEN NoScreen ELSE @,
                              !.tap = IF noTap THEN "off" ELSE @]
           IN  q \in Pending /\ Aims(q, C)
<1> DEFINE w == IF noWait THEN NoScreen ELSE p.wait
           t == IF noTap THEN "off" ELSE p.tap
           q == [p EXCEPT !.wait = w, !.tap = t]
<1>1. w \in {NoScreen, p.wait} /\ t \in {"off", p.tap}
  OBVIOUS
<1> HIDE DEF w, t
<1>2. q \in Pending /\ q.screen = p.screen /\ q.dir = p.dir /\ q.wait = w /\ q.tap = t
  BY <1>1 DEF Pending, MaybeClient
<1>3. ASSUME p.screen = NoScreen PROVE q = Idle
  <2>1. p = Idle
    BY <1>3 DEF Aims
  <2>2. Idle \in Pending /\ w = Idle.wait /\ t = Idle.tap
    BY <1>1, <2>1 DEF Idle, Pending, MaybeClient
  <2>3. q.screen = Idle.screen /\ q.dir = Idle.dir
    BY <1>2, <2>1
  <2> HIDE DEF q
  <2>4. QED
    BY <1>2, <2>2, <2>3, PendingEqual
<1>4. q \in Pending /\ Aims(q, C)
  <2> HIDE DEF q
  <2>1. QED
    BY <1>2, <1>3 DEF Aims
<1>5. QED
  BY <1>4 DEF w, t

-----------------------------------------------------------------------------
(***************************************************************************)
(* What a motion can do: the pointer stays, with another pending switch, or *)
(* moves to a screen of C.                                                  *)
(***************************************************************************)
Tapped(dst) == pending.tap = "armed" /\ dst \in mapToNeighbor(active, pending.dir)

StaysOrSwitches(C) ==
    \E p \in Pending :
        /\ Aims(pending, C) => Aims(p, C)
        /\ TimerFrom(p, pending)
        /\ \/ stay(p)
           \/ \E dst \in C :
                /\ switchScreen(dst, dst, p)
                /\ ~ServerLock
                /\ Aims(pending, C) /\ opts["twoTap"] => Tapped(dst)

LEMMA MeetEdgesOutcome ==
    ASSUME TypeOK, NEW C, NoScreen \notin C, C \subseteq Client,
           \A n \in Name : clients[n] \in C \cup {NoScreen},
           NEW first \in Direction \cup {"NoDirection"},
           NEW second \in Direction \cup {"NoDirection"},
           second # "NoDirection" => first # second,
           meetEdges(first, second)
    PROVE  StaysOrSwitches(C)
<1>1. PICK inTime \in BOOLEAN, inCorner \in BOOLEAN, held \in BOOLEAN,
          dst1 \in mapToNeighbor(active, first), dst2 \in mapToNeighbor(active, second) :
        LET try1 == IF first = "NoDirection" THEN [pend |-> pending, to |-> NoScreen]
                    ELSE isSwitchOkay(pending, dst1, first, inTime, inCorner, held)
            try2 == IF try1.to # NoScreen \/ second = "NoDirection" THEN try1
                    ELSE isSwitchOkay(try1.pend, dst2, second, inTime, inCorner, held)
        IN  IF try2.to = NoScreen THEN stay(try2.pend)
            ELSE switchScreen(try2.to, try2.to, try2.pend)
  BY DEF meetEdges
<1> DEFINE okay1 == isSwitchOkay(pending, dst1, first, inTime, inCorner, held)
           try1 == IF first = "NoDirection" THEN [pend |-> pending, to |-> NoScreen] ELSE okay1
           okay2 == isSwitchOkay(try1.pend, dst2, second, inTime, inCorner, held)
           try2 == IF try1.to # NoScreen \/ second = "NoDirection" THEN try1 ELSE okay2
           Sound(t) ==
               /\ t.pend \in Pending
               /\ Aims(pending, C) => Aims(t.pend, C)
               /\ t.to \in C \cup {NoScreen}
               /\ t.to # NoScreen => ~ServerLock
               /\ t.to # NoScreen /\ Aims(pending, C) /\ opts["twoTap"] => Tapped(t.to)
               /\ TimerFrom(t.pend, pending)
<1>2. /\ dst1 \in C \cup {NoScreen} /\ dst2 \in C \cup {NoScreen}
      /\ dst1 \in MaybeClient /\ dst2 \in MaybeClient
      /\ pending \in Pending
  BY DEF mapToNeighbor, Beyond, MaybeClient, TypeOK
<1>3. /\ Sound(try1)
      /\ Aims(pending, C) /\ first # "NoDirection" /\ second # "NoDirection"
            => try1.pend.dir # second
  <2>1. CASE first = "NoDirection"
    BY <1>2, <2>1 DEF TimerFrom
  <2>2. CASE first # "NoDirection"
    <3>1. first \in Direction /\ try1 = okay1
      BY <2>2
    <3>2. OkaySound(okay1, pending, dst1, first, C)
      BY <1>2, <3>1, OkayOutcome
    <3> HIDE DEF okay1
    <3>3. Sound(okay1)
      BY <1>1, <1>2, <3>2 DEF OkaySound, Tapped
    <3>4. Aims(pending, C) /\ second # "NoDirection" => okay1.pend.dir # second
      BY <3>2 DEF OkaySound
    <3>5. QED
      BY <3>1, <3>3, <3>4
  <2>3. QED
    BY <2>1, <2>2
<1>4. Sound(try1)
  BY <1>3
<1>5. Sound(try2)
  <2>1. CASE try1.to # NoScreen \/ second = "NoDirection"
    BY <1>4, <2>1
  <2>2. CASE ~(try1.to # NoScreen \/ second = "NoDirection")
    <3>1. second \in Direction /\ try2 = okay2
      BY <2>2
    <3>2. OkaySound(okay2, try1.pend, dst2, second, C)
      <4> HIDE DEF try1
      <4>1. QED
        BY <1>2, <1>4, <3>1, OkayOutcome
    <3>3. first = "NoDirection" => try1.pend = pending
      OBVIOUS
    <3>4. okay2.to # NoScreen /\ Aims(pending, C) /\ opts["twoTap"] => Tapped(okay2.to)
      <4> HIDE DEF try1, okay2, Sound
      <4>1. QED
        BY <1>1, <1>3, <2>2, <3>1, <3>2, <3>3 DEF OkaySound, Tapped
    <3>5. Sound(okay2)
      <4> HIDE DEF okay2, try1
      <4>1. QED
        BY <1>2, <1>4, <3>2, <3>4 DEF OkaySound, TimerFrom
    <3>6. QED
      <4> HIDE DEF okay2, try2, Sound
      <4>1. QED
        BY <3>1, <3>5
  <2>3. QED
    BY <2>1, <2>2
<1>6. IF try2.to = NoScreen THEN stay(try2.pend)
      ELSE switchScreen(try2.to, try2.to, try2.pend)
  BY <1>1
<1>7. QED
  <2> HIDE DEF try2
  <2>1. QED
    BY <1>5, <1>6 DEF StaysOrSwitches

-----------------------------------------------------------------------------
(***************************************************************************)
(* The pointer and the pending switch after a handler, if the screens it    *)
(* can move to are those of C.                                              *)
(***************************************************************************)
Moved(C) ==
    /\ pos' \in MaybeClient
    /\ pending' \in Pending
    /\ Aims(pending, C) => Aims(pending', C)
    /\ \/ active' = active /\ entered' = entered
       \/ active' \in C /\ entered' = (entered \ {active}) \cup {active'}

\* C has the clients m_clients names, and nothing that is not a client.
Candidates(C) ==
    /\ C \subseteq Client
    /\ \A n \in Name : clients[n] \in C \cup {NoScreen}

LEMMA SwitchMoves ==
    ASSUME TypeOK, NEW C, NEW dst \in C, NEW space \in MaybeClient,
           NEW p \in Pending, Aims(pending, C) => Aims(p, C),
           switchScreen(dst, space, p)
    PROVE  Moved(C)
<1>1. stopSwitch(p) \in Pending /\ (Aims(pending, C) => Aims(stopSwitch(p), C))
  BY NoSwitchOutcome
<1>2. QED
  BY <1>1 DEF Moved, switchScreen

LEMMA StayMoves ==
    ASSUME TypeOK, NEW C, NEW p \in Pending, Aims(pending, C) => Aims(p, C), stay(p)
    PROVE  Moved(C) /\ active' = active
  BY DEF Moved, stay, TypeOK, MaybeClient

LEMMA MotionMoves ==
    ASSUME TypeOK, NEW C, Candidates(C), onMouseMovePrimary \/ onMouseMoveSecondary
    PROVE  /\ Moved(C)
           /\ active' # active =>
                 ~ServerLock /\ (Aims(pending, C) /\ opts["twoTap"] => Tapped(active'))
<1> DEFINE Goal ==
       /\ Moved(C)
       /\ active' # active =>
             ~ServerLock /\ (Aims(pending, C) /\ opts["twoTap"] => Tapped(active'))
<1>1. NoScreen \notin C /\ C \subseteq Client /\ pending \in Pending
  BY ClientAssumption DEF Candidates, Client, TypeOK
<1>2. ASSUME StaysOrSwitches(C) PROVE Goal
  <2>1. PICK p \in Pending :
            /\ Aims(pending, C) => Aims(p, C)
            /\ \/ stay(p)
               \/ \E dst \in C :
                    /\ switchScreen(dst, dst, p)
                    /\ ~ServerLock
                    /\ Aims(pending, C) /\ opts["twoTap"] => Tapped(dst)
    BY <1>2 DEF StaysOrSwitches
  <2>2. CASE stay(p)
    BY <2>1, <2>2, StayMoves
  <2>3. ASSUME NEW dst \in C, switchScreen(dst, dst, p), ~ServerLock,
               Aims(pending, C) /\ opts["twoTap"] => Tapped(dst)
        PROVE  Goal
    <3>1. Moved(C)
      BY <1>1, <2>1, <2>3, SwitchMoves DEF MaybeClient
    <3>2. active' \in {active, dst}
      BY <2>3 DEF switchScreen
    <3>3. QED
      BY <2>3, <3>1, <3>2
  <2>4. QED
    BY <2>1, <2>2, <2>3
<1>3. ASSUME NEW late \in BOOLEAN, NEW back \in BOOLEAN, stay(noSwitch(pending, late, back))
      PROVE  Goal
  <2>1. /\ noSwitch(pending, late, back) \in Pending
        /\ Aims(pending, C) => Aims(noSwitch(pending, late, back), C)
    BY <1>1, NoSwitchOutcome
  <2>2. QED
    BY <1>3, <2>1, StayMoves
<1>4. ASSUME NEW first \in Direction \cup {"NoDirection"},
             NEW second \in Direction \cup {"NoDirection"},
             second # "NoDirection" => first # second,
             meetEdges(first, second)
      PROVE  Goal
  BY <1>1, <1>2, <1>4, MeetEdgesOutcome DEF Candidates
<1>5. CASE onMouseMovePrimary
  <2>1. CASE \E late, back \in BOOLEAN : stay(noSwitch(pending, late, back))
    BY <1>3, <2>1
  <2>2. CASE \E dirh \in {"NoDirection", "Left", "Right"},
                dirv \in {"NoDirection", "Top", "Bottom"} : meetEdges(dirh, dirv)
    <3>1. PICK dirh \in {"NoDirection", "Left", "Right"},
               dirv \in {"NoDirection", "Top", "Bottom"} : meetEdges(dirh, dirv)
      BY <2>2
    <3>2. /\ dirh \in Direction \cup {"NoDirection"}
          /\ dirv \in Direction \cup {"NoDirection"}
          /\ dirv # "NoDirection" => dirh # dirv
      BY DEF Direction
    <3>3. QED
      BY <1>4, <3>1, <3>2
  <2>3. QED
    BY <1>5, <2>1, <2>2 DEF onMouseMovePrimary
<1>6. CASE onMouseMoveSecondary
  <2>1. CASE UNCHANGED switchVars
    BY <1>1, <2>1 DEF switchVars, Moved, TypeOK
  <2>2. CASE stay(pending)
    BY <1>1, <2>2, StayMoves
  <2>3. CASE \E late, back \in BOOLEAN : stay(noSwitch(pending, late, back))
    BY <1>3, <2>3
  <2>4. CASE \E dir \in Direction : meetEdges(dir, "NoDirection")
    BY <1>4, <2>4
  <2>5. QED
    BY <1>6, <2>1, <2>2, <2>3, <2>4 DEF onMouseMoveSecondary
<1>7. QED
  BY <1>5, <1>6

-----------------------------------------------------------------------------
(***************************************************************************)
(* Type correctness.  That an idle switch aims at nothing and runs nothing  *)
(* is part of the invariant: a switch is only ever begun by an edge.        *)
(***************************************************************************)
TypeInv == TypeOK /\ Aims(pending, Client)

\* A file, as a configuration and as options.
LEMMA FileTypes ==
    ASSUME NEW f \in Files
    PROVE  /\ [canon |-> f.canon, links |-> f.links]
                 \in [canon : [Name -> Name \cup {NoName}], links : SUBSET Link]
           /\ \A o \in DOMAIN f.opts : f.opts[o] \in BOOLEAN
<1>1. PICK D \in SUBSET OptionName : f.opts \in [D -> BOOLEAN]
  BY FilesAssumption
<1>2. QED
  BY <1>1, FilesAssumption

LEMMA PrimaryIsClient == Primary \in Client /\ NoScreen \notin Client /\ Proxy \subseteq Client
  BY ClientAssumption DEF Client

LEMMA NameInType ==
    ASSUME NEW conf, conf.canon \in [Name -> Name \cup {NoName}], NEW c \in Client
    PROVE  NameIn(conf, c) \in Name
<1>1. NameOf[c] \in Name
  BY ClientAssumption
<1>2. QED
  BY <1>1 DEF NameIn

\* What Init and the restart after a crash have in common, for the constructor's
\* choice of f and of the lock.
LEMMA ConstructedTypes ==
    ASSUME NEW f \in Files
    PROVE  /\ [o \in OptionName |-> o \in DOMAIN f.opts /\ f.opts[o]] \in [OptionName -> BOOLEAN]
           /\ [n \in Name |-> IF n = NameIn(f, Primary) THEN Primary ELSE NoScreen]
                 \in [Name -> MaybeClient]
           /\ [c \in Client |-> c] \in [Client -> MaybeClient]
           /\ Idle \in Pending
<1>1. \A o \in OptionName : (o \in DOMAIN f.opts /\ f.opts[o]) \in BOOLEAN
  OBVIOUS
<1>2. [o \in OptionName |-> o \in DOMAIN f.opts /\ f.opts[o]] \in [OptionName -> BOOLEAN]
  BY <1>1, Zenon
<1>3. QED
  BY <1>2, PrimaryIsClient DEF MaybeClient, Idle, Pending

LEMMA TypeInit == Init => TypeInv
<1> SUFFICES ASSUME Init PROVE TypeInv
  OBVIOUS
<1>1. PICK f \in Files :
          /\ config = [canon |-> f.canon, links |-> f.links]
          /\ opts = [o \in OptionName |-> o \in DOMAIN f.opts /\ f.opts[o]]
          /\ clients = [n \in Name |-> IF n = NameIn(f, Primary) THEN Primary ELSE NoScreen]
  BY DEF Init
<1>2. /\ config \in [canon : [Name -> Name \cup {NoName}], links : SUBSET Link]
      /\ opts \in [OptionName -> BOOLEAN]
      /\ clients \in [Name -> MaybeClient]
      /\ jumpPos \in [Client -> MaybeClient]
      /\ pending \in Pending
  <2>1. jumpPos = [c \in Client |-> c] /\ pending = Idle
    BY DEF Init
  <2>2. QED
    BY <1>1, <2>1, FileTypes, ConstructedTypes
<1>3. Aims(pending, Client)
  BY IdleAims DEF Init
<1>4. QED
  BY <1>2, <1>3, PrimaryIsClient DEF TypeInv, TypeOK, Init, MaybeClient

LEMMA TypeCrash == ASSUME Crash PROVE TypeInv'
<1>1. PICK f \in Files :
          /\ config' = [canon |-> f.canon, links |-> f.links]
          /\ opts' = [o \in OptionName |-> o \in DOMAIN f.opts /\ f.opts[o]]
          /\ clients' = [n \in Name |-> IF n = NameIn(f, Primary) THEN Primary ELSE NoScreen]
  BY DEF Crash
<1>2. /\ config' \in [canon : [Name -> Name \cup {NoName}], links : SUBSET Link]
      /\ opts' \in [OptionName -> BOOLEAN]
      /\ clients' \in [Name -> MaybeClient]
      /\ jumpPos' \in [Client -> MaybeClient]
      /\ pending' \in Pending
  <2>1. jumpPos' = [c \in Client |-> c] /\ pending' = Idle
    BY DEF Crash
  <2>2. QED
    BY <1>1, <2>1, FileTypes, ConstructedTypes
<1>3. Aims(pending', Client)
  BY IdleAims DEF Crash
<1>4. QED
  BY <1>2, <1>3, PrimaryIsClient DEF TypeInv, TypeOK, Crash, MaybeClient

\* Taking clients off the lists and forcing the pointer off them keeps the types,
\* and the pending switch without them is still one that aims at a screen of C.
LEMMA RemovalTypes ==
    ASSUME TypeOK, NEW R, removeClients(R), forceLeaveClients(R), NEW C
    PROVE  /\ clients' \in [Name -> MaybeClient]
           /\ clientSet' \subseteq Client
           /\ saverTold' \subseteq Proxy
           /\ active' \in Client /\ activeSaver' \in MaybeClient
           /\ entered' \subseteq Client
           /\ posWithout(R) \in MaybeClient
           /\ pendingWithout(R) \in Pending
           /\ Aims(pending, C) => Aims(pendingWithout(R), C)
<1>1. clients' \in [Name -> MaybeClient]
  BY DEF removeClients, TypeOK, MaybeClient
<1>2. /\ clientSet' \subseteq Client /\ saverTold' \subseteq Proxy
      /\ active' \in Client /\ activeSaver' \in MaybeClient /\ entered' \subseteq Client
      /\ posWithout(R) \in MaybeClient
  BY PrimaryIsClient DEF removeClients, forceLeaveClients, posWithout, TypeOK, MaybeClient
<1>3. Idle \in Pending
  BY DEF Idle, Pending, MaybeClient
<1>4. /\ pendingWithout(R) \in Pending
      /\ Aims(pending, C) => Aims(pendingWithout(R), C)
  BY <1>3, IdleAims DEF pendingWithout, TypeOK
<1>5. QED
  BY <1>1, <1>2, <1>4

\* A handler that ends in a switch, or in a motion, keeps the types.
LEMMA MovedTypes ==
    ASSUME TypeInv, Moved(Client),
           UNCHANGED <<confVars, listVars>>,
           locked' \in BOOLEAN, saverOn' \in BOOLEAN,
           activeSaver' \in MaybeClient, saverTold' \subseteq Proxy,
           jumpPos' \in [Client -> MaybeClient]
    PROVE  TypeInv'
  BY DEF TypeInv, TypeOK, Moved, confVars, listVars

LEMMA ClientsAreCandidates == ASSUME TypeOK PROVE Candidates(Client)
  BY DEF TypeOK, Candidates, MaybeClient

\* Placing a screen keeps the type of the configuration, and adds no alias.
LEMMA AccommodatingTypes ==
    ASSUME TypeOK, NEW c \in Proxy, NEW conf \in Accommodating(c)
    PROVE  /\ conf \in [canon : [Name -> Name \cup {NoName}], links : SUBSET Link]
           /\ Unaliased(config.canon) => Unaliased(conf.canon)
<1>1. CASE conf = config
  BY <1>1 DEF TypeOK
<1>2. CASE conf \in AutoPlaced(NameOf[c])
  <2>1. PICK anchor \in Name, dir \in Direction : conf = placed(NameOf[c], anchor, dir)
    BY <1>2 DEF AutoPlaced, FirstFree, FreeEdges
  <2>2. NameOf[c] \in Name /\ Opposite(dir) \in Direction
    BY PrimaryIsClient, ClientAssumption DEF Opposite, Direction
  <2>3. /\ [config.canon EXCEPT ![NameOf[c]] = NameOf[c]] \in [Name -> Name \cup {NoName}]
        /\ config.canon[anchor] \in Name \cup {NoName}
    BY <2>2 DEF TypeOK
  <2>4. ASSUME NEW links \in SUBSET Link, NEW src \in Name \cup {NoName},
               NEW d \in Direction, NEW dst \in Name
        PROVE  Linked(links, src, d, dst) \in SUBSET Link
    BY <2>4 DEF Linked, Link
  <2>5. config.links \in SUBSET Link
    BY DEF TypeOK
  <2>6. conf.links \in SUBSET Link
    <3>1. Linked(config.links, config.canon[anchor], dir, NameOf[c]) \in SUBSET Link
      BY <2>2, <2>3, <2>4, <2>5
    <3>2. QED
      BY <2>1, <2>2, <2>4, <3>1 DEF placed
  <2>7. conf \in [canon : [Name -> Name \cup {NoName}], links : SUBSET Link]
    BY <2>1, <2>3, <2>6 DEF placed
  <2>8. Unaliased(config.canon) => Unaliased(conf.canon)
    BY <2>1, <2>2 DEF placed, Unaliased, TypeOK
  <2>9. QED
    BY <2>7, <2>8
<1>3. QED
  BY <1>1, <1>2 DEF Accommodating

LEMMA TypeNext == TypeInv /\ [Next]_vars => TypeInv'
<1> SUFFICES ASSUME TypeInv, [Next]_vars PROVE TypeInv'
  OBVIOUS
<1>0. TypeOK /\ Aims(pending, Client) /\ pending \in Pending
  BY DEF TypeInv, TypeOK
<1>1. ASSUME NEW c \in Proxy, RefuseClient(c) PROVE TypeInv'
  <2>1. removeClients({c}) /\ forceLeaveClients({c})
    BY <1>1 DEF RefuseClient, closeClients
  <2>2. config' \in [canon : [Name -> Name \cup {NoName}], links : SUBSET Link]
    BY <1>0, <1>1, AccommodatingTypes DEF RefuseClient, TypeOK
  <2>3. QED
    BY <1>0, <1>1, <2>1, <2>2, RemovalTypes
    DEF RefuseClient, closeClients, TypeInv, TypeOK
<1>2. ASSUME NEW c \in Proxy, AdoptClient(c) PROVE TypeInv'
  <2>1. c \in Client
    BY PrimaryIsClient
  <2>2. config' \in [canon : [Name -> Name \cup {NoName}], links : SUBSET Link]
    BY <1>0, <1>2, AccommodatingTypes DEF AdoptClient
  <2>3. /\ clients' \in [Name -> MaybeClient] /\ jumpPos' \in [Client -> MaybeClient]
        /\ clientSet' \subseteq Client /\ saverTold' \subseteq Proxy
    BY <1>0, <1>2, <2>1 DEF AdoptClient, TypeOK, MaybeClient
  <2>4. QED
    BY <1>0, <1>2, <2>2, <2>3 DEF AdoptClient, TypeInv, TypeOK, switchVars
<1>3. ASSUME NEW c \in Proxy, ClientDisconnected(c) PROVE TypeInv'
  <2>1. CASE c \in clientSet \ {Primary} /\ removeClients({c}) /\ forceLeaveClients({c})
             /\ pending' = pendingWithout({c}) /\ pos' = posWithout({c})
             /\ UNCHANGED oldClients
    BY <1>0, <1>3, <2>1, RemovalTypes DEF ClientDisconnected, TypeInv, TypeOK, confVars
  <2>2. CASE oldClients' = oldClients \ {c}
             /\ UNCHANGED <<clients, clientSet, activeSaver, saverTold, switchVars>>
    BY <1>0, <1>3, <2>2 DEF ClientDisconnected, TypeInv, TypeOK, confVars, switchVars
  <2>3. QED
    BY <1>3, <2>1, <2>2 DEF ClientDisconnected
<1>4. ASSUME NEW c \in Proxy, ClientCloseTimeout(c) PROVE TypeInv'
  BY <1>0, <1>4 DEF ClientCloseTimeout, TypeInv, TypeOK, confVars, saverVars, switchVars
<1>5. CASE Disconnect
  <2> DEFINE R == {clients[n] : n \in Name} \ {Primary, NoScreen}
  <2>1. R \subseteq Proxy
    BY <1>0 DEF TypeOK, MaybeClient, Client
  <2>2. closeClients(R) /\ pending' = pendingWithout(R) /\ pos' = posWithout(R)
        /\ UNCHANGED <<confVars, jumpPos, locked, saverOn>>
    BY <1>5 DEF Disconnect
  <2> HIDE DEF R
  <2>3. QED
    BY <1>0, <2>1, <2>2, RemovalTypes DEF closeClients, TypeInv, TypeOK, confVars
<1>6. ASSUME NEW f \in Files, ReloadConfig(f) PROVE TypeInv'
  <2>1. /\ config' \in [canon : [Name -> Name \cup {NoName}], links : SUBSET Link]
        /\ UNCHANGED <<jumpPos, locked, saverOn>>
    BY <1>6, FileTypes DEF ReloadConfig
  <2>2. CASE UNCHANGED <<opts, listVars, activeSaver, saverTold, switchVars>>
    BY <1>0, <2>1, <2>2 DEF TypeInv, TypeOK, listVars, switchVars
  <2>3. CASE isScreen(f, NameOf[Primary])
    <3> DEFINE R == {clients[n] : n \in {m \in Name : ~isCanonicalName(f, m)}}
                       \ {Primary, NoScreen}
               p == pendingWithout(R)
               noWait == "wait" \in DOMAIN f.opts
               noTap == "twoTap" \in DOMAIN f.opts
    <3>1. /\ closeClients(R)
          /\ opts' = [o \in OptionName |-> IF o \in DOMAIN f.opts THEN f.opts[o] ELSE opts[o]]
          /\ pending' = [p EXCEPT !.wait = IF noWait THEN NoScreen ELSE @,
                                  !.tap = IF noTap THEN "off" ELSE @]
          /\ pos' = IF opts["relative"] /\ ~opts'["relative"] /\ active' # Primary
                    THEN active' ELSE posWithout(R)
      BY <1>6, <2>3 DEF ReloadConfig
    <3>2. R \subseteq Proxy
      BY <1>0 DEF TypeOK, MaybeClient, Client
    <3>3. opts' \in [OptionName -> BOOLEAN]
      BY <1>0, <3>1, FileTypes DEF TypeOK
    <3> HIDE DEF R
    <3>4. removeClients(R) /\ forceLeaveClients(R) /\ oldClients' \subseteq Proxy
      BY <1>0, <3>1, <3>2 DEF closeClients, TypeOK
    <3>5. p \in Pending /\ Aims(p, Client)
      BY <1>0, <3>4, RemovalTypes
    <3>6. pos' \in MaybeClient
      <4>1. active' \in MaybeClient /\ posWithout(R) \in MaybeClient
        BY <1>0, <3>4, RemovalTypes DEF MaybeClient
      <4>2. QED
        BY <3>1, <4>1
    <3>7. pending' \in Pending /\ Aims(pending', Client)
      BY <3>1, <3>5, StoppedOutcome
    <3>8. QED
      BY <1>0, <2>1, <3>3, <3>4, <3>6, <3>7, RemovalTypes DEF TypeInv, TypeOK
  <2>4. QED
    BY <1>6, <2>2, <2>3 DEF ReloadConfig
<1>7. ASSUME NEW links \in Arrangements, ApplyLayout(links) PROVE TypeInv'
  <2>1. config' \in [canon : [Name -> Name \cup {NoName}], links : SUBSET Link]
    BY <1>0, <1>7, ArrangementsAssumption DEF ApplyLayout, TypeOK
  <2>2. pending' \in Pending /\ Aims(pending', Client)
    BY <1>0, <1>7, NoSwitchOutcome DEF ApplyLayout
  <2>3. QED
    BY <1>0, <1>7, <2>1, <2>2 DEF ApplyLayout, TypeInv, TypeOK, listVars, saverVars
<1>8. ASSUME NEW c \in Client, ShapeChanged(c) PROVE TypeInv'
  <2>1. jumpPos' \in [Client -> MaybeClient]
        /\ UNCHANGED <<confVars, listVars, saverVars, locked>>
    BY <1>0, <1>8 DEF ShapeChanged, TypeOK, MaybeClient
  <2>2. CASE onMouseMovePrimary \/ onMouseMoveSecondary
    BY <1>0, <2>1, <2>2, ClientsAreCandidates, MotionMoves, MovedTypes DEF TypeOK, saverVars
  <2>3. CASE pos' = (IF c = active THEN c ELSE pos) /\ UNCHANGED <<active, pending, entered>>
    BY <1>0, <2>1, <2>3
    DEF TypeInv, TypeOK, MaybeClient, confVars, listVars, saverVars
  <2>4. QED
    BY <1>8, <2>2, <2>3 DEF ShapeChanged
<1>9. ASSUME NEW c \in Client, JumpToScreen(c) PROVE TypeInv'
  <2>1. jumpPos' \in [Client -> MaybeClient]
    BY <1>0, <1>9 DEF JumpToScreen, TypeOK
  <2>2. Moved(Client)
    BY <1>0, <1>9, <2>1, SwitchMoves DEF JumpToScreen
  <2>3. QED
    BY <1>0, <1>9, <2>1, <2>2, MovedTypes DEF JumpToScreen, TypeOK, saverVars
<1>10. CASE MotionOnPrimary
  BY <1>0, <1>10, ClientsAreCandidates, MotionMoves, MovedTypes
  DEF MotionOnPrimary, TypeOK, saverVars
<1>11. CASE MotionOnSecondary
  BY <1>0, <1>11, ClientsAreCandidates, MotionMoves, MovedTypes
  DEF MotionOnSecondary, TypeOK, saverVars
<1>12. CASE SwitchWaitTimeout
  <2>1. Moved(Client)
    <3>1. CASE pending' = stopSwitch(pending) /\ UNCHANGED <<active, pos, entered>>
      BY <1>0, <3>1, NoSwitchOutcome DEF Moved, TypeOK
    <3>2. CASE switchScreen(pending.screen, pending.wait, pending)
      <4>1. pending.screen \in Client /\ pending.wait \in MaybeClient
        BY <1>0, <1>12 DEF SwitchWaitTimeout, Aims, Idle, Pending, MaybeClient
      <4>2. QED
        BY <1>0, <3>2, <4>1, SwitchMoves
    <3>3. QED
      BY <1>12, <3>1, <3>2 DEF SwitchWaitTimeout
  <2>2. QED
    BY <1>0, <1>12, <2>1, MovedTypes DEF SwitchWaitTimeout, TypeOK, saverVars
<1>13. CASE LockCursorToScreen
  <2>1. pos' \in MaybeClient
    BY <1>0, <1>13 DEF LockCursorToScreen, stopRelativeMoves, TypeOK, MaybeClient
  <2>2. QED
    BY <1>0, <1>13, <2>1
    DEF LockCursorToScreen, TypeInv, TypeOK, confVars, listVars, saverVars
<1>14. CASE EmergencyReturn
  <2>1. stopSwitch(pending) \in Pending /\ Aims(stopSwitch(pending), Client)
    BY <1>0, NoSwitchOutcome
  <2>2. Moved(Client)
    BY <1>0, <1>14, <2>1, PrimaryIsClient, SwitchMoves DEF EmergencyReturn, MaybeClient
  <2>3. QED
    BY <1>0, <1>14, <2>2, MovedTypes DEF EmergencyReturn, TypeOK, saverVars
<1>15. CASE ScreensaverActivated
  <2>1. Moved(Client)
    <3>1. CASE switchScreen(Primary, Primary, pending)
      BY <1>0, <3>1, PrimaryIsClient, SwitchMoves DEF MaybeClient
    <3>2. CASE UNCHANGED switchVars
      BY <1>0, <3>2 DEF switchVars, Moved, TypeOK
    <3>3. QED
      BY <1>15, <3>1, <3>2 DEF ScreensaverActivated
  <2>2. activeSaver' \in MaybeClient /\ saverTold' \subseteq Proxy
    BY <1>0, <1>15 DEF ScreensaverActivated, Told, TypeOK, MaybeClient, Client
  <2>3. QED
    BY <1>0, <1>15, <2>1, <2>2, MovedTypes DEF ScreensaverActivated, TypeOK
<1>16. CASE ScreensaverDeactivated
  <2>1. Moved(Client)
    <3>1. CASE activeSaver # NoScreen /\ switchScreen(activeSaver, activeSaver, pending)
      <4>1. activeSaver \in Client /\ activeSaver \in MaybeClient
        BY <1>0, <3>1 DEF TypeOK, MaybeClient
      <4>2. QED
        BY <1>0, <3>1, <4>1, SwitchMoves
    <3>2. CASE UNCHANGED switchVars
      BY <1>0, <3>2 DEF switchVars, Moved, TypeOK
    <3>3. QED
      BY <1>16, <3>1, <3>2 DEF ScreensaverDeactivated
  <2>2. activeSaver' \in MaybeClient /\ saverTold' \subseteq Proxy
    BY <1>0, <1>16 DEF ScreensaverDeactivated, TypeOK, MaybeClient
  <2>3. QED
    BY <1>0, <1>16, <2>1, <2>2, MovedTypes DEF ScreensaverDeactivated, TypeOK
<1>17. CASE Crash
  BY <1>17, TypeCrash
<1>18. CASE UNCHANGED vars
  BY <1>0, <1>18 DEF vars, TypeInv, TypeOK
<1>19. QED
  BY <1>1, <1>2, <1>3, <1>4, <1>5, <1>6, <1>7, <1>8, <1>9, <1>10, <1>11, <1>12,
     <1>13, <1>14, <1>15, <1>16, <1>17, <1>18 DEF Next

\* Type correctness: whatever happens, every variable keeps its type, and a switch
\* that aims at no screen has neither the delay timer nor the double tap running.
THEOREM TypeCorrect == Spec => []TypeOK
<1>1. Spec => []TypeInv
  BY TypeInit, TypeNext, PTL DEF Spec
<1>2. TypeInv => TypeOK
  BY DEF TypeInv
<1>3. QED
  BY <1>1, <1>2, PTL

-----------------------------------------------------------------------------
(***************************************************************************)
(* The lists of clients, the target of the pending switch and the screen    *)
(* the pointer is on, as long as no configuration has aliases: then the name *)
(* a client is filed under is the one it announced, in every configuration. *)
(***************************************************************************)
LEMMA FiledUnderOwnName ==
    ASSUME NEW conf, Unaliased(conf.canon), NEW c \in Client
    PROVE  NameIn(conf, c) = NameOf[c]
<1>1. NameOf[c] \in Name
  BY ClientAssumption
<1>2. QED
  BY <1>1 DEF Unaliased, NameIn

\* ListsAgree with the names the clients announced.
Filed(cs, S, O) ==
    /\ \A n \in Name : cs[n] # NoScreen => cs[n] \in S /\ NameOf[cs[n]] = n
    /\ \A c \in S : cs[NameOf[c]] = c
    /\ S \cap O = {}
    /\ Primary \in S

SafeInv ==
    /\ TypeInv
    /\ Unaliased(config.canon)
    /\ Filed(clients, clientSet, oldClients)
    /\ Aims(pending, clientSet)

\* The pointer while the screen saver is out of the way or holds it.
CalmInv == ActiveConnected /\ OnlyActiveEntered /\ SaverTargetConnected /\ SaverHoldsPointer

\* A connected screen that has the pointer keeps it or yields to a connected one.
PointerKept == activeSaver = NoScreen /\ ActiveConnected => ActiveConnected'

SafeStep ==
    /\ SafeInv'
    /\ PointerKept
    /\ CalmInv /\ SaverHoldsPointer' => CalmInv'

\* A handler that leaves the lists alone and moves the pointer among the connected
\* screens, or not at all.
LEMMA KeptStep ==
    ASSUME SafeInv, TypeInv', Unaliased(config'.canon), Moved(clientSet), UNCHANGED listVars,
           activeSaver' \in {activeSaver, active, NoScreen}
    PROVE  SafeStep
<1>1. SafeInv'
  BY DEF SafeInv, Moved, listVars
<1>2. PointerKept
  BY DEF PointerKept, ActiveConnected, Moved, listVars
<1>3. CalmInv /\ SaverHoldsPointer' => CalmInv'
  BY DEF CalmInv, ActiveConnected, OnlyActiveEntered, SaverTargetConnected, Moved, listVars
<1>4. QED
  BY <1>1, <1>2, <1>3 DEF SafeStep

\* A handler that takes the clients of R off the lists.
LEMMA RemovalStep ==
    ASSUME SafeInv, TypeInv', Unaliased(config'.canon), NEW R, R \subseteq Proxy,
           removeClients(R), forceLeaveClients(R),
           oldClients' \subseteq oldClients \cup R,
           Aims(pendingWithout(R), clientSet \ R) => Aims(pending', clientSet \ R)
    PROVE  SafeStep
<1>1. Primary \notin R
  BY ClientAssumption
<1>2. Filed(clients', clientSet', oldClients')
  <2>1. /\ clientSet' = clientSet \ R
        /\ \A n \in Name : clients'[n] = IF \E c \in R \cap clientSet : NameOf[c] = n
                                         THEN NoScreen ELSE clients[n]
    <3>1. \A c \in clientSet : NameIn(config', c) = NameOf[c]
      BY FiledUnderOwnName DEF SafeInv, TypeInv, TypeOK
    <3>2. QED
      BY <3>1 DEF removeClients
  <2>2. \A c \in clientSet : NameOf[c] \in Name /\ c # NoScreen
    BY ClientAssumption DEF SafeInv, TypeInv, TypeOK
  <2>3. \A n \in Name : clients'[n] # NoScreen =>
            clients'[n] \in clientSet' /\ NameOf[clients'[n]] = n
    <3> SUFFICES ASSUME NEW n \in Name, clients'[n] # NoScreen
                 PROVE  clients'[n] \in clientSet' /\ NameOf[clients'[n]] = n
      OBVIOUS
    <3>1. clients'[n] = clients[n] /\ ~\E c \in R \cap clientSet : NameOf[c] = n
      BY <2>1
    <3>2. clients[n] \in clientSet /\ NameOf[clients[n]] = n
      BY <3>1 DEF SafeInv, Filed
    <3>3. QED
      BY <2>1, <3>1, <3>2
  <2>4. \A c \in clientSet' : clients'[NameOf[c]] = c
    <3> SUFFICES ASSUME NEW c \in clientSet' PROVE clients'[NameOf[c]] = c
      OBVIOUS
    <3>1. c \in clientSet /\ c \notin R /\ clients[NameOf[c]] = c
      BY <2>1 DEF SafeInv, Filed
    <3>2. ~\E d \in R \cap clientSet : NameOf[d] = NameOf[c]
      BY <3>1 DEF SafeInv, Filed
    <3>3. QED
      BY <2>1, <2>2, <3>1, <3>2
  <2>5. clientSet' \cap oldClients' = {} /\ Primary \in clientSet'
    BY <1>1, <2>1 DEF SafeInv, Filed
  <2>6. QED
    BY <2>3, <2>4, <2>5 DEF Filed
<1>3. clientSet' = clientSet \ R
  BY DEF removeClients
<1>4. Aims(pendingWithout(R), clientSet \ R)
  <2>1. Aims(pending, clientSet)
    BY DEF SafeInv
  <2>2. CASE pending.screen \in R
    BY <2>2, IdleAims DEF pendingWithout
  <2>3. CASE pending.screen \notin R
    BY <2>1, <2>3 DEF pendingWithout, Aims
  <2>4. QED
    BY <2>2, <2>3
<1>5. SafeInv'
  BY <1>2, <1>3, <1>4 DEF SafeInv
<1>6. Primary \in clientSet \ R
  BY <1>1 DEF SafeInv, Filed
<1>7. PointerKept
  BY <1>3, <1>6 DEF PointerKept, ActiveConnected, forceLeaveClients, holder
<1>8. CalmInv /\ SaverHoldsPointer' => CalmInv'
  <2> SUFFICES ASSUME CalmInv, SaverHoldsPointer' PROVE CalmInv'
    OBVIOUS
  <2>1. /\ active \in clientSet /\ entered = {active}
        /\ activeSaver \in clientSet \cup {NoScreen}
        /\ activeSaver # NoScreen => active = Primary
    BY DEF CalmInv, ActiveConnected, OnlyActiveEntered, SaverTargetConnected, SaverHoldsPointer
  <2>2. /\ active' \in clientSet'
        /\ activeSaver' \in clientSet' \cup {NoScreen}
    BY <1>3, <1>6, <2>1 DEF forceLeaveClients, holder
  <2>3. entered' = {active'}
    BY <1>1, <2>1 DEF forceLeaveClients, holder
  <2>4. QED
    BY <2>2, <2>3 DEF CalmInv, ActiveConnected, OnlyActiveEntered, SaverTargetConnected
<1>9. QED
  BY <1>5, <1>7, <1>8 DEF SafeStep

\* The constructor's state.
LEMMA ConstructedFiled ==
    ASSUME NEW f \in Files, Unaliased(f.canon)
    PROVE  Filed([n \in Name |-> IF n = NameIn(f, Primary) THEN Primary ELSE NoScreen],
                 {Primary}, {})
<1>1. NameIn(f, Primary) = NameOf[Primary] /\ NameOf[Primary] \in Name
  BY FiledUnderOwnName, PrimaryIsClient, ClientAssumption
<1>2. QED
  BY <1>1 DEF Filed

LEMMA SafeInit ==
    ASSUME \A f \in Files : Unaliased(f.canon), Init
    PROVE  SafeInv /\ CalmInv
<1>1. PICK f \in Files :
          /\ config = [canon |-> f.canon, links |-> f.links]
          /\ clients = [n \in Name |-> IF n = NameIn(f, Primary) THEN Primary ELSE NoScreen]
  BY DEF Init
<1>2. Filed(clients, clientSet, oldClients)
  BY <1>1, ConstructedFiled DEF Init
<1>3. SafeInv
  BY <1>1, <1>2, TypeInit, IdleAims DEF Init, SafeInv
<1>4. CalmInv
  BY DEF Init, CalmInv, ActiveConnected, OnlyActiveEntered, SaverTargetConnected,
         SaverHoldsPointer
<1>5. QED
  BY <1>3, <1>4

LEMMA SafeCrash ==
    ASSUME \A f \in Files : Unaliased(f.canon), Crash
    PROVE  SafeStep
<1>1. PICK f \in Files :
          /\ config' = [canon |-> f.canon, links |-> f.links]
          /\ clients' = [n \in Name |-> IF n = NameIn(f, Primary) THEN Primary ELSE NoScreen]
  BY DEF Crash
<1>2. Filed(clients', clientSet', oldClients')
  BY <1>1, ConstructedFiled DEF Crash
<1>3. SafeInv'
  BY <1>1, <1>2, TypeCrash, IdleAims DEF Crash, SafeInv
<1>4. PointerKept /\ CalmInv'
  BY DEF Crash, PointerKept, CalmInv, ActiveConnected, OnlyActiveEntered,
         SaverTargetConnected, SaverHoldsPointer
<1>5. QED
  BY <1>3, <1>4 DEF SafeStep

LEMMA SafeNext ==
    ASSUME \A f \in Files : Unaliased(f.canon), SafeInv, [Next]_vars
    PROVE  SafeStep
<1>0. /\ TypeInv /\ TypeOK /\ TypeInv' /\ TypeOK'
      /\ Unaliased(config.canon) /\ Filed(clients, clientSet, oldClients)
      /\ Aims(pending, clientSet) /\ pending \in Pending
      /\ clientSet \subseteq Client
  BY TypeNext DEF SafeInv, TypeInv, TypeOK
<1>a. Candidates(clientSet)
  BY <1>0 DEF Candidates, Filed
<1>1. ASSUME NEW c \in Proxy, RefuseClient(c) PROVE SafeStep
  <2>1. /\ removeClients({c}) /\ forceLeaveClients({c})
        /\ oldClients' = oldClients \cup {c}
        /\ pending' = pendingWithout({c})
    BY <1>1 DEF RefuseClient, closeClients
  <2>2. Unaliased(config'.canon)
    BY <1>0, <1>1, AccommodatingTypes DEF RefuseClient
  <2>3. QED
    BY <1>0, <2>1, <2>2, RemovalStep
<1>2. ASSUME NEW c \in Proxy, AdoptClient(c) PROVE SafeStep
  <2>1. c \in Client /\ c # NoScreen /\ c \notin Live /\ NameOf[c] \in Name
    BY <1>2, PrimaryIsClient, ClientAssumption DEF AdoptClient
  <2>2. Unaliased(config'.canon)
    BY <1>0, <1>2, AccommodatingTypes DEF AdoptClient
  <2>3. /\ clients[NameOf[c]] = NoScreen
        /\ clients' = [clients EXCEPT ![NameOf[c]] = c]
        /\ clientSet' = clientSet \cup {c}
        /\ UNCHANGED <<oldClients, activeSaver, active, pending, entered>>
    BY <1>2, <2>1, <2>2, FiledUnderOwnName DEF AdoptClient, switchVars
  <2>4. Filed(clients', clientSet', oldClients')
    <3>1. \A n \in Name : clients'[n] = IF n = NameOf[c] THEN c ELSE clients[n]
      BY <1>0, <2>3 DEF TypeOK
    <3>2. \A n \in Name : clients'[n] # NoScreen =>
              clients'[n] \in clientSet' /\ NameOf[clients'[n]] = n
      BY <1>0, <2>3, <3>1 DEF Filed
    <3>3. \A d \in clientSet' : clients'[NameOf[d]] = d
      <4> SUFFICES ASSUME NEW d \in clientSet' PROVE clients'[NameOf[d]] = d
        OBVIOUS
      <4>1. CASE d = c
        BY <2>1, <3>1, <4>1
      <4>2. CASE d # c
        <5>1. d \in clientSet /\ clients[NameOf[d]] = d /\ NameOf[d] \in Name
          BY <1>0, <2>3, <4>2, ClientAssumption DEF Filed
        <5>2. d # NoScreen
          BY <1>0, <5>1, PrimaryIsClient
        <5>3. NameOf[d] # NameOf[c]
          BY <2>3, <5>1, <5>2
        <5>4. QED
          BY <3>1, <5>1, <5>3
      <4>3. QED
        BY <4>1, <4>2
    <3>4. clientSet' \cap oldClients' = {} /\ Primary \in clientSet'
      BY <1>0, <2>1, <2>3 DEF Filed, Live
    <3>5. QED
      BY <3>2, <3>3, <3>4 DEF Filed
  <2>5. Aims(pending', clientSet')
    BY <1>0, <2>3 DEF Aims
  <2>6. SafeInv'
    BY <1>0, <2>2, <2>4, <2>5 DEF SafeInv
  <2>7. PointerKept /\ (CalmInv => CalmInv')
    BY <2>3 DEF PointerKept, CalmInv, ActiveConnected, OnlyActiveEntered,
                SaverTargetConnected, SaverHoldsPointer
  <2>8. QED
    BY <2>6, <2>7 DEF SafeStep
<1>3. ASSUME NEW c \in Proxy, ClientDisconnected(c) PROVE SafeStep
  <2>1. config' = config
    BY <1>3 DEF ClientDisconnected, confVars
  <2>2. CASE /\ removeClients({c}) /\ forceLeaveClients({c})
             /\ pending' = pendingWithout({c}) /\ UNCHANGED oldClients
    BY <1>0, <2>1, <2>2, RemovalStep
  <2>3. CASE /\ oldClients' = oldClients \ {c}
             /\ UNCHANGED <<clients, clientSet, activeSaver, saverTold, switchVars>>
    <3>1. SafeInv'
      BY <1>0, <2>1, <2>3 DEF SafeInv, Filed, switchVars
    <3>2. PointerKept /\ (CalmInv => CalmInv')
      BY <2>3 DEF PointerKept, CalmInv, ActiveConnected, OnlyActiveEntered,
                  SaverTargetConnected, SaverHoldsPointer, switchVars
    <3>3. QED
      BY <3>1, <3>2 DEF SafeStep
  <2>4. QED
    BY <1>3, <2>2, <2>3 DEF ClientDisconnected
<1>4. ASSUME NEW c \in Proxy, ClientCloseTimeout(c) PROVE SafeStep
  <2>1. SafeInv'
    BY <1>0, <1>4 DEF ClientCloseTimeout, SafeInv, Filed, confVars, switchVars
  <2>2. PointerKept /\ (CalmInv => CalmInv')
    BY <1>4 DEF ClientCloseTimeout, PointerKept, CalmInv, ActiveConnected,
                OnlyActiveEntered, SaverTargetConnected, SaverHoldsPointer, switchVars, saverVars
  <2>3. QED
    BY <2>1, <2>2 DEF SafeStep
<1>5. CASE Disconnect
  <2> DEFINE R == {clients[n] : n \in Name} \ {Primary, NoScreen}
  <2>1. R \subseteq Proxy
    BY <1>0 DEF TypeOK, MaybeClient, Client
  <2>2. /\ removeClients(R) /\ forceLeaveClients(R)
        /\ oldClients' = oldClients \cup R
        /\ pending' = pendingWithout(R) /\ config' = config
    BY <1>5 DEF Disconnect, closeClients, confVars
  <2> HIDE DEF R
  <2>3. QED
    BY <1>0, <2>1, <2>2, RemovalStep
<1>6. ASSUME NEW f \in Files, ReloadConfig(f) PROVE SafeStep
  <2>1. Unaliased(config'.canon)
    BY <1>6 DEF ReloadConfig
  <2>2. CASE UNCHANGED <<opts, listVars, activeSaver, saverTold, switchVars>>
    <3>1. Moved(clientSet)
      BY <1>0, <2>2 DEF Moved, TypeOK, switchVars
    <3>2. QED
      BY <1>0, <2>1, <2>2, <3>1, KeptStep
  <2>3. CASE isScreen(f, NameOf[Primary])
    <3> DEFINE R == {clients[n] : n \in {m \in Name : ~isCanonicalName(f, m)}}
                       \ {Primary, NoScreen}
               p == pendingWithout(R)
               noWait == "wait" \in DOMAIN f.opts
               noTap == "twoTap" \in DOMAIN f.opts
    <3>1. /\ closeClients(R)
          /\ pending' = [p EXCEPT !.wait = IF noWait THEN NoScreen ELSE @,
                                  !.tap = IF noTap THEN "off" ELSE @]
      BY <1>6, <2>3 DEF ReloadConfig
    <3>2. R \subseteq Proxy
      BY <1>0 DEF TypeOK, MaybeClient, Client
    <3> HIDE DEF R
    <3>3. removeClients(R) /\ forceLeaveClients(R) /\ oldClients' = oldClients \cup R
      BY <3>1 DEF closeClients
    <3>4. p \in Pending
      BY <1>0, <3>3, RemovalTypes
    <3>5. Aims(p, clientSet \ R) => Aims(pending', clientSet \ R)
      BY <3>1, <3>4, StoppedOutcome
    <3>6. QED
      BY <1>0, <2>1, <3>2, <3>3, <3>5, RemovalStep
  <2>4. QED
    BY <1>6, <2>2, <2>3 DEF ReloadConfig
<1>7. ASSUME NEW links \in Arrangements, ApplyLayout(links) PROVE SafeStep
  <2>1. Unaliased(config'.canon)
    BY <1>0, <1>7 DEF ApplyLayout, TypeOK
  <2>2. Moved(clientSet)
    BY <1>0, <1>7, NoSwitchOutcome DEF ApplyLayout, Moved, TypeOK
  <2>3. QED
    BY <1>0, <1>7, <2>1, <2>2, KeptStep DEF ApplyLayout, saverVars
<1>8. ASSUME NEW c \in Client, ShapeChanged(c) PROVE SafeStep
  <2>1. UNCHANGED <<confVars, listVars, saverVars, locked>>
    BY <1>8 DEF ShapeChanged
  <2>2. Moved(clientSet)
    <3>1. CASE onMouseMovePrimary \/ onMouseMoveSecondary
      BY <1>0, <1>a, <3>1, MotionMoves
    <3>2. CASE pos' = (IF c = active THEN c ELSE pos) /\ UNCHANGED <<active, pending, entered>>
      BY <1>0, <3>2 DEF Moved, TypeOK, MaybeClient
    <3>3. QED
      BY <1>8, <3>1, <3>2 DEF ShapeChanged
  <2>3. QED
    BY <1>0, <2>1, <2>2, KeptStep DEF confVars, saverVars
<1>9. ASSUME NEW c \in Client, JumpToScreen(c) PROVE SafeStep
  <2>1. c \in clientSet
    BY <1>0, <1>9 DEF JumpToScreen, Filed
  <2>2. jumpPos'[c] \in MaybeClient
    BY <1>0 DEF TypeOK
  <2>3. Moved(clientSet)
    BY <1>0, <1>9, <2>1, <2>2, SwitchMoves DEF JumpToScreen
  <2>4. QED
    BY <1>0, <1>9, <2>3, KeptStep DEF JumpToScreen, confVars, saverVars
<1>10. CASE MotionOnPrimary
  BY <1>0, <1>a, <1>10, MotionMoves, KeptStep DEF MotionOnPrimary, confVars, saverVars
<1>11. CASE MotionOnSecondary
  BY <1>0, <1>a, <1>11, MotionMoves, KeptStep DEF MotionOnSecondary, confVars, saverVars
<1>12. CASE SwitchWaitTimeout
  <2>1. Moved(clientSet)
    <3>1. CASE pending' = stopSwitch(pending) /\ UNCHANGED <<active, pos, entered>>
      BY <1>0, <3>1, NoSwitchOutcome DEF Moved, TypeOK
    <3>2. CASE switchScreen(pending.screen, pending.wait, pending)
      <4>1. pending.screen \in clientSet /\ pending.wait \in MaybeClient
        BY <1>0, <1>12 DEF SwitchWaitTimeout, Aims, Idle, Pending
      <4>2. QED
        BY <1>0, <3>2, <4>1, SwitchMoves
    <3>3. QED
      BY <1>12, <3>1, <3>2 DEF SwitchWaitTimeout
  <2>2. QED
    BY <1>0, <1>12, <2>1, KeptStep DEF SwitchWaitTimeout, confVars, saverVars
<1>13. CASE LockCursorToScreen
  <2>1. Moved(clientSet)
    BY <1>0, <1>13 DEF LockCursorToScreen, Moved, TypeOK
  <2>2. QED
    BY <1>0, <1>13, <2>1, KeptStep DEF LockCursorToScreen, confVars, saverVars
<1>14. CASE EmergencyReturn
  <2>1. stopSwitch(pending) \in Pending /\ Aims(stopSwitch(pending), clientSet)
    BY <1>0, NoSwitchOutcome
  <2>2. Primary \in clientSet /\ Primary \in MaybeClient
    BY <1>0, PrimaryIsClient DEF Filed, MaybeClient
  <2>3. Moved(clientSet)
    BY <1>0, <1>14, <2>1, <2>2, SwitchMoves DEF EmergencyReturn
  <2>4. QED
    BY <1>0, <1>14, <2>3, KeptStep DEF EmergencyReturn, confVars, saverVars
<1>15. CASE ScreensaverActivated
  <2>1. Primary \in clientSet /\ Primary \in MaybeClient
    BY <1>0, PrimaryIsClient DEF Filed, MaybeClient
  <2>2. Moved(clientSet)
    <3>1. CASE switchScreen(Primary, Primary, pending)
      BY <1>0, <2>1, <3>1, SwitchMoves
    <3>2. CASE UNCHANGED switchVars
      BY <1>0, <3>2 DEF switchVars, Moved, TypeOK
    <3>3. QED
      BY <1>15, <3>1, <3>2 DEF ScreensaverActivated
  <2>3. QED
    BY <1>0, <1>15, <2>2, KeptStep DEF ScreensaverActivated, confVars
<1>16. CASE ScreensaverDeactivated
  <2>1. activeSaver' = NoScreen /\ UNCHANGED <<confVars, listVars>>
    BY <1>16 DEF ScreensaverDeactivated
  <2>2. CASE activeSaver \in clientSet /\ switchScreen(activeSaver, activeSaver, pending)
    <3>1. Moved(clientSet)
      BY <1>0, <2>2, SwitchMoves DEF MaybeClient
    <3>2. QED
      BY <1>0, <2>1, <3>1, KeptStep DEF confVars
  <2>3. CASE /\ activeSaver \notin clientSet \cup {NoScreen}
             /\ switchScreen(activeSaver, activeSaver, pending)
    <3>1. Aims(pending', clientSet)
      BY <1>0, <2>3, NoSwitchOutcome DEF switchScreen
    <3>2. SafeInv'
      BY <1>0, <2>1, <3>1 DEF SafeInv, confVars, listVars
    <3>3. PointerKept /\ ~CalmInv
      BY <2>3 DEF PointerKept, CalmInv, SaverTargetConnected
    <3>4. QED
      BY <3>2, <3>3 DEF SafeStep
  <2>4. CASE UNCHANGED switchVars
    <3>1. Moved(clientSet)
      BY <1>0, <2>4 DEF switchVars, Moved, TypeOK
    <3>2. QED
      BY <1>0, <2>1, <3>1, KeptStep DEF confVars
  <2>5. QED
    BY <1>16, <2>2, <2>3, <2>4 DEF ScreensaverDeactivated
<1>17. CASE Crash
  BY <1>17, SafeCrash
<1>18. CASE UNCHANGED vars
  <2>1. Moved(clientSet)
    BY <1>0, <1>18 DEF vars, Moved, TypeOK
  <2>2. QED
    BY <1>0, <1>18, <2>1, KeptStep DEF vars, listVars
<1>19. QED
  BY <1>1, <1>2, <1>3, <1>4, <1>5, <1>6, <1>7, <1>8, <1>9, <1>10, <1>11, <1>12,
     <1>13, <1>14, <1>15, <1>16, <1>17, <1>18 DEF Next

-----------------------------------------------------------------------------
(***************************************************************************)
(* Theorems.                                                                *)
(***************************************************************************)

LEMMA SafeAlways ==
    ASSUME \A f \in Files : Unaliased(f.canon)
    PROVE  Spec => []SafeInv
<1>1. Init => SafeInv
  BY SafeInit
<1>2. SafeInv /\ [Next]_vars => SafeInv'
  BY SafeNext DEF SafeStep
<1>3. QED
  BY <1>1, <1>2, PTL DEF Spec

\* Without aliases, m_clients and m_clientSet always hold the same clients, each
\* under its own name, and never one that is being hung up on.
THEOREM ListsAlwaysAgree ==
    ASSUME \A f \in Files : Unaliased(f.canon)
    PROVE  Spec => []ListsAgree
<1>1. Spec => []SafeInv
  BY SafeAlways
<1>2. SafeInv => ListsAgree
  <2> SUFFICES ASSUME SafeInv PROVE ListsAgree
    OBVIOUS
  <2>1. \A c \in clientSet : getName(c) = NameOf[c] /\ NameOf[c] \in Name
    BY FiledUnderOwnName, ClientAssumption DEF SafeInv, TypeInv, TypeOK, getName
  <2>2. QED
    BY <2>1 DEF SafeInv, Filed, ListsAgree
<1>3. QED
  BY <1>1, <1>2, PTL

\* Without aliases, a pending switch always aims at a connected client: neither the
\* delay timer nor the second tap can hand switchScreen a client that is gone.
THEOREM PendingAlwaysConnected ==
    ASSUME \A f \in Files : Unaliased(f.canon)
    PROVE  Spec => []PendingTargetConnected
<1>1. Spec => []SafeInv
  BY SafeAlways
<1>2. SafeInv => PendingTargetConnected
  BY DEF SafeInv, Aims, PendingTargetConnected
<1>3. QED
  BY <1>1, <1>2, PTL

\* Without aliases, the pointer can lose its screen only while the screen saver
\* keeps a screen to go back to.
THEOREM OrphanedOnlyBySaver ==
    ASSUME \A f \in Files : Unaliased(f.canon)
    PROVE  Spec => OrphanedOnlyDuringSaver
<1>1. Spec => []SafeInv
  BY SafeAlways
<1>2. SafeInv /\ [Next]_vars
        => [ActiveConnected /\ ~ActiveConnected' => activeSaver # NoScreen]_vars
  BY SafeNext DEF SafeStep, PointerKept
<1>3. QED
  BY <1>1, <1>2, PTL DEF Spec, OrphanedOnlyDuringSaver

\* Without aliases, and as long as the screen saver holds the pointer, the screen
\* that has the pointer is connected, is the only one that was entered, and the
\* screen to go back to is connected.
THEOREM CalmPointer ==
    ASSUME \A f \in Files : Unaliased(f.canon)
    PROVE  CalmSpec => [](ActiveConnected /\ OnlyActiveEntered /\ SaverTargetConnected)
<1>1. Init => SafeInv /\ CalmInv
  BY SafeInit
<1>2. SafeInv /\ CalmInv /\ [Next /\ SaverHoldsPointer']_vars => SafeInv' /\ CalmInv'
  <2> SUFFICES ASSUME SafeInv, CalmInv, [Next /\ SaverHoldsPointer']_vars
               PROVE  SafeInv' /\ CalmInv'
    OBVIOUS
  <2>1. SaverHoldsPointer'
    BY DEF CalmInv, SaverHoldsPointer, vars
  <2>2. QED
    BY <2>1, SafeNext DEF SafeStep
<1>3. CalmInv => ActiveConnected /\ OnlyActiveEntered /\ SaverTargetConnected
  BY DEF CalmInv
<1>4. QED
  BY <1>1, <1>2, <1>3, PTL DEF CalmSpec

\* Then only the screen that has the pointer is entered.
THEOREM CalmEntered ==
    ASSUME \A f \in Files : Unaliased(f.canon)
    PROVE  CalmSpec => []OnlyActiveEntered
<1>1. QED
  BY CalmPointer, PTL

\* Then the screen to go back to after the screen saver is connected.
THEOREM CalmSaverTarget ==
    ASSUME \A f \in Files : Unaliased(f.canon)
    PROVE  CalmSpec => []SaverTargetConnected
<1>1. QED
  BY CalmPointer, PTL

\* While the cursor is locked, no motion, no change of the primary's shape and no
\* delay timer takes the pointer to another screen.
THEOREM LockHolds == Spec => LockedPointerStays
<1> DEFINE Pointed == MotionOnPrimary \/ MotionOnSecondary \/ SwitchWaitTimeout
                         \/ ShapeChanged(Primary)
<1>1. TypeInv /\ [Next]_vars
        => [locked /\ ~opts["disableLock"] /\ Pointed => active' = active]_vars
  <2> SUFFICES ASSUME TypeInv, locked, ~opts["disableLock"], Pointed
               PROVE  active' = active
    OBVIOUS
  <2>1. TypeOK /\ Candidates(Client)
    BY ClientsAreCandidates DEF TypeInv
  <2>2. CASE onMouseMovePrimary \/ onMouseMoveSecondary
    BY <2>1, <2>2, MotionMoves DEF ServerLock
  <2>3. CASE SwitchWaitTimeout
    BY <2>3 DEF SwitchWaitTimeout, isLockedToScreen
  <2>4. QED
    BY <2>2, <2>3 DEF MotionOnPrimary, MotionOnSecondary, ShapeChanged
<1>2. Spec => []TypeInv
  BY TypeInit, TypeNext, PTL DEF Spec
<1>3. QED
  BY <1>1, <1>2, PTL DEF Spec, LockedPointerStays

\* Without aliases, and with the double tap on, a motion leaves the screen only through
\* the edge that was tapped and retreated from, for a switch to a connected client.
THEOREM DoubleTapHolds ==
    ASSUME \A f \in Files : Unaliased(f.canon)
    PROVE  Spec => DoubleTapRequired
<1> DEFINE Left == opts["twoTap"] /\ (MotionOnPrimary \/ MotionOnSecondary) /\ active' # active
<1>1. SafeInv /\ [Next]_vars
        => [Left => /\ pending.tap = "armed" /\ pending.screen \in clientSet
                    /\ active' \in mapToNeighbor(active, pending.dir)]_vars
  <2> SUFFICES ASSUME SafeInv, Left
               PROVE  Tapped(active') /\ pending.screen \in clientSet
    BY DEF Tapped
  <2>1. TypeOK /\ Candidates(clientSet) /\ Aims(pending, clientSet)
    BY DEF SafeInv, TypeInv, TypeOK, Filed, Candidates
  <2>2. Tapped(active')
    BY <2>1, MotionMoves DEF MotionOnPrimary, MotionOnSecondary
  <2>3. pending.screen \in clientSet
    BY <2>1, <2>2 DEF Tapped, Aims, Idle
  <2>4. QED
    BY <2>2, <2>3
<1>2. Spec => []SafeInv
  BY SafeAlways
<1>3. QED
  BY <1>1, <1>2, PTL DEF Spec, DoubleTapRequired

\* A saved screen means that the screen saver runs, and only connected clients are
\* remembered as told.
SaverInv == SaverToldInSync /\ (activeSaver # NoScreen => saverOn) /\ saverTold \subseteq clientSet

LEMMA SaverInit == Init => SaverInv
  BY DEF Init, SaverInv, SaverToldInSync

\* Forgetting clients, on the lists and in what they were told, keeps the rest.
LEMMA SaverRemoval ==
    ASSUME SaverInv, NEW R, clientSet' = clientSet \ R, saverTold' = saverTold \ R,
           activeSaver' \in {activeSaver, NoScreen}, UNCHANGED saverOn
    PROVE  SaverInv'
  BY DEF SaverInv, SaverToldInSync

\* Without aliases the clients m_clients names are the connected ones.
LEMMA ToldConnected == ASSUME SafeInv PROVE Told = clientSet \ {Primary}
<1>1. /\ \A n \in Name : clients[n] # NoScreen => clients[n] \in clientSet
      /\ \A c \in clientSet : NameOf[c] \in Name /\ clients[NameOf[c]] = c
      /\ NoScreen \notin clientSet
  BY ClientAssumption DEF SafeInv, TypeInv, TypeOK, Filed
<1>2. QED
  BY <1>1 DEF Told

LEMMA SaverNext == SafeInv /\ SaverInv /\ [Next]_vars => SaverInv'
<1> SUFFICES ASSUME SafeInv, SaverInv, [Next]_vars PROVE SaverInv'
  OBVIOUS
<1>1. ASSUME NEW c \in Proxy, RefuseClient(c) PROVE SaverInv'
  BY <1>1, SaverRemoval
     DEF RefuseClient, closeClients, removeClients, forceLeaveClients
<1>2. ASSUME NEW c \in Proxy, AdoptClient(c) PROVE SaverInv'
  <2>1. c # Primary
    BY ClientAssumption
  <2>2. QED
    BY <1>2, <2>1 DEF AdoptClient, SaverInv, SaverToldInSync
<1>3. ASSUME NEW c \in Proxy, ClientDisconnected(c) PROVE SaverInv'
  <2>1. CASE c \in clientSet \ {Primary} /\ removeClients({c}) /\ forceLeaveClients({c})
    BY <1>3, <2>1, SaverRemoval DEF ClientDisconnected, removeClients, forceLeaveClients
  <2>2. CASE UNCHANGED <<clients, clientSet, activeSaver, saverTold, switchVars>>
    BY <1>3, <2>2 DEF ClientDisconnected, SaverInv, SaverToldInSync
  <2>3. QED
    BY <1>3, <2>1, <2>2 DEF ClientDisconnected
<1>4. ASSUME NEW c \in Proxy, ClientCloseTimeout(c) PROVE SaverInv'
  BY <1>4 DEF ClientCloseTimeout, saverVars, SaverInv, SaverToldInSync
<1>5. CASE Disconnect
  BY <1>5, SaverRemoval DEF Disconnect, closeClients, removeClients, forceLeaveClients
<1>6. ASSUME NEW f \in Files, ReloadConfig(f) PROVE SaverInv'
  <2>1. CASE UNCHANGED <<opts, listVars, activeSaver, saverTold, switchVars>>
    BY <1>6, <2>1 DEF ReloadConfig, listVars, SaverInv, SaverToldInSync
  <2>2. CASE \E R : closeClients(R)
    BY <1>6, <2>2, SaverRemoval
       DEF ReloadConfig, closeClients, removeClients, forceLeaveClients
  <2>3. QED
    BY <1>6, <2>1, <2>2 DEF ReloadConfig
<1>7. ASSUME NEW links \in Arrangements, ApplyLayout(links) PROVE SaverInv'
  BY <1>7 DEF ApplyLayout, listVars, saverVars, SaverInv, SaverToldInSync
<1>8. ASSUME NEW c \in Client, ShapeChanged(c) \/ JumpToScreen(c) PROVE SaverInv'
  BY <1>8 DEF ShapeChanged, JumpToScreen, listVars, saverVars, SaverInv, SaverToldInSync
<1>9. CASE MotionOnPrimary \/ MotionOnSecondary \/ SwitchWaitTimeout
  BY <1>9 DEF MotionOnPrimary, MotionOnSecondary, SwitchWaitTimeout, listVars, saverVars,
              SaverInv, SaverToldInSync
<1>10. CASE LockCursorToScreen \/ EmergencyReturn
  BY <1>10 DEF LockCursorToScreen, EmergencyReturn, listVars, saverVars,
               SaverInv, SaverToldInSync
<1>11. CASE ScreensaverActivated \/ ScreensaverDeactivated
  <2>1. saverTold \subseteq Told
    BY ToldConnected, ClientAssumption DEF SaverInv, SafeInv, TypeInv, TypeOK
  <2>2. clientSet' = clientSet
    BY <1>11 DEF ScreensaverActivated, ScreensaverDeactivated, listVars
  <2>3. QED
    BY <1>11, <2>1, <2>2, ToldConnected
       DEF ScreensaverActivated, ScreensaverDeactivated, SaverInv, SaverToldInSync
<1>12. CASE Crash
  BY <1>12 DEF Crash, SaverInv, SaverToldInSync
<1>13. CASE UNCHANGED vars
  BY <1>13 DEF vars, SaverInv, SaverToldInSync
<1>14. QED
  BY <1>1, <1>2, <1>3, <1>4, <1>5, <1>6, <1>7, <1>8, <1>9, <1>10, <1>11, <1>12, <1>13
     DEF Next

\* Without aliases, while the screen saver keeps a screen to go back to, every
\* connected client was told that it runs; no client is left believing so after it
\* has ended.
THEOREM SaverToldAlways ==
    ASSUME \A f \in Files : Unaliased(f.canon)
    PROVE  Spec => []SaverToldInSync
<1>1. SaverInv => SaverToldInSync
  BY DEF SaverInv
<1>2. Spec => []SafeInv
  BY SafeAlways
<1>3. QED
  BY <1>1, <1>2, SaverInit, SaverNext, PTL DEF Spec

-----------------------------------------------------------------------------
(***************************************************************************)
(* Where the pointer arrives.                                               *)
(***************************************************************************)

\* The position is one on the active screen, and what is remembered of each screen is one on
\* that screen, or none was set yet.
PlaceInv ==
    /\ pos \in {active, NoScreen}
    /\ \A c \in Client : jumpPos[c] \in {c, NoScreen}

LEMMA PlaceInit == Init => PlaceInv
  BY DEF Init, PlaceInv

\* A motion leaves the pointer as it was, or at a position on the active screen.
LEMMA MotionPlaces ==
    ASSUME ~LeaveMayFail, onMouseMovePrimary \/ onMouseMoveSecondary
    PROVE  pos' = active' \/ UNCHANGED <<active, pos>>
<1>1. ASSUME NEW p, stay(p) PROVE pos' = active'
  BY <1>1 DEF stay
<1>2. ASSUME NEW p, NEW dst, switchScreen(dst, dst, p) PROVE pos' = active'
  BY <1>2 DEF switchScreen
<1>3. ASSUME NEW first, NEW second, meetEdges(first, second) PROVE pos' = active'
  BY <1>1, <1>2, <1>3 DEF meetEdges
<1>4. QED
  BY <1>1, <1>3 DEF onMouseMovePrimary, onMouseMoveSecondary, switchVars

\* Clients that are forced off leave the pointer on the primary.
LEMMA ForcedPlaces ==
    ASSUME PlaceInv, NEW R, forceLeaveClients(R), pos' = posWithout(R), UNCHANGED jumpPos
    PROVE  PlaceInv'
  BY DEF PlaceInv, forceLeaveClients, posWithout

LEMMA PlaceKept ==
    ASSUME PlaceInv, pos' = active' \/ UNCHANGED <<active, pos>>,
           \A c \in Client : jumpPos'[c] \in {jumpPos[c], c, NoScreen}
    PROVE  PlaceInv'
  BY DEF PlaceInv

LEMMA PlaceNext ==
    ASSUME ~LeaveMayFail, TypeOK, PlaceInv, PendingAimsAtOneScreen, [Next]_vars
    PROVE  PlaceInv'
<1>1. jumpPos \in [Client -> MaybeClient] /\ active \in Client /\ Proxy \subseteq Client /\ Primary \in Client
  BY PrimaryIsClient DEF TypeOK
<1>2. ASSUME NEW c \in Proxy, RefuseClient(c) PROVE PlaceInv'
  BY <1>2, ForcedPlaces DEF RefuseClient, closeClients
<1>3. ASSUME NEW c \in Proxy, AdoptClient(c) PROVE PlaceInv'
  BY <1>1, <1>3, PlaceKept DEF AdoptClient, switchVars
<1>4. ASSUME NEW c \in Proxy, ClientDisconnected(c) PROVE PlaceInv'
  <2>1. CASE forceLeaveClients({c}) /\ pos' = posWithout({c})
    BY <1>4, <2>1, ForcedPlaces DEF ClientDisconnected
  <2>2. CASE UNCHANGED switchVars
    BY <1>4, <2>2, PlaceKept DEF ClientDisconnected, switchVars
  <2>3. QED
    BY <1>4, <2>1, <2>2 DEF ClientDisconnected
<1>5. ASSUME NEW c \in Proxy, ClientCloseTimeout(c) PROVE PlaceInv'
  BY <1>5, PlaceKept DEF ClientCloseTimeout, switchVars
<1>6. CASE Disconnect
  BY <1>6, ForcedPlaces DEF Disconnect, closeClients
<1>7. ASSUME NEW f \in Files, ReloadConfig(f) PROVE PlaceInv'
  <2>1. CASE UNCHANGED switchVars
    BY <1>7, <2>1, PlaceKept DEF ReloadConfig, switchVars
  <2>2. CASE \E R : forceLeaveClients(R) /\ pos' = posWithout(R)
    BY <1>7, <2>2, ForcedPlaces DEF ReloadConfig
  <2>3. CASE pos' = active'
    BY <1>7, <2>3, PlaceKept DEF ReloadConfig
  <2>4. QED
    BY <1>7, <2>1, <2>2, <2>3 DEF ReloadConfig, closeClients
<1>8. ASSUME NEW l \in Arrangements, ApplyLayout(l) PROVE PlaceInv'
  BY <1>8, PlaceKept DEF ApplyLayout
<1>9. ASSUME NEW c \in Client, ShapeChanged(c) PROVE PlaceInv'
  <2>1. \A d \in Client : jumpPos'[d] \in {jumpPos[d], d}
    BY <1>1, <1>9 DEF ShapeChanged
  <2>2. pos' = active' \/ UNCHANGED <<active, pos>>
    BY <1>9, MotionPlaces DEF ShapeChanged
  <2>3. QED
    BY <2>1, <2>2, PlaceKept
<1>10. ASSUME NEW c \in Client, JumpToScreen(c) PROVE PlaceInv'
  <2>1. /\ jumpPos' = [jumpPos EXCEPT ![active] = pos]
        /\ switchScreen(c, jumpPos'[c], pending)
    BY <1>10 DEF JumpToScreen
  <2>2. \A d \in Client : jumpPos'[d] \in {d, NoScreen}
    BY <1>1, <2>1 DEF PlaceInv
  <2>3. pos' = jumpPos'[c] /\ active' = c
    BY <2>1 DEF switchScreen
  <2>4. QED
    BY <2>2, <2>3 DEF PlaceInv
<1>11. CASE MotionOnPrimary \/ MotionOnSecondary
  BY <1>11, MotionPlaces, PlaceKept DEF MotionOnPrimary, MotionOnSecondary
<1>12. ASSUME NEW dst, NEW p, switchScreen(dst, dst, p), UNCHANGED jumpPos PROVE PlaceInv'
  BY <1>12, PlaceKept DEF switchScreen
<1>13. CASE SwitchWaitTimeout
  BY <1>12, <1>13, PlaceKept DEF SwitchWaitTimeout, PendingAimsAtOneScreen
<1>14. CASE LockCursorToScreen
  BY <1>14, PlaceKept DEF LockCursorToScreen, stopRelativeMoves
<1>15. CASE EmergencyReturn
  BY <1>12, <1>15 DEF EmergencyReturn
<1>16. CASE ScreensaverActivated \/ ScreensaverDeactivated
  BY <1>12, <1>16, PlaceKept DEF ScreensaverActivated, ScreensaverDeactivated, switchVars
<1>17. CASE Crash
  BY <1>17 DEF Crash, PlaceInv
<1>18. CASE UNCHANGED vars
  BY <1>18, PlaceKept DEF vars
<1>19. QED
  BY <1>2, <1>3, <1>4, <1>5, <1>6, <1>7, <1>8, <1>9, <1>10, <1>11, <1>13, <1>14, <1>15, <1>16, <1>17, <1>18
     DEF Next

\* If the primary never refuses to be left, the pointer arrives at a position computed for the
\* screen it arrives on as long as the delay timer runs for the screen that is switched to:
\* that the two may differ is the only way in which it goes astray.
THEOREM ArrivesWhereAimed ==
    ASSUME ~LeaveMayFail PROVE Spec /\ []PendingAimsAtOneScreen => ArrivesInPlace
<1>1. TypeOK /\ PlaceInv /\ PendingAimsAtOneScreen /\ [Next]_vars => PlaceInv'
  BY PlaceNext
<1>2. PlaceInv' => [active' # active => pos' \in {active', NoScreen}]_vars
  BY DEF PlaceInv
<1>3. Spec => []TypeOK
  BY TypeCorrect
<1>4. QED
  BY PlaceInit, <1>1, <1>2, <1>3, PTL DEF Spec, ArrivesInPlace

\* Without the delay of switches no timer ever runs.
NoTimer == ~opts["wait"] /\ pending.wait = NoScreen

\* No file turns the delay on.
NoDelay == \A f \in Files : "wait" \in DOMAIN f.opts => ~f.opts["wait"]

LEMMA StoppedTimer == ASSUME NEW p, p.wait = NoScreen PROVE stopSwitch(p).wait = NoScreen
  BY DEF stopSwitch, Idle

\* A motion starts no timer.
LEMMA MotionTimers ==
    ASSUME TypeOK, NoTimer, onMouseMovePrimary \/ onMouseMoveSecondary
    PROVE  pending'.wait = NoScreen
<1>1. pending \in Pending /\ Candidates(Client) /\ NoScreen \notin Client
  BY ClientsAreCandidates, PrimaryIsClient DEF TypeOK
<1>2. ASSUME StaysOrSwitches(Client) PROVE pending'.wait = NoScreen
  <2>1. PICK p \in Pending :
            TimerFrom(p, pending) /\ (stay(p) \/ \E dst \in Client : switchScreen(dst, dst, p))
    BY <1>2 DEF StaysOrSwitches
  <2>2. p.wait = NoScreen
    BY <2>1 DEF TimerFrom, NoTimer
  <2>3. QED
    BY <2>1, <2>2, StoppedTimer DEF stay, switchScreen
<1>3. ASSUME NEW late \in BOOLEAN, NEW back \in BOOLEAN, stay(noSwitch(pending, late, back))
      PROVE  pending'.wait = NoScreen
  BY <1>1, <1>3 DEF stay, noSwitch, Pending
<1>4. ASSUME NEW first \in Direction \cup {"NoDirection"}, NEW second \in Direction \cup {"NoDirection"},
             second # "NoDirection" => first # second, meetEdges(first, second)
      PROVE  pending'.wait = NoScreen
  BY <1>1, <1>2, <1>4, MeetEdgesOutcome DEF Candidates
<1>5. CASE onMouseMovePrimary
  <2>1. ASSUME NEW dirh \in {"NoDirection", "Left", "Right"}, NEW dirv \in {"NoDirection", "Top", "Bottom"},
               meetEdges(dirh, dirv)
        PROVE  pending'.wait = NoScreen
    <3>1. /\ dirh \in Direction \cup {"NoDirection"} /\ dirv \in Direction \cup {"NoDirection"}
          /\ dirv # "NoDirection" => dirh # dirv
      BY DEF Direction
    <3>2. QED
      BY <1>4, <2>1, <3>1
  <2>2. QED
    BY <1>3, <1>5, <2>1 DEF onMouseMovePrimary
<1>6. CASE onMouseMoveSecondary
  <2>1. ASSUME stay(pending) \/ UNCHANGED switchVars PROVE pending'.wait = NoScreen
    BY <2>1 DEF stay, switchVars, NoTimer
  <2>2. ASSUME NEW d \in Direction, meetEdges(d, "NoDirection") PROVE pending'.wait = NoScreen
    BY <1>4, <2>2
  <2>3. QED
    BY <1>3, <1>6, <2>1, <2>2 DEF onMouseMoveSecondary
<1>7. QED
  BY <1>5, <1>6

LEMMA TimerInit == ASSUME NoDelay PROVE Init => NoTimer
<1> SUFFICES ASSUME Init PROVE NoTimer
  OBVIOUS
<1>1. PICK f \in Files : opts = [o \in OptionName |-> o \in DOMAIN f.opts /\ f.opts[o]]
  BY DEF Init
<1>2. ~opts["wait"]
  BY <1>1 DEF NoDelay, OptionName
<1>3. QED
  BY <1>2 DEF Init, NoTimer, Idle

LEMMA TimerNext == ASSUME NoDelay, TypeOK, NoTimer, [Next]_vars PROVE NoTimer'
<1>1. pending \in Pending /\ pending.wait = NoScreen /\ Idle.wait = NoScreen /\ ~opts["wait"]
  BY DEF TypeOK, NoTimer, Idle
<1>2. stopSwitch(pending).wait = NoScreen /\ \A R : pendingWithout(R) \in {pending, Idle}
  BY <1>1, StoppedTimer DEF pendingWithout
<1>3. ASSUME UNCHANGED opts, pending' \in {pending, Idle, stopSwitch(pending)} PROVE NoTimer'
  BY <1>1, <1>2, <1>3 DEF NoTimer
<1>4. ASSUME NEW c \in Proxy, RefuseClient(c) \/ AdoptClient(c) \/ ClientDisconnected(c) \/ ClientCloseTimeout(c)
      PROVE  NoTimer'
  BY <1>2, <1>3, <1>4 DEF RefuseClient, AdoptClient, ClientDisconnected, ClientCloseTimeout, switchVars, confVars
<1>5. CASE Disconnect
  BY <1>2, <1>3, <1>5 DEF Disconnect, confVars
<1>6. ASSUME NEW f \in Files, ReloadConfig(f) PROVE NoTimer'
  <2>1. CASE UNCHANGED <<opts, pending>>
    BY <1>3, <2>1
  <2>2. CASE \E R :
             /\ opts' = [o \in OptionName |-> IF o \in DOMAIN f.opts THEN f.opts[o] ELSE opts[o]]
             /\ pending' = [pendingWithout(R) EXCEPT
                               !.wait = IF "wait" \in DOMAIN f.opts THEN NoScreen ELSE @,
                               !.tap = IF "twoTap" \in DOMAIN f.opts THEN "off" ELSE @]
    <3>1. ~opts'["wait"]
      BY <1>1, <2>2 DEF NoDelay, OptionName
    <3>2. PICK R : pending' = [pendingWithout(R) EXCEPT
                                 !.wait = IF "wait" \in DOMAIN f.opts THEN NoScreen ELSE @,
                                 !.tap = IF "twoTap" \in DOMAIN f.opts THEN "off" ELSE @]
      BY <2>2
    <3>3. pendingWithout(R) \in Pending /\ pendingWithout(R).wait = NoScreen
      BY <1>1, <1>2 DEF Idle, Pending, MaybeClient
    <3>4. pending'.wait = NoScreen
      BY <3>2, <3>3 DEF Pending
    <3>5. QED
      BY <3>1, <3>4 DEF NoTimer
  <2>3. QED
    BY <1>6, <2>1, <2>2 DEF ReloadConfig, switchVars
<1>7. ASSUME NEW l \in Arrangements, ApplyLayout(l) PROVE NoTimer'
  BY <1>3, <1>7 DEF ApplyLayout
<1>8. ASSUME UNCHANGED opts, onMouseMovePrimary \/ onMouseMoveSecondary PROVE NoTimer'
  BY <1>1, <1>8, MotionTimers DEF NoTimer
<1>9. ASSUME NEW c \in Client, ShapeChanged(c) PROVE NoTimer'
  BY <1>3, <1>8, <1>9 DEF ShapeChanged, confVars
<1>10. ASSUME UNCHANGED opts, NEW dst, NEW space, switchScreen(dst, space, pending) PROVE NoTimer'
  BY <1>3, <1>10 DEF switchScreen
<1>11. ASSUME NEW c \in Client, JumpToScreen(c) PROVE NoTimer'
  BY <1>10, <1>11 DEF JumpToScreen, confVars
<1>12. CASE MotionOnPrimary \/ MotionOnSecondary
  BY <1>8, <1>12 DEF MotionOnPrimary, MotionOnSecondary, confVars
<1>13. CASE SwitchWaitTimeout
  BY <1>1, <1>13 DEF SwitchWaitTimeout
<1>14. CASE LockCursorToScreen
  BY <1>3, <1>14 DEF LockCursorToScreen, confVars
<1>15. CASE EmergencyReturn
  BY <1>1, <1>2, <1>15, StoppedTimer DEF EmergencyReturn, switchScreen, confVars, NoTimer
<1>16. CASE ScreensaverActivated \/ ScreensaverDeactivated
  BY <1>3, <1>10, <1>16 DEF ScreensaverActivated, ScreensaverDeactivated, switchVars, confVars
<1>17. CASE Crash
  <2>1. PICK f \in Files : opts' = [o \in OptionName |-> o \in DOMAIN f.opts /\ f.opts[o]]
    BY <1>17 DEF Crash
  <2>2. ~opts'["wait"]
    BY <2>1 DEF NoDelay, OptionName
  <2>3. QED
    BY <1>1, <1>17, <2>2 DEF Crash, NoTimer
<1>18. CASE UNCHANGED vars
  BY <1>3, <1>18 DEF vars
<1>19. QED
  BY <1>4, <1>5, <1>6, <1>7, <1>9, <1>11, <1>12, <1>13, <1>14, <1>15, <1>16, <1>17, <1>18 DEF Next

\* If the primary never refuses to be left and no file turns the delay of switches on, the
\* pointer arrives on every screen at a position computed for that screen.
THEOREM ArrivesAlways == ASSUME ~LeaveMayFail, NoDelay PROVE Spec => ArrivesInPlace
<1>1. Init => NoTimer
  BY TimerInit
<1>2. TypeOK /\ NoTimer /\ [Next]_vars => NoTimer'
  BY TimerNext
<1>3. NoTimer => PendingAimsAtOneScreen
  BY DEF NoTimer, PendingAimsAtOneScreen
<1>4. Spec => []TypeOK
  BY TypeCorrect
<1>5. Spec /\ []PendingAimsAtOneScreen => ArrivesInPlace
  BY ArrivesWhereAimed
<1>6. QED
  BY <1>1, <1>2, <1>3, <1>4, <1>5, PTL DEF Spec

===============================================================================
