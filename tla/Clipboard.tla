----------------------------- MODULE Clipboard -----------------------------
(***************************************************************************)
(* One shared clipboard: the server's cache of it, the proxies, the        *)
(* clients, the messages between them and the system clipboards of the     *)
(* screens.  The two clipboards of the protocol (ClipboardID) never meet,  *)
(* so one is modelled.  The order in which a grab, the data that follows   *)
(* it and the cursor's moves reach a place is all this module is about.    *)
(***************************************************************************)
EXTENDS Naturals, Sequences

CONSTANTS
    Clients,        \* the computers that can connect
    Primary,        \* the server's own screen
    MaxCopies,      \* bound: how often users copy something
    MaxSeq,         \* bound: how often the cursor changes screens
    Scenarios       \* what users and networks may do: see Scenario

Screens == Clients \cup {Primary}

Scenario ==
    [moves : 0 .. MaxSeq,               \* how often the cursor changes screens
     droppable : SUBSET Clients,        \* the clients whose connection may be lost
     copiers : SUBSET Screens,          \* the screens somebody copies on
     oversized : SUBSET (1 .. MaxCopies)]   \* the copies larger than the size limit

ASSUME ClipboardAssumption ==
    /\ Primary \notin Clients
    /\ MaxCopies \in Nat /\ MaxSeq \in Nat
    /\ Scenarios \subseteq Scenario

\* The n-th thing copied is n; an empty clipboard is 0.
Nothing == 0
Contents == 0 .. MaxCopies
SeqNums == 0 .. MaxSeq

VARIABLES
    server,     \* Server and its proxies: see ServerType
    events,     \* the server's event queue
    connected,  \* the clients in m_clients
    down,       \* what the server wrote to each client
    up,         \* what each client wrote to the server
    client,     \* Client and ServerProxy on each client: see ClientType
    screen,     \* the system clipboard and MSWindowsScreen on each computer
    copies,     \* how often users have copied
    scenario    \* what users and networks do in this behavior

vars == <<server, events, connected, down, up, client, screen, copies, scenario>>

Oversized == scenario.oversized

ServerType ==
    [active : Screens,          \* m_active
     seqNum : SeqNums,          \* m_seqNum
     primarySeq : SeqNums,      \* m_sequenceNumber of the primary's screen
     owner : Screens,           \* m_clipboardOwner
     clipSeq : SeqNums,         \* m_clipboardSeqNum
     cache : Contents,          \* m_clipboard
     data : Contents,           \* m_clipboardData
     dirty : [Screens -> BOOLEAN],      \* m_dirty of each proxy
     buffer : [Clients -> Contents]]    \* m_clipboard of each proxy

EventType ==
    [kind : {"grabbed", "changed"}, who : Screens, seq : SeqNums, data : {Nothing}]
        \cup [kind : {"sending"}, who : Clients, seq : {0}, data : Contents]
        \cup [kind : {"orphan"}, who : Clients, seq : {0}, data : {Nothing}]

Message == [kind : {"enter", "leave", "grab", "data"}, seq : SeqNums, data : Contents]

ClientType ==
    [seqNum : SeqNums,          \* ServerProxy::m_seqNum
     active : BOOLEAN,          \* m_active
     own : BOOLEAN,             \* m_ownClipboard
     sent : BOOLEAN,            \* m_sentClipboard
     last : Contents,           \* m_dataClipboard
     events : Seq([kind : {"grabbed", "sending"}, seq : SeqNums, data : Contents])]

ScreenType ==
    [board : Contents,          \* what the system clipboard holds
     ours : BOOLEAN,            \* isOwnedByDeskflow
     own : BOOLEAN,             \* MSWindowsScreen::m_ownClipboard
     notice : BOOLEAN]          \* a WM_CLIPBOARDUPDATE has been posted

\* Every variable has its type, and no sequence number runs ahead of the server's.
TypeOK ==
    /\ server \in ServerType
    /\ events \in Seq(EventType)
    /\ connected \subseteq Clients
    /\ down \in [Clients -> Seq(Message)]
    /\ up \in [Clients -> Seq(Message)]
    /\ client \in [Clients -> ClientType]
    /\ screen \in [Screens -> ScreenType]
    /\ copies \in 0 .. MaxCopies
    /\ scenario \in Scenarios
    /\ server.clipSeq <= server.seqNum /\ server.primarySeq <= server.seqNum
    /\ \A c \in Clients : client[c].seqNum <= server.seqNum

------------------------------------------------------------------------------
(* The server's handlers call one another.  Each is an operator on the part  *)
(* of the state the server's thread changes.                                 *)

Now == [server |-> server, events |-> events, down |-> down, screen |-> screen]

Become(w) ==
    /\ server' = w.server
    /\ events' = w.events
    /\ down' = w.down
    /\ screen' = w.screen

Event(kind, who, seq, data) == [kind |-> kind, who |-> who, seq |-> seq, data |-> data]
Msg(kind, seq, data) == [kind |-> kind, seq |-> seq, data |-> data]

Add(w, e) == [w EXCEPT !.events = Append(@, e)]
Write(w, c, m) == [w EXCEPT !.down[c] = Append(@, m)]

\* The system clipboard once this program has written d to it.
Written(scr, d) == [scr EXCEPT !.board = d, !.ours = TRUE, !.notice = TRUE]

\* A proxy queues the data for its client; the primary writes it at once.
setClipboard(w, s) ==
    IF ~w.server.dirty[s] THEN w
    ELSE LET clean == [w EXCEPT !.server.dirty[s] = FALSE]
             d == w.server.cache
         IN  IF s = Primary THEN [clean EXCEPT !.screen[s] = Written(@, d)]
             ELSE Add([clean EXCEPT !.server.buffer[s] = d], Event("sending", s, 0, d))

getClipboard(w, s) == IF s = Primary THEN w.screen[s].board ELSE w.server.buffer[s]

onClipboardChanged(w, sender, seq) ==
    LET d == getClipboard(w, sender)
        cached == [w EXCEPT !.server.cache = d]
        updated == [cached EXCEPT !.server.data = d,
                                  !.server.dirty = [s \in Screens |-> s # sender]]
    IN  IF seq < w.server.clipSeq THEN w
        ELSE IF d \in Oversized \/ d = w.server.data THEN cached
        ELSE setClipboard(updated, w.server.active)

\* Every connected screen but the grabber is told to empty its clipboard.
grabOthers(w, grabber) ==
    [w EXCEPT !.down = [c \in Clients |->
                           IF c \in connected \ {grabber} THEN Append(@[c], Msg("grab", 0, Nothing))
                           ELSE @[c]],
              !.screen[Primary] = IF grabber = Primary THEN @ ELSE Written(@, Nothing)]

\* Mutant: a grab is passed on and the owner not changed.
grabbedUnowned(w, grabber, seq) ==
    IF grabber # Primary /\ seq < w.server.clipSeq THEN w
    ELSE grabOthers([w EXCEPT !.server.clipSeq = seq,
                              !.server.cache = Nothing, !.server.data = Nothing,
                              !.server.dirty = [s \in Screens |-> s # grabber]], grabber)

onClipboardGrabbed(w, grabber, seq) ==
    LET taken == [w EXCEPT !.server.owner = grabber, !.server.clipSeq = seq,
                           !.server.cache = Nothing, !.server.data = Nothing,
                           !.server.dirty = [s \in Screens |-> s # grabber]]
        told == grabOthers(taken, grabber)
    IN  IF grabber # Primary /\ seq < w.server.clipSeq THEN w
        ELSE IF grabber = Primary /\ w.server.active # Primary
             THEN onClipboardChanged(told, Primary, seq)
        ELSE told

\* MSWindowsScreen notices that another program took the clipboard.
LostTo(scr) == scr.own /\ ~scr.ours

checkClipboards(w) ==
    IF LostTo(w.screen[Primary])
    THEN Add([w EXCEPT !.screen[Primary].own = FALSE],
             Event("grabbed", Primary, w.server.primarySeq, Nothing))
    ELSE w

leave(w) ==
    IF w.server.active # Primary THEN Write(w, w.server.active, Msg("leave", 0, Nothing))
    ELSE LET left == checkClipboards(w)
         IN  IF w.server.owner = Primary
             THEN onClipboardChanged(left, Primary, w.server.clipSeq)
             ELSE left

enter(w, dst) ==
    LET seq == w.server.seqNum + 1
        over == [w EXCEPT !.server.active = dst, !.server.seqNum = seq]
    IN  IF dst = Primary THEN [over EXCEPT !.server.primarySeq = seq]
        ELSE Write(over, dst, Msg("enter", seq, Nothing))

\* Mutant: the new active screen is not given the clipboard.
switchUntold(w, dst) == enter(leave(w), dst)

switchScreen(w, dst) ==
    LET there == enter(leave(w), dst)
    IN  IF there.server.cache \in Oversized THEN there ELSE setClipboard(there, dst)

------------------------------------------------------------------------------
(* The server. *)

\* The user moves the cursor to another screen.
SwitchScreen ==
    /\ server.seqNum < scenario.moves
    /\ \E dst \in (connected \cup {Primary}) \ {server.active} : Become(switchScreen(Now, dst))
    /\ UNCHANGED <<connected, up, client, copies>>

\* The event queue hands out its oldest event.  An orphan has no handler.
ServerEvent ==
    /\ events # <<>>
    /\ LET e == Head(events)
           w == [Now EXCEPT !.events = Tail(@)]
       IN  Become(CASE e.kind = "grabbed" -> onClipboardGrabbed(w, e.who, e.seq)
                    [] e.kind = "changed" -> onClipboardChanged(w, e.who, e.seq)
                    [] e.kind = "sending" -> Write(w, e.who, Msg("data", 0, e.data))
                    [] e.kind = "orphan" -> w)
    /\ UNCHANGED <<connected, up, client, copies>>

\* A proxy reads a message: recvGrabClipboard or the last chunk in recvClipboard.
ServerReceive(c) ==
    /\ up[c] # <<>>
    /\ LET m == Head(up[c])
       IN  IF m.kind = "grab"
           THEN /\ events' = Append(events, Event("grabbed", c, m.seq, Nothing))
                /\ UNCHANGED server
           ELSE /\ events' = Append(events, Event("changed", c, m.seq, Nothing))
                /\ server' = [server EXCEPT !.buffer[c] = m.data]
    /\ up' = [up EXCEPT ![c] = Tail(@)]
    /\ UNCHANGED <<connected, down, client, screen, copies>>

------------------------------------------------------------------------------
(* A client. *)

\* Send what the clipboard holds unless it is too large or was sent already.
sendClipboard(k, d) ==
    IF d \in Oversized \/ (k.sent /\ d = k.last) THEN k
    ELSE [k EXCEPT !.sent = TRUE, !.last = d,
                   !.events = Append(@, [kind |-> "sending", seq |-> k.seqNum, data |-> d])]

\* The screen raises a grab, which the client's event queue holds for now.
raised(k) == [k EXCEPT !.events = Append(@, [kind |-> "grabbed", seq |-> 0, data |-> Nothing])]

entered(k, seq) == [k EXCEPT !.seqNum = seq, !.active = TRUE]

\* Mutant: the client goes on taking itself for the owner.
stillOwner(k) == [k EXCEPT !.sent = FALSE]

\* The server gives the clipboard, or takes it away: the client does not own it.
disowned(k) == [k EXCEPT !.own = FALSE, !.sent = FALSE]

Received(c, m) ==
    LET k == client[c]
        lost == LostTo(screen[c])
        left == [(IF lost THEN raised(k) ELSE k) EXCEPT !.active = FALSE]
    IN  CASE m.kind = "enter" ->
               /\ client' = [client EXCEPT ![c] = entered(k, m.seq)]
               /\ UNCHANGED screen
          [] m.kind = "leave" ->
               /\ client' = [client EXCEPT ![c] = IF k.own THEN sendClipboard(left, screen[c].board)
                                                  ELSE left]
               /\ screen' = [screen EXCEPT ![c].own = @ /\ ~lost]
          [] m.kind = "grab" ->
               /\ client' = [client EXCEPT ![c] = disowned(k)]
               /\ screen' = [screen EXCEPT ![c] = Written(@, Nothing)]
          [] m.kind = "data" ->
               /\ client' = [client EXCEPT ![c] = disowned(k)]
               /\ screen' = [screen EXCEPT ![c] = Written(@, m.data)]

\* ServerProxy reads a message.
ClientReceive(c) ==
    /\ down[c] # <<>>
    /\ Received(c, Head(down[c]))
    /\ down' = [down EXCEPT ![c] = Tail(@)]
    /\ UNCHANGED <<server, events, connected, up, copies>>

\* Mutant: a screen that is not active waits too.
grabbedWaits(k, d) == [k EXCEPT !.own = TRUE, !.sent = FALSE]

\* Client::handleClipboardGrabbed.
handleClipboardGrabbed(k, d) ==
    LET owner == [k EXCEPT !.own = TRUE, !.sent = FALSE]
    IN  IF k.active THEN owner ELSE sendClipboard(owner, d)

ClientEvent(c) ==
    /\ client[c].events # <<>>
    /\ LET e == Head(client[c].events)
           k == [client[c] EXCEPT !.events = Tail(@)]
       IN  IF e.kind = "grabbed"
           THEN /\ up' = [up EXCEPT ![c] = Append(@, Msg("grab", k.seqNum, Nothing))]
                /\ client' = [client EXCEPT ![c] = handleClipboardGrabbed(k, screen[c].board)]
           ELSE /\ up' = [up EXCEPT ![c] = Append(@, Msg("data", e.seq, e.data))]
                /\ client' = [client EXCEPT ![c] = k]
    /\ UNCHANGED <<server, events, connected, down, screen, copies>>

------------------------------------------------------------------------------
(* The computers. *)

\* A user, or a program, puts something on a computer's clipboard.
Copy(s) ==
    /\ copies < MaxCopies /\ s \in scenario.copiers
    /\ s \in Clients => s \in connected
    /\ copies' = copies + 1
    /\ screen' = [screen EXCEPT ![s].board = copies + 1, ![s].ours = FALSE, ![s].notice = TRUE]
    /\ UNCHANGED <<server, events, connected, down, up, client>>

\* WM_CLIPBOARDUPDATE reaches MSWindowsScreen.
onClipboardChange(s) ==
    LET lost == LostTo(screen[s])
    IN  /\ screen[s].notice
        /\ screen' = [screen EXCEPT ![s].notice = FALSE, ![s].own = screen[s].ours]
        /\ IF lost /\ s = Primary
           THEN events' = Append(events, Event("grabbed", s, server.primarySeq, Nothing))
           ELSE UNCHANGED events
        /\ IF lost /\ s # Primary
           THEN client' = [client EXCEPT ![s] = raised(@)]
           ELSE UNCHANGED client
        /\ UNCHANGED <<server, connected, down, up, copies>>

\* A client connects: a new proxy, a new ServerProxy, and Screen::enableSecondary.
Connect(c) ==
    /\ c \notin connected
    /\ connected' = connected \cup {c}
    /\ client' = [client EXCEPT ![c] = [@ EXCEPT !.seqNum = 0, !.own = FALSE, !.sent = FALSE]]
    /\ screen' = [screen EXCEPT ![c] = Written(@, Nothing)]
    /\ UNCHANGED <<server, events, down, up, copies>>

\* What the end of a connection leaves of a proxy, and of the next one at its start.
freshProxy(sv, c) == [sv EXCEPT !.dirty[c] = TRUE, !.buffer[c] = Nothing]

\* A connection is lost: the proxy is deleted, its events have no handler, and
\* the cursor is forced home without a new sequence number.  A screen that was
\* entered is left, which checks its clipboard for the last time.
Disconnect(c) ==
    /\ c \in connected \cap scenario.droppable
    /\ connected' = connected \ {c}
    /\ events' = [i \in DOMAIN events |->
                      IF events[i].who = c THEN Event("orphan", c, 0, Nothing) ELSE events[i]]
    /\ down' = [down EXCEPT ![c] = <<>>]
    /\ up' = [up EXCEPT ![c] = <<>>]
    /\ client' = [client EXCEPT ![c].events = <<>>]
    /\ \E own \in {screen[c].own, screen[c].own /\ screen[c].ours} :
          screen' = [screen EXCEPT ![c].own = own, ![c].notice = FALSE]
    /\ LET rest == freshProxy(server, c)
       IN  server' = IF server.active = c
                     THEN [rest EXCEPT !.active = Primary, !.primarySeq = rest.seqNum]
                     ELSE rest
    /\ UNCHANGED copies

Init ==
    /\ server = [active |-> Primary, seqNum |-> 0, primarySeq |-> 0, owner |-> Primary,
                 clipSeq |-> 0, cache |-> Nothing, data |-> Nothing,
                 dirty |-> [s \in Screens |-> s # Primary], buffer |-> [c \in Clients |-> Nothing]]
    /\ events = <<>>
    /\ connected = {}
    /\ down = [c \in Clients |-> <<>>]
    /\ up = [c \in Clients |-> <<>>]
    /\ client = [c \in Clients |-> [seqNum |-> 0, active |-> FALSE, own |-> FALSE,
                                    sent |-> FALSE, last |-> Nothing, events |-> <<>>]]
    /\ screen = [s \in Screens |-> [board |-> Nothing, ours |-> FALSE, own |-> FALSE,
                                    notice |-> FALSE]]
    /\ copies = 0
    /\ scenario \in Scenarios

Next ==
    /\ \/ SwitchScreen
       \/ ServerEvent
       \/ \E c \in Clients : ServerReceive(c) \/ ClientReceive(c) \/ ClientEvent(c)
       \/ \E s \in Screens : Copy(s) \/ onClipboardChange(s)
       \/ \E c \in Clients : Connect(c) \/ Disconnect(c)
    /\ UNCHANGED scenario

Spec == Init /\ [][Next]_vars

------------------------------------------------------------------------------
(* Properties. *)

\* Nothing is on its way between the server and c, and c's screen has caught up.
AtRest(c) ==
    down[c] = <<>> /\ up[c] = <<>> /\ client[c].events = <<>> /\ ~screen[c].notice

\* Every event, message and notice has been handled.
Settled == events = <<>> /\ ~screen[Primary].notice /\ \A c \in connected : AtRest(c)

Stale(s) == screen[s].ours /\ screen[s].board # server.data

\* A client that owns the clipboard and is not the active screen has sent what it
\* owned: "if we're not the active screen then send the clipboard now, otherwise
\* we'll wait until we leave" (Client::handleClipboardGrabbed, Client::leave).
InactiveOwnerSent ==
    \A c \in connected :
        client[c].own /\ server.active # c /\ down[c] = <<>> => client[c].sent

\* When all is settled, the active client does not believe that it owns a clipboard
\* the server has given to another: a grab that came too late has been made good by
\* the data sent on entering (Server::switchScreen, Client::setClipboard).
ActiveKnowsOwner ==
    Settled /\ server.active \in connected /\ client[server.active].own
        => server.owner = server.active

\* When all is settled and the cursor is on the primary, its clipboard has what the
\* server has, unless somebody copied there since (Server::switchScreen).
HomeUpToDate ==
    Settled /\ server.active = Primary /\ server.owner # Primary => ~Stale(Primary)

\* The grab of a client that has the cursor, and knows it, is never taken for an old
\* one, however the grabs of others overtake it (Server::handleClipboardGrabbed).
ActiveGrabAccepted ==
    LET c == server.active
    IN  c \in connected /\ (\A i \in DOMAIN down[c] : down[c][i].kind # "enter")
            => \A i \in DOMAIN events :
                   events[i].who = c /\ events[i].kind = "grabbed"
                       /\ events[i].seq = client[c].seqNum
                   => events[i].seq >= server.clipSeq

\* Data that is taken comes from the owner: "should be the expected client", the
\* assertion in Server::onClipboardChanged.
ExpectedSender ==
    events # <<>> =>
        LET e == Head(events)
        IN  e.kind = "changed" /\ e.seq >= server.clipSeq => e.who = server.owner

\* When all is settled, the server holds what the owner sent last.
OwnerDataKept ==
    Settled => \A c \in connected :
        server.owner = c /\ client[c].own /\ client[c].sent => server.data = client[c].last

\* A clean clipboard is "known to be up to date" (IClient::setClipboard and
\* setClipboardDirty), unless the screen owns it or somebody copied there since.
CleanIsUpToDate ==
    Settled => \A c \in connected : ~server.dirty[c] /\ server.owner # c => ~Stale(c)

\* No message carries more than the limit, though the server's cache may hold more
\* (Server::onClipboardChanged, Server::switchScreen, Client::sendClipboard).
LimitRespected ==
    \A c \in Clients :
        /\ \A i \in DOMAIN down[c] : down[c][i].data \notin Oversized
        /\ \A i \in DOMAIN up[c] : up[c][i].data \notin Oversized

------------------------------------------------------------------------------
(* What holds in which scenario.  The named cases in which the code breaks a  *)
(* property are left out by what must not happen in the scenario.             *)

NoLoss == scenario.droppable = {}
AllFit == scenario.oversized = {}

\* No other client than c copies, and the connection of c is not lost.
OnlyClient(c) == scenario.copiers \subseteq {Primary, c} /\ c \notin scenario.droppable

\* The same, and nobody copies on the primary.
OnlyCopier(c) == OnlyClient(c) /\ Primary \notin scenario.copiers

\* What a client that is not active owns was sent (Client::leave), as long as no connection
\* is lost and nothing is too large.
OwnerSent == NoLoss /\ AllFit => InactiveOwnerSent

\* The server and its clients agree on who owns the clipboard: a client that does not own
\* it is not left believing so, unless what it should be given is too large for it, and
\* its grab is not taken for an old one (Server::handleClipboardGrabbed,
\* Server::switchScreen, Client::setClipboard).
OwnersAgree == (AllFit => ActiveKnowsOwner) /\ ActiveGrabAccepted

\* Where all is settled the screens that are known to be up to date are, the primary when
\* the cursor is home and the others when they are clean, and the server has what the
\* owner sent last (Server::switchScreen, ClientProxy1_6::setClipboard).
UpToDate ==
    /\ NoLoss => HomeUpToDate
    /\ (\E c \in Clients : OnlyClient(c)) => OwnerDataKept
    /\ (\E c \in Clients : OnlyCopier(c)) => CleanIsUpToDate

\* Data that is taken comes from the owner where one client copies, and no message
\* exceeds the limit (Server::onClipboardChanged).
DataExpected ==
    /\ TypeOK /\ LimitRespected
    /\ (\E c \in Clients : OnlyCopier(c)) => ExpectedSender
=============================================================================
