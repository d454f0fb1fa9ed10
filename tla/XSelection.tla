----------------------------- MODULE XSelection -----------------------------
(***************************************************************************)
(* The clipboards of an X11 screen (XWindowsClipboard): what it answers to   *)
(* programs that ask for a selection it owns, part by part if it is large,    *)
(* and what it keeps when it takes or loses the selection or reads that of    *)
(* another program.                                                           *)
(*                                                                            *)
(* A clipboard has one small and one large format; a property takes one       *)
(* part and the large format has two.  Several targets in one request         *)
(* (MULTIPLE) and Motif's clipboard are left out.                             *)
(***************************************************************************)
EXTENDS Integers, Sequences, SequencesExt, FiniteSets

CONSTANTS
    Selections,     \* the clipboards in the order of m_clipboard
    Requestors,     \* windows of programs that ask for them
    Properties,     \* of such a window
    MaxRequests, MaxChanges,    \* bounds on requests, on changes of owners, and
    MaxDoings,                  \* on both together
    Wrap            \* times are numbers modulo this

XSelectionAssumption ==
    /\ {MaxRequests, MaxChanges, MaxDoings, Wrap} \subseteq Nat /\ 2 * MaxChanges + 2 < Wrap

Sels == ToSet(Selections)

VARIABLES
    clock,          \* the X server's time
    x,              \* who owns a selection for the X server, and since when
    clip,           \* of each clipboard: m_owner, m_timeOwned, m_timeLost, m_cacheTime,
                    \* m_checkCache, m_cached, m_time, and what m_data was copied at
    events,         \* X events for this program
    replies,        \* m_replies of each clipboard
    masks,          \* m_eventMasks: whether a window was watched before
    watched,        \* windows whose events X gives us
    alive,          \* windows that exist
    props,          \* the properties of the windows
    notices,        \* SelectionNotify on its way to each window
    requests,       \* what was asked, and what came of it (not in the code)
    stale, early, deaf      \* selections whose data was dropped at the loss of an earlier
                    \* ownership, windows that were sent a part before they took the one
                    \* before, windows no longer watched (not in the code)

ownerVars == <<clock, x>>
replyVars == <<replies, masks, watched, props, notices, early, deaf>>
vars == <<ownerVars, clip, events, replyVars, alive, requests, stale>>

Nothing == 0
Foreign == Wrap         \* data of another program
NoProperty == [kind |-> "none", of |-> 0, part |-> 0]
Header(n) == [kind |-> "incr", of |-> n, part |-> 0]
Part(n, k) == [kind |-> "part", of |-> n, part |-> k]
Final(n) == [kind |-> "final", of |-> n, part |-> 0]
Parts(target) == IF target = "large" THEN 2 ELSE 1

Init ==
    /\ clock = 1
    /\ x = [s \in Sels |-> [owner |-> "us", time |-> 1]]
    /\ clip = [s \in Sels |-> [owner |-> TRUE, owned |-> 1, lost |-> 0, cacheTime |-> 0,
                               check |-> FALSE, cached |-> TRUE, time |-> 1, data |-> 1]]
    /\ events = <<>> /\ requests = <<>>
    /\ replies = [s \in Sels |-> [r \in Requestors |-> <<>>]]
    /\ masks = [s \in Sels |-> [r \in Requestors |-> FALSE]]
    /\ watched = {} /\ alive = Requestors
    /\ props = [r \in Requestors |-> [p \in Properties |-> NoProperty]]
    /\ notices = [r \in Requestors |-> <<>>]
    /\ stale = {} /\ early = {} /\ deaf = {}

Tell(e) == events' = Append(events, e)
Told(kind) == events # <<>> /\ Head(events).kind = kind

------------------------------------------------------------------------------
(* Who owns a selection.                                                        *)

Owned(s, who, t) == clock' = t /\ x' = [x EXCEPT ![s] = [owner |-> who, time |-> t]]

more == clock - 1 + Len(requests) < MaxDoings
mayChange == more /\ clock < 1 + MaxChanges

\* Another program copies: we will hear that we lost the selection.
othersCopy(s) ==
    /\ mayChange /\ Owned(s, "them", clock + 1)
    /\ IF x[s].owner = "us" THEN Tell([kind |-> "clear", sel |-> s, time |-> clock + 1])
       ELSE UNCHANGED events
    /\ UNCHANGED <<clip, replyVars, alive, requests, stale>>

clearedCache(c) == [c EXCEPT !.check = FALSE, !.cached = FALSE, !.data = Nothing]

\* The clipboard is opened and emptied, which takes the selection, and filled.
copy(s) ==
    /\ mayChange /\ Owned(s, "us", clock + 1)
    /\ clip' = [clip EXCEPT ![s] = [clearedCache(@) EXCEPT !.owner = TRUE, !.owned = clock + 1,
                    !.lost = 0, !.cached = TRUE, !.time = clock + 1, !.data = clock + 1]]
    /\ stale' = stale \ {s}
    /\ UNCHANGED <<events, replyVars, alive, requests>>

\* Emptying fails when another program takes the selection at a later time.
emptyFails(s) ==
    /\ mayChange /\ x[s].owner = "them" /\ Owned(s, "them", clock + 1)
    /\ clip' = [clip EXCEPT ![s].check = TRUE, ![s].time = clock]
    /\ UNCHANGED <<events, replyVars, alive, requests, stale>>

\* The time of the owner, or ours if it does not tell; the cache is flushed unless it is of
\* that time.
checkCache(c, t) ==
    IF ~c.check THEN c
    ELSE LET d == [c EXCEPT !.check = FALSE, !.owned = t] IN
         IF t # c.cacheTime THEN clearedCache(d) ELSE d
ownerTimes(s, c) == {c.time} \cup (IF x[s].owner = "them" THEN {x[s].time} ELSE {})

\* Data of the owner is read; we do not answer ourselves meanwhile.
getClipboard(s) ==
    /\ ~clip[s].owner
    /\ LET opened == [clip[s] EXCEPT !.check = TRUE, !.time = clock] IN
       \E t \in ownerTimes(s, opened) :
           LET c == checkCache(opened, t) IN
           clip' = [clip EXCEPT ![s] =
               IF c.cached THEN c
               ELSE [c EXCEPT !.cached = TRUE, !.cacheTime = t,
                       !.data = IF x[s].owner = "them" THEN Foreign ELSE Nothing]]
    /\ UNCHANGED <<ownerVars, events, replyVars, alive, requests, stale>>

\* The time of the loss is not compared with that of the ownership.
lost ==
    /\ Told("clear") /\ events' = Tail(events)
    /\ LET s == Head(events).sel
           t == Head(events).time IN
       /\ clip' = [clip EXCEPT ![s] =
              IF @.owner THEN [clearedCache(@) EXCEPT !.owner = FALSE, !.lost = t] ELSE @]
       /\ stale' = IF clip[s].owner /\ t < clip[s].owned THEN stale \cup {s} ELSE stale
    /\ UNCHANGED <<ownerVars, replyVars, alive, requests>>

------------------------------------------------------------------------------
(* Replies.                                                                     *)

\* A window as one clipboard sees it.
Window(s, r) == [list |-> replies[s][r], props |-> props[r], notices |-> notices[r], early |-> FALSE]

\* Mutant: the last part is left out.
nextPartShort(reply) ==
    IF reply.ptr + 1 < Parts(reply.target) THEN Part(reply.id, reply.ptr + 1) ELSE Final(reply.id)

\* What is left of the data, a part at a time; an empty one ends it.
nextPart(reply) ==
    IF reply.ptr < Parts(reply.target) THEN Part(reply.id, reply.ptr + 1) ELSE Final(reply.id)

\* What sending a reply does to its window, and whether the reply is complete then.
sendReply(w, i, exists) ==
    LET reply == w.list[i]
        next == nextPart(reply)
        large == Parts(reply.target) > 1
        put(value, replied) ==
            [w EXCEPT !.props[reply.property] = value,
                      !.list[i] = replied,
                      !.early = @ \/ (reply.replied /\ w.props[reply.property].kind # "none"),
                      !.notices = IF reply.replied THEN @
                                  ELSE Append(@, [id |-> reply.id, granted |-> TRUE])]
    IN  IF reply.done THEN [complete |-> TRUE, window |-> w]
        ELSE IF ~exists
        THEN [complete |-> ~reply.replied, window |-> [w EXCEPT !.list[i].done = TRUE]]
        ELSE IF reply.refused
        THEN [complete |-> TRUE,
              window |-> [w EXCEPT !.notices = Append(@, [id |-> reply.id, granted |-> FALSE])]]
        ELSE [complete |-> FALSE,
              window |->
                  IF large /\ ~reply.replied
                  THEN put(Header(reply.id), [reply EXCEPT !.replied = TRUE])
                  ELSE put(next, [reply EXCEPT !.replied = TRUE, !.ptr = @ + 1,
                                               !.done = ~large \/ next.kind = "final"])]

\* Complete replies are discarded and the next one is sent.
RECURSIVE pushFrom(_, _, _)
pushFrom(w, i, exists) ==
    LET sent == sendReply(w, i, exists)
        left == [sent.window EXCEPT !.list = RemoveAt(@, i)]
    IN  IF ~sent.complete THEN sent.window
        ELSE IF i > Len(left.list) THEN left
        ELSE pushFrom(left, i, exists)

\* The first reply of the window that was not sent is, even if one before it waits.
pushReplies(w, exists) ==
    LET unsent == {i \in DOMAIN w.list : ~w.list[i].replied} IN
    IF unsent = {} THEN w
    ELSE pushFrom(w, CHOOSE i \in unsent : \A j \in unsent : i <= j, exists)

\* The windows of a clipboard after its replies were pushed.  A window without replies gets
\* the event mask back that it had when this clipboard began to watch it.
Pushed(s, ws, began) ==
    LET finished == {r \in Requestors : ws[r].list = <<>> /\ (replies[s][r] # <<>> \/ r \in began)}
        mask(r) == IF r \in began THEN r \in watched ELSE masks[s][r]
        unwatched == {r \in finished : ~mask(r)}
        others(r) == \E q \in Sels \ {s} : replies[q][r] # <<>>
    IN  /\ replies' = [replies EXCEPT ![s] = [r \in Requestors |-> ws[r].list]]
        /\ props' = [r \in Requestors |-> ws[r].props]
        /\ notices' = [r \in Requestors |-> IF r \in alive THEN ws[r].notices ELSE <<>>]
        /\ masks' = [masks EXCEPT ![s] =
               [r \in Requestors |-> r \notin finished /\ mask(r)]]
        /\ watched' = (watched \cup began) \ unwatched
        /\ early' = early \cup {r \in Requestors : ws[r].early}
        /\ deaf' = deaf \cup {r \in unwatched : others(r)}

\* Not before the selection was owned, and not after it was lost.
wasOwnedAtTime(c, t) ==
    /\ c.owned # 0
    /\ IF t = 0 THEN c.lost = 0
       ELSE (t - c.owned) % Wrap <= ((IF c.lost = 0 THEN clock ELSE c.lost) - c.owned) % Wrap

\* The first reply for a window that exists: it is watched from now on.
newWindow(s, r) == replies[s][r] = <<>> /\ r \in alive

\* A window's event is for the first of the clipboards that are concerned.
FirstOf(sels) == CHOOSE n \in sels : \A k \in sels : n <= k

addRequest ==
    /\ Told("request") /\ events' = Tail(events)
    /\ LET e == Head(events)
           s == e.sel
           r == e.requestor IN
       \E t \in ownerTimes(s, clip[s]) :
           LET c == checkCache(clip[s], t)
               granted == wasOwnedAtTime(c, e.time) /\ c.data # Nothing
               reply == [id |-> e.id, target |-> e.target, property |-> e.property, data |-> c.data,
                         refused |-> ~granted, ptr |-> 0, replied |-> FALSE, done |-> FALSE]
               began == IF newWindow(s, r) THEN {r} ELSE {}
               added == r \in alive \/ replies[s][r] # <<>>
           IN  /\ clip' = [clip EXCEPT ![s] = c]
               /\ \E ws \in {[q \in Requestors |->
                      pushReplies(IF q = r /\ added
                                  THEN [Window(s, q) EXCEPT !.list = Append(@, reply)]
                                  ELSE Window(s, q), q \in alive)]} : Pushed(s, ws, began)
               /\ requests' = [requests EXCEPT ![e.id].data = IF granted THEN c.data ELSE Nothing]
    /\ UNCHANGED <<ownerVars, alive, stale>>

\* A program took a part: the clipboard whose reply used that property sends more.
processRequest ==
    /\ Told("deleted") /\ events' = Tail(events)
    /\ LET r == Head(events).requestor
           uses(s) == {i \in DOMAIN replies[s][r] :
                          replies[s][r][i].replied /\ replies[s][r][i].property = Head(events).property}
           using == {n \in DOMAIN Selections : uses(Selections[n]) # {}}
       IN  IF using = {} THEN UNCHANGED replyVars
           ELSE LET s == Selections[FirstOf(using)]
                    i == CHOOSE i \in uses(s) : \A k \in uses(s) : i <= k
                IN  \E w \in {pushFrom(Window(s, r), i, r \in alive)} :
                        Pushed(s, [q \in Requestors |-> IF q = r THEN w ELSE Window(s, q)], {})
    /\ UNCHANGED <<ownerVars, clip, alive, requests, stale>>

\* A window is gone; the first clipboard that had replies for it forgets them.
destroyRequest ==
    /\ Told("destroyed") /\ events' = Tail(events)
    /\ LET r == Head(events).requestor
           having == {n \in DOMAIN Selections : replies[Selections[n]][r] # <<>>}
       IN  replies' = IF having = {} THEN replies
                      ELSE [replies EXCEPT ![Selections[FirstOf(having)]][r] = <<>>]
    /\ UNCHANGED <<ownerVars, clip, masks, watched, props, notices, early, deaf, alive, requests, stale>>

handleSystemEvent == lost \/ addRequest \/ processRequest \/ destroyRequest

------------------------------------------------------------------------------
(* The programs that ask.                                                       *)

\* A property serves one request at a time.
InUse(r, p) ==
    \E n \in DOMAIN requests : requests[n].requestor = r /\ requests[n].property = p
        /\ requests[n].state \in {"asked", "taking"}

\* Properties are interchangeable: the first request uses this one.
FirstProperty == CHOOSE p \in Properties : TRUE

ask(r, s, p, target, now) ==
    /\ requests = <<>> => p = FirstProperty
    /\ more /\ Len(requests) < MaxRequests /\ r \in alive /\ x[s].owner = "us" /\ ~InUse(r, p)
    /\ requests' = Append(requests, [requestor |-> r, sel |-> s, property |-> p, target |-> target,
           time |-> IF now THEN 0 ELSE clock, due |-> x[s].time, data |-> Nothing, state |-> "asked", got |-> <<>>])
    /\ Tell([kind |-> "request", sel |-> s, requestor |-> r, target |-> target, property |-> p,
             time |-> IF now THEN 0 ELSE clock, id |-> Len(requests) + 1])
    /\ UNCHANGED <<ownerVars, clip, replyVars, alive, stale>>

\* What a request becomes when a property is read, which deletes it.
Read(n, value) ==
    LET q == requests[n] IN
    CASE value.kind = "incr" -> [q EXCEPT !.state = "taking"]
      [] value.kind = "part" /\ q.state = "taking" -> [q EXCEPT !.got = Append(@, value.part)]
      [] value.kind = "part" /\ q.state = "asked" -> [q EXCEPT !.got = <<value.part>>, !.state = "taken"]
      [] value.kind \in {"final", "none"} -> [q EXCEPT !.state = "taken"]

takeProperty(n) ==
    LET q == requests[n] IN
    /\ requests' = [requests EXCEPT ![n] = Read(n, props[q.requestor][q.property])]
    /\ props' = [props EXCEPT ![q.requestor][q.property] = NoProperty]
    /\ IF q.requestor \in watched /\ props[q.requestor][q.property].kind # "none"
       THEN Tell([kind |-> "deleted", requestor |-> q.requestor, property |-> q.property])
       ELSE UNCHANGED events

selectionNotify(r) ==
    /\ notices[r] # <<>> /\ r \in alive
    /\ LET n == Head(notices[r]).id IN
       IF Head(notices[r]).granted THEN takeProperty(n)
       ELSE requests' = [requests EXCEPT ![n].state = "refused"] /\ UNCHANGED <<props, events>>
    /\ notices' = [notices EXCEPT ![r] = Tail(@)]
    /\ UNCHANGED <<ownerVars, clip, replies, masks, watched, early, deaf, alive, stale>>

canTake(n) ==
    /\ requests[n].state = "taking" /\ requests[n].requestor \in alive
    /\ props[requests[n].requestor][requests[n].property].kind # "none"

takePart(n) ==
    /\ canTake(n) /\ takeProperty(n)
    /\ UNCHANGED <<ownerVars, clip, replies, masks, watched, notices, early, deaf, alive, stale>>

closeWindow(r) ==
    /\ r \in alive /\ alive' = alive \ {r}
    /\ notices' = [notices EXCEPT ![r] = <<>>]
    /\ props' = [props EXCEPT ![r] = [p \in Properties |-> NoProperty]]
    /\ IF r \in watched THEN Tell([kind |-> "destroyed", requestor |-> r]) ELSE UNCHANGED events
    /\ watched' = watched \ {r}
    /\ UNCHANGED <<ownerVars, clip, replies, masks, early, deaf, requests, stale>>

Taking == (\E r \in Requestors : selectionNotify(r)) \/ (\E n \in DOMAIN requests : takePart(n))

Programs ==
    \/ \E r \in Requestors, s \in Sels, p \in Properties, target \in {"small", "large"}, now \in BOOLEAN :
           ask(r, s, p, target, now)
    \/ \E r \in Requestors : closeWindow(r)
    \/ Taking

Ownership == \E s \in Sels : othersCopy(s) \/ copy(s) \/ emptyFails(s) \/ getClipboard(s)

Next == handleSystemEvent \/ Programs \/ Ownership

Spec == Init /\ [][Next]_vars

------------------------------------------------------------------------------
(* Properties.                                                                  *)

TypeOK ==
    /\ clock \in 1..(1 + MaxChanges) /\ alive \subseteq Requestors /\ watched \subseteq alive
    /\ \A s \in Sels : x[s].owner \in {"us", "them"} /\ clip[s].data \in 0..Wrap
    /\ \A s \in Sels, r \in Requestors : masks[s][r] \in BOOLEAN
    /\ early \cup deaf \subseteq Requestors /\ stale \subseteq Sels

\* A program gets what the selection held at the time it asks about, never what another
\* program copied, however late the request is looked at.
RightContent ==
    \A n \in DOMAIN requests : requests[n].data # Nothing =>
        /\ requests[n].data # Foreign
        /\ requests[n].time # 0 => requests[n].data = requests[n].due

\* Who owns a selection has its data, unless it heard late of an earlier loss.
OwnerServes ==
    \A s \in Sels :
        x[s].owner = "us" /\ s \notin stale => clip[s].owner /\ clip[s].data = x[s].time

\* What a program took is whole and in order, unless parts were sent without its taking the
\* one before, as happens when it takes the answers to two requests in another order.
TakenWhole ==
    \A n \in DOMAIN requests : requests[n].state = "taken" /\ requests[n].requestor \notin early =>
        requests[n].got = [k \in 1..Parts(requests[n].target) |-> k]

\* Programs that ask for one selection are answered in the order they asked.
InOrder ==
    \A m, n \in DOMAIN requests :
        m < n /\ requests[m].requestor = requests[n].requestor /\ requests[m].sel = requests[n].sel
        /\ requests[n].state # "asked" /\ requests[n].requestor \in alive
            => requests[m].state # "asked"

\* A window with replies to come is watched, unless the other clipboard stopped watching it.
Watching == \A s \in Sels, r \in alive \ deaf : replies[s][r] # <<>> => r \in watched

\* When every event was handled and every answer taken, each request of a window that stays
\* was answered and what it takes has come to its end, unless its window is no longer watched
\* or parts were sent too early.
AllAnswered ==
    events = <<>> /\ (\A r \in Requestors : notices[r] = <<>>)
    /\ (\A n \in DOMAIN requests : ~canTake(n))
        => \A n \in DOMAIN requests :
               \/ requests[n].state \in {"refused", "taken"}
               \/ requests[n].requestor \notin alive \/ requests[n].requestor \in deaf \cup early
=============================================================================
