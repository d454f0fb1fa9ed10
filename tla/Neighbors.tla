------------------------------ MODULE Neighbors ------------------------------
(***************************************************************************)
(* Which screen lies beyond an edge: the links of a configuration           *)
(* (lib/server/Config.cpp) and the search along them from a connected       *)
(* screen to the next (getNeighbor and mapToNeighbor, lib/server/           *)
(* Server.cpp).  A step is one turn of the search's loop, which nothing     *)
(* else interrupts.  A fraction of an edge is a number of Grid-ths, rounded *)
(* down.                                                                    *)
(***************************************************************************)
EXTENDS Integers, FiniteSets

CONSTANTS
    Screen, Primary,
    Shape,          \* per screen: x, y, w, h
    Grid,
    Candidates,     \* the links a configuration may have
    Directions,     \* in which the pointer moves
    Reach,          \* how far a motion goes beyond an edge
    JumpZone        \* of the primary screen

\* What the constants may be.
NeighborsAssumption ==
    /\ Primary \in Screen
    /\ Shape \in [Screen -> [x : Int, y : Int, w : Nat \ {0}, h : Nat \ {0}]]
    /\ {Grid, Reach} \subseteq Nat \ {0}
    /\ JumpZone \in Nat /\ JumpZone < Shape[Primary].w /\ JumpZone < Shape[Primary].h
    /\ Directions \subseteq {"Left", "Right", "Top", "Bottom"} /\ Directions # {}
    /\ \A l \in Candidates :
        /\ l.from \in Screen /\ l.to \in Screen /\ l.side \in Directions
        /\ {l.start, l.end, l.toStart, l.toEnd} \subseteq Nat
        /\ l.start < l.end /\ l.end <= Grid
        /\ l.toStart < l.toEnd /\ l.toEnd <= Grid

VARIABLES
    links,
    connected,
    phase,          \* first and further: the two calls of getNeighbor in mapToNeighbor
    dir,
    src, t,         \* the name the search looks from, and the fraction there
    last,           \* lastGoodScreen
    pos             \* x and y; along the direction without the origin of the screen

searchVars == <<phase, dir, src, t, last, pos>>
vars == <<links, connected, searchVars>>

\* Every variable has its type.
TypeOK ==
    /\ links \subseteq Candidates
    /\ connected \subseteq Screen /\ Primary \in connected
    /\ phase \in {"idle", "first", "further", "arrived"} /\ dir \in Directions
    /\ src \in Screen /\ t \in Int /\ last \in Screen
    /\ pos \in [{"x", "y"} -> Int]

------------------------------------------------------------------------------
(* The configuration.                                                          *)

\* CellEdge::overlaps.
overlaps(l, m) ==
    /\ l.from = m.from /\ l.side = m.side
    /\ \/ l.start >= m.start /\ l.start < m.end
       \/ l.end > m.start /\ l.end <= m.end
       \/ m.start >= l.start /\ m.start < l.end
       \/ m.end > l.start /\ m.end <= l.end

isInside(l, f) == f >= l.start /\ f < l.end

Side(ls, n, side) == {l \in ls : l.from = n /\ l.side = side}

\* The links of a side are ordered by where they start: the first one that starts after f,
\* and the one before it.
After(ls, n, side, f) ==
    LET S == {l \in Side(ls, n, side) : l.start > f}
    IN  {l \in S : \A m \in S : l.start <= m.start}
UpTo(ls, n, side, f) ==
    LET S == {l \in Side(ls, n, side) : l.start <= f}
    IN  {l \in S : \A m \in S : m.start <= l.start}

\* Mutant: only the next link is compared.
overlapsNext(l) == \E m \in After(links, l.from, l.side, l.start) : overlaps(l, m)

\* Cell::overlaps: only the neighbors in that order are compared.
overlapsAny(l) ==
    \E m \in After(links, l.from, l.side, l.start) \cup UpTo(links, l.from, l.side, l.start) : overlaps(l, m)

\* Cell::hasEdge.
Replaced(l) == {m \in Side(links, l.from, l.side) : m.start = l.start /\ m.end = l.end}

\* Cell::add, from connect: a link may replace one that is at the same place.
connect(l) ==
    /\ phase = "idle"
    /\ Replaced(l) # {} \/ ~overlapsAny(l)
    /\ links' = (links \ Replaced(l)) \cup {l}
    /\ UNCHANGED <<connected, searchVars>>

\* Cell::remove of a side, from disconnect.
disconnect(n, side) ==
    /\ phase = "idle"
    /\ Side(links, n, side) # {}
    /\ links' = links \ Side(links, n, side)
    /\ UNCHANGED <<connected, searchVars>>

\* Cell::getLink: the one that starts last before f, if it reaches to it.
getLink(n, side, f) == {l \in UpTo(links, n, side, f) : isInside(l, f)}

\* transform and inverseTransform: the fraction of the other edge.
Across(l, f) == l.toStart + ((f - l.start) * (l.toEnd - l.toStart)) \div (l.end - l.start)

------------------------------------------------------------------------------
(* The search.                                                                 *)

Searching == phase \in {"first", "further"}

\* The search from where it is passes one unconnected screen after the other, from one of them
\* back to a place of another, and comes neither to a connected one nor to an edge without a link.
Onward(place) ==
    {<<l.to, Across(l, place[2])>> : l \in {m \in getLink(place[1], dir, place[2]) : m.to \notin connected}}
Turns == Cardinality(Screen) * (Grid + 1) + 1
Endless ==
    LET after[n \in 0..Turns] == IF n = 0 THEN {<<src, t>>} ELSE UNION {Onward(p) : p \in after[n - 1]}
    IN  after[Turns] # {}

Axis(d) == IF d \in {"Left", "Right"} THEN "x" ELSE "y"
Edge(d) == IF d \in {"Left", "Right"} THEN "y" ELSE "x"
Backwards(d) == d \in {"Left", "Top"}
Opposite(d) ==
    CASE d = "Left" -> "Right" [] d = "Right" -> "Left" [] d = "Top" -> "Bottom" [] d = "Bottom" -> "Top"

Origin(s, axis) == Shape[s][axis]
Size(s, axis) == IF axis = "x" THEN Shape[s].w ELSE Shape[s].h

mapToFraction(s, d, p) ==
    ((2 * (p[Edge(d)] - Origin(s, Edge(d))) + 1) * Grid) \div (2 * Size(s, Edge(d)))
mapToPixel(s, d, f, p) ==
    [p EXCEPT ![Edge(d)] = (f * Size(s, Edge(d))) \div Grid + Origin(s, Edge(d))]

\* No search goes on: its variables, locals of the code, hold nothing.
quiet ==
    /\ phase = "idle" /\ dir = (CHOOSE d \in Directions : TRUE) /\ src = Primary /\ t = 0
    /\ last = Primary /\ pos = [a \in {"x", "y"} |-> 0]

reset ==
    /\ phase' = "idle" /\ dir' = (CHOOSE d \in Directions : TRUE) /\ src' = Primary /\ t' = 0
    /\ last' = Primary /\ pos' = [a \in {"x", "y"} |-> 0]

Init ==
    /\ links = {} /\ connected = {Primary}
    /\ quiet

clientConnected(s) ==
    /\ phase = "idle" /\ s \notin connected
    /\ connected' = connected \cup {s}
    /\ UNCHANGED <<links, searchVars>>

clientDisconnected(s) ==
    /\ phase = "idle" /\ s \in connected \ {Primary}
    /\ connected' = connected \ {s}
    /\ UNCHANGED <<links, searchVars>>

\* The pointer of a connected screen goes beyond an edge, perhaps at a corner: mapToNeighbor
\* begins.  The jump zone of the primary screen counts as beyond it.
motion(s, d, beyond, along) ==
    /\ phase = "idle" /\ s \in connected
    /\ s = Primary => beyond <= JumpZone
    /\ LET p == [a \in {"x", "y"} |->
                    IF a = Axis(d)
                    THEN IF Backwards(d) THEN 0 - beyond ELSE Size(s, a) - 1 + beyond
                    ELSE Origin(s, a) + along]
       IN  pos' = p /\ t' = mapToFraction(s, d, p)
    /\ phase' = "first" /\ dir' = d /\ src' = s /\ last' = s
    /\ UNCHANGED <<links, connected>>

\* avoidJumpZone, with the origin of the screen added: the primary screen is entered beyond
\* the zone that would send the pointer back.
avoidJumpZone(s, p) ==
    LET a == Axis(dir)
        low == Origin(s, a)
        high == low + Size(s, a) - 1
        q == [p EXCEPT ![a] = @ + low]
    IN  IF s # Primary \/ getLink(s, Opposite(dir), mapToFraction(s, dir, p)) = {}
        THEN q
        ELSE [q EXCEPT ![a] = IF Backwards(dir)
                              THEN IF @ > high - JumpZone THEN high - JumpZone ELSE @
                              ELSE IF @ < low + JumpZone THEN low + JumpZone ELSE @]

\* No screen is further on: the last connected one it is, if there was one.
noNeighbor ==
    /\ Searching /\ getLink(src, dir, t) = {}
    /\ \/ phase = "first" /\ reset
       \/ /\ phase = "further"
          /\ phase' = "arrived" /\ pos' = avoidJumpZone(last, pos)
          /\ UNCHANGED <<dir, src, t, last>>
    /\ UNCHANGED <<links, connected>>

\* An unconnected screen is passed, at the fraction where it is entered.
skip ==
    /\ Searching
    /\ \E l \in getLink(src, dir, t) :
        /\ l.to \notin connected
        /\ src' = l.to /\ t' = Across(l, t)
    /\ UNCHANGED <<links, connected, phase, dir, last, pos>>

\* The position along the direction, seen from the screen that is entered.
entered(s, x) == IF Backwards(dir) THEN x + Size(s, Axis(dir)) ELSE x - Size(last, Axis(dir))

\* A connected screen: the pointer comes to lie on it, or passes over it.
found ==
    /\ Searching
    /\ \E l \in getLink(src, dir, t) :
        LET s == l.to
            a == Axis(dir)
            p == [mapToPixel(s, dir, Across(l, t), pos) EXCEPT ![a] = entered(s, @)]
            on == IF Backwards(dir) THEN p[a] >= 0 ELSE p[a] < Size(s, a)
        IN  /\ s \in connected
            /\ IF on
               THEN phase' = "arrived" /\ pos' = avoidJumpZone(s, p)
               ELSE phase' = "further" /\ pos' = p
            /\ last' = s /\ src' = s /\ t' = mapToFraction(s, dir, p)
           
    /\ UNCHANGED <<links, connected, dir>>

\* The caller has its answer.
switch ==
    /\ phase = "arrived" /\ reset
    /\ UNCHANGED <<links, connected>>

Search == noNeighbor \/ skip \/ found

Next ==
    \/ \E l \in Candidates : connect(l)
    \/ \E n \in Screen, side \in Directions : disconnect(n, side)
    \/ \E s \in Screen : clientConnected(s) \/ clientDisconnected(s)
    \/ \E s \in connected, d \in Directions, beyond \in 1..Reach : \E along \in 0..Size(s, Edge(d)) :
        motion(s, d, beyond, along)
    \/ Search
    \/ switch

Spec == Init /\ [][Next]_vars /\ WF_vars(Search)

------------------------------------------------------------------------------
(* Properties.                                                                 *)

\* The links of one side of a screen do not overlap, whatever links were added, replaced and
\* removed in whatever order, though add looks at two of them only: a point of an edge leads
\* to one screen.
LinksDisjoint == \A l, m \in links : l # m => ~overlaps(l, m)

\* getLink, which looks at one link only, finds the link of a point of an edge if there is
\* one.
LookupComplete ==
    \A s \in Screen, d \in Directions, f \in 0..Grid :
        getLink(s, d, f) = {l \in Side(links, s, d) : isInside(l, f)}

\* mapToNeighbor gives a position that is within the edge through which the screen is
\* entered, and not before it; a position beyond the opposite edge it gives only if no link
\* leads on from there (the pointer of a secondary screen may go far in one motion).
ArrivesOnScreen ==
    phase = "arrived" =>
        LET a == Axis(dir)
            e == Edge(dir)
            x == pos[a] - Origin(last, a)
        IN  /\ pos[e] >= Origin(last, e) /\ pos[e] < Origin(last, e) + Size(last, e)
            /\ IF Backwards(dir) THEN x < Size(last, a) ELSE x >= 0
            /\ (IF Backwards(dir) THEN x < 0 ELSE x >= Size(last, a)) =>
                  Side(links, src, dir) = {} \/ getLink(src, dir, t) = {}

\* A pointer that comes to the primary screen from a side where it could leave it comes to
\* lie where this motion alone does not make it leave again.
OutOfJumpZone ==
    phase = "arrived" /\ last = Primary /\ getLink(Primary, Opposite(dir), mapToFraction(Primary, dir, pos)) # {} =>
        LET a == Axis(dir)
            x == pos[a] - Origin(Primary, a)
        IN  IF Backwards(dir) THEN x < Size(Primary, a) - JumpZone ELSE x >= JumpZone

\* The search ends, also when the links form a ring, if it can: whether it never does is
\* settled by the links and the connected screens, before the first turn (Endless).
NotSearching == ~Searching \/ Endless
SearchEnds == []<>NotSearching

\* What the comment in getNeighbor would have: "if the destination is the source then we can
\* make no more progress in this direction", so that the search returns.  It does not: the
\* code does not compare them, and an Endless search blocks the server.
SearchReturns == Searching ~> ~Searching
=============================================================================
