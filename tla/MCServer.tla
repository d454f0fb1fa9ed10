------------------------------ MODULE MCServer ------------------------------
(* Instances of Server for TLC. *)
EXTENDS Server

CONSTANTS a, b, b2,         \* client objects
          nP, nA, nB        \* screen names

MCNameOf == [c \in Client |-> CASE c = Primary -> nP [] c = a -> nA [] OTHER -> nB]

\* Links both ways between two screens.
Pair(m, d, n) == {[from |-> m, dir |-> d, to |-> n], [from |-> n, dir |-> Opposite(d), to |-> m]}

Knows(S) == [n \in Name |-> IF n \in S THEN n ELSE NoName]

\* Options of a file.
Plain == [o \in {} |-> FALSE]
Waits == [o \in {"wait"} |-> TRUE]
Taps == [o \in {"twoTap"} |-> TRUE]

\* Both clients to the right of the primary, each on a part of the edge.
SplitEdge == Pair(nP, "Right", nA) \cup Pair(nP, "Right", nB)
\* One client on each of two edges that share a corner.
Corner == Pair(nP, "Right", nA) \cup Pair(nP, "Top", nB)
\* A row of three.
Row == Pair(nP, "Right", nA) \cup Pair(nA, "Right", nB)

File(S, links, o) == [canon |-> Knows(S), links |-> links, opts |-> o]
All == {nP, nA, nB}

WaitFiles == {File(All, SplitEdge, Waits)}
TapFiles == {File(All, Corner, Taps)}
RowFiles == {File(All, Row, Plain)}
EditedFiles == {File(All, Row, Plain), File({nP, nB}, Pair(nP, "Left", nB), Plain)}
\* The same edit, which also turns relative moves off and unlocking on.
RelativeFiles ==
    {File(All, Row, [o \in {"relative"} |-> TRUE]),
     File({nP, nB}, Pair(nP, "Left", nB), [o \in {"relative", "disableLock"} |-> o = "disableLock"])}

NoArrangements == {}
RowArrangements == {Row, SplitEdge}
=============================================================================
