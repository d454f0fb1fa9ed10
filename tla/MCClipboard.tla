---------------------------- MODULE MCClipboard ----------------------------
(* Instances of Clipboard for TLC. *)
EXTENDS Clipboard

CONSTANTS c1, c2

Sharing(moves) ==
    [moves |-> moves, droppable |-> {}, copiers |-> {Primary, c1}, oversized |-> {}]

Single == [moves |-> 2, droppable |-> {c2}, copiers |-> {c1}, oversized |-> {2}]

\* Two screens share what is copied on both; or one client copies, one copy is too large,
\* and the connection of the other client may be lost.
SharedOrSingle == {Sharing(3), Single}

SharedBriefly == {Sharing(2)}
=============================================================================
