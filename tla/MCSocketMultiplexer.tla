------------------------ MODULE MCSocketMultiplexer ------------------------
(* Instances of SocketMultiplexer for TLC. *)
EXTENDS SocketMultiplexer

CONSTANTS main, other, s1, s2, readable
=============================================================================
