------------------------------ MODULE MCParts ------------------------------
(***************************************************************************)
(* Which part of MCServices or MCConnections runs in a behavior; the others  *)
(* rest in their initial states.                                             *)
(***************************************************************************)
VARIABLE part
=============================================================================
