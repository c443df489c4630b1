------------------------ MODULE MCPriorityInheritance ------------------------
(***************************************************************************)
(* PriorityInheritance for TLC; the constants are given in the .cfg.       *)
(***************************************************************************)
EXTENDS PriorityInheritance, TLC

=============================================================================
