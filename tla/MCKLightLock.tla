----------------------------- MODULE MCKLightLock -----------------------------
(***************************************************************************)
(* Instances of KLightLock for TLC.                                        *)
(***************************************************************************)
EXTENDS KLightLock, TLC

Symmetry == Permutations(Threads)

=============================================================================
