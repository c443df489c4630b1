------------------------- MODULE MCKConditionVariable -------------------------
(***************************************************************************)
(* Instances of KConditionVariable for TLC.                                *)
(***************************************************************************)
EXTENDS KConditionVariable

CONSTANTS t1, t2, t3

\* t1 has the highest priority, the other two have the same.
MCPriority == [t \in Threads |-> IF t = t1 THEN 1 ELSE 2]

=============================================================================
