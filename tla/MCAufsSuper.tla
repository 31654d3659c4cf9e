----------------------------- MODULE MCAufsSuper -----------------------------
(* Instances of AufsSuper for TLC: the process m, its child c and the      *)
(* unrelated process u.                                                    *)
EXTENDS AufsSuper

CONSTANTS m, c, u

MCParent == [t \in Task |-> IF t = c THEN m ELSE NoTask]
=============================================================================
