---------------------------- MODULE MCAufsUnion ----------------------------
(* AufsUnion for TLC: the names of the root directory are interchangeable, *)
(* and so are the names within a directory.                                *)
EXTENDS AufsUnion, TLC

Symmetry == Permutations(Top) \cup Permutations(Kid)
=============================================================================
