----------------------------- MODULE MCAufsXino -----------------------------
(* Two branches, on file systems of their own; two tasks.                  *)
EXTENDS AufsXino, TLC

CONSTANTS p1, p2

MCProcs == {p1, p2}
MCFs(b) == b
(* After one of the mishaps that void the properties only the look-ups go  *)
(* on: they take another number when the inode found is not theirs.        *)
MCLookupsOnly == misplaced => UNCHANGED <<low, dying>>
MCSymmetry == Permutations(MCProcs)
=============================================================================
