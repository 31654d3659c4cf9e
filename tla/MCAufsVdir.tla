----------------------------- MODULE MCAufsVdir -----------------------------
(* Three branches with up to three names; a block takes one or two of them. *)
EXTENDS AufsVdir

CONSTANTS nmX, nmY, nmZ, file1, file2

MCNames == {nmX, nmY, nmZ}

MCFiles == {file1, file2}
MCSymmetry == Permutations(MCFiles)

MCSize(e) == (IF e.n = nmZ THEN 3 ELSE 2) + (IF e.wh THEN 1 ELSE 0)

Three(a, b, c) == [i \in 0 .. 2 |-> IF i = 0 THEN a ELSE IF i = 1 THEN b ELSE c]

MCLayouts ==
  {Three(<<Plain(nmX)>>, <<Plain(nmX), Plain(nmY)>>, <<Plain(nmZ), Plain(nmY)>>),
   Three(<<Wh(nmX)>>, <<Plain(nmX), Wh(nmZ)>>, <<Plain(nmZ), Plain(nmX)>>)}
=============================================================================
