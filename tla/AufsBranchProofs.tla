--------------------------- MODULE AufsBranchProofs --------------------------
(***************************************************************************)
(* Proofs about AufsBranch, for any number of directories, branches, open  *)
(* files and works.                                                        *)
(***************************************************************************)
EXTENDS AufsBranch, DataLemmas, FiniteSetTheorems

(* What the theorems suppose of the use of the mount.  Works go with       *)
(* adding branches only: a work that waits for the lock while its branch   *)
(* changes its permission, or is deleted, uses what was freed (whout.c:531,*)
(* branch.c:1052).  And branches are deleted under one open root directory *)
(* at most: br_count is taken for the number of the directories that have  *)
(* the branch open (branch.c:795).                                         *)
PlainLoads ==
  \A l \in Loads : /\ l.kinds # {} => l.ops \subseteq {"add"}
                   /\ "del" \in l.ops => l.dirs <= 1

(* What the variables hold; a branch is in one place.                      *)
DirType  == [open : BOOLEAN, h : [Idx -> Br \cup {NoBr}], btop : Nat, bbot : Int, fresh : BOOLEAN]
RegType  == [br : Br \cup {NoBr}, wr : BOOLEAN, mm : BOOLEAN]
WorkType == [st : {"none", "queued", "waiting"}, kind : {"rebase", "trunc", "rmdir"},
             br : Br \cup {NoBr}, wbr : Wbr \cup {NoWbr}]

TypeOK ==
  /\ brs \in Seq(Br) /\ \A i, j \in 1 .. Len(brs) : brs[i] = brs[j] => i = j
  /\ id \in [Br -> Int] /\ lastId \in Int
  /\ perm \in [Br -> {"rw", "ro"}]
  /\ count \in [Br -> Int]
  /\ wbr \in [Br -> Wbr \cup {NoWbr}]
  /\ running \in [Wbr -> Int]
  /\ trunc \in [Br -> Int]
  /\ dirf \in [DirFile -> DirType]
  /\ regf \in [RegFile -> RegType]
  /\ work \in [Work -> WorkType]
  /\ nested \in SUBSET Br
  /\ load \in Loads

(* An open root directory has each branch once, between fi_btop and        *)
(* fd_bbot; one that is closed has none.                                   *)
DirOK(d) ==
  /\ d.bbot < Cardinality(Br)
  /\ \A i \in Idx : d.h[i] # NoBr =>
       /\ d.open /\ d.btop <= i /\ i <= d.bbot /\ In(d.h[i])
       /\ \A j \in Idx : d.h[j] = d.h[i] => j = i
  /\ d.open /\ d.fresh => \A i \in Idx : d.h[i] = IF i <= Bend THEN brs[i + 1] ELSE NoBr

DirsOK == \A f \in DirFile : DirOK(dirf[f])

RootsFew == "del" \in Ops => \A f, g \in Roots : f = g

RegsOK == \A f \in RegFile : regf[f].br = NoBr => ~regf[f].wr

(* A pending work is for a branch that is there; past the point where it   *)
(* reads br_wbr it has what the branch has.                                *)
WorkOK(v) ==
  IF v.st = "none" THEN v = NoWork
  ELSE /\ v.kind \in Kinds /\ v.br \in Br /\ In(v.br)
       /\ v.kind = "rebase" => wbr[v.br] # NoWbr
       /\ v.wbr = IF v.kind = "rebase" /\ v.st = "waiting" THEN wbr[v.br] ELSE NoWbr

WorksOK == \A w \in Work : WorkOK(work[w])

(* The memory of br_wbr belongs to one branch, of those that are there.    *)
WbrsOwned ==
  /\ \A b, c \in Br : wbr[b] = wbr[c] /\ wbr[b] # NoWbr => b = c
  /\ \A b \in Br : ~In(b) => wbr[b] = NoWbr
  /\ \A b \in Br : In(b) /\ perm[b] = "rw" => wbr[b] # NoWbr

WorksOf(b, k) == {w \in Work : work[w].br = b /\ work[w].kind = k}
TruncCounted ==
  \A b \in Br : In(b) => trunc[b] = Cardinality(WorksOf(b, "trunc")) /\ trunc[b] <= 1
RebaseCounted ==
  \A b \in Br : In(b) /\ wbr[b] # NoWbr =>
    running[wbr[b]] = Cardinality(WorksOf(b, "rebase")) /\ running[wbr[b]] <= 1

BranchInv ==
  /\ TypeOK /\ DirsOK /\ RootsFew /\ RegsOK /\ WorksOK
  /\ WbrsOwned /\ TruncCounted /\ RebaseCounted
  /\ CountsExact /\ RegsHeld /\ IdsDistinct /\ WriterOnRw

-----------------------------------------------------------------------------
(* Induction stated for sets of natural numbers.                           *)
LEMMA SetInduction ==
  ASSUME NEW T \in SUBSET Nat, 0 \in T, \A n \in T : n + 1 \in T
  PROVE  \A n \in Nat : n \in T
  <1> SUFFICES ASSUME Nat \ T # {} PROVE FALSE OBVIOUS
  <1>1. PICK x \in Nat \ T : \A y \in Nat \ T : x <= y BY LeastNatural
  <1>2. x - 1 \in Nat /\ x - 1 \notin T BY <1>1
  <1> QED BY <1>1, <1>2

(* A function may be applied any number of times.                          *)
Path(p, S, x, G, K) == p \in [0 .. K -> S] /\ p[0] = x /\ \A k \in 1 .. K : p[k] = G[p[k - 1]]

LEMMA Iteration ==
  ASSUME NEW S, NEW x \in S, NEW G \in [S -> S], NEW K \in Nat
  PROVE  \E p : Path(p, S, x, G, K)
  <1> USE DEF Path
  <1> DEFINE T == {n \in Nat : \E p : Path(p, S, x, G, n)}
  <1>1. 0 \in T
    <2>1. Path([k \in 0 .. 0 |-> x], S, x, G, 0) OBVIOUS
    <2> QED BY <2>1
  <1>2. ASSUME NEW n \in T PROVE n + 1 \in T
    <2>1. PICK p : Path(p, S, x, G, n) BY <1>2
    <2> DEFINE q == [k \in 0 .. n + 1 |-> IF k = n + 1 THEN G[p[n]] ELSE p[k]]
    <2>2. q \in [0 .. n + 1 -> S] BY <2>1
    <2>3. q[0] = x /\ \A k \in 1 .. n + 1 : q[k] = G[q[k - 1]] BY <2>1
    <2> HIDE DEF q
    <2>4. Path(q, S, x, G, n + 1) BY <2>2, <2>3
    <2> QED BY <2>4
  <1> HIDE DEF T
  <1>3. K \in T BY <1>1, <1>2, SetInduction DEF T
  <1> QED BY <1>3 DEF T

-----------------------------------------------------------------------------
(* Where a branch is: its index is that of one place, and there are not    *)
(* more places than branches.                                              *)
LEMMA Places ==
  ASSUME TypeOK
  PROVE  /\ Len(brs) \in Nat /\ Len(brs) <= Cardinality(Br) /\ Cardinality(Br) \in Nat
         /\ DOMAIN brs = 1 .. Len(brs)
         /\ \A i \in 1 .. Len(brs) : brs[i] \in Br /\ In(brs[i]) /\ Index(brs[i]) = i - 1
         /\ \A b \in Br : In(b) => Index(b) \in 0 .. Bend /\ brs[Index(b) + 1] = b
         /\ \A b : In(b) => b \in Br
         /\ \A b : ~In(b) => Index(b) = -1
  <1> USE DEF TypeOK
  <1>1. Len(brs) \in Nat /\ DOMAIN brs = 1 .. Len(brs) /\ brs \in [1 .. Len(brs) -> Br]
    BY LenProperties
  <1>2. Cardinality(Br) \in Nat BY FS_CardinalityType, FiniteAssumption
  <1>3. Len(brs) <= Cardinality(Br)
    <2>1. brs \in Injection(1 .. Len(brs), Br) BY <1>1 DEF Injection, IsInjective
    <2>2. Cardinality(1 .. Len(brs)) = IF 1 > Len(brs) THEN 0 ELSE Len(brs) - 1 + 1
      BY <1>1, FS_Interval
    <2>3. IsFiniteSet(Br) BY FiniteAssumption
    <2>4. Cardinality(1 .. Len(brs)) <= Cardinality(Br)
      BY ONLY <2>1, <2>3, FS_Injection, Zenon
    <2> QED BY <2>2, <2>4, <1>1
  <1>4. ASSUME NEW i \in 1 .. Len(brs) PROVE brs[i] \in Br /\ In(brs[i]) /\ Index(brs[i]) = i - 1
    <2>1. brs[i] \in Br /\ In(brs[i]) BY <1>1 DEF In
    <2>2. (CHOOSE k \in DOMAIN brs : brs[k] = brs[i]) = i BY <1>1
    <2> QED BY <2>1, <2>2 DEF Index
  <1>5. ASSUME NEW b, In(b) PROVE b \in Br /\ Index(b) \in 0 .. Bend /\ brs[Index(b) + 1] = b
    <2>1. PICK i \in 1 .. Len(brs) : brs[i] = b BY <1>1, <1>5 DEF In
    <2>2. Index(b) = i - 1 BY <2>1, <1>4
    <2> QED BY <2>1, <2>2, <1>1 DEF Bend
  <1>6. \A b : ~In(b) => Index(b) = -1 BY DEF Index
  <1> HIDE DEF TypeOK
  <1> QED BY <1>1, <1>2, <1>3, <1>4, <1>5, <1>6

(* A branch is found by its id, as no other has that id.                   *)
LEMMA FoundById ==
  ASSUME TypeOK, IdsDistinct, NEW b \in Br, In(b)
  PROVE  BrIndex(b) = Index(b)
  <1> DEFINE S == {i \in DOMAIN brs : id[brs[i]] = id[b]}
  <1>1. PICK k \in 1 .. Len(brs) : brs[k] = b /\ k = Index(b) + 1 BY Places DEF In
  <1>2. k \in DOMAIN brs /\ k \in Int /\ Index(b) \in Int BY <1>1, Places
  <1>3. ASSUME NEW i \in DOMAIN brs, id[brs[i]] = id[b] PROVE i = k
    <2>1. brs[i] \in Br /\ In(brs[i]) /\ Index(brs[i]) = i - 1 /\ i \in Int BY Places
    <2>2. brs[i] = b BY <2>1, <1>3 DEF IdsDistinct
    <2> QED BY <2>1, <2>2, <1>1, <1>2
  <1>4. S = {k} BY <1>1, <1>2, <1>3
  <1>5. Min(S) = k BY <1>4, <1>2 DEF Min
  <1>6. BrIndex(b) = IF S = {} THEN -1 ELSE Min(S) - 1 BY DEF BrIndex
  <1> HIDE DEF S
  <1> QED BY <1>1, <1>2, <1>4, <1>5, <1>6

-----------------------------------------------------------------------------
(* The loop of au_do_refresh_dir.  What is before its index, and what is   *)
(* past fd_bbot, is nothing or in its place; a branch is there once.       *)
Placed(h, j) == h[j] # NoBr /\ Index(h[j]) = j
AllPlaced(h) == {j \in Idx : Placed(h, j)}

LoopState(f) == {s \in [i : Nat, h : [Idx -> Br \cup {NoBr}]] :
  /\ \A j \in Idx : s.h[j] # NoBr => In(s.h[j]) /\ \A k \in Idx : s.h[k] = s.h[j] => k = j
  /\ \A j \in Idx : j < s.i \/ j > dirf[f].bbot => s.h[j] = NoBr \/ Placed(s.h, j)}

LEMMA PlacedFew ==
  ASSUME TypeOK, NEW h
  PROVE  /\ Cardinality(AllPlaced(h)) \in Nat /\ Cardinality(AllPlaced(h)) <= Cardinality(Br)
         /\ IsFiniteSet(AllPlaced(h))
  <1>1. Cardinality(Br) \in Nat BY Places
  <1>2. IsFiniteSet(Idx) /\ Cardinality(Idx) = Cardinality(Br)
    BY <1>1, FS_Interval DEF Idx
  <1>3. AllPlaced(h) \in SUBSET Idx BY DEF AllPlaced
  <1> QED BY <1>1, <1>2, <1>3, FS_Subset, FS_CardinalityType

(* A turn keeps to this, and goes on or puts one more in its place.        *)
LEMMA TurnStep ==
  ASSUME TypeOK, IdsDistinct, NEW f \in DirFile, DirOK(dirf[f]), NEW s \in LoopState(f)
  PROVE  /\ Turn(f, s) \in LoopState(f)
         /\ s.i > dirf[f].bbot => Turn(f, s) = s
         /\ s.i <= dirf[f].bbot =>
              Turn(f, s).i + Cardinality(AllPlaced(Turn(f, s).h)) > s.i + Cardinality(AllPlaced(s.h))
  <1> DEFINE t == Turn(f, s)
             n == BrIndex(s.h[s.i])
             bbot == dirf[f].bbot
  <1>1. /\ s.i \in Nat /\ s.h \in [Idx -> Br \cup {NoBr}]
        /\ \A j \in Idx : s.h[j] # NoBr => In(s.h[j]) /\ \A k \in Idx : s.h[k] = s.h[j] => k = j
        /\ \A j \in Idx : j < s.i \/ j > bbot => s.h[j] = NoBr \/ Placed(s.h, j)
        /\ s = [i |-> s.i, h |-> s.h]
    BY DEF LoopState
  <1>2. bbot \in Int /\ bbot < Cardinality(Br) /\ Cardinality(Br) \in Nat
    BY Places DEF TypeOK, DirType, DirOK
  <1>3. \A h : Cardinality(AllPlaced(h)) \in Nat BY PlacedFew
  <1>4. CASE s.i > bbot
    <2>1. t = s BY <1>4 DEF Turn, TurnTo
    <2> QED BY <2>1, <1>4, <1>1, <1>2
  <1>5. CASE s.i <= bbot
    <2>1. s.i \in Idx BY <1>5, <1>1, <1>2 DEF Idx
    <2>2. CASE s.h[s.i] = NoBr \/ n = s.i
      <3>1. t = [i |-> s.i + 1, h |-> s.h] BY <2>2, <1>5, <1>1, <1>2 DEF Turn, TurnTo
      <3>2. t.i = s.i + 1 /\ t.h = s.h BY <3>1
      <3>3. s.h[s.i] = NoBr \/ Placed(s.h, s.i) BY <2>2, <2>1, <1>1, FoundById DEF Placed
      <3>4. t \in LoopState(f) BY <3>1, <3>3, <1>1, <2>1 DEF LoopState, Idx
      <3> QED BY <3>2, <3>4, <1>1, <1>2, <1>3, <1>5
    <2>3. CASE s.h[s.i] # NoBr /\ n # s.i
      <3> DEFINE b == s.h[s.i]
                 g == Swap(s.h, s.i, n)
      <3>0. b \in Br /\ In(b) /\ n = Index(b) BY <2>1, <2>3, <1>1, FoundById
      <3>1. b \in Br /\ In(b) /\ n \in Idx /\ brs[n + 1] = b /\ n # s.i
        BY <3>0, <2>1, <2>3, <1>1, Places DEF Idx, Bend
      <3>2. t = [i |-> IF s.h[n] # NoBr THEN s.i ELSE s.i + 1, h |-> g]
        BY <3>1, <2>3, <1>5, <1>1, <1>2 DEF Turn, TurnTo, Idx
      <3> HIDE DEF t
      <3>3. /\ g \in [Idx -> Br \cup {NoBr}] /\ g[s.i] = s.h[n] /\ g[n] = b
            /\ \A j \in Idx : j # s.i /\ j # n => g[j] = s.h[j]
        BY <3>1, <2>1, <1>1 DEF Swap
      <3> HIDE DEF g
      <3>4. ~Placed(s.h, n) /\ ~Placed(s.h, s.i) BY <3>0, <3>1, <2>1, <2>3, <1>1, Places DEF Placed
      <3>5. ASSUME n < s.i \/ n > bbot PROVE s.h[n] = NoBr BY <3>5, <3>4, <3>1, <1>1
      <3>6. Placed(g, n) BY <3>3, <3>0, <3>1, <2>3 DEF Placed
      <3>7. \A j \in Idx : j # s.i /\ j # n => (Placed(g, j) <=> Placed(s.h, j))
        BY <3>3 DEF Placed
      <3>8. t.i = (IF s.h[n] # NoBr THEN s.i ELSE s.i + 1) /\ t.h = g BY <3>2
      <3>9. ASSUME NEW j \in Idx, g[j] # NoBr
            PROVE  In(g[j]) /\ \A k \in Idx : g[k] = g[j] => k = j
        <4>1. In(g[j]) BY <3>9, <3>3, <3>1, <1>1, <2>1
        <4>2. ASSUME NEW k \in Idx, g[k] = g[j] PROVE k = j
          BY <3>9, <4>2, <3>3, <3>1, <1>1, <2>1
        <4> QED BY <4>1, <4>2
      <3>10. ASSUME NEW j \in Idx, j < t.i \/ j > bbot PROVE g[j] = NoBr \/ Placed(g, j)
        <4>1. CASE j = n BY <4>1, <3>6
        <4>2. CASE j = s.i
          <5>1. s.h[n] = NoBr BY <4>2, <3>8, <3>10, <1>5, <1>1, <1>2
          <5> QED BY <5>1, <4>2, <3>3
        <4>3. CASE j # n /\ j # s.i
          <5>1. j < s.i \/ j > bbot BY <4>3, <3>8, <3>10, <1>1 DEF Idx
          <5>2. s.h[j] = NoBr \/ Placed(s.h, j) BY <5>1, <1>1
          <5> QED BY <5>2, <4>3, <3>3, <3>7
        <4> QED BY <4>1, <4>2, <4>3
      <3>11. t.i \in Nat BY <3>8, <1>1
      <3>12. t \in LoopState(f) BY <3>2, <3>8, <3>3, <3>9, <3>10, <3>11 DEF LoopState
      <3>13. AllPlaced(s.h) \cup {n} = AllPlaced(g) \ {s.i} /\ n \notin AllPlaced(s.h)
        <4>1. n \in Idx /\ n # s.i BY <3>1
        <4> HIDE DEF n
        <4> QED BY <4>1, <3>4, <3>6, <3>7, <2>1 DEF AllPlaced
      <3>14. Cardinality(AllPlaced(g)) >= Cardinality(AllPlaced(s.h)) + 1
        <4>1. Cardinality(AllPlaced(s.h) \cup {n}) = Cardinality(AllPlaced(s.h)) + 1
          BY <3>13, PlacedFew, FS_AddElement
        <4>2. Cardinality(AllPlaced(s.h) \cup {n}) <= Cardinality(AllPlaced(g))
          BY <3>13, PlacedFew, FS_Subset
        <4> QED BY <4>1, <4>2, <1>3
      <3>15. t.i + Cardinality(AllPlaced(t.h)) > s.i + Cardinality(AllPlaced(s.h))
        <4>1. t.h = g /\ t.i >= s.i /\ t.i \in Nat /\ s.i \in Nat BY <3>8, <3>11, <1>1
        <4> QED BY <4>1, <3>14, <1>3
      <3>16. ~(s.i > bbot) BY <1>5, <1>1, <1>2
      <3> QED BY <3>12, <3>15, <3>16 DEF t
    <2> QED BY <2>2, <2>3
  <1> QED BY <1>4, <1>5, <1>1, <1>2

(* The loop ends, so what is left has its place.                           *)
LEMMA RearrangedPlaced ==
  ASSUME TypeOK, IdsDistinct, NEW f \in DirFile, DirOK(dirf[f])
  PROVE  /\ Rearranged(f) \in [Idx -> Br \cup {NoBr}]
         /\ \A j \in Idx : Rearranged(f)[j] # NoBr => Placed(Rearranged(f), j) /\ In(Rearranged(f)[j])
  <1> DEFINE N == Cardinality(Br)
             K == 2 * Cardinality(Br)
             S == LoopState(f)
             x == [i |-> dirf[f].btop, h |-> dirf[f].h]
             G == [s \in S |-> Turn(f, s)]
             Body(l) == [k \in 0 .. K |-> IF k = 0 THEN x ELSE Turn(f, l[k - 1])]
             Loop == CHOOSE l : l = Body(l)
  <1>1. N \in Nat /\ K \in Nat BY Places
  <1>2. x \in S
    <2>1. dirf[f].btop \in Nat /\ dirf[f].bbot \in Int /\ dirf[f].h \in [Idx -> Br \cup {NoBr}]
      BY DEF TypeOK, DirType
    <2>2. \A j \in Idx : dirf[f].h[j] # NoBr =>
            /\ dirf[f].btop <= j /\ j <= dirf[f].bbot /\ In(dirf[f].h[j])
            /\ \A k \in Idx : dirf[f].h[k] = dirf[f].h[j] => k = j
      BY DEF DirOK
    <2>3. \A j \in Idx : j < dirf[f].btop \/ j > dirf[f].bbot => dirf[f].h[j] = NoBr
      BY <2>1, <2>2, <1>1 DEF Idx
    <2> QED BY <2>1, <2>2, <2>3 DEF LoopState
  <1>3. G \in [S -> S] BY TurnStep
  <1>4. PICK p : Path(p, S, x, G, K)
    <2> HIDE DEF S, x, G, K
    <2> QED BY <1>1, <1>2, <1>3, Iteration
  <1>5. p = Body(p)
    <2> HIDE DEF S, x, K
    <2>1. ASSUME NEW k \in 1 .. K PROVE p[k] = Turn(f, p[k - 1])
      <3>1. k - 1 \in 0 .. K BY <1>1
      <3>2. p[k - 1] \in S BY <3>1, <1>4 DEF Path
      <3>3. G[p[k - 1]] = Turn(f, p[k - 1]) BY <3>2
      <3> QED BY <3>3, <1>4 DEF Path
    <2>2. p = [k \in 0 .. K |-> p[k]] /\ p[0] = x BY <1>4 DEF Path
    <2>3. \A k \in 0 .. K : p[k] = IF k = 0 THEN x ELSE Turn(f, p[k - 1])
      <3>1. \A k \in 0 .. K : k = 0 \/ k \in 1 .. K BY <1>1
      <3> QED BY <2>1, <2>2, <3>1, Zenon
    <2>4. [k \in 0 .. K |-> p[k]] = Body(p) BY <2>3, Zenon
    <2> HIDE DEF Body
    <2> QED BY <2>2, <2>4
  <1>6. Loop = Body(Loop)
    <2> HIDE DEF Body
    <2> QED BY <1>5
  <1>7. Rearranged(f) = Loop[K].h BY Zenon DEF Rearranged
  <1> HIDE DEF Loop
  <1> DEFINE Far(k) == /\ Loop[k] \in S
                       /\ Loop[k].i > dirf[f].bbot
                          \/ Loop[k].i + Cardinality(AllPlaced(Loop[k].h)) >= k
             T == {k \in Nat : k <= K => Far(k)}
  <1>8. Loop[0] = x /\ \A k \in 1 .. K : Loop[k] = Turn(f, Loop[k - 1])
    <2> HIDE DEF x, K
    <2> QED BY <1>6, <1>1
  <1>9. \A s \in S : s.i \in Nat /\ Cardinality(AllPlaced(s.h)) \in Nat BY PlacedFew DEF LoopState
  <1>10. 0 \in T
    <2> HIDE DEF S, x
    <2> QED BY <1>8, <1>9, <1>2, <1>1
  <1>11. ASSUME NEW k \in T PROVE k + 1 \in T
    <2> SUFFICES ASSUME k + 1 <= K PROVE Far(k + 1) BY <1>1
    <2> DEFINE s == Loop[k]
               t == Loop[k + 1]
    <2>1. Far(k) /\ k \in Nat BY <1>1
    <2>2. t = Turn(f, s)
      <3>1. k + 1 \in 1 .. K /\ (k + 1) - 1 = k BY <2>1, <1>1
      <3> QED BY <3>1, <1>8
    <2>3. s \in S BY <2>1
    <2> HIDE DEF s, t
    <2>4. /\ t \in S
          /\ s.i > dirf[f].bbot => t = s
          /\ s.i <= dirf[f].bbot =>
               t.i + Cardinality(AllPlaced(t.h)) > s.i + Cardinality(AllPlaced(s.h))
      BY <2>2, <2>3, TurnStep
    <2>5. dirf[f].bbot \in Int BY DEF TypeOK, DirType
    <2> HIDE DEF S
    <2> QED BY <2>1, <2>3, <2>4, <2>5, <1>9 DEF s, t
  <1>12. Far(K)
    <2> HIDE DEF T
    <2>1. K \in T BY <1>1, <1>10, <1>11, SetInduction DEF T
    <2> QED BY <2>1, <1>1 DEF T
  <1>13. Loop[K].i > dirf[f].bbot
    <2>1. dirf[f].bbot < N BY DEF DirOK
    <2>2. dirf[f].bbot \in Int BY DEF TypeOK, DirType
    <2>3. Cardinality(AllPlaced(Loop[K].h)) <= N BY PlacedFew
    <2> HIDE DEF S
    <2> QED BY <1>12, <1>1, <1>9, <2>1, <2>2, <2>3
  <1>14. dirf[f].bbot \in Int BY DEF TypeOK, DirType
  <1> DEFINE s == Loop[K]
  <1>15. s \in S /\ s.i > dirf[f].bbot /\ Rearranged(f) = s.h BY <1>7, <1>12, <1>13
  <1> HIDE DEF s
  <1>16. ASSUME NEW j \in Idx, s.h[j] # NoBr PROVE Placed(s.h, j) /\ In(s.h[j])
    <2>1. j < s.i \/ j > dirf[f].bbot BY <1>14, <1>15 DEF LoopState, Idx
    <2> QED BY <2>1, <1>15, <1>16 DEF LoopState
  <1> QED BY <1>15, <1>16 DEF LoopState

-----------------------------------------------------------------------------
(* The ids.  Among as many numbers as AUFS_BRANCH_MAX + 1 after the last   *)
(* one the wrap makes no two equal, and zero and the ids in use are fewer. *)
LEMMA SameRemainder ==
  ASSUME NEW d \in Nat \ {0}, NEW x \in Int, NEW y \in Int,
         x % d = y % d, x - y < d, y - x < d
  PROVE  x = y
  <1>1. PICK p \in Int : p = x \div d BY Quotient
  <1>2. PICK q \in Int : q = y \div d BY Quotient
  <1>3. PICK r \in Int : r = x % d OBVIOUS
  <1>4. x = d * p + r BY <1>1, <1>3, Division
  <1>5. y = d * q + r BY <1>2, <1>3, Division
  <1>6. x - y = d * (p - q)
    <2>1. d * (p - q) = d * p - d * q OBVIOUS
    <2>2. d * p \in Int /\ d * q \in Int OBVIOUS
    <2> QED BY <1>4, <1>5, <2>1, <2>2
  <1>7. p - q = 0
    <2>1. p - q \in Int /\ d * (p - q) < d /\ d * (p - q) > -d BY <1>6
    <2> QED BY <2>1, SmallMultiple
  <1> QED BY <1>4, <1>5, <1>7

LEMMA WrapDiffers ==
  ASSUME NEW x \in Int, NEW y \in Int, Wrap(x) = Wrap(y), x - y <= BranchMax, y - x <= BranchMax
  PROVE  x = y
  <1> USE BranchMaxAssumption
  <1> DEFINE d == 2 * (BranchMax + 1)
             v == x + BranchMax + 1
             w == y + BranchMax + 1
  <1>1. d \in Nat \ {0} /\ d > BranchMax /\ v \in Int /\ w \in Int OBVIOUS
  <1>2. v - w < d /\ w - v < d OBVIOUS
  <1>3. v % d \in Int BY <1>1
  <1>4. w % d \in Int BY <1>1
  <1>5. v % d = w % d BY <1>3, <1>4 DEF Wrap
  <1> HIDE DEF d
  <1>6. v = w BY <1>1, <1>2, <1>5, SameRemainder
  <1> QED BY <1>6

LEMMA WrapType == ASSUME NEW x \in Int PROVE Wrap(x) \in Int
  <1> USE BranchMaxAssumption
  <1>1. x + BranchMax + 1 \in Int /\ 2 * (BranchMax + 1) \in Nat \ {0} OBVIOUS
  <1>2. (x + BranchMax + 1) % (2 * (BranchMax + 1)) \in Int BY <1>1
  <1> QED BY <1>2 DEF Wrap

LEMMA NewIdUnused ==
  ASSUME TypeOK, Len(brs) < BranchMax
  PROVE  NewId \in Int /\ ~Used(NewId)
  <1> USE BranchMaxAssumption
  <1> DEFINE L == Len(brs)
             J == {j \in 1 .. BranchMax + 1 : Wrap(lastId + j) # 0 /\ ~Used(Wrap(lastId + j))}
             g == [k \in 0 .. L |-> IF k = 0 THEN 0 ELSE id[brs[k]]]
             T == {g[k] : k \in 0 .. L}
             h == [j \in 1 .. BranchMax + 1 |-> Wrap(lastId + j)]
  <1>1. L \in Nat /\ L < BranchMax /\ lastId \in Int BY Places DEF TypeOK
  <1>2. IsFiniteSet(T) /\ Cardinality(T) <= L + 1
    <2>1. IsFiniteSet(0 .. L) /\ Cardinality(0 .. L) = L + 1
      <3>1. IsFiniteSet(0 .. L) /\ Cardinality(0 .. L) = IF 0 > L THEN 0 ELSE L - 0 + 1
        BY <1>1, FS_Interval
      <3> QED BY <3>1, <1>1
    <2>2. g \in Surjection(0 .. L, T)
      <3> HIDE DEF L
      <3> QED BY DEF Surjection
    <2> HIDE DEF L, T, g
    <2> QED BY <2>1, <2>2, FS_Surjection
  <1>3. J # {}
    <2> SUFFICES ASSUME J = {} PROVE FALSE OBVIOUS
    <2>1. ASSUME NEW j \in 1 .. BranchMax + 1 PROVE h[j] \in T
      <3>1. h[j] = 0 \/ Used(h[j]) OBVIOUS
      <3>2. CASE h[j] = 0
        <4>1. 0 \in 0 .. L /\ g[0] = 0 BY <1>1
        <4> QED BY <3>2, <4>1
      <3>3. CASE Used(h[j])
        <4>1. PICK b \in Br : In(b) /\ id[b] = h[j] BY <3>3 DEF Used
        <4>2. PICK k \in 1 .. L : brs[k] = b BY <4>1, Places DEF In
        <4>3. k \in 0 .. L /\ g[k] = id[b] BY <4>2, <1>1
        <4> QED BY <4>1, <4>3
      <3> QED BY <3>1, <3>2, <3>3
    <2>2. h \in [1 .. BranchMax + 1 -> T]
      <3> HIDE DEF T
      <3> QED BY <2>1
    <2>3. IsFiniteSet(1 .. BranchMax + 1) /\ Cardinality(1 .. BranchMax + 1) = BranchMax + 1
      <3>1. /\ IsFiniteSet(1 .. BranchMax + 1)
            /\ Cardinality(1 .. BranchMax + 1) =
                 IF 1 > BranchMax + 1 THEN 0 ELSE (BranchMax + 1) - 1 + 1
        BY FS_Interval
      <3> QED BY <3>1
    <2>4. Cardinality(T) < Cardinality(1 .. BranchMax + 1)
      <3> HIDE DEF T, L
      <3>1. Cardinality(T) \in Nat BY <1>2, FS_CardinalityType
      <3> QED BY <3>1, <1>1, <1>2, <2>3
    <2>5. \E x, y \in 1 .. BranchMax + 1 : x # y /\ h[x] = h[y]
      <3> DEFINE D == 1 .. BranchMax + 1
      <3>1. IsFiniteSet(D) /\ h \in [D -> T] /\ Cardinality(T) < Cardinality(D)
        BY <2>2, <2>3, <2>4
      <3>2. IsFiniteSet(T) BY <1>2
      <3> HIDE DEF T, h, D
      <3>3. \E x, y \in D : x # y /\ h[x] = h[y] BY <3>1, <3>2, FS_PigeonHole
      <3> QED BY <3>3 DEF D
    <2>6. PICK x, y \in 1 .. BranchMax + 1 : x # y /\ h[x] = h[y] BY <2>5
    <2>7. Wrap(lastId + x) = Wrap(lastId + y) BY <2>6
    <2>8. lastId + x \in Int /\ lastId + y \in Int BY <1>1
    <2>9. (lastId + x) - (lastId + y) <= BranchMax /\ (lastId + y) - (lastId + x) <= BranchMax
      BY <1>1
    <2>10. lastId + x = lastId + y BY <2>7, <2>8, <2>9, WrapDiffers
    <2> QED BY <2>6, <2>10, <1>1
  <1>4. J \in SUBSET Nat OBVIOUS
  <1>5. Min(J) \in J
    <2> HIDE DEF J
    <2> QED BY <1>3, <1>4, LeastNatural
  <1>6. NewId = Wrap(lastId + Min(J)) BY DEF NewId
  <1>7. Min(J) \in Nat /\ ~Used(Wrap(lastId + Min(J)))
    <2> DEFINE m == Min(J)
    <2>1. m \in J BY <1>5
    <2> HIDE DEF m
    <2> QED BY <2>1 DEF m
  <1>8. lastId + Min(J) \in Int
    <2> HIDE DEF J
    <2> QED BY <1>1, <1>7
  <1> HIDE DEF J
  <1> QED BY <1>6, <1>7, <1>8, WrapType

-----------------------------------------------------------------------------
(* The steps, one by one.                                                  *)
LEMMA NextSteps ==
  ASSUME Next
  PROVE  \/ \E f \in DirFile : \/ OpenDir(f) \/ CloseDir(f) \/ RefreshDir(f) \/ RefreshDirFail(f)
         \/ \E f \in RegFile, b \in Br, wr, mm \in BOOLEAN : OpenReg(f, b, wr, mm)
         \/ \E f \in RegFile : CloseReg(f)
         \/ \E b \in Br : \/ KickRebase(b) \/ KickTrunc(b) \/ KickRmdir(b)
                          \/ DelBr(b) \/ ModRo(b) \/ ModRw(b)
         \/ \E w \in Work : WorkStart(w) \/ WorkRun(w)
         \/ RemountFlush \/ RemountRefused
         \/ \E b \in Br, p \in {"rw", "ro"}, i \in 0 .. Len(brs) : AddBr(b, p, i)
  BY DEF Next

(* The places after a branch was added or deleted.                         *)
LEMMA AddedPlaces ==
  ASSUME TypeOK, NEW b \in Br, NEW p \in {"rw", "ro"}, NEW i \in 0 .. Len(brs), AddBr(b, p, i)
  PROVE  /\ brs' \in Seq(Br) /\ \A j, k \in 1 .. Len(brs') : brs'[j] = brs'[k] => j = k
         /\ \A c : In(c)' <=> In(c) \/ c = b
  <1> DEFINE L == Len(brs)
             m == i + 1
             t == InsertAt(brs, m, b)
  <1>1. L \in Nat /\ DOMAIN brs = 1 .. L BY Places
  <1>2. m \in 1 .. L + 1 /\ m \in Nat /\ m - 1 = i BY <1>1
  <1>3. /\ t \in Seq(Br) /\ Len(t) = L + 1
        /\ \A k \in 1 .. L + 1 : t[k] = IF k < m THEN brs[k] ELSE IF k = m THEN b ELSE brs[k - 1]
    <2>1. brs \in Seq(Br) BY DEF TypeOK
    <2> HIDE DEF m
    <2> QED BY <1>2, <2>1, InsertedAt
  <1>4. brs' = t /\ \A k \in 1 .. L : brs[k] # b BY <1>1 DEF AddBr, In
  <1>5. \A j, k \in 1 .. L : brs[j] = brs[k] => j = k BY DEF TypeOK
  <1>6. DOMAIN t = 1 .. L + 1 BY <1>3, LenProperties
  <1> HIDE DEF t, m, L
  <1>7. ASSUME NEW j \in 1 .. L + 1, NEW k \in 1 .. L + 1, t[j] = t[k] PROVE j = k
    BY <1>1, <1>2, <1>3, <1>4, <1>5, <1>7
  <1>8. ASSUME NEW c PROVE (\E k \in 1 .. L + 1 : t[k] = c) <=> (\E k \in 1 .. L : brs[k] = c) \/ c = b
    <2>1. ASSUME NEW k \in 1 .. L + 1, t[k] = c, c # b PROVE \E j \in 1 .. L : brs[j] = c
      <3>1. CASE k < m BY <3>1, <2>1, <1>1, <1>2, <1>3
      <3>2. CASE k > m
        <4>1. k - 1 \in 1 .. L /\ t[k] = brs[k - 1] BY <3>2, <1>1, <1>2, <1>3
        <4> QED BY <4>1, <2>1
      <3> QED BY <3>1, <3>2, <2>1, <1>1, <1>2, <1>3
    <2>2. ASSUME NEW k \in 1 .. L, brs[k] = c PROVE \E j \in 1 .. L + 1 : t[j] = c
      <3>1. CASE k < m BY <3>1, <2>2, <1>1, <1>2, <1>3
      <3>2. CASE k >= m
        <4>1. k + 1 \in 1 .. L + 1 /\ (k + 1) - 1 = k /\ k + 1 > m BY <3>2, <1>1, <1>2
        <4>2. t[k + 1] = brs[k] BY <4>1, <1>2, <1>3
        <4> QED BY <4>1, <4>2, <2>2
      <3> QED BY <3>1, <3>2, <1>1, <1>2
    <2>3. t[m] = b /\ m \in 1 .. L + 1 BY <1>2, <1>3
    <2> QED BY <2>1, <2>2, <2>3
  <1>9. \A c : In(c)' <=> \E k \in 1 .. L + 1 : t[k] = c BY <1>4, <1>6 DEF In
  <1>10. \A c : In(c) <=> \E k \in 1 .. L : brs[k] = c BY <1>1 DEF In
  <1> QED BY <1>3, <1>4, <1>7, <1>8, <1>9, <1>10

LEMMA RemovedPlaces ==
  ASSUME TypeOK, NEW b \in Br, DelBr(b)
  PROVE  /\ brs' \in Seq(Br) /\ \A j, k \in 1 .. Len(brs') : brs'[j] = brs'[k] => j = k
         /\ \A c : In(c)' <=> In(c) /\ c # b
  <1> DEFINE L == Len(brs)
             m == Index(b) + 1
             t == RemoveAt(brs, m)
  <1>1. L \in Nat /\ DOMAIN brs = 1 .. L BY Places
  <1>2. m \in 1 .. L /\ brs[m] = b
    <2>1. Index(b) \in 0 .. Bend /\ brs[Index(b) + 1] = b BY Places DEF DelBr
    <2> QED BY <2>1, <1>1 DEF Bend
  <1>3. /\ t \in Seq(Br) /\ Len(t) = L - 1
        /\ \A k \in 1 .. L - 1 : t[k] = IF k < m THEN brs[k] ELSE brs[k + 1]
    <2> HIDE DEF m
    <2> QED BY <1>2, RemovedAt DEF TypeOK
  <1>4. brs' = t BY DEF DelBr
  <1>5. \A j, k \in 1 .. L : brs[j] = brs[k] => j = k BY DEF TypeOK
  <1>6. DOMAIN t = 1 .. L - 1 BY <1>3, LenProperties
  <1> HIDE DEF t, m, L
  <1>7. ASSUME NEW j \in 1 .. L - 1, NEW k \in 1 .. L - 1, t[j] = t[k] PROVE j = k
    <2>1. PICK u \in 1 .. L : t[j] = brs[u] /\ u = IF j < m THEN j ELSE j + 1 BY <1>1, <1>2, <1>3
    <2>2. PICK v \in 1 .. L : t[k] = brs[v] /\ v = IF k < m THEN k ELSE k + 1 BY <1>1, <1>2, <1>3
    <2>3. u = v BY <1>5, <1>7, <2>1, <2>2
    <2> QED BY <2>1, <2>2, <2>3, <1>1, <1>2
  <1>8. ASSUME NEW c PROVE (\E k \in 1 .. L - 1 : t[k] = c) <=> (\E k \in 1 .. L : brs[k] = c) /\ c # b
    <2>1. ASSUME NEW k \in 1 .. L - 1, t[k] = c PROVE (\E j \in 1 .. L : brs[j] = c) /\ c # b
      <3>1. PICK u \in 1 .. L : t[k] = brs[u] /\ u # m BY <1>1, <1>2, <1>3
      <3> QED BY <3>1, <2>1, <1>2, <1>5
    <2>2. ASSUME NEW k \in 1 .. L, brs[k] = c, c # b PROVE \E j \in 1 .. L - 1 : t[j] = c
      <3>1. k # m BY <2>2, <1>2
      <3>2. CASE k < m BY <3>2, <2>2, <1>1, <1>2, <1>3
      <3>3. CASE k > m
        <4>1. k - 1 \in 1 .. L - 1 /\ (k - 1) + 1 = k /\ ~(k - 1 < m) BY <3>3, <1>1, <1>2
        <4>2. t[k - 1] = brs[k] BY <4>1, <1>3
        <4> QED BY <4>1, <4>2, <2>2
      <3> QED BY <3>1, <3>2, <3>3, <1>1, <1>2
    <2> QED BY <2>1, <2>2
  <1>9. \A c : In(c)' <=> \E k \in 1 .. L - 1 : t[k] = c BY <1>4, <1>6 DEF In
  <1>10. \A c : In(c) <=> \E k \in 1 .. L : brs[k] = c BY <1>1 DEF In
  <1> QED BY <1>3, <1>4, <1>7, <1>8, <1>9, <1>10

(* A refresh gives each index the branch there.                            *)
Slots == [i \in Idx |-> IF i <= Bend THEN brs[i + 1] ELSE NoBr]
FreshDir == [open |-> TRUE, h |-> Slots, btop |-> 0, bbot |-> Bend, fresh |-> TRUE]

LEMMA SlotsPlaced ==
  ASSUME TypeOK
  PROVE  /\ Slots \in [Idx -> Br \cup {NoBr}]
         /\ \A i \in Idx : Slots[i] # NoBr => i <= Bend /\ In(Slots[i]) /\ Index(Slots[i]) = i
         /\ \A b \in Br : In(b) => Index(b) \in Idx /\ Slots[Index(b)] = b
  <1>1. Len(brs) \in Nat /\ Cardinality(Br) \in Nat /\ Len(brs) <= Cardinality(Br) BY Places
  <1>2. ASSUME NEW i \in Idx, i <= Bend
        PROVE  i + 1 \in 1 .. Len(brs) /\ brs[i + 1] \in Br /\ In(brs[i + 1]) /\ Index(brs[i + 1]) = i
    <2>1. i + 1 \in 1 .. Len(brs) /\ (i + 1) - 1 = i BY <1>1, <1>2 DEF Idx, Bend
    <2> QED BY <2>1, Places
  <1>3. ASSUME NEW b \in Br, In(b) PROVE Index(b) \in Idx /\ Slots[Index(b)] = b
    <2>1. Index(b) \in 0 .. Bend /\ brs[Index(b) + 1] = b BY <1>3, Places
    <2>2. Index(b) \in Idx /\ Index(b) <= Bend BY <2>1, <1>1 DEF Idx, Bend
    <2> QED BY <2>1, <2>2 DEF Slots
  <1>4. ASSUME NEW i \in Idx
        PROVE  /\ Slots[i] \in Br \cup {NoBr}
               /\ Slots[i] # NoBr => i <= Bend /\ In(Slots[i]) /\ Index(Slots[i]) = i
    BY <1>2 DEF Slots
  <1> QED BY <1>3, <1>4 DEF Slots

LEMMA Refreshed ==
  ASSUME TypeOK, IdsDistinct, NEW f \in DirFile, DirOK(dirf[f]), RefreshDir(f)
  PROVE  /\ dirf' = [dirf EXCEPT ![f] = FreshDir]
         /\ count' = [b \in Br |-> count[b] + HfilesOn(Slots, b) - HfilesOn(dirf[f].h, b)]
  <1> DEFINE h  == Rearranged(f)
             h2 == [i \in Idx |-> IF i > Bend THEN NoBr ELSE IF h[i] = NoBr THEN brs[i + 1] ELSE h[i]]
  <1>1. Len(brs) \in Nat BY Places
  <1>2. ASSUME NEW i \in Idx PROVE h2[i] = Slots[i]
    <2>1. i \in Int /\ Bend \in Int BY <1>1 DEF Idx, Bend
    <2>2. CASE i > Bend
      <3>1. ~(i <= Bend) BY <2>1, <2>2
      <3>2. h2[i] = NoBr BY <2>2
      <3>3. Slots[i] = NoBr BY <3>1 DEF Slots
      <3> QED BY <3>2, <3>3
    <2>3. CASE i <= Bend /\ h[i] = NoBr BY <2>1, <2>3 DEF Slots
    <2>4. CASE i <= Bend /\ h[i] # NoBr
      <3>1. Placed(h, i) /\ In(h[i]) BY <2>4, RearrangedPlaced
      <3>2. brs[i + 1] = h[i] BY <3>1, Places DEF Placed
      <3> HIDE DEF h
      <3>3. h2[i] = h[i] BY <2>1, <2>4
      <3> QED BY <2>4, <3>2, <3>3 DEF Slots
    <2> QED BY <2>1, <2>2, <2>3, <2>4
  <1>3. h2 = Slots BY <1>2 DEF Slots
  <1>4. /\ dirf' = [dirf EXCEPT ![f] =
                [open |-> TRUE, h |-> h2, btop |-> 0, bbot |-> Bend, fresh |-> TRUE]]
        /\ count' = [b \in Br |-> count[b] + HfilesOn(h2, b) - HfilesOn(dirf[f].h, b)]
    BY Zenon DEF RefreshDir
  <1> HIDE DEF h2
  <1> QED BY <1>3, <1>4, Zenon DEF FreshDir

LEMMA FreshType == ASSUME TypeOK PROVE FreshDir \in DirType
  BY SlotsPlaced, Places DEF FreshDir, DirType, Bend

LEMMA ClosedType == ClosedDir \in DirType
  BY DEF ClosedDir, DirType

LEMMA OutdatedType ==
  ASSUME NEW d \in [DirFile -> DirType] PROVE Outdated(d) \in [DirFile -> DirType]
  BY DEF Outdated, DirType

LEMMA ClosedOnType ==
  ASSUME NEW d \in DirType, NEW b \in Br PROVE ClosedOn(d, b) \in DirType
  <1> DEFINE H    == {i \in d.btop .. d.bbot : d.h[i] = b}
             h2   == [i \in Idx |-> IF i \in H THEN NoBr ELSE d.h[i]]
             Rest == {i \in d.btop .. d.bbot : h2[i] # NoBr}
  <1>1. ClosedOn(d, b) =
          [d EXCEPT !.h = h2, !.btop = IF d.btop \in H /\ Rest # {} THEN Min(Rest) ELSE d.btop]
    BY Zenon DEF ClosedOn
  <1>2. h2 \in [Idx -> Br \cup {NoBr}] BY DEF DirType
  <1>3. Rest \in SUBSET Nat BY DEF DirType
  <1>4. Rest # {} => Min(Rest) \in Nat
    <2> HIDE DEF Rest
    <2> QED BY <1>3, LeastNatural
  <1> HIDE DEF Rest, h2, H
  <1> QED BY <1>1, <1>2, <1>4 DEF DirType

(* The numbers that are added to br_count and taken from it.               *)
LEMMA IdxFinite ==
  /\ IsFiniteSet(Idx) /\ Cardinality(Idx) = Cardinality(Br) /\ Cardinality(Br) \in Nat
  <1>1. Cardinality(Br) \in Nat BY FS_CardinalityType, FiniteAssumption
  <1>2. IsFiniteSet(Idx) /\ Cardinality(Idx) =
          IF 0 > Cardinality(Br) - 1 THEN 0 ELSE (Cardinality(Br) - 1) - 0 + 1
    BY <1>1, FS_Interval DEF Idx
  <1> QED BY <1>1, <1>2

LEMMA HfilesType == \A h, b : HfilesOn(h, b) \in Nat
  <1> TAKE h, b
  <1>1. {i \in Idx : h[i] = b} \in SUBSET Idx OBVIOUS
  <1> QED BY <1>1, IdxFinite, FS_Subset, FS_CardinalityType DEF HfilesOn

LEMMA RangeType ==
  ASSUME TypeOK, NEW f \in DirFile, NEW b
  PROVE  Cardinality({i \in dirf[f].btop .. dirf[f].bbot : dirf[f].h[i] = b}) \in Nat
  <1> DEFINE R == dirf[f].btop .. dirf[f].bbot
  <1>1. dirf[f].btop \in Int /\ dirf[f].bbot \in Int BY DEF TypeOK, DirType
  <1>2. IsFiniteSet(R) BY <1>1, FS_Interval
  <1> HIDE DEF R
  <1>3. {i \in R : dirf[f].h[i] = b} \in SUBSET R OBVIOUS
  <1>4. Cardinality({i \in R : dirf[f].h[i] = b}) \in Nat
    BY <1>2, <1>3, FS_Subset, FS_CardinalityType
  <1> QED BY <1>4 DEF R

LEMMA SomeRoots ==
  ASSUME NEW toFree \in SUBSET Roots, NEW b
  PROVE  Cardinality({f \in toFree : HfilesOn(dirf[f].h, b) > 0}) \in Nat
  <1>1. {f \in toFree : HfilesOn(dirf[f].h, b) > 0} \in SUBSET DirFile BY DEF Roots
  <1> QED BY <1>1, FiniteAssumption, FS_Subset, FS_CardinalityType

LEMMA QueueType ==
  ASSUME TypeOK, NEW k \in {"rebase", "trunc", "rmdir"}, NEW b \in Br, Queue(k, b)
  PROVE  work' \in [Work -> WorkType] /\ count' \in [Br -> Int]
  <1>1. PICK w \in Work : work' = [work EXCEPT ![w] = [st |-> "queued", kind |-> k, br |-> b, wbr |-> NoWbr]]
    BY DEF Queue
  <1>2. [st |-> "queued", kind |-> k, br |-> b, wbr |-> NoWbr] \in WorkType BY DEF WorkType
  <1>3. work \in [Work -> WorkType] /\ count \in [Br -> Int] BY DEF TypeOK
  <1>4. count' = [count EXCEPT ![b] = @ + 1] BY DEF Queue
  <1> QED BY <1>1, <1>2, <1>3, <1>4

LEMMA NewWbrType ==
  ASSUME TypeOK, NEW b \in Br, NewWbr(b)
  PROVE  wbr' \in [Br -> Wbr \cup {NoWbr}] /\ running' \in [Wbr -> Int]
  <1>1. PICK x \in Wbr : wbr' = [wbr EXCEPT ![b] = x] /\ running' = [running EXCEPT ![x] = 0]
    BY DEF NewWbr
  <1>2. wbr \in [Br -> Wbr \cup {NoWbr}] /\ running \in [Wbr -> Int] BY DEF TypeOK
  <1> QED BY <1>1, <1>2

LEMMA PendingFacts ==
  ASSUME TypeOK, WorksOK, NEW w \in Work, work[w].st # "none"
  PROVE  /\ work[w].br \in Br /\ In(work[w].br) /\ work[w].kind \in Kinds
         /\ work[w].wbr \in Wbr \cup {NoWbr}
         /\ work[w].kind = "rebase" => wbr[work[w].br] # NoWbr
         /\ work[w].wbr = IF work[w].kind = "rebase" /\ work[w].st = "waiting"
                          THEN wbr[work[w].br] ELSE NoWbr
  BY DEF TypeOK, WorksOK, WorkOK, WorkType

LEMMA NewIdType ==
  ASSUME TypeOK, NEW b \in Br, NEW p, NEW i, AddBr(b, p, i)
  PROVE  NewId \in Int /\ ~Used(NewId)
  <1>1. {BranchMax, load.branches} \in SUBSET Nat /\ {BranchMax, load.branches} # {}
    BY BranchMaxAssumption, LoadsAssumption DEF TypeOK
  <1>2. Min({BranchMax, load.branches}) <= BranchMax /\ Min({BranchMax, load.branches}) \in Nat
    BY <1>1, LeastNatural
  <1>3. Len(brs) < BranchMax
    BY <1>2, Places, BranchMaxAssumption DEF AddBr
  <1> QED BY <1>3, NewIdUnused

(* What the variables hold.                                                *)
LEMMA TypeStep == ASSUME TypeOK, IdsDistinct, DirsOK, WorksOK, RegsOK, Next PROVE TypeOK'
  <1> USE DEF TypeOK, brVars
  <1>1. ASSUME NEW f \in DirFile, OpenDir(f) PROVE TypeOK'
    <2>1. dirf' = [dirf EXCEPT ![f] = FreshDir] BY <1>1 DEF OpenDir, FreshDir, Slots
    <2>2. FreshDir \in DirType BY FreshType
    <2>3. dirf' \in [DirFile -> DirType] BY <2>1, <2>2
    <2>4. count' \in [Br -> Int] BY <1>1 DEF OpenDir
    <2> QED BY <1>1, <2>3, <2>4 DEF OpenDir
  <1>2. ASSUME NEW f \in DirFile, CloseDir(f) PROVE TypeOK'
    <2>1. ClosedDir \in DirType BY ClosedType
    <2> DEFINE n(b) == Cardinality({i \in dirf[f].btop .. dirf[f].bbot : dirf[f].h[i] = b})
    <2>2. \A b \in Br : n(b) \in Nat BY RangeType, Zenon
    <2>3. count' = [b \in Br |-> count[b] - n(b)] BY <1>2 DEF CloseDir
    <2> HIDE DEF n
    <2>4. count' \in [Br -> Int] BY <2>2, <2>3
    <2>5. dirf' \in [DirFile -> DirType] BY <1>2, <2>1 DEF CloseDir
    <2> QED BY <1>2, <2>4, <2>5 DEF CloseDir
  <1>3. ASSUME NEW f \in DirFile, RefreshDir(f) PROVE TypeOK'
    <2>1. dirf' = [dirf EXCEPT ![f] = FreshDir]
          /\ count' = [b \in Br |-> count[b] + HfilesOn(Slots, b) - HfilesOn(dirf[f].h, b)]
      BY <1>3, Refreshed DEF DirsOK
    <2>2. FreshDir \in DirType BY FreshType
    <2>3. count' \in [Br -> Int] BY <2>1, HfilesType
    <2>4. dirf' \in [DirFile -> DirType] BY <2>1, <2>2
    <2> QED BY <1>3, <2>3, <2>4 DEF RefreshDir
  <1>4. ASSUME NEW f \in DirFile, RefreshDirFail(f) PROVE TypeOK'
    <2>1. [ClosedDir EXCEPT !.open = TRUE, !.bbot = Bend, !.fresh = FALSE] \in DirType
      <3>1. Bend \in Int BY Places DEF Bend
      <3> QED BY <3>1, ClosedType DEF DirType
    <2>2. count' \in [Br -> Int] BY <1>4, HfilesType DEF RefreshDirFail
    <2>3. dirf' \in [DirFile -> DirType] BY <1>4, <2>1 DEF RefreshDirFail
    <2> QED BY <1>4, <2>2, <2>3 DEF RefreshDirFail
  <1>5. ASSUME NEW f \in RegFile, NEW b \in Br, NEW wr \in BOOLEAN, NEW mm \in BOOLEAN, OpenReg(f, b, wr, mm) PROVE TypeOK'
    <2>1. regf' \in [RegFile -> RegType] BY <1>5 DEF OpenReg, RegType
    <2> QED BY <1>5, <2>1 DEF OpenReg
  <1>6. ASSUME NEW f \in RegFile, CloseReg(f) PROVE TypeOK'
    <2>1. ClosedReg \in RegType BY DEF ClosedReg, RegType
    <2>2. regf' \in [RegFile -> RegType] BY <1>6, <2>1 DEF CloseReg
    <2>3. count' \in [Br -> Int] BY <1>6 DEF CloseReg, RegType
    <2> QED BY <1>6, <2>2, <2>3 DEF CloseReg
  <1>7. ASSUME NEW b \in Br, KickRebase(b) PROVE TypeOK'
    <2>1. work' \in [Work -> WorkType] /\ count' \in [Br -> Int]
      BY <1>7, QueueType DEF KickRebase
    <2>2. running' \in [Wbr -> Int]
      <3>1. running' = [running EXCEPT ![wbr[b]] = running[wbr[b]] + 1] /\ running[wbr[b]] = 0
        BY <1>7 DEF KickRebase
      <3>2. running[wbr[b]] + 1 \in Int BY <3>1
      <3>3. running \in [Wbr -> Int] OBVIOUS
      <3> HIDE DEF TypeOK
      <3> QED BY <3>1, <3>2, <3>3
    <2> QED BY <1>7, <2>1, <2>2 DEF KickRebase
  <1>8. ASSUME NEW b \in Br, KickTrunc(b) PROVE TypeOK'
    <2>1. work' \in [Work -> WorkType] /\ count' \in [Br -> Int]
      BY <1>8, QueueType DEF KickTrunc
    <2>2. trunc' \in [Br -> Int] BY <1>8 DEF KickTrunc
    <2> QED BY <1>8, <2>1, <2>2 DEF KickTrunc
  <1>9. ASSUME NEW b \in Br, KickRmdir(b) PROVE TypeOK'
    <2>1. work' \in [Work -> WorkType] /\ count' \in [Br -> Int]
      BY <1>9, QueueType DEF KickRmdir
    <2> QED BY <1>9, <2>1 DEF KickRmdir
  <1>10. ASSUME NEW b \in Br, DelBr(b) PROVE TypeOK'
    <2>1. /\ brs' \in Seq(Br) /\ \A j, k \in 1 .. Len(brs') : brs'[j] = brs'[k] => j = k
      BY <1>10, RemovedPlaces
    <2>2. PICK toFree \in SUBSET Roots :
            /\ dirf' = Outdated([g \in DirFile |-> IF g \in toFree THEN ClosedOn(dirf[g], b) ELSE dirf[g]])
            /\ count' = [count EXCEPT ![b] =
                 @ - Cardinality({g \in toFree : HfilesOn(dirf[g].h, b) > 0})]
      BY <1>10 DEF DelBr
    <2>3. dirf' \in [DirFile -> DirType]
      <3> DEFINE d == [g \in DirFile |-> IF g \in toFree THEN ClosedOn(dirf[g], b) ELSE dirf[g]]
      <3>1. d \in [DirFile -> DirType] BY ClosedOnType
      <3> HIDE DEF d
      <3> QED BY <2>2, <3>1, OutdatedType DEF d
    <2>4. count' \in [Br -> Int]
      <3> DEFINE n == Cardinality({g \in toFree : HfilesOn(dirf[g].h, b) > 0})
      <3>1. n \in Nat BY SomeRoots, Zenon
      <3>2. count' = [count EXCEPT ![b] = @ - n] BY <2>2
      <3> HIDE DEF n
      <3> QED BY <3>1, <3>2
    <2>5. /\ wbr' \in [Br -> Wbr \cup {NoWbr}] /\ id' \in [Br -> Int]
          /\ perm' \in [Br -> {"rw", "ro"}] /\ nested' \in SUBSET Br
      BY <1>10 DEF DelBr
    <2>6. UNCHANGED <<lastId, running, trunc, regf, work, load>> BY <1>10 DEF DelBr
    <2> QED BY <2>1, <2>3, <2>4, <2>5, <2>6
  <1>11. ASSUME NEW b \in Br, ModRo(b) PROVE TypeOK'
    <2>1. dirf' \in [DirFile -> DirType] BY <1>11, OutdatedType DEF ModRo
    <2>2. wbr' \in [Br -> Wbr \cup {NoWbr}] /\ running' \in [Wbr -> Int]
      BY <1>11, NewWbrType DEF ModRo
    <2>3. regf' \in [RegFile -> RegType]
      <3>1. \A f \in RegFile : regf[f] \in RegType OBVIOUS
      <3>2. \A f \in RegFile : [regf[f] EXCEPT !.wr = FALSE] \in RegType BY <3>1 DEF RegType
      <3>3. \/ regf' = regf
            \/ regf' = [f \in RegFile |-> IF f \in RegOn(b) THEN [regf[f] EXCEPT !.wr = FALSE] ELSE regf[f]]
        BY <1>11, Zenon DEF ModRo
      <3> QED BY <3>1, <3>2, <3>3
    <2>4. perm' \in [Br -> {"rw", "ro"}] /\ nested' \in SUBSET Br BY <1>11 DEF ModRo
    <2>5. UNCHANGED <<brs, id, lastId, count, trunc, work, load>> BY <1>11 DEF ModRo
    <2> QED BY <2>1, <2>2, <2>3, <2>4, <2>5
  <1>12. ASSUME NEW b \in Br, ModRw(b) PROVE TypeOK'
    <2>1. dirf' \in [DirFile -> DirType] BY <1>12, OutdatedType DEF ModRw
    <2>2. wbr' \in [Br -> Wbr \cup {NoWbr}] /\ running' \in [Wbr -> Int]
      BY <1>12, NewWbrType DEF ModRw
    <2>3. perm' \in [Br -> {"rw", "ro"}] /\ nested' \in SUBSET Br BY <1>12 DEF ModRw
    <2>4. UNCHANGED <<brs, id, lastId, count, trunc, regf, work, load>> BY <1>12 DEF ModRw
    <2> QED BY <2>1, <2>2, <2>3, <2>4
  <1>13. ASSUME NEW w \in Work, WorkStart(w) PROVE TypeOK'
    <2> DEFINE v == IF work[w].kind = "rebase" THEN wbr[work[w].br] ELSE NoWbr
    <2>0. work' = [work EXCEPT ![w].st = "waiting", ![w].wbr = v] BY <1>13 DEF WorkStart
    <2>1. v \in Wbr \cup {NoWbr} BY <1>13 DEF WorkStart, WorksOK, WorkOK
    <2> HIDE DEF v
    <2>2. [work[w] EXCEPT !.st = "waiting", !.wbr = v] \in WorkType
      <3>1. work[w] \in WorkType OBVIOUS
      <3> QED BY ONLY <2>1, <3>1 DEF WorkType
    <2>3. work' = [work EXCEPT ![w] = [work[w] EXCEPT !.st = "waiting", !.wbr = v]] BY <2>0
    <2>4. work' \in [Work -> WorkType] BY <2>2, <2>3
    <2> QED BY <1>13, <2>4 DEF WorkStart
  <1>14. ASSUME NEW w \in Work, WorkRun(w) PROVE TypeOK'
    <2>1. NoWork \in WorkType BY DEF NoWork, WorkType
    <2>2. work' \in [Work -> WorkType] BY <1>14, <2>1 DEF WorkRun
    <2> DEFINE b == work[w].br
    <2>3. b \in Br /\ work[w].wbr \in Wbr \cup {NoWbr} BY <1>14, PendingFacts DEF WorkRun
    <2> HIDE DEF b
    <2>4. count' \in [Br -> Int] /\ trunc' \in [Br -> Int] /\ running' \in [Wbr -> Int]
      <3>1. /\ count' = [count EXCEPT ![b] = @ - 1]
            /\ trunc' = [trunc EXCEPT ![b] = @ - 1] \/ trunc' = trunc
            /\ \/ running' = [running EXCEPT ![work[w].wbr] = @ - 1] /\ work[w].wbr \in Wbr
               \/ running' = running
        BY <1>14, <2>3 DEF WorkRun, b
      <3> QED BY <2>3, <3>1
    <2> QED BY <1>14, <2>2, <2>4 DEF WorkRun
  <1>15. ASSUME RemountFlush PROVE TypeOK' BY <1>15 DEF RemountFlush
  <1>16. ASSUME RemountRefused PROVE TypeOK' BY <1>16 DEF RemountRefused
  <1>17. ASSUME NEW b \in Br, NEW p \in {"rw", "ro"}, NEW i \in 0 .. Len(brs), AddBr(b, p, i) PROVE TypeOK'
    <2>1. /\ brs' \in Seq(Br) /\ \A j, k \in 1 .. Len(brs') : brs'[j] = brs'[k] => j = k
      BY <1>17, AddedPlaces
    <2>2. NewId \in Int BY <1>17, NewIdType
    <2>3. dirf' \in [DirFile -> DirType] BY <1>17, OutdatedType DEF AddBr
    <2>4. /\ id' \in [Br -> Int] /\ lastId' \in Int /\ perm' \in [Br -> {"rw", "ro"}]
          /\ count' \in [Br -> Int] /\ trunc' \in [Br -> Int]
      BY <1>17, <2>2 DEF AddBr
    <2>5. wbr' \in [Br -> Wbr \cup {NoWbr}] /\ running' \in [Wbr -> Int]
      BY <1>17, NewWbrType DEF AddBr
    <2>6. UNCHANGED <<regf, work, nested, load>> BY <1>17 DEF AddBr
    <2> QED BY <2>1, <2>3, <2>4, <2>5, <2>6
  <1> HIDE DEF TypeOK, brVars
  <1> QED BY <1>1, <1>2, <1>3, <1>4, <1>5, <1>6, <1>7, <1>8, <1>9, <1>10, <1>11, <1>12, <1>13, <1>14, <1>15, <1>16, <1>17,
             NextSteps

-----------------------------------------------------------------------------
(* Counting.                                                               *)
LEMMA Finite ==
  ASSUME NEW b
  PROVE  /\ IsFiniteSet(WorksOn(b)) /\ Cardinality(WorksOn(b)) \in Nat
         /\ IsFiniteSet(RegOn(b)) /\ Cardinality(RegOn(b)) \in Nat
         /\ IsFiniteSet(DirHfiles(b)) /\ Cardinality(DirHfiles(b)) \in Nat
         /\ IsFiniteSet(Roots) /\ Cardinality(Roots) \in Nat
  <1>1. WorksOn(b) \in SUBSET Work /\ RegOn(b) \in SUBSET RegFile /\ Roots \in SUBSET DirFile
    BY DEF WorksOn, RegOn, Roots
  <1>2. DirHfiles(b) \in SUBSET (DirFile \X Idx) BY DEF DirHfiles
  <1>3. IsFiniteSet(DirFile \X Idx) BY IdxFinite, FiniteAssumption, FS_Product
  <1>4. IsFiniteSet(DirHfiles(b)) BY <1>2, <1>3, FS_Subset
  <1>5. IsFiniteSet(WorksOn(b)) BY <1>1, FiniteAssumption, FS_Subset
  <1>6. IsFiniteSet(RegOn(b)) BY <1>1, FiniteAssumption, FS_Subset
  <1>7. IsFiniteSet(Roots) BY <1>1, FiniteAssumption, FS_Subset
  <1> QED BY <1>4, <1>5, <1>6, <1>7, FS_CardinalityType

LEMMA SameBranches == ASSUME UNCHANGED brs PROVE (\A c : In(c)' <=> In(c)) /\ Bend' = Bend
  BY DEF In, Bend

LEMMA EmptyOrCounted == ASSUME NEW S, IsFiniteSet(S) PROVE S = {} <=> Cardinality(S) = 0
  BY FS_EmptySet

(* What holds a branch that is counted is all closed by its deletion.      *)
LEMMA NothingOpen ==
  ASSUME TypeOK, DirsOK, RootsFew, CountsExact, NEW b \in Br, DelBr(b),
         NEW toFree \in SUBSET Roots,
         Cardinality(toFree) = Min({Cardinality(Roots), count[b]}),
         NEW f \in DirFile, NEW i \in Idx, dirf[f].h[i] = b
  PROVE  f \in toFree
  <1>1. "del" \in Ops /\ In(b) BY DEF DelBr
  <1>2. b # NoBr BY BrAssumption
  <1>3. f \in Roots BY <1>2 DEF DirsOK, DirOK, Roots
  <1>4. Roots = {f} BY <1>1, <1>3 DEF RootsFew
  <1>5. Cardinality(Roots) = 1 BY <1>4, FS_Singleton
  <1>6. <<f, i>> \in DirHfiles(b) BY DEF DirHfiles
  <1>7. Cardinality(DirHfiles(b)) # 0 BY <1>6, Finite, EmptyOrCounted
  <1>8. count[b] >= 1 /\ count[b] \in Nat BY <1>1, <1>7, Finite DEF CountsExact
  <1>9. Min({Cardinality(Roots), count[b]}) = 1
    <2>1. {1, count[b]} \in SUBSET Nat /\ {1, count[b]} # {} BY <1>8
    <2>2. Min({1, count[b]}) \in {1, count[b]} /\ \A x \in {1, count[b]} : Min({1, count[b]}) <= x
      BY <2>1, LeastNatural
    <2>3. Min({1, count[b]}) = 1 BY <1>8, <2>2
    <2> QED BY <2>3, <1>5
  <1>10. Cardinality(toFree) # 0 BY <1>9
  <1>11. toFree # {} BY <1>10, FS_EmptySet
  <1> QED BY <1>11, <1>4

-----------------------------------------------------------------------------
(* The open root directories.                                              *)
LEMMA FreshOK == ASSUME TypeOK, UNCHANGED brs, NEW d, d = FreshDir PROVE DirOK(d)'
  <1>1. DirOK(d)
    <2>1. Len(brs) \in Nat /\ Cardinality(Br) \in Nat /\ Len(brs) <= Cardinality(Br) BY Places
    <2>2. ASSUME NEW i \in Idx, Slots[i] # NoBr
          PROVE  0 <= i /\ i <= Bend /\ In(Slots[i]) /\ \A j \in Idx : Slots[j] = Slots[i] => j = i
      <3>1. i <= Bend /\ In(Slots[i]) /\ Index(Slots[i]) = i BY <2>2, SlotsPlaced
      <3>2. \A j \in Idx : Slots[j] = Slots[i] => Index(Slots[j]) = j BY <2>2, SlotsPlaced
      <3>3. 0 <= i BY <2>1 DEF Idx
      <3> QED BY <3>1, <3>2, <3>3
    <2>3. Bend < Cardinality(Br) BY <2>1 DEF Bend
    <2>4. \A i \in Idx : Slots[i] = IF i <= Bend THEN brs[i + 1] ELSE NoBr BY DEF Slots
    <2> QED BY <2>2, <2>3, <2>4 DEF DirOK, FreshDir
  <1> QED BY <1>1 DEF DirOK, In, Bend

LEMMA ClosedOK == DirOK(ClosedDir)'
  <1>1. -1 < Cardinality(Br) BY IdxFinite
  <1> QED BY <1>1 DEF DirOK, ClosedDir

LEMMA OutdatedOK ==
  ASSUME NEW d \in [DirFile -> DirType], dirf' = Outdated(d),
         \A f \in DirFile : d[f].bbot < Cardinality(Br),
         \A f \in DirFile, i \in Idx : d[f].h[i] # NoBr =>
           /\ d[f].open /\ d[f].btop <= i /\ i <= d[f].bbot /\ In(d[f].h[i])'
           /\ \A j \in Idx : d[f].h[j] = d[f].h[i] => j = i
  PROVE  DirsOK'
  <1> SUFFICES ASSUME NEW f \in DirFile PROVE DirOK(dirf[f])' BY DEF DirsOK
  <1>1. CASE d[f].open
    <2>1. dirf'[f] = [d[f] EXCEPT !.fresh = FALSE] BY <1>1 DEF Outdated
    <2>2. /\ dirf'[f].bbot = d[f].bbot /\ dirf'[f].btop = d[f].btop /\ dirf'[f].h = d[f].h
          /\ dirf'[f].open = d[f].open /\ dirf'[f].fresh = FALSE
      BY <2>1 DEF DirType
    <2> QED BY <2>2, <1>1 DEF DirOK
  <1>2. CASE ~d[f].open
    <2>1. dirf'[f] = d[f] BY <1>2 DEF Outdated
    <2> QED BY <2>1, <1>2 DEF DirOK
  <1> QED BY <1>1, <1>2

LEMMA ClosedOnOK ==
  ASSUME TypeOK, DirsOK, NEW f \in DirFile, NEW b \in Br, NEW d, d = ClosedOn(dirf[f], b)
  PROVE  /\ d.bbot = dirf[f].bbot /\ d.open = dirf[f].open
         /\ \A i \in Idx : d.h[i] = IF dirf[f].h[i] = b THEN NoBr ELSE dirf[f].h[i]
         /\ \A i \in Idx : d.h[i] # NoBr => d.btop <= i
  <1> DEFINE e    == dirf[f]
             H    == {i \in e.btop .. e.bbot : e.h[i] = b}
             h2   == [i \in Idx |-> IF i \in H THEN NoBr ELSE e.h[i]]
             Rest == {i \in e.btop .. e.bbot : h2[i] # NoBr}
  <1>1. e \in DirType BY DEF TypeOK
  <1>2. d = [e EXCEPT !.h = h2, !.btop = IF e.btop \in H /\ Rest # {} THEN Min(Rest) ELSE e.btop]
    BY Zenon DEF ClosedOn
  <1>3. \A i \in Idx : e.h[i] # NoBr => e.open /\ e.btop <= i /\ i <= e.bbot BY DEF DirsOK, DirOK
  <1>4. b # NoBr /\ \A i \in Idx : i \in Int BY BrAssumption, IdxFinite DEF Idx
  <1>5. \A i \in Idx : h2[i] = IF e.h[i] = b THEN NoBr ELSE e.h[i]
    BY <1>1, <1>3, <1>4 DEF DirType
  <1>6. ASSUME NEW i \in Idx, h2[i] # NoBr PROVE e.btop <= i /\ i \in Rest
    BY <1>1, <1>3, <1>4, <1>5, <1>6 DEF DirType
  <1>7. Rest \in SUBSET Nat BY <1>1 DEF DirType
  <1> HIDE DEF e, H, h2, Rest
  <1>8. ASSUME NEW i \in Idx, h2[i] # NoBr PROVE d.btop <= i
    <2>1. e.btop <= i /\ i \in Rest BY <1>8, <1>6
    <2>2. Min(Rest) <= i BY <2>1, <1>7, LeastNatural
    <2>3. d.btop = IF e.btop \in H /\ Rest # {} THEN Min(Rest) ELSE e.btop BY <1>1, <1>2 DEF DirType
    <2> QED BY <2>1, <2>2, <2>3
  <1>9. d.h = h2 /\ d.bbot = e.bbot /\ d.open = e.open BY <1>1, <1>2 DEF DirType
  <1> QED BY <1>5, <1>8, <1>9 DEF e

LEMMA SameDirs == ASSUME DirsOK, UNCHANGED <<brs, dirf>> PROVE DirsOK'
  BY DEF DirsOK, DirOK, In, Bend

LEMMA OneDir ==
  ASSUME TypeOK, DirsOK, UNCHANGED brs, NEW f \in DirFile, NEW d, DirOK(d)',
         dirf' = [dirf EXCEPT ![f] = d]
  PROVE  DirsOK'
  <1> SUFFICES ASSUME NEW g \in DirFile PROVE DirOK(dirf[g])' BY DEF DirsOK
  <1>1. CASE g = f
    <2>1. dirf'[g] = d BY <1>1 DEF TypeOK
    <2> QED BY <2>1 DEF DirOK
  <1>2. CASE g # f
    <2>1. dirf'[g] = dirf[g] BY <1>2 DEF TypeOK
    <2>2. DirOK(dirf[g]) BY DEF DirsOK
    <2> QED BY <2>1, <2>2 DEF DirOK, In, Bend
  <1> QED BY <1>1, <1>2

LEMMA StillOutdated ==
  ASSUME TypeOK, DirsOK, dirf' = Outdated(dirf), \A c : In(c) => In(c)'
  PROVE  DirsOK'
  <1>1. dirf \in [DirFile -> DirType] BY DEF TypeOK
  <1>2. \A f \in DirFile : DirOK(dirf[f]) BY DEF DirsOK
  <1> QED BY <1>1, <1>2, OutdatedOK DEF DirOK

LEMMA DirsDelBr ==
  ASSUME TypeOK, DirsOK, RootsFew, CountsExact, NEW b \in Br, DelBr(b) PROVE DirsOK'
  <1>1. PICK toFree \in SUBSET Roots :
          /\ Cardinality(toFree) = Min({Cardinality(Roots), count[b]})
          /\ dirf' = Outdated([g \in DirFile |-> IF g \in toFree THEN ClosedOn(dirf[g], b) ELSE dirf[g]])
    BY DEF DelBr
  <1> PICK d : d = [g \in DirFile |-> IF g \in toFree THEN ClosedOn(dirf[g], b) ELSE dirf[g]] OBVIOUS
  <1>2. d \in [DirFile -> DirType] BY ClosedOnType DEF TypeOK
  <1>3. ASSUME NEW f \in DirFile
        PROVE  /\ d[f].bbot = dirf[f].bbot /\ d[f].open = dirf[f].open
               /\ \A i \in Idx : d[f].h[i] = IF dirf[f].h[i] = b THEN NoBr ELSE dirf[f].h[i]
               /\ \A i \in Idx : d[f].h[i] # NoBr => d[f].btop <= i
    <2>1. CASE f \in toFree
      <3>1. d[f] = ClosedOn(dirf[f], b) BY <2>1
      <3> QED BY <3>1, ClosedOnOK
    <2>2. CASE f \notin toFree
      <3>1. \A i \in Idx : dirf[f].h[i] # b BY <1>1, <2>2, NothingOpen
      <3>2. d[f] = dirf[f] BY <2>2
      <3>3. \A i \in Idx : dirf[f].h[i] # NoBr => dirf[f].btop <= i BY DEF DirsOK, DirOK
      <3> QED BY <3>1, <3>2, <3>3
    <2> QED BY <2>1, <2>2
  <1>4. \A c : In(c)' <=> In(c) /\ c # b BY RemovedPlaces
  <1>5. dirf' = Outdated(d) BY <1>1
  <1>6. \A f \in DirFile : d[f].bbot < Cardinality(Br) BY <1>3 DEF DirsOK, DirOK
  <1>7. ASSUME NEW f \in DirFile, NEW i \in Idx, d[f].h[i] # NoBr
        PROVE  /\ d[f].open /\ d[f].btop <= i /\ i <= d[f].bbot /\ In(d[f].h[i])'
               /\ \A j \in Idx : d[f].h[j] = d[f].h[i] => j = i
    <2>1. d[f].h[i] = dirf[f].h[i] /\ dirf[f].h[i] # b /\ dirf[f].h[i] # NoBr BY <1>3, <1>7
    <2>2. /\ dirf[f].open /\ i <= dirf[f].bbot /\ In(dirf[f].h[i])
          /\ \A j \in Idx : dirf[f].h[j] = dirf[f].h[i] => j = i
      BY <2>1 DEF DirsOK, DirOK
    <2>3. \A j \in Idx : d[f].h[j] = d[f].h[i] => dirf[f].h[j] = dirf[f].h[i] BY <1>3, <2>1, <1>7
    <2> QED BY <2>1, <2>2, <2>3, <1>3, <1>4, <1>7
  <1> QED BY <1>2, <1>5, <1>6, <1>7, OutdatedOK

LEMMA DirsStep == ASSUME TypeOK, IdsDistinct, DirsOK, RootsFew, CountsExact, Next PROVE DirsOK'
  <1>1. ASSUME NEW f \in DirFile, OpenDir(f) PROVE DirsOK'
    <2> PICK d : d = FreshDir OBVIOUS
    <2>1. dirf' = [dirf EXCEPT ![f] = d] BY <1>1 DEF OpenDir, FreshDir, Slots
    <2>2. UNCHANGED brs BY <1>1 DEF OpenDir, brVars
    <2> QED BY <2>1, <2>2, FreshOK, OneDir
  <1>2. ASSUME NEW f \in DirFile, CloseDir(f) PROVE DirsOK'
    <2>1. dirf' = [dirf EXCEPT ![f] = ClosedDir] /\ UNCHANGED brs BY <1>2 DEF CloseDir, brVars
    <2> QED BY <2>1, ClosedOK, OneDir
  <1>3. ASSUME NEW f \in DirFile, RefreshDir(f) PROVE DirsOK'
    <2> PICK d : d = FreshDir OBVIOUS
    <2>1. dirf' = [dirf EXCEPT ![f] = d] BY <1>3, Refreshed DEF DirsOK
    <2>2. UNCHANGED brs BY <1>3 DEF RefreshDir, brVars
    <2> QED BY <2>1, <2>2, FreshOK, OneDir
  <1>4. ASSUME NEW f \in DirFile, RefreshDirFail(f) PROVE DirsOK'
    <2> PICK d : d = [ClosedDir EXCEPT !.open = TRUE, !.bbot = Bend, !.fresh = FALSE] OBVIOUS
    <2>1. dirf' = [dirf EXCEPT ![f] = d] /\ UNCHANGED brs BY <1>4 DEF RefreshDirFail, brVars
    <2>2. Bend < Cardinality(Br) BY Places DEF Bend
    <2>3. DirOK(d)' BY <2>2 DEF DirOK, ClosedDir
    <2> QED BY <2>1, <2>3, OneDir
  <1>5. ASSUME NEW f \in RegFile, NEW b \in Br, NEW wr \in BOOLEAN, NEW mm \in BOOLEAN, OpenReg(f, b, wr, mm) PROVE DirsOK'
    BY <1>5, SameDirs DEF OpenReg, brVars
  <1>6. ASSUME NEW f \in RegFile, CloseReg(f) PROVE DirsOK' BY <1>6, SameDirs DEF CloseReg, brVars
  <1>7. ASSUME NEW b \in Br, KickRebase(b) PROVE DirsOK'
    BY <1>7, SameDirs DEF KickRebase, Queue, brVars
  <1>8. ASSUME NEW b \in Br, KickTrunc(b) PROVE DirsOK'
    BY <1>8, SameDirs DEF KickTrunc, Queue, brVars
  <1>9. ASSUME NEW b \in Br, KickRmdir(b) PROVE DirsOK'
    BY <1>9, SameDirs DEF KickRmdir, Queue, brVars
  <1>10. ASSUME NEW b \in Br, DelBr(b) PROVE DirsOK' BY <1>10, DirsDelBr
  <1>11. ASSUME NEW b \in Br, ModRo(b) PROVE DirsOK'
    <2>1. UNCHANGED brs BY <1>11 DEF ModRo
    <2>2. dirf' = Outdated(dirf) \/ UNCHANGED dirf BY <1>11 DEF ModRo
    <2> QED BY <2>1, <2>2, SameDirs, StillOutdated, SameBranches
  <1>12. ASSUME NEW b \in Br, ModRw(b) PROVE DirsOK'
    <2>1. UNCHANGED brs /\ dirf' = Outdated(dirf) BY <1>12 DEF ModRw
    <2> QED BY <2>1, StillOutdated, SameBranches
  <1>13. ASSUME NEW w \in Work, WorkStart(w) PROVE DirsOK' BY <1>13, SameDirs DEF WorkStart, brVars
  <1>14. ASSUME NEW w \in Work, WorkRun(w) PROVE DirsOK' BY <1>14, SameDirs DEF WorkRun, brVars
  <1>15. ASSUME RemountFlush PROVE DirsOK' BY <1>15, SameDirs DEF RemountFlush, brVars
  <1>16. ASSUME RemountRefused PROVE DirsOK' BY <1>16, SameDirs DEF RemountRefused, brVars
  <1>17. ASSUME NEW b \in Br, NEW p \in {"rw", "ro"}, NEW i \in 0 .. Len(brs), AddBr(b, p, i) PROVE DirsOK'
    <2>1. \A c : In(c) => In(c)' BY <1>17, AddedPlaces
    <2> QED BY <1>17, <2>1, StillOutdated DEF AddBr
  <1> QED BY <1>1, <1>2, <1>3, <1>4, <1>5, <1>6, <1>7, <1>8, <1>9, <1>10, <1>11, <1>12, <1>13, <1>14, <1>15, <1>16, <1>17,
             NextSteps

LEMMA NoMoreRoots ==
  ASSUME RootsFew, load' = load, \A f \in DirFile : dirf'[f].open => dirf[f].open
  PROVE  RootsFew'
  BY DEF RootsFew, Roots, Ops

LEMMA OutdatedOpen ==
  ASSUME NEW d \in [DirFile -> DirType], NEW f \in DirFile
  PROVE  Outdated(d)[f].open = d[f].open
  BY DEF Outdated, DirType

LEMMA RootsStep ==
  ASSUME PlainLoads, TypeOK, IdsDistinct, DirsOK, RootsFew, Next
  PROVE RootsFew'
  <1>1. ASSUME NEW f \in DirFile, OpenDir(f) PROVE RootsFew'
    <2> SUFFICES ASSUME "del" \in Ops PROVE \A g, h \in Roots' : g = h
      BY <1>1 DEF RootsFew, OpenDir, brVars, Ops
    <2>1. Cardinality(Roots) < load.dirs /\ load.dirs <= 1 /\ load.dirs \in Nat
      BY <1>1, LoadsAssumption DEF OpenDir, PlainLoads, TypeOK, Ops
    <2>2. Cardinality(Roots) = 0 BY <2>1, Finite
    <2>3. Roots = {} BY <2>2, Finite, EmptyOrCounted
    <2>4. \A g \in DirFile : g # f => dirf'[g] = dirf[g] BY <1>1 DEF OpenDir, TypeOK
    <2> QED BY <2>3, <2>4 DEF Roots
  <1>2. ASSUME NEW f \in DirFile, CloseDir(f) PROVE RootsFew'
    <2>1. \A g \in DirFile : dirf'[g].open => dirf[g].open BY <1>2 DEF CloseDir, TypeOK
    <2> QED BY <1>2, <2>1, NoMoreRoots DEF CloseDir, brVars
  <1>3. ASSUME NEW f \in DirFile, RefreshDir(f) PROVE RootsFew'
    <2>1. dirf' = [dirf EXCEPT ![f] = FreshDir] BY <1>3, Refreshed DEF DirsOK
    <2>2. dirf[f].open /\ load' = load BY <1>3 DEF RefreshDir, Stale, brVars
    <2>3. \A g \in DirFile : g # f => dirf'[g] = dirf[g] BY <2>1 DEF TypeOK
    <2> QED BY <2>2, <2>3, NoMoreRoots
  <1>4. ASSUME NEW f \in DirFile, RefreshDirFail(f) PROVE RootsFew'
    <2>1. \A g \in DirFile : dirf'[g].open => dirf[g].open
      BY <1>4 DEF RefreshDirFail, Stale, TypeOK
    <2> QED BY <1>4, <2>1, NoMoreRoots DEF RefreshDirFail, brVars
  <1>5. ASSUME NEW f \in RegFile, NEW b \in Br, NEW wr \in BOOLEAN, NEW mm \in BOOLEAN, OpenReg(f, b, wr, mm) PROVE RootsFew'
    BY <1>5, NoMoreRoots DEF OpenReg, brVars
  <1>6. ASSUME NEW f \in RegFile, CloseReg(f) PROVE RootsFew'
    BY <1>6, NoMoreRoots DEF CloseReg, brVars
  <1>7. ASSUME NEW b \in Br, KickRebase(b) PROVE RootsFew'
    BY <1>7, NoMoreRoots DEF KickRebase, Queue, brVars
  <1>8. ASSUME NEW b \in Br, KickTrunc(b) PROVE RootsFew'
    BY <1>8, NoMoreRoots DEF KickTrunc, Queue, brVars
  <1>9. ASSUME NEW b \in Br, KickRmdir(b) PROVE RootsFew'
    BY <1>9, NoMoreRoots DEF KickRmdir, Queue, brVars
  <1>10. ASSUME NEW b \in Br, DelBr(b) PROVE RootsFew'
    <2>1. PICK toFree \in SUBSET Roots :
           dirf' = Outdated([g \in DirFile |-> IF g \in toFree THEN ClosedOn(dirf[g], b) ELSE dirf[g]])
      BY <1>10 DEF DelBr
    <2> PICK d : d = [g \in DirFile |-> IF g \in toFree THEN ClosedOn(dirf[g], b) ELSE dirf[g]] OBVIOUS
    <2>2. d \in [DirFile -> DirType] BY ClosedOnType DEF TypeOK
    <2>3. \A g \in DirFile : d[g].open = dirf[g].open BY ClosedOnOK
    <2>4. load' = load BY <1>10 DEF DelBr
    <2> QED BY <2>1, <2>2, <2>3, <2>4, NoMoreRoots, OutdatedOpen
  <1>11. ASSUME NEW b \in Br, ModRo(b) PROVE RootsFew'
    <2>1. (dirf' = Outdated(dirf) \/ UNCHANGED dirf) /\ load' = load BY <1>11 DEF ModRo
    <2>2. dirf \in [DirFile -> DirType] BY DEF TypeOK
    <2>3. \A g \in DirFile : dirf'[g].open => dirf[g].open BY ONLY <2>1, <2>2, OutdatedOpen
    <2> QED BY <2>1, <2>3, NoMoreRoots
  <1>12. ASSUME NEW b \in Br, ModRw(b) PROVE RootsFew'
    <2>1. dirf' = Outdated(dirf) /\ load' = load BY <1>12 DEF ModRw
    <2> QED BY <2>1, NoMoreRoots, OutdatedOpen DEF TypeOK
  <1>13. ASSUME NEW w \in Work, WorkStart(w) PROVE RootsFew'
    BY <1>13, NoMoreRoots DEF WorkStart, brVars
  <1>14. ASSUME NEW w \in Work, WorkRun(w) PROVE RootsFew'
    BY <1>14, NoMoreRoots DEF WorkRun, brVars
  <1>15. ASSUME RemountFlush PROVE RootsFew' BY <1>15, NoMoreRoots DEF RemountFlush, brVars
  <1>16. ASSUME RemountRefused PROVE RootsFew' BY <1>16, NoMoreRoots DEF RemountRefused, brVars
  <1>17. ASSUME NEW b \in Br, NEW p \in {"rw", "ro"}, NEW i \in 0 .. Len(brs), AddBr(b, p, i) PROVE RootsFew'
    <2>1. dirf' = Outdated(dirf) /\ load' = load BY <1>17 DEF AddBr
    <2> QED BY <2>1, NoMoreRoots, OutdatedOpen DEF TypeOK
  <1> QED BY <1>1, <1>2, <1>3, <1>4, <1>5, <1>6, <1>7, <1>8, <1>9, <1>10, <1>11, <1>12, <1>13, <1>14, <1>15, <1>16, <1>17,
             NextSteps

-----------------------------------------------------------------------------
(* The open regular files, and who may write.                              *)
RegsInv == RegsOK /\ RegsHeld /\ WriterOnRw

LEMMA SameRegs ==
  ASSUME TypeOK, RegsInv, UNCHANGED <<brs, regf, perm, nested>> PROVE RegsInv'
  BY DEF RegsInv, RegsOK, RegsHeld, WriterOnRw, In

(* A branch that is deleted has no open file: br_count says so.            *)
LEMMA NoFileOn ==
  ASSUME CountsExact, NEW b \in Br, DelBr(b) PROVE RegOn(b) = {}
  <1>1. In(b) /\ (count[b] # 0 => RegOn(b) = {}) BY DEF DelBr
  <1>2. count[b] = Cardinality(WorksOn(b)) + Cardinality(RegOn(b)) + Cardinality(DirHfiles(b))
    BY <1>1 DEF CountsExact
  <1>3. /\ Cardinality(WorksOn(b)) \in Nat /\ Cardinality(RegOn(b)) \in Nat
        /\ Cardinality(DirHfiles(b)) \in Nat
    BY Finite
  <1>4. count[b] = 0 => Cardinality(RegOn(b)) = 0 BY <1>2, <1>3
  <1> QED BY <1>1, <1>4, Finite, EmptyOrCounted

LEMMA RegsStep == ASSUME TypeOK, RegsInv, CountsExact, Next PROVE RegsInv'
  <1>1. ASSUME NEW f \in DirFile, OpenDir(f) PROVE RegsInv' BY <1>1, SameRegs DEF OpenDir, brVars
  <1>2. ASSUME NEW f \in DirFile, CloseDir(f) PROVE RegsInv' BY <1>2, SameRegs DEF CloseDir, brVars
  <1>3. ASSUME NEW f \in DirFile, RefreshDir(f) PROVE RegsInv'
    BY <1>3, SameRegs DEF RefreshDir, brVars
  <1>4. ASSUME NEW f \in DirFile, RefreshDirFail(f) PROVE RegsInv'
    BY <1>4, SameRegs DEF RefreshDirFail, brVars
  <1>5. ASSUME NEW f \in RegFile, NEW b \in Br, NEW wr \in BOOLEAN, NEW mm \in BOOLEAN, OpenReg(f, b, wr, mm) PROVE RegsInv'
    BY <1>5, BrAssumption
    DEF OpenReg, brVars, TypeOK, RegType, RegsInv, RegsOK, RegsHeld, WriterOnRw, In
  <1>6. ASSUME NEW f \in RegFile, CloseReg(f) PROVE RegsInv'
    BY <1>6
    DEF CloseReg, ClosedReg, brVars, TypeOK, RegType, RegsInv, RegsOK, RegsHeld, WriterOnRw, In
  <1>7. ASSUME NEW b \in Br, KickRebase(b) PROVE RegsInv'
    BY <1>7, SameRegs DEF KickRebase, Queue, brVars
  <1>8. ASSUME NEW b \in Br, KickTrunc(b) PROVE RegsInv'
    BY <1>8, SameRegs DEF KickTrunc, Queue, brVars
  <1>9. ASSUME NEW b \in Br, KickRmdir(b) PROVE RegsInv'
    BY <1>9, SameRegs DEF KickRmdir, Queue, brVars
  <1>10. ASSUME NEW b \in Br, DelBr(b) PROVE RegsInv'
    <2>1. \A c : In(c)' <=> In(c) /\ c # b BY <1>10, RemovedPlaces
    <2>2. perm' = [perm EXCEPT ![b] = "rw"] /\ UNCHANGED regf /\ nested' = nested \ {b} BY <1>10 DEF DelBr
    <2>3. \A f \in RegFile : regf[f].br # b BY <1>10, NoFileOn DEF RegOn
    <2> QED BY <2>1, <2>2, <2>3 DEF RegsInv, RegsOK, RegsHeld, WriterOnRw, TypeOK
  <1>11. ASSUME NEW b \in Br, ModRo(b) PROVE RegsInv'
    <2>1. UNCHANGED brs BY <1>11 DEF ModRo
    <2>2. \A c : In(c)' <=> In(c) BY <2>1, SameBranches
    <2>3. CASE UNCHANGED <<perm, regf, nested>> BY <2>1, <2>3, SameRegs
    <2>4. CASE perm' = [perm EXCEPT ![b] = "ro"] /\ nested' = nested \cup {b} /\ UNCHANGED regf
      BY <2>2, <2>4 DEF RegsInv, RegsOK, RegsHeld, WriterOnRw, TypeOK
    <2>5. CASE /\ perm' = [perm EXCEPT ![b] = "ro"] /\ UNCHANGED nested
               /\ regf' = [f \in RegFile |->
                    IF f \in RegOn(b) THEN [regf[f] EXCEPT !.wr = FALSE] ELSE regf[f]]
      <3>1. ASSUME NEW f \in RegFile
            PROVE  /\ regf'[f].br = regf[f].br /\ (regf'[f].wr => regf[f].wr)
                   /\ regf'[f].wr => regf[f].br # b
        BY <2>5 DEF RegOn, TypeOK, RegType
      <3> QED BY <2>2, <2>5, <3>1 DEF RegsInv, RegsOK, RegsHeld, WriterOnRw, TypeOK
    <2> QED BY <1>11, <2>3, <2>4, <2>5 DEF ModRo
  <1>12. ASSUME NEW b \in Br, ModRw(b) PROVE RegsInv'
    <2>1. UNCHANGED <<brs, regf>> /\ perm' = [perm EXCEPT ![b] = "rw"] /\ nested' = nested \ {b}
      BY <1>12 DEF ModRw
    <2>2. \A c : In(c)' <=> In(c) BY <2>1, SameBranches
    <2> QED BY <2>1, <2>2 DEF RegsInv, RegsOK, RegsHeld, WriterOnRw, TypeOK
  <1>13. ASSUME NEW w \in Work, WorkStart(w) PROVE RegsInv'
    BY <1>13, SameRegs DEF WorkStart, brVars
  <1>14. ASSUME NEW w \in Work, WorkRun(w) PROVE RegsInv' BY <1>14, SameRegs DEF WorkRun, brVars
  <1>15. ASSUME RemountFlush PROVE RegsInv' BY <1>15, SameRegs DEF RemountFlush, brVars
  <1>16. ASSUME RemountRefused PROVE RegsInv' BY <1>16, SameRegs DEF RemountRefused, brVars
  <1>17. ASSUME NEW b \in Br, NEW p \in {"rw", "ro"}, NEW i \in 0 .. Len(brs), AddBr(b, p, i) PROVE RegsInv'
    <2>1. \A c : In(c) => In(c)' BY <1>17, AddedPlaces
    <2>2. perm' = [perm EXCEPT ![b] = p] /\ UNCHANGED <<regf, nested>> /\ ~In(b) BY <1>17 DEF AddBr
    <2>3. \A f \in RegFile : regf[f].br # b BY <2>2, BrAssumption DEF RegsInv, RegsHeld
    <2> QED BY <2>1, <2>2, <2>3 DEF RegsInv, RegsOK, RegsHeld, WriterOnRw, TypeOK
  <1> QED BY <1>1, <1>2, <1>3, <1>4, <1>5, <1>6, <1>7, <1>8, <1>9, <1>10, <1>11, <1>12, <1>13, <1>14, <1>15, <1>16, <1>17,
             NextSteps

-----------------------------------------------------------------------------
(* The works, and br_wbr.  Where works are there is no deletion and no     *)
(* change of permission: a branch keeps what it has.                       *)
LEMMA KeptWorks ==
  ASSUME WorksOK, load' = load, UNCHANGED work,
         \A b \in Br : In(b) => In(b)' /\ wbr'[b] = wbr[b]
  PROVE  WorksOK'
  BY DEF WorksOK, WorkOK, Kinds, NoWork

LEMMA NoWorks ==
  ASSUME PlainLoads, TypeOK, WorksOK, load' = load, UNCHANGED work, ~(Ops \subseteq {"add"})
  PROVE  WorksOK' /\ \A w \in Work : work[w] = NoWork
  <1>1. Kinds = {} BY DEF PlainLoads, TypeOK, Ops, Kinds
  <1>2. \A w \in Work : work[w].st = "none" /\ work[w] = NoWork BY <1>1 DEF WorksOK, WorkOK
  <1> QED BY <1>2 DEF WorksOK, WorkOK

LEMMA QueuedWork ==
  ASSUME WorksOK, TypeOK, NEW k, NEW b \in Br, Queue(k, b), In(b), k = "rebase" => wbr[b] # NoWbr,
         UNCHANGED <<brVars, wbr>>
  PROVE  WorksOK'
  <1>1. PICK w \in Work :
          work' = [work EXCEPT ![w] = [st |-> "queued", kind |-> k, br |-> b, wbr |-> NoWbr]]
    BY DEF Queue
  <1>2. k \in Kinds BY DEF Queue
  <1> SUFFICES ASSUME NEW v \in Work PROVE WorkOK(work[v])' BY DEF WorksOK
  <1>3. CASE v = w
    <2>1. work'[v] = [st |-> "queued", kind |-> k, br |-> b, wbr |-> NoWbr] BY <1>1, <1>3 DEF TypeOK
    <2> QED BY <2>1, <1>2 DEF WorkOK, Kinds, brVars, In
  <1>4. CASE v # w
    <2>1. work'[v] = work[v] /\ WorkOK(work[v]) BY <1>1, <1>4 DEF TypeOK, WorksOK
    <2> QED BY <2>1 DEF WorkOK, Kinds, brVars, In, NoWork
  <1> QED BY <1>3, <1>4

LEMMA WorksStep == ASSUME PlainLoads, TypeOK, WorksOK, WbrsOwned, Next PROVE WorksOK'
  <1>1. ASSUME NEW f \in DirFile, OpenDir(f) PROVE WorksOK'
    BY <1>1, KeptWorks DEF OpenDir, brVars, In
  <1>2. ASSUME NEW f \in DirFile, CloseDir(f) PROVE WorksOK'
    BY <1>2, KeptWorks DEF CloseDir, brVars, In
  <1>3. ASSUME NEW f \in DirFile, RefreshDir(f) PROVE WorksOK'
    BY <1>3, KeptWorks DEF RefreshDir, brVars, In
  <1>4. ASSUME NEW f \in DirFile, RefreshDirFail(f) PROVE WorksOK'
    BY <1>4, KeptWorks DEF RefreshDirFail, brVars, In
  <1>5. ASSUME NEW f \in RegFile, NEW b \in Br, NEW wr \in BOOLEAN, NEW mm \in BOOLEAN, OpenReg(f, b, wr, mm) PROVE WorksOK'
    BY <1>5, KeptWorks DEF OpenReg, brVars, In
  <1>6. ASSUME NEW f \in RegFile, CloseReg(f) PROVE WorksOK'
    BY <1>6, KeptWorks DEF CloseReg, brVars, In
  <1>7. ASSUME NEW b \in Br, KickRebase(b) PROVE WorksOK'
    BY <1>7, QueuedWork DEF KickRebase, WbrsOwned
  <1>8. ASSUME NEW b \in Br, KickTrunc(b) PROVE WorksOK' BY <1>8, QueuedWork DEF KickTrunc
  <1>9. ASSUME NEW b \in Br, KickRmdir(b) PROVE WorksOK' BY <1>9, QueuedWork DEF KickRmdir
  <1>10. ASSUME NEW b \in Br, DelBr(b) PROVE WorksOK' BY <1>10, NoWorks DEF DelBr
  <1>11. ASSUME NEW b \in Br, ModRo(b) PROVE WorksOK' BY <1>11, NoWorks DEF ModRo
  <1>12. ASSUME NEW b \in Br, ModRw(b) PROVE WorksOK' BY <1>12, NoWorks DEF ModRw
  <1>13. ASSUME NEW w \in Work, WorkStart(w) PROVE WorksOK'
    <2> SUFFICES ASSUME NEW v \in Work PROVE WorkOK(work[v])' BY DEF WorksOK
    <2>1. WorkOK(work[v]) BY DEF WorksOK
    <2>2. UNCHANGED <<brs, load, wbr>> BY <1>13 DEF WorkStart, brVars
    <2>3. CASE v = w
      <3>1. /\ work'[v].st = "waiting" /\ work'[v].kind = work[v].kind /\ work'[v].br = work[v].br
            /\ work'[v].wbr = IF work[v].kind = "rebase" THEN wbr[work[v].br] ELSE NoWbr
        BY <1>13, <2>3 DEF WorkStart, TypeOK, WorkType
      <3>2. work[v].st # "none" BY <1>13, <2>3 DEF WorkStart
      <3> QED BY <3>1, <3>2, <2>1, <2>2 DEF WorkOK, Kinds, In
    <2>4. CASE v # w
      <3>1. work'[v] = work[v] BY <1>13, <2>4 DEF WorkStart, TypeOK
      <3> QED BY <3>1, <2>1, <2>2 DEF WorkOK, Kinds, In, NoWork
    <2> QED BY <2>3, <2>4
  <1>14. ASSUME NEW w \in Work, WorkRun(w) PROVE WorksOK'
    <2> SUFFICES ASSUME NEW v \in Work PROVE WorkOK(work[v])' BY DEF WorksOK
    <2>1. WorkOK(work[v]) BY DEF WorksOK
    <2>2. UNCHANGED <<brs, load, wbr>> BY <1>14 DEF WorkRun, brVars
    <2>3. CASE v = w
      <3>1. work'[v] = NoWork BY <1>14, <2>3 DEF WorkRun, TypeOK
      <3> QED BY <3>1 DEF WorkOK, NoWork
    <2>4. CASE v # w
      <3>1. work'[v] = work[v] BY <1>14, <2>4 DEF WorkRun, TypeOK
      <3> QED BY <3>1, <2>1, <2>2 DEF WorkOK, Kinds, In, NoWork
    <2> QED BY <2>3, <2>4
  <1>15. ASSUME RemountFlush PROVE WorksOK' BY <1>15, KeptWorks DEF RemountFlush, brVars, In
  <1>16. ASSUME RemountRefused PROVE WorksOK' BY <1>16, KeptWorks DEF RemountRefused, brVars, In
  <1>17. ASSUME NEW b \in Br, NEW p \in {"rw", "ro"}, NEW i \in 0 .. Len(brs), AddBr(b, p, i) PROVE WorksOK'
    <2>1. \A c : In(c) => In(c)' BY <1>17, AddedPlaces
    <2>2. \A c \in Br : In(c) => wbr'[c] = wbr[c] BY <1>17 DEF AddBr, NewWbr, TypeOK
    <2>3. load' = load /\ UNCHANGED work BY <1>17 DEF AddBr
    <2> QED BY <2>1, <2>2, <2>3, KeptWorks
  <1> QED BY <1>1, <1>2, <1>3, <1>4, <1>5, <1>6, <1>7, <1>8, <1>9, <1>10, <1>11, <1>12, <1>13, <1>14, <1>15, <1>16, <1>17,
             NextSteps

LEMMA SameWbrs == ASSUME WbrsOwned, UNCHANGED <<brs, perm, wbr>> PROVE WbrsOwned'
  BY DEF WbrsOwned, In

LEMMA NewOwner ==
  ASSUME TypeOK, WbrsOwned, NEW b \in Br, NewWbr(b),
         \A c \in Br : c # b => (In(c)' <=> In(c)) /\ perm'[c] = perm[c], In(b)'
  PROVE  WbrsOwned'
  <1>1. PICK x \in Wbr : (\A c \in Br \ {b} : wbr[c] # x) /\ wbr' = [wbr EXCEPT ![b] = x]
    BY DEF NewWbr
  <1>2. wbr'[b] = x /\ x # NoWbr /\ \A c \in Br : c # b => wbr'[c] = wbr[c]
    BY <1>1, BrAssumption DEF TypeOK
  <1>3. \A c, d \in Br : wbr'[c] = wbr'[d] /\ wbr'[c] # NoWbr => c = d
    BY <1>1, <1>2 DEF WbrsOwned
  <1>4. \A c \in Br : (~In(c)' => wbr'[c] = NoWbr) /\ (In(c)' /\ perm'[c] = "rw" => wbr'[c] # NoWbr)
    BY <1>2 DEF WbrsOwned
  <1> QED BY <1>3, <1>4 DEF WbrsOwned

LEMMA NoOwner ==
  ASSUME TypeOK, WbrsOwned, NEW b \in Br, wbr' = [wbr EXCEPT ![b] = NoWbr],
         \A c \in Br : c # b => (In(c)' <=> In(c)) /\ perm'[c] = perm[c],
         In(b)' => perm'[b] # "rw"
  PROVE  WbrsOwned'
  <1>1. wbr'[b] = NoWbr /\ \A c \in Br : c # b => wbr'[c] = wbr[c] BY DEF TypeOK
  <1> QED BY <1>1 DEF WbrsOwned

LEMMA WbrsStep == ASSUME TypeOK, WbrsOwned, Next PROVE WbrsOwned'
  <1>1. ASSUME NEW f \in DirFile, OpenDir(f) PROVE WbrsOwned' BY <1>1, SameWbrs DEF OpenDir, brVars
  <1>2. ASSUME NEW f \in DirFile, CloseDir(f) PROVE WbrsOwned'
    BY <1>2, SameWbrs DEF CloseDir, brVars
  <1>3. ASSUME NEW f \in DirFile, RefreshDir(f) PROVE WbrsOwned'
    BY <1>3, SameWbrs DEF RefreshDir, brVars
  <1>4. ASSUME NEW f \in DirFile, RefreshDirFail(f) PROVE WbrsOwned'
    BY <1>4, SameWbrs DEF RefreshDirFail, brVars
  <1>5. ASSUME NEW f \in RegFile, NEW b \in Br, NEW wr \in BOOLEAN, NEW mm \in BOOLEAN, OpenReg(f, b, wr, mm) PROVE WbrsOwned'
    BY <1>5, SameWbrs DEF OpenReg, brVars
  <1>6. ASSUME NEW f \in RegFile, CloseReg(f) PROVE WbrsOwned'
    BY <1>6, SameWbrs DEF CloseReg, brVars
  <1>7. ASSUME NEW b \in Br, KickRebase(b) PROVE WbrsOwned'
    BY <1>7, SameWbrs DEF KickRebase, Queue, brVars
  <1>8. ASSUME NEW b \in Br, KickTrunc(b) PROVE WbrsOwned'
    BY <1>8, SameWbrs DEF KickTrunc, Queue, brVars
  <1>9. ASSUME NEW b \in Br, KickRmdir(b) PROVE WbrsOwned'
    BY <1>9, SameWbrs DEF KickRmdir, Queue, brVars
  <1>10. ASSUME NEW b \in Br, DelBr(b) PROVE WbrsOwned'
    <2>1. \A c : In(c)' <=> In(c) /\ c # b BY <1>10, RemovedPlaces
    <2>2. \A c \in Br : c # b => perm'[c] = perm[c] BY <1>10 DEF DelBr, TypeOK
    <2> QED BY <1>10, <2>1, <2>2, NoOwner DEF DelBr
  <1>11. ASSUME NEW b \in Br, ModRo(b) PROVE WbrsOwned'
    <2>1. UNCHANGED brs BY <1>11 DEF ModRo
    <2>2. \A c : In(c)' <=> In(c) BY <2>1, SameBranches
    <2>3. perm' = perm \/ perm' = [perm EXCEPT ![b] = "ro"] BY <1>11 DEF ModRo
    <2>4. \A c \in Br : c # b => perm'[c] = perm[c] BY <2>3 DEF TypeOK
    <2>5. CASE NewWbr(b) BY <1>11, <2>2, <2>4, <2>5, NewOwner DEF ModRo
    <2>6. CASE wbr' = [wbr EXCEPT ![b] = NoWbr] /\ perm' = [perm EXCEPT ![b] = "ro"]
      <3>1. perm'[b] # "rw" BY <2>6 DEF TypeOK
      <3> QED BY <2>2, <2>4, <2>6, <3>1, NoOwner
    <2> QED BY <1>11, <2>5, <2>6 DEF ModRo
  <1>12. ASSUME NEW b \in Br, ModRw(b) PROVE WbrsOwned'
    <2>1. UNCHANGED brs /\ NewWbr(b) /\ In(b) BY <1>12 DEF ModRw
    <2>2. \A c : In(c)' <=> In(c) BY <2>1, SameBranches
    <2>3. \A c \in Br : c # b => perm'[c] = perm[c] BY <1>12 DEF ModRw, TypeOK
    <2> QED BY <2>1, <2>2, <2>3, NewOwner
  <1>13. ASSUME NEW w \in Work, WorkStart(w) PROVE WbrsOwned'
    BY <1>13, SameWbrs DEF WorkStart, brVars
  <1>14. ASSUME NEW w \in Work, WorkRun(w) PROVE WbrsOwned' BY <1>14, SameWbrs DEF WorkRun, brVars
  <1>15. ASSUME RemountFlush PROVE WbrsOwned' BY <1>15, SameWbrs DEF RemountFlush, brVars
  <1>16. ASSUME RemountRefused PROVE WbrsOwned' BY <1>16, SameWbrs DEF RemountRefused, brVars
  <1>17. ASSUME NEW b \in Br, NEW p \in {"rw", "ro"}, NEW i \in 0 .. Len(brs), AddBr(b, p, i) PROVE WbrsOwned'
    <2>1. \A c : In(c)' <=> In(c) \/ c = b BY <1>17, AddedPlaces
    <2>2. \A c \in Br : c # b => perm'[c] = perm[c] BY <1>17 DEF AddBr, TypeOK
    <2>3. CASE p = "rw"
      <3>1. NewWbr(b) BY <1>17, <2>3 DEF AddBr
      <3> QED BY <2>1, <2>2, <3>1, NewOwner
    <2>4. CASE p # "rw"
      <3>1. wbr' = wbr /\ perm'[b] # "rw" /\ ~In(b) BY <1>17, <2>4 DEF AddBr, TypeOK
      <3> QED BY <2>1, <2>2, <3>1 DEF WbrsOwned
    <2> QED BY <2>3, <2>4
  <1> QED BY <1>1, <1>2, <1>3, <1>4, <1>5, <1>6, <1>7, <1>8, <1>9, <1>10, <1>11, <1>12, <1>13, <1>14, <1>15, <1>16, <1>17,
             NextSteps

-----------------------------------------------------------------------------
(* How many works there are for a branch.                                  *)
LEMMA WorksOfFinite ==
  ASSUME NEW b, NEW k
  PROVE  IsFiniteSet(WorksOf(b, k)) /\ Cardinality(WorksOf(b, k)) \in Nat
  <1>1. WorksOf(b, k) \in SUBSET Work BY DEF WorksOf
  <1> QED BY <1>1, FiniteAssumption, FS_Subset, FS_CardinalityType

LEMMA NoWorksOn ==
  ASSUME TypeOK, WorksOK, NEW b \in Br, ~In(b)
  PROVE  WorksOn(b) = {} /\ \A k : WorksOf(b, k) = {}
  <1>1. \A w \in Work : work[w].br # b BY BrAssumption DEF WorksOK, WorkOK, NoWork
  <1> QED BY <1>1 DEF WorksOn, WorksOf

LEMMA SameWorks ==
  ASSUME TypeOK, UNCHANGED work \/ \E w \in Work : WorkStart(w)
  PROVE  \A b : WorksOn(b)' = WorksOn(b) /\ \A k : WorksOf(b, k)' = WorksOf(b, k)
  <1>1. \A w \in Work : work'[w].br = work[w].br /\ work'[w].kind = work[w].kind
    <2>1. CASE UNCHANGED work BY <2>1
    <2>2. ASSUME NEW w \in Work, WorkStart(w), NEW v \in Work
          PROVE  work'[v].br = work[v].br /\ work'[v].kind = work[v].kind
      <3>1. work \in [Work -> WorkType] BY DEF TypeOK
      <3>2. v # w => work'[v] = work[v] BY <2>2, <3>1 DEF WorkStart
      <3>3. work'[w].br = work[w].br /\ work'[w].kind = work[w].kind
        BY <2>2, <3>1 DEF WorkStart, WorkType
      <3> QED BY <3>2, <3>3
    <2> QED BY <2>1, <2>2
  <1> QED BY <1>1 DEF WorksOn, WorksOf

LEMMA QueuedCount ==
  ASSUME TypeOK, WorksOK, NEW k, NEW b \in Br, Queue(k, b)
  PROVE  /\ Cardinality(WorksOn(b)') = Cardinality(WorksOn(b)) + 1
         /\ Cardinality(WorksOf(b, k)') = Cardinality(WorksOf(b, k)) + 1
         /\ \A c \in Br : c # b => WorksOn(c)' = WorksOn(c)
         /\ \A c \in Br : \A j : c # b \/ j # k => WorksOf(c, j)' = WorksOf(c, j)
  <1>1. PICK w \in Work : /\ work[w].st = "none"
          /\ work' = [work EXCEPT ![w] = [st |-> "queued", kind |-> k, br |-> b, wbr |-> NoWbr]]
    BY DEF Queue
  <1>2. work'[w].br = b /\ work'[w].kind = k /\ \A v \in Work : v # w => work'[v] = work[v]
    BY <1>1 DEF TypeOK
  <1>3. \A c \in Br : work[w].br # c BY <1>1, BrAssumption DEF WorksOK, WorkOK, NoWork
  <1>4. /\ WorksOn(b)' = WorksOn(b) \cup {w} /\ w \notin WorksOn(b)
        /\ WorksOf(b, k)' = WorksOf(b, k) \cup {w} /\ w \notin WorksOf(b, k)
    BY <1>2, <1>3 DEF WorksOn, WorksOf
  <1>5. Cardinality(WorksOn(b)') = Cardinality(WorksOn(b)) + 1 BY <1>4, Finite, FS_AddElement
  <1>6. Cardinality(WorksOf(b, k)') = Cardinality(WorksOf(b, k)) + 1
    BY <1>4, WorksOfFinite, FS_AddElement
  <1>7. \A c \in Br : c # b => WorksOn(c)' = WorksOn(c) BY <1>2, <1>3 DEF WorksOn
  <1>8. \A c \in Br : \A j : c # b \/ j # k => WorksOf(c, j)' = WorksOf(c, j)
    BY <1>2, <1>3 DEF WorksOf
  <1> QED BY <1>5, <1>6, <1>7, <1>8

LEMMA OneLess ==
  ASSUME NEW S, IsFiniteSet(S), NEW x \in S, NEW T, T = S \ {x}
  PROVE  Cardinality(T) = Cardinality(S) - 1
  <1>1. T \in SUBSET S /\ S = T \cup {x} /\ x \notin T OBVIOUS
  <1>2. IsFiniteSet(T) BY <1>1, FS_Subset
  <1>3. Cardinality(T) \in Nat BY <1>2, FS_CardinalityType
  <1>4. Cardinality(T \cup {x}) = Cardinality(T) + 1 BY <1>1, <1>2, FS_AddElement
  <1>5. Cardinality(S) = Cardinality(T) + 1 BY <1>1, <1>4
  <1> QED BY <1>3, <1>5

LEMMA RunCount ==
  ASSUME TypeOK, WorksOK, NEW w \in Work, WorkRun(w), NEW b, b = work[w].br, NEW k, k = work[w].kind
  PROVE  /\ Cardinality(WorksOn(b)') = Cardinality(WorksOn(b)) - 1
         /\ Cardinality(WorksOf(b, k)') = Cardinality(WorksOf(b, k)) - 1
         /\ \A c \in Br : c # b => WorksOn(c)' = WorksOn(c)
         /\ \A c \in Br : \A j : c # b \/ j # k => WorksOf(c, j)' = WorksOf(c, j)
  <1>1. work'[w] = NoWork /\ \A v \in Work : v # w => work'[v] = work[v] BY DEF WorkRun, TypeOK
  <1>2. b \in Br BY PendingFacts DEF WorkRun
  <1>3. \A c \in Br : work'[w].br # c BY <1>1, BrAssumption DEF NoWork
  <1>4. /\ WorksOn(b)' = WorksOn(b) \ {w} /\ w \in WorksOn(b)
        /\ WorksOf(b, k)' = WorksOf(b, k) \ {w} /\ w \in WorksOf(b, k)
    BY <1>1, <1>2, <1>3 DEF WorksOn, WorksOf
  <1>5. Cardinality(WorksOn(b)') = Cardinality(WorksOn(b)) - 1
    BY <1>4, Finite, OneLess
  <1>6. Cardinality(WorksOf(b, k)') = Cardinality(WorksOf(b, k)) - 1
    BY <1>4, WorksOfFinite, OneLess
  <1>7. \A c \in Br : c # b => WorksOn(c)' = WorksOn(c) BY <1>1, <1>3 DEF WorksOn
  <1>8. \A c \in Br : \A j : c # b \/ j # k => WorksOf(c, j)' = WorksOf(c, j)
    BY <1>1, <1>3 DEF WorksOf
  <1> QED BY <1>5, <1>6, <1>7, <1>8

LEMMA SameTrunc ==
  ASSUME TypeOK, TruncCounted, UNCHANGED trunc, \A b \in Br : In(b)' => In(b),
         UNCHANGED work \/ \E w \in Work : WorkStart(w)
  PROVE  TruncCounted'
  <1>1. \A b : WorksOf(b, "trunc")' = WorksOf(b, "trunc") BY SameWorks
  <1> QED BY <1>1 DEF TruncCounted

LEMMA OtherQueued ==
  ASSUME TypeOK, WorksOK, TruncCounted, NEW k \in {"rebase", "rmdir"}, NEW b \in Br, Queue(k, b),
         UNCHANGED <<brs, trunc>>
  PROVE  TruncCounted'
  <1>1. \A c \in Br : WorksOf(c, "trunc")' = WorksOf(c, "trunc") BY QueuedCount
  <1>2. \A c : In(c)' <=> In(c) BY SameBranches
  <1> QED BY <1>1, <1>2 DEF TruncCounted

LEMMA TruncStep == ASSUME TypeOK, WorksOK, TruncCounted, Next PROVE TruncCounted'
  <1>1. ASSUME NEW f \in DirFile, OpenDir(f) PROVE TruncCounted'
    BY <1>1, SameTrunc DEF OpenDir, brVars, In
  <1>2. ASSUME NEW f \in DirFile, CloseDir(f) PROVE TruncCounted'
    BY <1>2, SameTrunc DEF CloseDir, brVars, In
  <1>3. ASSUME NEW f \in DirFile, RefreshDir(f) PROVE TruncCounted'
    BY <1>3, SameTrunc DEF RefreshDir, brVars, In
  <1>4. ASSUME NEW f \in DirFile, RefreshDirFail(f) PROVE TruncCounted'
    BY <1>4, SameTrunc DEF RefreshDirFail, brVars, In
  <1>5. ASSUME NEW f \in RegFile, NEW b \in Br, NEW wr \in BOOLEAN, NEW mm \in BOOLEAN, OpenReg(f, b, wr, mm) PROVE TruncCounted'
    BY <1>5, SameTrunc DEF OpenReg, brVars, In
  <1>6. ASSUME NEW f \in RegFile, CloseReg(f) PROVE TruncCounted'
    BY <1>6, SameTrunc DEF CloseReg, brVars, In
  <1>7. ASSUME NEW b \in Br, KickRebase(b) PROVE TruncCounted'
    BY <1>7, OtherQueued DEF KickRebase, brVars
  <1>8. ASSUME NEW b \in Br, KickTrunc(b) PROVE TruncCounted'
    <2>1. Queue("trunc", b) /\ UNCHANGED brs /\ trunc[b] = 0 /\ trunc' = [trunc EXCEPT ![b] = @ + 1] /\ In(b)
      BY <1>8 DEF KickTrunc, brVars
    <2>2. \A c : In(c)' <=> In(c) BY <2>1, SameBranches
    <2>3. Cardinality(WorksOf(b, "trunc")') = Cardinality(WorksOf(b, "trunc")) + 1 BY <2>1, QueuedCount
    <2>4. Cardinality(WorksOf(b, "trunc")) = 0 BY <2>1 DEF TruncCounted
    <2>5. trunc'[b] = 1 /\ \A c \in Br : c # b => trunc'[c] = trunc[c] BY <2>1 DEF TypeOK
    <2>6. \A c \in Br : c # b => WorksOf(c, "trunc")' = WorksOf(c, "trunc") BY <2>1, QueuedCount
    <2>7. Cardinality(WorksOf(b, "trunc")') = 1 BY <2>3, <2>4
    <2> QED BY <2>2, <2>5, <2>6, <2>7 DEF TruncCounted
  <1>9. ASSUME NEW b \in Br, KickRmdir(b) PROVE TruncCounted'
    BY <1>9, OtherQueued DEF KickRmdir, brVars
  <1>10. ASSUME NEW b \in Br, DelBr(b) PROVE TruncCounted'
    <2>1. \A c : In(c)' => In(c) BY <1>10, RemovedPlaces
    <2> QED BY <1>10, <2>1, SameTrunc DEF DelBr
  <1>11. ASSUME NEW b \in Br, ModRo(b) PROVE TruncCounted'
    BY <1>11, SameTrunc DEF ModRo, NewWbr, brVars, In
  <1>12. ASSUME NEW b \in Br, ModRw(b) PROVE TruncCounted'
    BY <1>12, SameTrunc DEF ModRw, NewWbr, brVars, In
  <1>13. ASSUME NEW w \in Work, WorkStart(w) PROVE TruncCounted'
    BY <1>13, SameTrunc DEF WorkStart, brVars, In
  <1>14. ASSUME NEW w \in Work, WorkRun(w) PROVE TruncCounted'
    <2> PICK b, k : b = work[w].br /\ k = work[w].kind OBVIOUS
    <2>1. b \in Br /\ In(b) BY <1>14, PendingFacts DEF WorkRun
    <2>2. UNCHANGED brs BY <1>14 DEF WorkRun, brVars
    <2>3. \A c : In(c)' <=> In(c) BY <2>2, SameBranches
    <2>4. CASE k = "trunc"
      <3>1. Cardinality(WorksOf(b, k)') = Cardinality(WorksOf(b, k)) - 1 BY <1>14, RunCount
      <3>2. trunc' = [trunc EXCEPT ![b] = @ - 1] BY <1>14, <2>4 DEF WorkRun
      <3>3. trunc'[b] = trunc[b] - 1 /\ \A c \in Br : c # b => trunc'[c] = trunc[c]
        BY <3>2, <2>1 DEF TypeOK
      <3>4. \A c \in Br : c # b => WorksOf(c, k)' = WorksOf(c, k) BY <1>14, RunCount
      <3>5. trunc[b] = Cardinality(WorksOf(b, k)) /\ trunc[b] <= 1 /\ trunc[b] \in Int
        BY <2>1, <2>4 DEF TruncCounted, TypeOK
      <3>6. trunc'[b] = Cardinality(WorksOf(b, k)') /\ trunc'[b] <= 1 BY <3>1, <3>3, <3>5
      <3> QED BY <2>3, <2>4, <3>3, <3>4, <3>6 DEF TruncCounted
    <2>5. CASE k # "trunc"
      <3>1. \A c \in Br : WorksOf(c, "trunc")' = WorksOf(c, "trunc") BY <1>14, <2>5, RunCount
      <3>2. UNCHANGED trunc BY <1>14, <2>5 DEF WorkRun
      <3> QED BY <2>3, <3>1, <3>2 DEF TruncCounted
    <2> QED BY <2>4, <2>5
  <1>15. ASSUME RemountFlush PROVE TruncCounted' BY <1>15, SameTrunc DEF RemountFlush, brVars, In
  <1>16. ASSUME RemountRefused PROVE TruncCounted'
    BY <1>16, SameTrunc DEF RemountRefused, brVars, In
  <1>17. ASSUME NEW b \in Br, NEW p \in {"rw", "ro"}, NEW i \in 0 .. Len(brs), AddBr(b, p, i) PROVE TruncCounted'
    <2>1. \A c : In(c)' <=> In(c) \/ c = b BY <1>17, AddedPlaces
    <2>2. ~In(b) /\ trunc' = [trunc EXCEPT ![b] = 0] /\ UNCHANGED work BY <1>17 DEF AddBr
    <2>3. trunc'[b] = 0 /\ \A c \in Br : c # b => trunc'[c] = trunc[c] BY <2>2 DEF TypeOK
    <2>4. \A c : WorksOf(c, "trunc")' = WorksOf(c, "trunc") BY <2>2, SameWorks
    <2>5. WorksOf(b, "trunc") = {} BY <2>2, NoWorksOn
    <2>6. Cardinality(WorksOf(b, "trunc")') = 0 BY <2>4, <2>5, FS_EmptySet
    <2> QED BY <2>1, <2>3, <2>4, <2>6 DEF TruncCounted
  <1> QED BY <1>1, <1>2, <1>3, <1>4, <1>5, <1>6, <1>7, <1>8, <1>9, <1>10, <1>11, <1>12, <1>13, <1>14, <1>15, <1>16, <1>17,
             NextSteps

LEMMA SameRebase ==
  ASSUME TypeOK, RebaseCounted, UNCHANGED running, \A b \in Br : In(b)' => In(b),
         \A b \in Br : wbr'[b] \in {wbr[b], NoWbr},
         UNCHANGED work \/ \E w \in Work : WorkStart(w)
  PROVE  RebaseCounted'
  <1>1. \A b : WorksOf(b, "rebase")' = WorksOf(b, "rebase") BY SameWorks
  <1> QED BY <1>1 DEF RebaseCounted

LEMMA NewRebase ==
  ASSUME TypeOK, RebaseCounted, NEW b \in Br, NewWbr(b), UNCHANGED work,
         WorksOf(b, "rebase") = {}, \A c \in Br : c # b /\ In(c)' => In(c)
  PROVE  RebaseCounted'
  <1>1. PICK x \in Wbr : /\ \A c \in Br \ {b} : wbr[c] # x
                         /\ wbr' = [wbr EXCEPT ![b] = x] /\ running' = [running EXCEPT ![x] = 0]
    BY DEF NewWbr
  <1>2. /\ wbr'[b] = x /\ running'[x] = 0
        /\ \A c \in Br : c # b => wbr'[c] = wbr[c] /\ running'[wbr[c]] = running[wbr[c]]
    BY <1>1 DEF TypeOK
  <1>3. \A c : WorksOf(c, "rebase")' = WorksOf(c, "rebase") BY SameWorks
  <1>4. Cardinality(WorksOf(b, "rebase")') = 0 BY <1>3, FS_EmptySet
  <1> QED BY <1>2, <1>3, <1>4 DEF RebaseCounted

LEMMA NotQueued ==
  ASSUME TypeOK, WorksOK, RebaseCounted, NEW k \in {"trunc", "rmdir"}, NEW b \in Br, Queue(k, b),
         UNCHANGED <<brs, wbr, running>>
  PROVE  RebaseCounted'
  <1>1. \A c \in Br : WorksOf(c, "rebase")' = WorksOf(c, "rebase") BY QueuedCount
  <1>2. \A c : In(c)' <=> In(c) BY SameBranches
  <1> QED BY <1>1, <1>2 DEF RebaseCounted

LEMMA NoRebase ==
  ASSUME PlainLoads, TypeOK, WorksOK, load' = load, UNCHANGED work, ~(Ops \subseteq {"add"}), NEW b \in Br
  PROVE  WorksOf(b, "rebase") = {}
  <1>1. \A w \in Work : work[w].br = NoBr BY NoWorks DEF NoWork
  <1> QED BY <1>1, BrAssumption DEF WorksOf

LEMMA RebaseStep == ASSUME PlainLoads, TypeOK, WorksOK, WbrsOwned, RebaseCounted, Next PROVE RebaseCounted'
  <1>1. ASSUME NEW f \in DirFile, OpenDir(f) PROVE RebaseCounted'
    BY <1>1, SameRebase DEF OpenDir, brVars, In
  <1>2. ASSUME NEW f \in DirFile, CloseDir(f) PROVE RebaseCounted'
    BY <1>2, SameRebase DEF CloseDir, brVars, In
  <1>3. ASSUME NEW f \in DirFile, RefreshDir(f) PROVE RebaseCounted'
    BY <1>3, SameRebase DEF RefreshDir, brVars, In
  <1>4. ASSUME NEW f \in DirFile, RefreshDirFail(f) PROVE RebaseCounted'
    BY <1>4, SameRebase DEF RefreshDirFail, brVars, In
  <1>5. ASSUME NEW f \in RegFile, NEW b \in Br, NEW wr \in BOOLEAN, NEW mm \in BOOLEAN, OpenReg(f, b, wr, mm) PROVE RebaseCounted'
    BY <1>5, SameRebase DEF OpenReg, brVars, In
  <1>6. ASSUME NEW f \in RegFile, CloseReg(f) PROVE RebaseCounted'
    BY <1>6, SameRebase DEF CloseReg, brVars, In
  <1>7. ASSUME NEW b \in Br, KickRebase(b) PROVE RebaseCounted'
    <2> PICK x : x = wbr[b] OBVIOUS
    <2>1. /\ Queue("rebase", b) /\ UNCHANGED <<brs, wbr>> /\ running[x] = 0
          /\ running' = [running EXCEPT ![x] = @ + 1] /\ In(b) /\ x # NoWbr
      BY <1>7 DEF KickRebase, brVars, WbrsOwned
    <2>2. \A c : In(c)' <=> In(c) BY <2>1, SameBranches
    <2>3. Cardinality(WorksOf(b, "rebase")') = Cardinality(WorksOf(b, "rebase")) + 1 BY <2>1, QueuedCount
    <2>4. Cardinality(WorksOf(b, "rebase")) = 0 BY <2>1 DEF RebaseCounted
    <2>5. running'[x] = 1 /\ \A c \in Br : c # b => running'[wbr[c]] = running[wbr[c]]
      BY <2>1 DEF TypeOK, WbrsOwned
    <2>6. \A c \in Br : c # b => WorksOf(c, "rebase")' = WorksOf(c, "rebase") BY <2>1, QueuedCount
    <2>7. Cardinality(WorksOf(b, "rebase")') = 1 BY <2>3, <2>4
    <2> QED BY <2>1, <2>2, <2>5, <2>6, <2>7 DEF RebaseCounted
  <1>8. ASSUME NEW b \in Br, KickTrunc(b) PROVE RebaseCounted'
    BY <1>8, NotQueued DEF KickTrunc, brVars
  <1>9. ASSUME NEW b \in Br, KickRmdir(b) PROVE RebaseCounted'
    BY <1>9, NotQueued DEF KickRmdir, brVars
  <1>10. ASSUME NEW b \in Br, DelBr(b) PROVE RebaseCounted'
    <2>1. \A c : In(c)' => In(c) BY <1>10, RemovedPlaces
    <2>2. UNCHANGED <<work, running>> /\ wbr' = [wbr EXCEPT ![b] = NoWbr] BY <1>10 DEF DelBr
    <2>3. \A c \in Br : wbr'[c] \in {wbr[c], NoWbr} BY <2>2 DEF TypeOK
    <2> QED BY <2>1, <2>2, <2>3, SameRebase
  <1>11. ASSUME NEW b \in Br, ModRo(b) PROVE RebaseCounted'
    <2>1. UNCHANGED brs /\ UNCHANGED work /\ load' = load /\ "mod" \in Ops BY <1>11 DEF ModRo
    <2>2. WorksOf(b, "rebase") = {} BY <2>1, NoRebase
    <2>3. \A c : In(c)' <=> In(c) BY <2>1, SameBranches
    <2>4. CASE NewWbr(b) BY <2>1, <2>2, <2>3, <2>4, NewRebase
    <2>5. CASE wbr' = [wbr EXCEPT ![b] = NoWbr] /\ UNCHANGED running
      <3>1. \A c \in Br : wbr'[c] \in {wbr[c], NoWbr} BY <2>5 DEF TypeOK
      <3> QED BY <2>1, <2>3, <2>5, <3>1, SameRebase
    <2> QED BY <1>11, <2>4, <2>5 DEF ModRo
  <1>12. ASSUME NEW b \in Br, ModRw(b) PROVE RebaseCounted'
    <2>1. /\ UNCHANGED brs /\ UNCHANGED work /\ load' = load /\ "mod" \in Ops
          /\ NewWbr(b)
      BY <1>12 DEF ModRw
    <2>2. WorksOf(b, "rebase") = {} BY <2>1, NoRebase
    <2>3. \A c : In(c)' <=> In(c) BY <2>1, SameBranches
    <2> QED BY <2>1, <2>2, <2>3, NewRebase
  <1>13. ASSUME NEW w \in Work, WorkStart(w) PROVE RebaseCounted'
    BY <1>13, SameRebase DEF WorkStart, brVars, In
  <1>14. ASSUME NEW w \in Work, WorkRun(w) PROVE RebaseCounted'
    <2> PICK b, k : b = work[w].br /\ k = work[w].kind OBVIOUS
    <2> PICK x : x = work[w].wbr OBVIOUS
    <2>1. b \in Br /\ In(b) BY <1>14, PendingFacts DEF WorkRun
    <2>2. UNCHANGED <<brs, wbr>> BY <1>14 DEF WorkRun, brVars
    <2>3. \A c : In(c)' <=> In(c) BY <2>2, SameBranches
    <2>4. CASE k = "rebase"
      <3>1. Cardinality(WorksOf(b, k)') = Cardinality(WorksOf(b, k)) - 1 BY <1>14, RunCount
      <3>2. x = wbr[b] /\ x # NoWbr BY <1>14, <2>4, PendingFacts DEF WorkRun
      <3>3. running' = [running EXCEPT ![x] = @ - 1] BY <1>14, <3>2 DEF WorkRun
      <3>4. running'[x] = running[x] - 1 /\ \A c \in Br : c # b => running'[wbr[c]] = running[wbr[c]]
        BY <3>2, <3>3, <2>1 DEF TypeOK, WbrsOwned
      <3>5. \A c \in Br : c # b => WorksOf(c, k)' = WorksOf(c, k) BY <1>14, RunCount
      <3>6. running[x] = Cardinality(WorksOf(b, k)) /\ running[x] <= 1 /\ running[x] \in Int
        BY <2>1, <2>4, <3>2 DEF RebaseCounted, TypeOK
      <3>7. running'[x] = Cardinality(WorksOf(b, k)') /\ running'[x] <= 1 BY <3>1, <3>4, <3>6
      <3> QED BY <2>2, <2>3, <2>4, <3>2, <3>4, <3>5, <3>7 DEF RebaseCounted
    <2>5. CASE k # "rebase"
      <3>1. \A c \in Br : WorksOf(c, "rebase")' = WorksOf(c, "rebase") BY <1>14, <2>5, RunCount
      <3>2. x = NoWbr BY <1>14, <2>5, PendingFacts DEF WorkRun
      <3>3. UNCHANGED running BY <1>14, <3>2 DEF WorkRun
      <3> QED BY <2>2, <2>3, <3>1, <3>3 DEF RebaseCounted
    <2> QED BY <2>4, <2>5
  <1>15. ASSUME RemountFlush PROVE RebaseCounted' BY <1>15, SameRebase DEF RemountFlush, brVars, In
  <1>16. ASSUME RemountRefused PROVE RebaseCounted'
    BY <1>16, SameRebase DEF RemountRefused, brVars, In
  <1>17. ASSUME NEW b \in Br, NEW p \in {"rw", "ro"}, NEW i \in 0 .. Len(brs), AddBr(b, p, i) PROVE RebaseCounted'
    <2>1. \A c : In(c)' <=> In(c) \/ c = b BY <1>17, AddedPlaces
    <2>2. ~In(b) /\ UNCHANGED work BY <1>17 DEF AddBr
    <2>3. WorksOf(b, "rebase") = {} BY <2>2, NoWorksOn
    <2>4. CASE NewWbr(b) BY <2>1, <2>2, <2>3, <2>4, NewRebase
    <2>5. CASE UNCHANGED <<wbr, running>>
      <3>1. \A c : WorksOf(c, "rebase")' = WorksOf(c, "rebase") BY <2>2, SameWorks
      <3>2. wbr[b] = NoWbr BY <2>2 DEF WbrsOwned
      <3> QED BY <2>1, <2>5, <3>1, <3>2 DEF RebaseCounted
    <2> QED BY <1>17, <2>4, <2>5 DEF AddBr
  <1> QED BY <1>1, <1>2, <1>3, <1>4, <1>5, <1>6, <1>7, <1>8, <1>9, <1>10, <1>11, <1>12, <1>13, <1>14, <1>15, <1>16, <1>17,
             NextSteps

-----------------------------------------------------------------------------
(* The ids, and br_count.                                                  *)
LEMMA IdsStep == ASSUME TypeOK, IdsDistinct, Next PROVE IdsDistinct'
  <1>1. ASSUME UNCHANGED <<brs, id>> PROVE IdsDistinct' BY <1>1 DEF IdsDistinct, In
  <1>2. ASSUME NEW b \in Br, NEW p \in {"rw", "ro"}, NEW i \in 0 .. Len(brs), AddBr(b, p, i)
        PROVE  IdsDistinct'
    <2>1. \A c : In(c)' <=> In(c) \/ c = b BY <1>2, AddedPlaces
    <2>2. \A c \in Br : In(c) => id[c] # NewId BY <1>2, NewIdType DEF Used
    <2>3. id'[b] = NewId /\ \A c \in Br : c # b => id'[c] = id[c] BY <1>2 DEF AddBr, TypeOK
    <2> QED BY <2>1, <2>2, <2>3 DEF IdsDistinct
  <1>3. ASSUME NEW b \in Br, DelBr(b) PROVE IdsDistinct'
    <2>1. \A c : In(c)' <=> In(c) /\ c # b BY <1>3, RemovedPlaces
    <2>2. \A c \in Br : c # b => id'[c] = id[c] BY <1>3 DEF DelBr, TypeOK
    <2> QED BY <2>1, <2>2 DEF IdsDistinct
  <1>4. \/ UNCHANGED <<brs, id>>
        \/ \E b \in Br : DelBr(b)
        \/ \E b \in Br, p \in {"rw", "ro"}, i \in 0 .. Len(brs) : AddBr(b, p, i)
    BY NextSteps DEF OpenDir, CloseDir, RefreshDir, RefreshDirFail, OpenReg, CloseReg, KickRebase,
                     KickTrunc, KickRmdir, ModRo, ModRw, WorkStart, WorkRun, RemountFlush,
                     RemountRefused, brVars
  <1> QED BY <1>1, <1>2, <1>3, <1>4

(* The lower files of the directories: those of one of them, and the rest. *)
LEMMA OneDirsHfiles ==
  ASSUME TypeOK, NEW f \in DirFile, NEW d \in DirType, dirf' = [dirf EXCEPT ![f] = d], NEW b \in Br
  PROVE  Cardinality(DirHfiles(b)') = Cardinality(DirHfiles(b)) + HfilesOn(d.h, b) - HfilesOn(dirf[f].h, b)
  <1> DEFINE Rest    == {x \in DirHfiles(b) : x[1] # f}
             Part(h) == {f} \X {i \in Idx : h[i] = b}
  <1>1. dirf'[f] = d /\ \A g \in DirFile : g # f => dirf'[g] = dirf[g] BY DEF TypeOK
  <1>2. DirHfiles(b) = Rest \cup Part(dirf[f].h) /\ Rest \cap Part(dirf[f].h) = {} BY DEF DirHfiles
  <1>3. DirHfiles(b)' = Rest \cup Part(d.h) /\ Rest \cap Part(d.h) = {} BY <1>1 DEF DirHfiles
  <1>4. IsFiniteSet(Rest) /\ Cardinality(Rest) \in Nat
    <2>1. Rest \in SUBSET DirHfiles(b) OBVIOUS
    <2> HIDE DEF Rest
    <2> QED BY <2>1, Finite, FS_Subset, FS_CardinalityType
  <1>5. \A h : /\ IsFiniteSet(Part(h)) /\ Cardinality(Part(h)) = HfilesOn(h, b)
               /\ HfilesOn(h, b) \in Nat
    <2> TAKE h
    <2> DEFINE I == {i \in Idx : h[i] = b}
    <2>1. I \in SUBSET Idx OBVIOUS
    <2>2. HfilesOn(h, b) = Cardinality(I) BY DEF HfilesOn
    <2> HIDE DEF I
    <2>3. IsFiniteSet(I) /\ Cardinality(I) \in Nat BY <2>1, IdxFinite, FS_Subset, FS_CardinalityType
    <2>4. IsFiniteSet({f}) /\ Cardinality({f}) = 1 BY FS_Singleton
    <2>5. IsFiniteSet({f} \X I) /\ Cardinality({f} \X I) = Cardinality({f}) * Cardinality(I)
      BY <2>3, <2>4, FS_Product
    <2>6. Cardinality({f} \X I) = Cardinality(I) BY <2>3, <2>4, <2>5
    <2> QED BY <2>2, <2>3, <2>5, <2>6 DEF I
  <1> HIDE DEF Rest, Part
  <1>6. Cardinality({}) = 0 BY FS_EmptySet
  <1>7. ASSUME NEW h, Rest \cap Part(h) = {}
        PROVE  Cardinality(Rest \cup Part(h)) = Cardinality(Rest) + HfilesOn(h, b)
    <2>1. Cardinality(Rest \cup Part(h)) =
            Cardinality(Rest) + Cardinality(Part(h)) - Cardinality(Rest \cap Part(h))
      BY <1>4, <1>5, FS_Union
    <2>2. Cardinality(Rest \cap Part(h)) = 0 BY <1>6, <1>7
    <2> QED BY <2>1, <2>2, <1>4, <1>5
  <1>8. Cardinality(DirHfiles(b)) = Cardinality(Rest) + HfilesOn(dirf[f].h, b) BY <1>2, <1>7
  <1>9. Cardinality(DirHfiles(b)') = Cardinality(Rest) + HfilesOn(d.h, b) BY <1>3, <1>7
  <1> QED BY <1>4, <1>5, <1>8, <1>9

LEMMA SlotsHfiles ==
  ASSUME TypeOK, NEW b \in Br PROVE HfilesOn(Slots, b) = IF In(b) THEN 1 ELSE 0
  <1>1. CASE In(b)
    <2>1. \A i \in Idx : Slots[i] = b => Index(b) = i BY SlotsPlaced, BrAssumption
    <2>2. {i \in Idx : Slots[i] = b} = {Index(b)} BY <1>1, <2>1, SlotsPlaced
    <2> QED BY <1>1, <2>2, FS_Singleton DEF HfilesOn
  <1>2. CASE ~In(b)
    <2>1. {i \in Idx : Slots[i] = b} = {} BY <1>2, SlotsPlaced, BrAssumption
    <2> QED BY <1>2, <2>1, FS_EmptySet DEF HfilesOn
  <1> QED BY <1>1, <1>2

LEMMA ClosedHfiles ==
  ASSUME NEW d, d.h = ClosedDir.h, NEW b \in Br PROVE HfilesOn(d.h, b) = 0
  <1>1. {i \in Idx : d.h[i] = b} = {} BY BrAssumption DEF ClosedDir
  <1> QED BY <1>1, FS_EmptySet DEF HfilesOn

LEMMA RangeHfiles ==
  ASSUME TypeOK, DirsOK, NEW f \in DirFile, NEW b \in Br
  PROVE  Cardinality({i \in dirf[f].btop .. dirf[f].bbot : dirf[f].h[i] = b}) = HfilesOn(dirf[f].h, b)
  <1>1. dirf[f] \in DirType /\ DirOK(dirf[f]) BY DEF TypeOK, DirsOK
  <1>2. Cardinality(Br) \in Nat /\ b # NoBr BY IdxFinite, BrAssumption
  <1>3. dirf[f].btop \in Nat /\ dirf[f].bbot \in Int /\ dirf[f].bbot < Cardinality(Br)
    BY <1>1 DEF DirType, DirOK
  <1>4. \A i \in Idx : dirf[f].h[i] = b => dirf[f].btop <= i /\ i <= dirf[f].bbot BY <1>1, <1>2 DEF DirOK
  <1>5. ASSUME NEW i PROVE i \in dirf[f].btop .. dirf[f].bbot /\ dirf[f].h[i] = b <=> i \in Idx /\ dirf[f].h[i] = b
    BY <1>2, <1>3, <1>4 DEF Idx
  <1>6. {i \in dirf[f].btop .. dirf[f].bbot : dirf[f].h[i] = b} = {i \in Idx : dirf[f].h[i] = b}
    BY <1>5
  <1> QED BY <1>6 DEF HfilesOn

LEMMA SameHolders ==
  ASSUME CountsExact, UNCHANGED <<count, brs>>,
         \A b \in Br : /\ Cardinality(WorksOn(b)') = Cardinality(WorksOn(b))
                       /\ Cardinality(RegOn(b)') = Cardinality(RegOn(b))
                       /\ Cardinality(DirHfiles(b)') = Cardinality(DirHfiles(b))
  PROVE  CountsExact'
  BY SameBranches DEF CountsExact

LEMMA SameDirHfiles ==
  ASSUME NEW b, \A f \in DirFile, i \in Idx : dirf'[f].h[i] = b <=> dirf[f].h[i] = b
  PROVE  DirHfiles(b)' = DirHfiles(b)
  BY DEF DirHfiles

LEMMA SameRegOn == ASSUME UNCHANGED regf PROVE \A b : RegOn(b)' = RegOn(b)
  BY DEF RegOn

(* A directory is opened, brought up to date, or closed.                   *)
LEMMA OneDirsCount ==
  ASSUME TypeOK, CountsExact, NEW f \in DirFile, NEW d \in DirType, dirf' = [dirf EXCEPT ![f] = d],
         UNCHANGED <<brs, regf, work>>,
         \A b \in Br : In(b) => count'[b] = count[b] + HfilesOn(d.h, b) - HfilesOn(dirf[f].h, b)
  PROVE  CountsExact'
  <1> SUFFICES ASSUME NEW b \in Br, In(b)
               PROVE  count'[b] = Cardinality(WorksOn(b)') + Cardinality(RegOn(b)') + Cardinality(DirHfiles(b)')
    BY SameBranches DEF CountsExact
  <1>1. WorksOn(b)' = WorksOn(b) /\ RegOn(b)' = RegOn(b) BY SameWorks, SameRegOn
  <1>2. Cardinality(DirHfiles(b)') = Cardinality(DirHfiles(b)) + HfilesOn(d.h, b) - HfilesOn(dirf[f].h, b)
    BY OneDirsHfiles
  <1>3. count[b] = Cardinality(WorksOn(b)) + Cardinality(RegOn(b)) + Cardinality(DirHfiles(b))
    BY DEF CountsExact
  <1>4. /\ Cardinality(WorksOn(b)) \in Nat /\ Cardinality(RegOn(b)) \in Nat
        /\ Cardinality(DirHfiles(b)) \in Nat
    BY Finite
  <1>5. HfilesOn(d.h, b) \in Nat /\ HfilesOn(dirf[f].h, b) \in Nat BY HfilesType
  <1> QED BY <1>1, <1>2, <1>3, <1>4, <1>5

(* br_count, action by action.                                             *)
LEMMA OutdatedHfiles ==
  ASSUME NEW d \in [DirFile -> DirType], NEW f \in DirFile PROVE Outdated(d)[f].h = d[f].h
  BY DEF Outdated, DirType

LEMMA QueuedCounts ==
  ASSUME TypeOK, WorksOK, CountsExact, NEW k, NEW b \in Br, Queue(k, b),
         UNCHANGED <<brs, dirf, regf>>
  PROVE  CountsExact'
  <1> SUFFICES ASSUME NEW c \in Br, In(c)
               PROVE  count'[c] = Cardinality(WorksOn(c)') + Cardinality(RegOn(c)') + Cardinality(DirHfiles(c)')
    BY SameBranches DEF CountsExact
  <1>1. count[c] = Cardinality(WorksOn(c)) + Cardinality(RegOn(c)) + Cardinality(DirHfiles(c))
    BY DEF CountsExact
  <1>2. RegOn(c)' = RegOn(c) /\ DirHfiles(c)' = DirHfiles(c) BY SameRegOn, SameDirHfiles
  <1>3. count' = [count EXCEPT ![b] = @ + 1] /\ count \in [Br -> Int] BY DEF Queue, TypeOK
  <1>4. /\ Cardinality(WorksOn(c)) \in Nat /\ Cardinality(RegOn(c)) \in Nat
        /\ Cardinality(DirHfiles(c)) \in Nat
    BY Finite
  <1>5. CASE c = b
    <2>1. Cardinality(WorksOn(c)') = Cardinality(WorksOn(c)) + 1 BY <1>5, QueuedCount
    <2>2. count'[c] = count[c] + 1 BY <1>3, <1>5
    <2> QED BY <1>1, <1>2, <1>4, <2>1, <2>2
  <1>6. CASE c # b
    <2>1. WorksOn(c)' = WorksOn(c) BY <1>6, QueuedCount
    <2>2. count'[c] = count[c] BY <1>3, <1>6
    <2> QED BY <1>1, <1>2, <2>1, <2>2
  <1> QED BY <1>5, <1>6

LEMMA RunCounts ==
  ASSUME TypeOK, WorksOK, CountsExact, NEW w \in Work, WorkRun(w) PROVE CountsExact'
  <1> PICK b : b = work[w].br OBVIOUS
  <1> PICK k : k = work[w].kind OBVIOUS
  <1>1. UNCHANGED <<brs, dirf, regf>> BY DEF WorkRun, brVars
  <1> SUFFICES ASSUME NEW c \in Br, In(c)
               PROVE  count'[c] = Cardinality(WorksOn(c)') + Cardinality(RegOn(c)') + Cardinality(DirHfiles(c)')
    BY <1>1, SameBranches DEF CountsExact
  <1>2. count[c] = Cardinality(WorksOn(c)) + Cardinality(RegOn(c)) + Cardinality(DirHfiles(c))
    BY DEF CountsExact
  <1>3. RegOn(c)' = RegOn(c) /\ DirHfiles(c)' = DirHfiles(c) BY <1>1, SameRegOn, SameDirHfiles
  <1>4. count' = [count EXCEPT ![b] = @ - 1] /\ count \in [Br -> Int] BY DEF WorkRun, TypeOK
  <1>5. /\ Cardinality(WorksOn(c)) \in Nat /\ Cardinality(RegOn(c)) \in Nat
        /\ Cardinality(DirHfiles(c)) \in Nat
    BY Finite
  <1>6. /\ Cardinality(WorksOn(b)') = Cardinality(WorksOn(b)) - 1
        /\ \A a \in Br : a # b => WorksOn(a)' = WorksOn(a)
    BY RunCount
  <1>7. CASE c = b
    <2>1. Cardinality(WorksOn(c)') = Cardinality(WorksOn(c)) - 1 BY <1>6, <1>7
    <2>2. count'[c] = count[c] - 1 BY <1>4, <1>7
    <2> QED BY <1>2, <1>3, <1>5, <2>1, <2>2
  <1>8. CASE c # b
    <2>1. WorksOn(c)' = WorksOn(c) BY <1>6, <1>8
    <2>2. count'[c] = count[c] BY <1>4, <1>8
    <2> QED BY <1>2, <1>3, <2>1, <2>2
  <1> QED BY <1>7, <1>8

LEMMA OpenRegCounts ==
  ASSUME TypeOK, CountsExact, NEW f \in RegFile, NEW b \in Br, NEW wr \in BOOLEAN, NEW mm \in BOOLEAN,
         OpenReg(f, b, wr, mm)
  PROVE  CountsExact'
  <1>1. UNCHANGED <<brs, dirf, work>> BY DEF OpenReg, brVars
  <1> SUFFICES ASSUME NEW c \in Br, In(c)
               PROVE  count'[c] = Cardinality(WorksOn(c)') + Cardinality(RegOn(c)') + Cardinality(DirHfiles(c)')
    BY <1>1, SameBranches DEF CountsExact
  <1>2. count[c] = Cardinality(WorksOn(c)) + Cardinality(RegOn(c)) + Cardinality(DirHfiles(c))
    BY DEF CountsExact
  <1>3. WorksOn(c)' = WorksOn(c) /\ DirHfiles(c)' = DirHfiles(c) BY <1>1, SameWorks, SameDirHfiles
  <1>4. count' = [count EXCEPT ![b] = @ + 1] /\ count \in [Br -> Int] BY DEF OpenReg, TypeOK
  <1>5. /\ Cardinality(WorksOn(c)) \in Nat /\ Cardinality(RegOn(c)) \in Nat
        /\ Cardinality(DirHfiles(c)) \in Nat
    BY Finite
  <1>6. regf[f].br = NoBr /\ regf'[f].br = b /\ \A g \in RegFile : g # f => regf'[g] = regf[g]
    BY DEF OpenReg, TypeOK
  <1>7. CASE c = b
    <2>1. RegOn(c)' = RegOn(c) \cup {f} /\ f \notin RegOn(c) BY <1>6, <1>7, BrAssumption DEF RegOn
    <2>2. Cardinality(RegOn(c)') = Cardinality(RegOn(c)) + 1 BY <2>1, Finite, FS_AddElement
    <2>3. count'[c] = count[c] + 1 BY <1>4, <1>7
    <2> QED BY <1>2, <1>3, <1>5, <2>2, <2>3
  <1>8. CASE c # b
    <2>1. RegOn(c)' = RegOn(c) BY <1>6, <1>8, BrAssumption DEF RegOn
    <2>2. count'[c] = count[c] BY <1>4, <1>8
    <2> QED BY <1>2, <1>3, <2>1, <2>2
  <1> QED BY <1>7, <1>8

LEMMA CloseRegCounts ==
  ASSUME TypeOK, CountsExact, NEW f \in RegFile, CloseReg(f) PROVE CountsExact'
  <1>1. UNCHANGED <<brs, dirf, work>> BY DEF CloseReg, brVars
  <1> PICK b : b = regf[f].br OBVIOUS
  <1> SUFFICES ASSUME NEW c \in Br, In(c)
               PROVE  count'[c] = Cardinality(WorksOn(c)') + Cardinality(RegOn(c)') + Cardinality(DirHfiles(c)')
    BY <1>1, SameBranches DEF CountsExact
  <1>2. count[c] = Cardinality(WorksOn(c)) + Cardinality(RegOn(c)) + Cardinality(DirHfiles(c))
    BY DEF CountsExact
  <1>3. WorksOn(c)' = WorksOn(c) /\ DirHfiles(c)' = DirHfiles(c) BY <1>1, SameWorks, SameDirHfiles
  <1>4. count' = [count EXCEPT ![b] = @ - 1] /\ count \in [Br -> Int] BY DEF CloseReg, TypeOK
  <1>5. /\ Cardinality(WorksOn(c)) \in Nat /\ Cardinality(RegOn(c)) \in Nat
        /\ Cardinality(DirHfiles(c)) \in Nat
    BY Finite
  <1>6. regf'[f].br = NoBr /\ \A g \in RegFile : g # f => regf'[g] = regf[g]
    BY DEF CloseReg, TypeOK, ClosedReg
  <1>7. CASE c = b
    <2>1. RegOn(c)' = RegOn(c) \ {f} /\ f \in RegOn(c) BY <1>6, <1>7, BrAssumption DEF RegOn
    <2>2. Cardinality(RegOn(c)') = Cardinality(RegOn(c)) - 1 BY <2>1, Finite, OneLess
    <2>3. count'[c] = count[c] - 1 BY <1>4, <1>7
    <2> QED BY <1>2, <1>3, <1>5, <2>2, <2>3
  <1>8. CASE c # b
    <2>1. RegOn(c)' = RegOn(c) BY <1>6, <1>8, BrAssumption DEF RegOn
    <2>2. count'[c] = count[c] BY <1>4, <1>8
    <2> QED BY <1>2, <1>3, <2>1, <2>2
  <1> QED BY <1>7, <1>8

(* A branch that is added comes with no holder, and with br_count zero.    *)
LEMMA AddBrCounts ==
  ASSUME TypeOK, DirsOK, WorksOK, RegsHeld, CountsExact,
         NEW b \in Br, NEW p \in {"rw", "ro"}, NEW i \in 0 .. Len(brs), AddBr(b, p, i)
  PROVE  CountsExact'
  <1>1. \A c : In(c)' <=> In(c) \/ c = b BY AddedPlaces
  <1>2. ~In(b) /\ UNCHANGED <<regf, work>> /\ dirf' = Outdated(dirf) BY DEF AddBr
  <1>3. count' = [count EXCEPT ![b] = 0] /\ count \in [Br -> Int] BY DEF AddBr, TypeOK
  <1>4. dirf \in [DirFile -> DirType] BY DEF TypeOK
  <1>5. \A f \in DirFile : dirf'[f].h = dirf[f].h BY <1>2, <1>4, OutdatedHfiles
  <1> SUFFICES ASSUME NEW c \in Br, In(c) \/ c = b
               PROVE  count'[c] = Cardinality(WorksOn(c)') + Cardinality(RegOn(c)') + Cardinality(DirHfiles(c)')
    BY <1>1 DEF CountsExact
  <1>6. WorksOn(c)' = WorksOn(c) /\ RegOn(c)' = RegOn(c) /\ DirHfiles(c)' = DirHfiles(c)
    BY <1>2, <1>5, SameWorks, SameRegOn, SameDirHfiles
  <1>7. CASE c = b
    <2>1. WorksOn(c) = {} BY <1>2, <1>7, NoWorksOn
    <2>2. RegOn(c) = {} BY <1>2, <1>7, BrAssumption DEF RegOn, RegsHeld
    <2>3. DirHfiles(c) = {} BY <1>2, <1>7, BrAssumption DEF DirHfiles, DirsOK, DirOK
    <2>4. count'[c] = 0 BY <1>3, <1>7
    <2> QED BY <1>6, <2>1, <2>2, <2>3, <2>4, FS_EmptySet
  <1>8. CASE c # b
    <2>1. count'[c] = count[c] BY <1>3, <1>8
    <2> QED BY <1>6, <1>8, <2>1 DEF CountsExact
  <1> QED BY <1>7, <1>8

(* The other branches keep their holders when one is deleted.              *)
LEMMA DelBrCounts ==
  ASSUME TypeOK, DirsOK, CountsExact, NEW b \in Br, DelBr(b) PROVE CountsExact'
  <1>1. PICK toFree \in SUBSET Roots :
          /\ dirf' = Outdated([g \in DirFile |-> IF g \in toFree THEN ClosedOn(dirf[g], b) ELSE dirf[g]])
          /\ count' = [count EXCEPT ![b] =
               @ - Cardinality({f \in toFree : HfilesOn(dirf[f].h, b) > 0})]
    BY DEF DelBr
  <1> PICK d : d = [g \in DirFile |-> IF g \in toFree THEN ClosedOn(dirf[g], b) ELSE dirf[g]] OBVIOUS
  <1>2. d \in [DirFile -> DirType] BY ClosedOnType DEF TypeOK
  <1>3. \A f \in DirFile : dirf'[f].h = d[f].h BY <1>1, <1>2, OutdatedHfiles
  <1>4. ASSUME NEW f \in DirFile, NEW i \in Idx
        PROVE  d[f].h[i] = dirf[f].h[i] \/ (dirf[f].h[i] = b /\ d[f].h[i] = NoBr)
    <2>1. CASE f \in toFree
      <3>1. d[f] = ClosedOn(dirf[f], b) BY <2>1
      <3>2. \A j \in Idx : d[f].h[j] = IF dirf[f].h[j] = b THEN NoBr ELSE dirf[f].h[j]
        BY <3>1, ClosedOnOK
      <3> QED BY <3>2
    <2>2. CASE f \notin toFree
      <3>1. d[f] = dirf[f] BY <2>2
      <3> QED BY <3>1
    <2> QED BY <2>1, <2>2
  <1>5. \A c : In(c)' <=> In(c) /\ c # b BY RemovedPlaces
  <1>6. UNCHANGED <<regf, work>> BY DEF DelBr
  <1> SUFFICES ASSUME NEW c \in Br, In(c), c # b
               PROVE  count'[c] = Cardinality(WorksOn(c)') + Cardinality(RegOn(c)') + Cardinality(DirHfiles(c)')
    BY <1>5 DEF CountsExact
  <1>7. WorksOn(c)' = WorksOn(c) /\ RegOn(c)' = RegOn(c) BY <1>6, SameWorks, SameRegOn
  <1>8. DirHfiles(c)' = DirHfiles(c) BY <1>3, <1>4, SameDirHfiles, BrAssumption
  <1>9. count'[c] = count[c] BY <1>1 DEF TypeOK
  <1> QED BY <1>7, <1>8, <1>9 DEF CountsExact

LEMMA CountsStep ==
  ASSUME TypeOK, IdsDistinct, DirsOK, WorksOK, RegsHeld, CountsExact, Next
  PROVE  CountsExact'
  <1>1. ASSUME NEW f \in DirFile, OpenDir(f) PROVE CountsExact'
    <2> PICK d : d = FreshDir OBVIOUS
    <2>1. dirf' = [dirf EXCEPT ![f] = d] BY <1>1 DEF OpenDir, FreshDir, Slots
    <2>2. UNCHANGED <<brs, regf, work>> BY <1>1 DEF OpenDir, brVars
    <2>3. \A b \in Br : HfilesOn(dirf[f].h, b) = 0
      <3> TAKE b \in Br
      <3>1. {i \in Idx : dirf[f].h[i] = b} = {} BY <1>1, BrAssumption DEF DirsOK, DirOK, OpenDir
      <3> QED BY <3>1, FS_EmptySet DEF HfilesOn
    <2>4. \A b \in Br : HfilesOn(d.h, b) = IF In(b) THEN 1 ELSE 0 BY SlotsHfiles DEF FreshDir
    <2>5. \A b \in Br : count'[b] = count[b] + IF In(b) THEN 1 ELSE 0 BY <1>1 DEF OpenDir
    <2>6. \A b \in Br : In(b) => count'[b] = count[b] + HfilesOn(d.h, b) - HfilesOn(dirf[f].h, b)
      BY <2>3, <2>4, <2>5 DEF TypeOK
    <2> QED BY <2>1, <2>2, <2>6, FreshType, OneDirsCount
  <1>2. ASSUME NEW f \in DirFile, CloseDir(f) PROVE CountsExact'
    <2>1. dirf' = [dirf EXCEPT ![f] = ClosedDir] /\ UNCHANGED <<brs, regf, work>>
      BY <1>2 DEF CloseDir, brVars
    <2>2. \A b \in Br : count'[b] = count[b] - HfilesOn(dirf[f].h, b) BY <1>2, RangeHfiles DEF CloseDir
    <2>3. \A b \in Br : HfilesOn(ClosedDir.h, b) = 0 BY ClosedHfiles
    <2>4. \A b \in Br : count'[b] = count[b] + HfilesOn(ClosedDir.h, b) - HfilesOn(dirf[f].h, b)
      BY <2>2, <2>3, HfilesType DEF TypeOK
    <2> QED BY <2>1, <2>4, ClosedType, OneDirsCount
  <1>3. ASSUME NEW f \in DirFile, RefreshDir(f) PROVE CountsExact'
    <2> PICK d : d = FreshDir OBVIOUS
    <2>1. /\ dirf' = [dirf EXCEPT ![f] = d]
          /\ count' = [b \in Br |-> count[b] + HfilesOn(Slots, b) - HfilesOn(dirf[f].h, b)]
      BY <1>3, Refreshed DEF DirsOK
    <2>2. UNCHANGED <<brs, regf, work>> BY <1>3 DEF RefreshDir, brVars
    <2>3. \A b \in Br : In(b) => count'[b] = count[b] + HfilesOn(d.h, b) - HfilesOn(dirf[f].h, b)
      BY <2>1 DEF FreshDir
    <2> QED BY <2>1, <2>2, <2>3, FreshType, OneDirsCount
  <1>4. ASSUME NEW f \in DirFile, RefreshDirFail(f) PROVE CountsExact'
    <2> PICK d : d = [ClosedDir EXCEPT !.open = TRUE, !.bbot = Bend, !.fresh = FALSE] OBVIOUS
    <2>1. dirf' = [dirf EXCEPT ![f] = d] /\ UNCHANGED <<brs, regf, work>>
      BY <1>4 DEF RefreshDirFail, brVars
    <2>2. d \in DirType /\ d.h = ClosedDir.h
      <3>1. Bend \in Int BY Places DEF Bend
      <3> QED BY <3>1, ClosedType DEF DirType
    <2>3. \A b \in Br : HfilesOn(d.h, b) = 0 BY <2>2, ClosedHfiles
    <2>4. \A b \in Br : count'[b] = count[b] - HfilesOn(dirf[f].h, b) BY <1>4 DEF RefreshDirFail
    <2>5. \A b \in Br : count'[b] = count[b] + HfilesOn(d.h, b) - HfilesOn(dirf[f].h, b)
      BY <2>3, <2>4, HfilesType DEF TypeOK
    <2> QED BY <2>1, <2>2, <2>5, OneDirsCount
  <1>5. ASSUME NEW f \in RegFile, NEW b \in Br, NEW wr \in BOOLEAN, NEW mm \in BOOLEAN, OpenReg(f, b, wr, mm) PROVE CountsExact'
    BY <1>5, OpenRegCounts
  <1>6. ASSUME NEW f \in RegFile, CloseReg(f) PROVE CountsExact' BY <1>6, CloseRegCounts
  <1>7. ASSUME NEW b \in Br, KickRebase(b) PROVE CountsExact'
    <2>1. UNCHANGED <<brs, dirf, regf>> BY <1>7 DEF KickRebase, brVars
    <2> QED BY <1>7, <2>1, QueuedCounts DEF KickRebase
  <1>8. ASSUME NEW b \in Br, KickTrunc(b) PROVE CountsExact'
    <2>1. UNCHANGED <<brs, dirf, regf>> BY <1>8 DEF KickTrunc, brVars
    <2> QED BY <1>8, <2>1, QueuedCounts DEF KickTrunc
  <1>9. ASSUME NEW b \in Br, KickRmdir(b) PROVE CountsExact'
    <2>1. UNCHANGED <<brs, dirf, regf>> BY <1>9 DEF KickRmdir, brVars
    <2> QED BY <1>9, <2>1, QueuedCounts DEF KickRmdir
  <1>10. ASSUME NEW b \in Br, DelBr(b) PROVE CountsExact' BY <1>10, DelBrCounts
  <1>11. ASSUME NEW b \in Br, ModRo(b) PROVE CountsExact'
    <2>1. UNCHANGED <<count, brs, work>> BY <1>11 DEF ModRo
    <2>2. dirf' = Outdated(dirf) \/ UNCHANGED dirf BY <1>11 DEF ModRo
    <2>3. \A f \in DirFile : dirf'[f].h = dirf[f].h BY <2>2, OutdatedHfiles DEF TypeOK
    <2>4. \A f \in RegFile : regf'[f].br = regf[f].br
      <3>1. CASE UNCHANGED regf BY <3>1
      <3>2. CASE regf' = [f \in RegFile |-> IF f \in RegOn(b) THEN [regf[f] EXCEPT !.wr = FALSE] ELSE regf[f]]
        BY <3>2 DEF TypeOK, RegType
      <3> QED BY <1>11, <3>1, <3>2 DEF ModRo
    <2>5. \A c : RegOn(c)' = RegOn(c) BY <2>4 DEF RegOn
    <2> QED BY <2>1, <2>3, <2>5, SameWorks, SameDirHfiles, SameHolders
  <1>12. ASSUME NEW b \in Br, ModRw(b) PROVE CountsExact'
    <2>1. UNCHANGED <<count, brs, work, regf>> /\ dirf' = Outdated(dirf) BY <1>12 DEF ModRw
    <2>2. \A f \in DirFile : dirf'[f].h = dirf[f].h BY <2>1, OutdatedHfiles DEF TypeOK
    <2> QED BY <2>1, <2>2, SameWorks, SameRegOn, SameDirHfiles, SameHolders
  <1>13. ASSUME NEW w \in Work, WorkStart(w) PROVE CountsExact'
    <2>1. UNCHANGED <<count, brs, regf, dirf>> BY <1>13 DEF WorkStart, brVars
    <2>2. \A b : WorksOn(b)' = WorksOn(b) BY <1>13, SameWorks
    <2> QED BY <2>1, <2>2, SameRegOn, SameDirHfiles, SameHolders
  <1>14. ASSUME NEW w \in Work, WorkRun(w) PROVE CountsExact' BY <1>14, RunCounts
  <1>15. ASSUME RemountFlush PROVE CountsExact'
    <2>1. UNCHANGED <<count, brs, regf, work, dirf>> BY <1>15 DEF RemountFlush, brVars
    <2> QED BY <2>1, SameWorks, SameRegOn, SameDirHfiles, SameHolders
  <1>16. ASSUME RemountRefused PROVE CountsExact'
    <2>1. UNCHANGED <<count, brs, regf, work, dirf>> BY <1>16 DEF RemountRefused, brVars
    <2> QED BY <2>1, SameWorks, SameRegOn, SameDirHfiles, SameHolders
  <1>17. ASSUME NEW b \in Br, NEW p \in {"rw", "ro"}, NEW i \in 0 .. Len(brs), AddBr(b, p, i) PROVE CountsExact'
    BY <1>17, AddBrCounts
  <1> QED BY <1>1, <1>2, <1>3, <1>4, <1>5, <1>6, <1>7, <1>8, <1>9, <1>10, <1>11, <1>12, <1>13, <1>14, <1>15, <1>16, <1>17,
             NextSteps

-----------------------------------------------------------------------------
(* Together.                                                               *)
LEMMA InitInv == Init => BranchInv
  <1> SUFFICES ASSUME Init PROVE BranchInv OBVIOUS
  <1>1. PICK b \in Br, x \in Wbr :
          /\ brs = <<b>>
          /\ wbr = [c \in Br |-> IF c = b THEN x ELSE NoWbr]
          /\ id = [c \in Br |-> IF c = b THEN BranchMax \div 2 + 1 ELSE 0]
    BY DEF Init
  <1>2. /\ lastId = BranchMax \div 2 + 1 /\ perm = [c \in Br |-> "rw"] /\ count = [c \in Br |-> 0]
        /\ running = [y \in Wbr |-> 0] /\ trunc = [c \in Br |-> 0] /\ nested = {} /\ load \in Loads
    BY DEF Init
  <1>3. /\ \A f \in DirFile : dirf[f] = ClosedDir
        /\ \A f \in RegFile : regf[f] = ClosedReg
        /\ \A w \in Work : work[w] = NoWork
    BY DEF Init
  <1>4. \A c : In(c) <=> c = b BY <1>1 DEF In
  <1>5. TypeOK
    <2>1. BranchMax \div 2 + 1 \in Int BY BranchMaxAssumption
    <2>2. brs \in Seq(Br) /\ \A i, j \in 1 .. Len(brs) : brs[i] = brs[j] => i = j BY <1>1
    <2>3. dirf \in [DirFile -> DirType] BY ClosedType DEF Init
    <2>4. regf \in [RegFile -> RegType] BY DEF Init, RegType, ClosedReg
    <2>5. work \in [Work -> WorkType] BY DEF Init, WorkType, NoWork
    <2> HIDE DEF Init
    <2>6. id \in [Br -> Int] /\ wbr \in [Br -> Wbr \cup {NoWbr}] BY <1>1, <2>1
    <2> QED BY <1>2, <2>1, <2>2, <2>3, <2>4, <2>5, <2>6 DEF TypeOK
  <1>6. DirsOK
    <2>1. -1 < Cardinality(Br) BY IdxFinite
    <2> QED BY <2>1, <1>3 DEF DirsOK, DirOK, ClosedDir
  <1>7. RootsFew BY <1>3 DEF RootsFew, Roots, ClosedDir
  <1>8. RegsOK /\ RegsHeld /\ WriterOnRw BY <1>3 DEF RegsOK, RegsHeld, WriterOnRw, ClosedReg
  <1>9. WorksOK BY <1>3 DEF WorksOK, WorkOK, NoWork
  <1>10. WbrsOwned BY <1>1, <1>4, BrAssumption DEF WbrsOwned
  <1>11. ASSUME NEW c \in Br
         PROVE  /\ WorksOn(c) = {} /\ RegOn(c) = {} /\ DirHfiles(c) = {}
                /\ \A k : WorksOf(c, k) = {}
    BY <1>3, BrAssumption DEF WorksOn, RegOn, DirHfiles, WorksOf, NoWork, ClosedReg, ClosedDir
  <1>12. TruncCounted BY <1>2, <1>11, FS_EmptySet DEF TruncCounted
  <1>13. RebaseCounted
    <2>1. wbr = [c \in Br |-> IF c = b THEN x ELSE NoWbr] BY <1>1
    <2>2. ASSUME NEW c \in Br, wbr[c] # NoWbr PROVE running[wbr[c]] = 0 BY <1>2, <2>1, <2>2
    <2>3. \A c \in Br : Cardinality(WorksOf(c, "rebase")) = 0 BY <1>11, FS_EmptySet
    <2> QED BY <2>2, <2>3 DEF RebaseCounted
  <1>14. CountsExact
    <2>1. \A c \in Br : /\ Cardinality(WorksOn(c)) = 0 /\ Cardinality(RegOn(c)) = 0
                        /\ Cardinality(DirHfiles(c)) = 0
      BY <1>11, FS_EmptySet
    <2> QED BY <1>2, <2>1 DEF CountsExact
  <1>15. IdsDistinct BY <1>4 DEF IdsDistinct
  <1> QED BY <1>5, <1>6, <1>7, <1>8, <1>9, <1>10, <1>12, <1>13, <1>14, <1>15 DEF BranchInv

LEMMA InvStep == ASSUME PlainLoads PROVE BranchInv /\ [Next]_vars => BranchInv'
  <1> SUFFICES ASSUME BranchInv, [Next]_vars PROVE BranchInv' OBVIOUS
  <1> USE DEF BranchInv
  <1>1. CASE Next
    <2>1. TypeOK' /\ DirsOK' /\ RootsFew' BY <1>1, TypeStep, DirsStep, RootsStep
    <2>2. RegsInv' BY <1>1, RegsStep DEF RegsInv
    <2>3. WorksOK' /\ WbrsOwned' BY <1>1, WorksStep, WbrsStep
    <2>4. TruncCounted' /\ RebaseCounted' BY <1>1, TruncStep, RebaseStep
    <2>5. IdsDistinct' /\ CountsExact' BY <1>1, IdsStep, CountsStep
    <2> QED BY <2>1, <2>2, <2>3, <2>4, <2>5 DEF RegsInv
  <1>2. CASE UNCHANGED vars
    <2> USE <1>2 DEF vars, brVars
    <2>1. (\A c : In(c)' <=> In(c)) /\ Bend' = Bend BY SameBranches
    <2>2. TypeOK' BY DEF TypeOK
    <2>3. DirsOK' BY SameDirs
    <2>4. RootsFew' BY NoMoreRoots
    <2>5. RegsInv' BY SameRegs DEF RegsInv
    <2>6. WorksOK' BY <2>1, KeptWorks
    <2>7. WbrsOwned' BY SameWbrs
    <2>8. TruncCounted' BY <2>1, SameTrunc
    <2>9. \A c : WorksOn(c)' = WorksOn(c) /\ \A k : WorksOf(c, k)' = WorksOf(c, k) BY SameWorks
    <2>10. RebaseCounted' BY <2>1, <2>9 DEF RebaseCounted
    <2>11. IdsDistinct' BY <2>1 DEF IdsDistinct
    <2>12. CountsExact' BY <2>9, SameRegOn, SameDirHfiles, SameHolders
    <2> QED BY <2>2, <2>3, <2>4, <2>5, <2>6, <2>7, <2>8, <2>10, <2>11, <2>12 DEF RegsInv
  <1> QED BY <1>1, <1>2

(* br_count stays the number of the works, regular files and lower         *)
(* directories that hold a branch, no open file holds a deleted branch,    *)
(* and an id stands for one branch (branch.c:1053, sbinfo.c:173): what     *)
(* au_br_del and the xino readers take for granted.                        *)
THEOREM RefsStayExact == ASSUME PlainLoads PROVE Spec => []RefsExact
  <1>1. BranchInv => RefsExact BY DEF BranchInv, RefsExact
  <1> QED BY <1>1, InitInv, InvStep, PTL DEF Spec

(* A root directory that was brought up to date has the lower directory of *)
(* the branch at each index, whatever branches were added and deleted      *)
(* since it was opened (file.c:563-604), and none of a deleted branch.     *)
THEOREM SlotsStayMatched == ASSUME PlainLoads PROVE Spec => []SlotsMatch
  <1>1. BranchInv => SlotsMatch BY DEF BranchInv, DirsOK, DirOK, SlotsMatch
  <1> QED BY <1>1, InitInv, InvStep, PTL DEF Spec

(* A writable branch has a br_wbr of its own, through every change of      *)
(* permission that is undone (branch.c:1358-1366), and at most one work of *)
(* each kind is under way for a branch (whout.c:586, xino.c:381).          *)
THEOREM WbrStaysKept == ASSUME PlainLoads PROVE Spec => []WbrKept
  <1>1. BranchInv => WbrKept
    <2> SUFFICES ASSUME BranchInv, NEW b \in Br, In(b)
                 PROVE  LET Of(k) == Cardinality({w \in WorksOn(b) : work[w].kind = k})
                        IN  /\ perm[b] = "rw" =>
                                 wbr[b] # NoWbr /\ \A c \in Br : In(c) /\ wbr[c] = wbr[b] => c = b
                            /\ trunc[b] = Of("trunc") /\ Of("trunc") <= 1
                            /\ wbr[b] # NoWbr => running[wbr[b]] = Of("rebase") /\ Of("rebase") <= 1
      BY DEF WbrKept
    <2>1. /\ {w \in WorksOn(b) : work[w].kind = "trunc"} = WorksOf(b, "trunc")
          /\ {w \in WorksOn(b) : work[w].kind = "rebase"} = WorksOf(b, "rebase")
      BY DEF WorksOn, WorksOf
    <2>2. WbrsOwned /\ TruncCounted /\ RebaseCounted BY DEF BranchInv
    <2>3. perm[b] = "rw" => wbr[b] # NoWbr /\ \A c \in Br : In(c) /\ wbr[c] = wbr[b] => c = b
      BY <2>2 DEF WbrsOwned
    <2>4. trunc[b] = Cardinality(WorksOf(b, "trunc")) /\ trunc[b] <= 1 BY <2>2 DEF TruncCounted
    <2>5. wbr[b] # NoWbr =>
            running[wbr[b]] = Cardinality(WorksOf(b, "rebase")) /\ running[wbr[b]] <= 1
      BY <2>2 DEF RebaseCounted
    <2> QED BY <2>1, <2>3, <2>4, <2>5
  <1> QED BY <1>1, InitInv, InvStep, PTL DEF Spec

(* Once a branch is read-only no open file can write to it, but when       *)
(* au_br_mod reported that it could not undo the change                    *)
(* (branch.c:1223-1366).                                                   *)
THEOREM WritersStayOnRw == ASSUME PlainLoads PROVE Spec => []WriterOnRw
  <1>1. BranchInv => WriterOnRw BY DEF BranchInv
  <1> QED BY <1>1, InitInv, InvStep, PTL DEF Spec
=============================================================================
