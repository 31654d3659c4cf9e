---------------------------- MODULE AufsWbrProofs ----------------------------
(***************************************************************************)
(* Proofs about AufsWbr, for any number of branches, layouts, free spaces, *)
(* policies and flags: what a create, a write or a move-down leaves is     *)
(* what the union shows.                                                   *)
(***************************************************************************)
EXTENDS AufsWbr, DataLemmas

-----------------------------------------------------------------------------
(* Merged directories, told without a search.                              *)

DirCells  == {"no"} \cup Whs \cup Dirs
FileCells == {"no", "wh", "whfile"} \cup Data

(* The branches of S on which a directory is found, the opaque ones of     *)
(* them, and those it is merged from.                                      *)
DirPos(S, c) == {b \in S : c[b] \in Dirs /\ \A a \in S : c[a] \in Whs => b < a}
Opaque(S, c) == {b \in DirPos(S, c) : c[b] = "opq"}
Mrg(S, c)    == {b \in DirPos(S, c) : Opaque(S, c) # {} => \E a \in Opaque(S, c) : b <= a}

(* The lowest branch of S that has anything under the name.                *)
First(S, c, t) == t \in S /\ c[t] # "no" /\ \A a \in S : a < t => c[a] = "no"

(* Branches are numbers.                                                   *)
LEMMA BrIsNat == Br \in SUBSET Nat /\ None \notin Br /\ \A b \in Br : b <= N - 1
  BY NAssumption DEF Br, None

(* The lowest and the highest of some branches.                            *)
LEMMA Lowest ==
  ASSUME NEW S \in SUBSET Br, NEW e
  PROVE  /\ S = {} => LowestOr(S, e) = e
         /\ S # {} => LowestOr(S, e) = Min(S) /\ Min(S) \in S /\ \A x \in S : Min(S) <= x
  <1>1. S # {} => Min(S) \in S /\ \A x \in S : Min(S) <= x BY BrIsNat, LeastNatural
  <1> QED BY <1>1 DEF LowestOr

(* The same of the highest.                                                *)
LEMMA Highest ==
  ASSUME NEW S \in SUBSET Br, NEW e
  PROVE  /\ S = {} => HighestOr(S, e) = e
         /\ S # {} => HighestOr(S, e) = Max(S) /\ Max(S) \in S /\ \A x \in S : x <= Max(S)
  <1>1. N - 1 \in Nat BY NAssumption
  <1>2. S # {} => Max(S) \in S /\ \A x \in S : x <= Max(S) BY <1>1, BrIsNat, GreatestNatural
  <1> QED BY <1>2 DEF HighestOr

(* The cells of a directory are never those of a file.                     *)
LEMMA CellsApart ==
  /\ Whs \cap Dirs = {} /\ "no" \notin Whs /\ "no" \notin Dirs
  /\ \A x \in Data : x \notin Whs /\ x \notin Dirs /\ x # "no"
  <1>1. \A b \in Br : Old[b] \notin {"no"} \cup Whs \cup Dirs BY OldAssumption
  <1>2. "new" \notin {"no"} \cup Whs \cup Dirs BY DEF Whs, Dirs
  <1>3. \A x \in Data : x \notin {"no"} \cup Whs \cup Dirs BY <1>1, <1>2 DEF Data, New
  <1> QED BY <1>3 DEF Whs, Dirs

(* What a look-up goes through, step by step.                              *)
Wh(S, c)    == LowestOr(Holders(S, c, Whs), None)
Seen(S, c)  == Above(S, c, Wh(S, c))
Top(S, c)   == LowestOr(Seen(S, c), None)
IsDir(S, c) == Top(S, c) # None /\ c[Top(S, c)] \in Dirs
Pos(S, c)   == IF IsDir(S, c) THEN Holders(Seen(S, c), c, Dirs) ELSE Seen(S, c) \cap {Top(S, c)}

(* A look-up is these steps.                                               *)
LEMMA DinfoIs ==
  ASSUME NEW S, NEW c
  PROVE  Dinfo(S, c) =
           [start |-> LowestOr(Pos(S, c), Min(S)), end |-> HighestOr(Pos(S, c), Min(S)), pos |-> Pos(S, c),
            wh |-> IF Pos(S, c) # {} /\ ~IsDir(S, c) THEN None ELSE Wh(S, c),
            opq |-> HighestOr(Holders(Pos(S, c), c, {"opq"}), None)]
  <1>1. Dinfo(S, c) = Info(S, c, Wh(S, c), IsDir(S, c), Pos(S, c))
    BY Zenon DEF Dinfo, Wh, Seen, Top, IsDir, Pos
  <1> QED BY <1>1, Zenon DEF Info

(* What a look-up of a directory finds.                                    *)
LEMMA DirInfo ==
  ASSUME NEW S \in SUBSET Br, NEW c, \A b \in S : c[b] \in DirCells
  PROVE  /\ Dinfo(S, c).pos = DirPos(S, c)
         /\ Dinfo(S, c).start = LowestOr(DirPos(S, c), Min(S))
         /\ Dinfo(S, c).end = HighestOr(DirPos(S, c), Min(S))
         /\ Dinfo(S, c).wh = Wh(S, c)
         /\ Dinfo(S, c).opq = HighestOr(Opaque(S, c), None)
  <1>1. PICK W : W = Holders(S, c, Whs) OBVIOUS
  <1>2. W \in SUBSET S /\ \A b \in S : b \in W <=> c[b] \in Whs BY <1>1 DEF Holders
  <1>3. PICK w : w = Wh(S, c) /\ w = LowestOr(W, None) BY <1>1 DEF Wh
  <1>4. (W = {} => w = None) /\ (W # {} => w \in W /\ \A a \in W : w <= a) BY <1>2, <1>3, Lowest
  <1>5. w # None <=> W # {} BY <1>2, <1>4, BrIsNat
  <1>6. ASSUME NEW b \in S PROVE (w # None => b < w) <=> \A a \in S : c[a] \in Whs => b < a
    <2>1. CASE W = {} BY <2>1, <1>2, <1>5
    <2>2. CASE W # {}
      <3>1. w \in W /\ w \in Nat /\ b \in Nat /\ w # None BY <2>2, <1>2, <1>4, <1>5, BrIsNat
      <3>2. \A a \in W : w <= a /\ a \in Nat BY <2>2, <1>2, <1>4, BrIsNat
      <3>3. b < w => \A a \in W : b < a BY <3>1, <3>2
      <3>4. (\A a \in W : b < a) => b < w BY <3>1
      <3> QED BY <3>1, <3>3, <3>4, <1>2
    <2> QED BY <2>1, <2>2
  <1>7. PICK s : s = Seen(S, c) OBVIOUS
  <1>8. s = {b \in S : c[b] # "no" /\ (w # None => b < w)} BY <1>3, <1>7 DEF Seen, Above
  <1>9. ASSUME NEW b \in s PROVE c[b] \in Dirs
    <2>1. b \in S /\ c[b] # "no" BY <1>8
    <2>2. c[b] \notin Whs
      <3> SUFFICES ASSUME c[b] \in Whs PROVE FALSE OBVIOUS
      <3>1. b < b BY <2>1, <1>6, <1>8
      <3> QED BY <3>1, <2>1, BrIsNat
    <2> QED BY <2>1, <2>2 DEF DirCells
  <1>10. s = DirPos(S, c)
    <2>1. \A b \in s : b \in DirPos(S, c) BY <1>6, <1>8, <1>9 DEF DirPos
    <2>2. \A b \in DirPos(S, c) : b \in s BY <1>6, <1>8, CellsApart DEF DirPos
    <2> QED BY <2>1, <2>2
  <1>11. s # {} => Top(S, c) \in s BY <1>7, <1>8, Lowest DEF Top
  <1>12. s # {} => IsDir(S, c) BY <1>8, <1>9, <1>11, BrIsNat DEF IsDir
  <1>13. Pos(S, c) = s
    <2>1. CASE s = {} BY <2>1, <1>7 DEF Pos, Holders
    <2>2. CASE s # {} BY <2>2, <1>7, <1>9, <1>12 DEF Pos, Holders
    <2> QED BY <2>1, <2>2
  <1>14. (IF Pos(S, c) # {} /\ ~IsDir(S, c) THEN None ELSE Wh(S, c)) = Wh(S, c) BY <1>12, <1>13
  <1>15. Holders(Pos(S, c), c, {"opq"}) = Opaque(S, c) BY <1>10, <1>13 DEF Opaque, Holders
  <1> QED BY <1>10, <1>13, <1>14, <1>15, DinfoIs

(* The branches it is merged from.                                         *)
LEMMA MergedIs ==
  ASSUME NEW S \in SUBSET Br, NEW c, \A b \in S : c[b] \in DirCells
  PROVE  Merged(Dinfo(S, c)) = Mrg(S, c)
  <1> DEFINE i == Dinfo(S, c)
             P == DirPos(S, c)
             O == Opaque(S, c)
             W == Holders(S, c, Whs)
  <1> SUFFICES Merged(i) = Mrg(S, c) OBVIOUS
  <1>1. i.pos = P /\ i.end = HighestOr(P, Min(S)) /\ i.wh = LowestOr(W, None) /\ i.opq = HighestOr(O, None)
    BY DirInfo DEF Wh
  <1>2. P \in SUBSET Br /\ O \in SUBSET P /\ W \in SUBSET Br BY DEF DirPos, Opaque, Holders
  <1>3. Merged(i) = {b \in P : b <= TailDir(i)} BY <1>1 DEF Merged
  <1>4. Mrg(S, c) = {b \in P : O # {} => \E a \in O : b <= a} BY DEF Mrg
  <1>5. \A b \in P, a \in W : b < a BY DEF DirPos, Holders
  <1> HIDE DEF i, P, O, W
  <1>6. CASE P = {} BY <1>3, <1>4, <1>6
  <1>7. CASE P # {}
    <2>1. i.end \in P /\ \A b \in P : b <= i.end BY <1>1, <1>2, <1>7, Highest
    <2>2. i.wh # 0 /\ i.wh \notin 1 .. i.end - 1
      <3>1. ASSUME W = {} PROVE i.wh = -1 BY <3>1, <1>1, <1>2, Lowest DEF None
      <3>2. ASSUME W # {} PROVE i.wh \in Nat /\ i.end \in Nat /\ i.end < i.wh
        <4>1. i.wh \in W BY <3>2, <1>1, <1>2, Lowest
        <4> QED BY <4>1, <2>1, <1>2, <1>5, BrIsNat
      <3>3. i.end \in Nat BY <2>1, <1>2, BrIsNat
      <3> QED BY <3>1, <3>2, <3>3
    <2>3. TailDir(i) = IF i.opq \in 0 .. i.end - 1 THEN i.opq ELSE i.end BY <2>2, Zenon DEF TailDir
    <2>4. CASE O = {}
      <3>1. i.opq = None BY <2>4, <1>1, <1>2, Highest
      <3>2. TailDir(i) = i.end BY <3>1, <2>1, <2>3, <1>2, BrIsNat DEF None
      <3>3. Merged(i) = P BY <3>2, <2>1, <1>3
      <3> QED BY <3>3, <2>4, <1>4
    <2>5. CASE O # {}
      <3>1. i.opq \in O /\ \A a \in O : a <= i.opq BY <2>5, <1>1, <1>2, Highest
      <3>2. i.opq \in P /\ i.opq \in Nat /\ i.end \in Nat BY <3>1, <2>1, <1>2, BrIsNat
      <3>3. TailDir(i) = i.opq BY <3>2, <2>1, <2>3
      <3>4. ASSUME NEW b \in P PROVE b <= i.opq <=> \E a \in O : b <= a
        <4>1. b \in Nat BY <1>2, BrIsNat
        <4>2. \A a \in O : a \in Nat BY <1>2, BrIsNat
        <4> QED BY <4>1, <4>2, <3>1, <3>2
      <3> QED BY <3>3, <3>4, <1>3, <1>4, <2>5
    <2> QED BY <2>4, <2>5
  <1> QED BY <1>6, <1>7

(* What a look-up of a file finds: its lowest entry, or a whiteout of it,  *)
(* or nothing.                                                             *)
LEMMA FileInfo ==
  ASSUME NEW S \in SUBSET Br, NEW c, \A b \in S : c[b] \in FileCells
  PROVE  /\ \A t : First(S, c, t) /\ c[t] \in Data =>
                     Dinfo(S, c).pos = {t} /\ Dinfo(S, c).start = t /\ Dinfo(S, c).wh = None
         /\ \A t : First(S, c, t) /\ c[t] \in Whs =>
                     Dinfo(S, c).pos = {} /\ Dinfo(S, c).start = Min(S) /\ Dinfo(S, c).wh = t
         /\ (\A b \in S : c[b] = "no") =>
                     Dinfo(S, c).pos = {} /\ Dinfo(S, c).start = Min(S) /\ Dinfo(S, c).wh = None
  <1>1. PICK W : W = Holders(S, c, Whs) OBVIOUS
  <1>2. W \in SUBSET S /\ \A b \in S : b \in W <=> c[b] \in Whs BY <1>1 DEF Holders
  <1>3. PICK bwh : bwh = Wh(S, c) /\ bwh = LowestOr(W, None) BY <1>1 DEF Wh
  <1>4. (W = {} => bwh = None) /\ (W # {} => bwh \in W /\ \A a \in W : bwh <= a) BY <1>2, <1>3, Lowest
  <1>5. PICK seen : seen = Seen(S, c) OBVIOUS
  <1>6. seen = {b \in S : c[b] # "no" /\ (bwh # None => b < bwh)} BY <1>3, <1>5 DEF Seen, Above
  <1>7. PICK top : top = Top(S, c) /\ top = LowestOr(seen, None) BY <1>5 DEF Top
  <1>12. (seen = {} => top = None) /\ (seen # {} => top \in seen /\ \A a \in seen : top <= a)
    BY <1>6, <1>7, Lowest
  <1>13. \A b \in S : c[b] \notin Dirs BY CellsApart DEF FileCells, Whs, Dirs
  <1>14. ~IsDir(S, c) BY <1>6, <1>7, <1>12, <1>13 DEF IsDir
  <1>15. PICK pos : pos = Pos(S, c) /\ pos = seen \cap {top} BY <1>5, <1>7, <1>14 DEF Pos
  <1>16. /\ Dinfo(S, c).pos = pos /\ Dinfo(S, c).start = LowestOr(pos, Min(S))
         /\ Dinfo(S, c).wh = IF pos # {} THEN None ELSE bwh
    BY <1>3, <1>14, <1>15, DinfoIs
  <1>8. ASSUME NEW t, First(S, c, t), c[t] \in Data
        PROVE  Dinfo(S, c).pos = {t} /\ Dinfo(S, c).start = t /\ Dinfo(S, c).wh = None
    <2>1. t \in S /\ c[t] # "no" /\ c[t] \notin Whs /\ t \in Nat BY <1>8, CellsApart, BrIsNat DEF First
    <2>2. \A a \in S : c[a] # "no" => t <= a BY <1>8, <2>1, BrIsNat DEF First
    <2>3. \A a \in W : t < a
      <3>1. \A a \in W : a \in S /\ c[a] # "no" /\ a # t /\ a \in Nat BY <2>1, <1>2, CellsApart, BrIsNat
      <3> QED BY <3>1, <2>1, <2>2
    <2>4. t \in seen BY <2>1, <2>3, <1>4, <1>6
    <2>5. top = t
      <3>1. top \in seen /\ top <= t BY <2>4, <1>12
      <3>2. t <= top /\ top \in Nat BY <3>1, <2>2, <1>6, BrIsNat
      <3> QED BY <3>1, <3>2, <2>1
    <2>6. pos = {t} BY <2>4, <2>5, <1>15
    <2>7. {t} \in SUBSET Br BY <2>1
    <2>8. LowestOr(pos, Min(S)) \in {t} BY <2>6, <2>7, Lowest
    <2> QED BY <2>6, <2>8, <1>16
  <1>9. ASSUME W # {} => \E b \in S : c[b] \in Whs /\ First(S, c, b), \A b \in S : c[b] # "no" => W # {}
        PROVE  Dinfo(S, c).pos = {} /\ Dinfo(S, c).start = Min(S) /\ Dinfo(S, c).wh = bwh
    <2>1. seen = {}
      <3> SUFFICES ASSUME NEW b \in seen PROVE FALSE OBVIOUS
      <3>1. b \in S /\ c[b] # "no" /\ W # {} BY <1>6, <1>9
      <3>2. PICK t \in S : c[t] \in Whs /\ First(S, c, t) BY <3>1, <1>9
      <3>3. bwh \in W /\ bwh <= t /\ bwh \in Nat /\ t \in Nat /\ b \in Nat BY <3>1, <3>2, <1>2, <1>4, BrIsNat
      <3>5. b < bwh BY <3>3, <1>2, <1>6, BrIsNat
      <3>4. b < t BY <3>3, <3>5
      <3> QED BY <3>1, <3>2, <3>4 DEF First
    <2>2. pos = {} BY <2>1, <1>15
    <2>3. LowestOr(pos, Min(S)) = Min(S) BY <2>2 DEF LowestOr
    <2> QED BY <2>2, <2>3, <1>16
  <1>10. ASSUME NEW t, First(S, c, t), c[t] \in Whs
         PROVE  Dinfo(S, c).pos = {} /\ Dinfo(S, c).start = Min(S) /\ Dinfo(S, c).wh = t
    <2>1. t \in W /\ t \in Nat BY <1>2, <1>10, BrIsNat DEF First
    <2>2. \A a \in S : c[a] # "no" => t <= a BY <1>10, <2>1, BrIsNat DEF First
    <2>3. bwh \in W /\ bwh <= t BY <2>1, <1>4
    <2>4. t <= bwh /\ bwh \in Nat BY <2>2, <2>3, <1>2, CellsApart, BrIsNat
    <2>5. bwh = t BY <2>1, <2>3, <2>4
    <2>6. c[t] \in Whs /\ t \in S BY <1>10 DEF First
    <2> QED BY <2>1, <2>5, <2>6, <1>9, <1>10
  <1>11. ASSUME \A b \in S : c[b] = "no"
         PROVE  Dinfo(S, c).pos = {} /\ Dinfo(S, c).start = Min(S) /\ Dinfo(S, c).wh = None
    <2>1. W = {} BY <1>2, <1>11, CellsApart
    <2> QED BY <2>1, <1>4, <1>9, <1>11
  <1> QED BY <1>8, <1>10, <1>11

(* One of these is the case.                                               *)
LEMMA FirstOrNone ==
  ASSUME NEW S \in SUBSET Br, NEW c
  PROVE  (\A b \in S : c[b] = "no") \/ (\E t \in S : First(S, c, t))
  <1> DEFINE T == {b \in S : c[b] # "no"}
  <1> SUFFICES ASSUME T # {} PROVE \E t \in S : First(S, c, t) OBVIOUS
  <1>1. Min(T) \in T /\ \A a \in T : Min(T) <= a BY Lowest
  <1>2. PICK t \in T : \A a \in T : t <= a BY <1>1
  <1>3. First(S, c, t) BY <1>2, BrIsNat DEF First
  <1> QED BY <1>2, <1>3

-----------------------------------------------------------------------------
(* The entries of the branches.                                            *)

Entry == [g : DirCells, d : DirCells, f : FileCells]

(* A tree on every branch: there is nothing below what is not there.       *)
Legal(e) ==
  /\ e \in [Br -> Entry]
  /\ \A b \in Br : e[b].f # "no" => e[b].d \in Dirs \cup {"whdir"}
  /\ \A b \in Br : e[b].d # "no" => e[b].g \in Dirs \cup {"whdir"}

(* The branches that g and d are merged from, and what is read as f.       *)
GM(e) == Mrg(Br, Col(e, "g"))
DM(e) == Mrg(GM(e), Col(e, "d"))
Sight(e) == IF Look(e).f.pos = {} THEN "no" ELSE e[Look(e).f.start].f

(* The columns hold what they should.                                      *)
LEMMA Columns ==
  ASSUME NEW e, e \in [Br -> Entry]
  PROVE  \A b \in Br : /\ Col(e, "g")[b] = e[b].g /\ e[b].g \in DirCells
                       /\ Col(e, "d")[b] = e[b].d /\ e[b].d \in DirCells
                       /\ Col(e, "f")[b] = e[b].f /\ e[b].f \in FileCells
  <1> SUFFICES ASSUME NEW b \in Br
               PROVE  /\ Col(e, "g")[b] = e[b].g /\ e[b].g \in DirCells
                      /\ Col(e, "d")[b] = e[b].d /\ e[b].d \in DirCells
                      /\ Col(e, "f")[b] = e[b].f /\ e[b].f \in FileCells
    OBVIOUS
  <1>1. e[b] \in Entry OBVIOUS
  <1>2. e[b].g \in DirCells /\ e[b].d \in DirCells /\ e[b].f \in FileCells BY <1>1 DEF Entry
  <1> QED BY <1>2 DEF Col

(* The branches merged are branches that were looked at.                   *)
LEMMA MrgSubset ==
  ASSUME NEW S, NEW c
  PROVE  Mrg(S, c) \in SUBSET DirPos(S, c) /\ DirPos(S, c) \in SUBSET S /\ Opaque(S, c) \in SUBSET DirPos(S, c)
  BY DEF Mrg, DirPos, Opaque

(* So those of g and of d are branches, d's among g's.                     *)
LEMMA MergedBranches ==
  ASSUME NEW e
  PROVE  GM(e) \in SUBSET Br /\ DM(e) \in SUBSET GM(e) /\ DM(e) \in SUBSET Br
  BY MrgSubset DEF GM, DM

(* What is looked up, one below the other.                                 *)
LEMMA LookIs ==
  ASSUME NEW e, e \in [Br -> Entry]
  PROVE  /\ Look(e).g = Dinfo(Br, Col(e, "g"))
         /\ Look(e).d = Dinfo(GM(e), Col(e, "d"))
         /\ Look(e).f = Dinfo(DM(e), Col(e, "f"))
         /\ Merged(Look(e).g) = GM(e) /\ Merged(Look(e).d) = DM(e)
         /\ Look(e).g.pos = DirPos(Br, Col(e, "g"))
         /\ Look(e).d.pos = DirPos(GM(e), Col(e, "d"))
         /\ HasParent(e) <=> Look(e).g.pos # {} /\ Look(e).d.pos # {}
  <1>1. PICK g : g = Dinfo(Br, Col(e, "g")) OBVIOUS
  <1>2. \A b \in Br : Col(e, "g")[b] \in DirCells /\ Col(e, "d")[b] \in DirCells BY Columns
  <1>3. Merged(g) = GM(e) /\ g.pos = DirPos(Br, Col(e, "g")) BY <1>1, <1>2, MergedIs, DirInfo DEF GM
  <1>4. PICK d : d = Dinfo(Merged(g), Col(e, "d")) OBVIOUS
  <1>5. GM(e) \in SUBSET Br BY MergedBranches
  <1>6. Merged(d) = DM(e) /\ d.pos = DirPos(GM(e), Col(e, "d"))
    <2>1. \A b \in GM(e) : Col(e, "d")[b] \in DirCells BY <1>2, <1>5
    <2> QED BY <1>3, <1>4, <1>5, <2>1, MergedIs, DirInfo DEF DM
  <1>7. Look(e) = [g |-> g, d |-> d, f |-> Dinfo(Merged(d), Col(e, "f"))]
    BY <1>1, <1>4, Zenon DEF Look
  <1>8. HasParent(e) <=> g.pos # {} /\ d.pos # {} BY <1>1, <1>4, Zenon DEF HasParent
  <1>9. Look(e).g = g /\ Look(e).d = d /\ Look(e).f = Dinfo(Merged(d), Col(e, "f")) BY <1>7
  <1> QED BY <1>1, <1>3, <1>4, <1>6, <1>8, <1>9

(* What is read.                                                           *)
LEMMA SightIs ==
  ASSUME NEW e, e \in [Br -> Entry]
  PROVE  /\ \A t : First(DM(e), Col(e, "f"), t) /\ e[t].f \in Data => Sight(e) = e[t].f
         /\ Sight(e) # "no" => \E t \in DM(e) : /\ First(DM(e), Col(e, "f"), t)
                                                /\ e[t].f \in Data /\ Look(e).f.start = t
         /\ Sight(e) = "no" => \A t : First(DM(e), Col(e, "f"), t) => e[t].f \in Whs
  <1>1. PICK S : S = DM(e) OBVIOUS
  <1>2. PICK c : c = Col(e, "f") OBVIOUS
  <1>3. S \in SUBSET Br BY <1>1, MergedBranches
  <1>4. \A b \in Br : c[b] = e[b].f /\ c[b] \in FileCells BY <1>2, Columns
  <1>5. PICK i : i = Dinfo(S, c) /\ i = Look(e).f BY <1>1, <1>2, LookIs
  <1>6. /\ \A t : First(S, c, t) /\ c[t] \in Data => i.pos = {t} /\ i.start = t
        /\ \A t : First(S, c, t) /\ c[t] \in Whs => i.pos = {}
        /\ (\A b \in S : c[b] = "no") => i.pos = {}
    <2>1. \A b \in S : c[b] \in FileCells BY <1>3, <1>4
    <2> QED BY <1>3, <1>5, <2>1, FileInfo
  <1>7. Sight(e) = IF i.pos = {} THEN "no" ELSE e[i.start].f BY <1>5 DEF Sight
  <1>8. ASSUME NEW t, First(S, c, t)
        PROVE  t \in S /\ t \in Br /\ c[t] = e[t].f /\ (c[t] \in Data \/ c[t] \in Whs) /\ (c[t] \in Data => c[t] # "no" /\ c[t] \notin Whs)
    <2>1. t \in S /\ c[t] # "no" BY <1>8 DEF First
    <2>2. c[t] \in FileCells /\ c[t] = e[t].f BY <2>1, <1>3, <1>4
    <2>3. c[t] \in Data \/ c[t] \in Whs BY <2>1, <2>2 DEF FileCells, Whs
    <2> QED BY <2>1, <2>2, <2>3, <1>3, CellsApart
  <1>9. ASSUME NEW t, First(S, c, t), e[t].f \in Data PROVE Sight(e) = e[t].f
    <2>1. i.pos = {t} /\ i.start = t BY <1>6, <1>8, <1>9
    <2> QED BY <2>1, <1>7
  <1>10. ASSUME Sight(e) # "no" PROVE \E t \in S : First(S, c, t) /\ e[t].f \in Data /\ i.start = t
    <2>1. i.pos # {} BY <1>7, <1>10
    <2>2. PICK t \in S : First(S, c, t) BY <2>1, <1>3, <1>6, FirstOrNone
    <2>3. c[t] \in Data /\ c[t] = e[t].f BY <2>1, <2>2, <1>6, <1>8
    <2> QED BY <2>2, <2>3, <1>6
  <1>11. ASSUME Sight(e) = "no", NEW t, First(S, c, t) PROVE e[t].f \in Whs
    <2>1. e[t].f \notin Data BY <1>8, <1>9, <1>11
    <2> QED BY <2>1, <1>8, <1>11
  <1> QED BY <1>1, <1>2, <1>5, <1>9, <1>10, <1>11

-----------------------------------------------------------------------------
(* Directories that are made.                                              *)

(* A cell of a directory that is made.                                     *)
Made(x, y) == y = x \/ (x = "no" /\ y = "dir") \/ (x = "wh" /\ y = "whdir")
Built(x, y) == Made(x, y) \/ (x = "wh" /\ y = "opq")

(* A directory is made on branch t, on which its parent may have been made *)
(* before.                                                                 *)
MadeOn(S, S2, c, c2, t) ==
  /\ S \subseteq S2 /\ S2 \subseteq S \cup {t}
  /\ \A b \in S : b # t => c2[b] = c[b]
  /\ t \in S => Made(c[t], c2[t])
  /\ t \in S2 /\ t \notin S => c2[t] \in {"no", "dir"}

(* Nothing on the branches of S hides a directory on branch t.             *)
Open(S, c, t) ==
  /\ \A a \in S : c[a] \in Whs => t < a
  /\ Opaque(S, c) # {} => \E a \in Opaque(S, c) : t <= a

(* No other branch starts or stops to be merged.                           *)
LEMMA MadeMerged ==
  ASSUME NEW S \in SUBSET Br, NEW S2 \in SUBSET Br, NEW c, NEW c2, NEW t \in Br, MadeOn(S, S2, c, c2, t)
  PROVE  /\ DirPos(S, c) \subseteq DirPos(S2, c2)
         /\ Mrg(S, c) \subseteq Mrg(S2, c2) /\ Mrg(S2, c2) \subseteq Mrg(S, c) \cup {t}
         /\ t \in Mrg(S2, c2) /\ t \notin Mrg(S, c) => c2[t] = "dir" /\ (t \in S => c[t] = "no")
  <1> USE DEF MadeOn
  <1>1. \A a \in S2 : c2[a] \in Whs <=> a \in S /\ c[a] \in Whs
    BY DEF Made, Whs
  <1>2. \A a \in S : /\ c[a] \in Dirs => c2[a] = c[a]
                     /\ c2[a] \in Dirs => c2[a] = c[a] \/ (a = t /\ c[a] = "no" /\ c2[a] = "dir")
    BY DEF Made, Dirs
  <1>3. \A a \in DirPos(S, c) : a \in DirPos(S2, c2) /\ c2[a] = c[a] BY <1>1, <1>2 DEF DirPos
  <1>4. \A a \in DirPos(S2, c2) : a \in DirPos(S, c) \/ (a = t /\ c2[a] = "dir" /\ (t \in S => c[t] = "no"))
    <2> SUFFICES ASSUME NEW a \in DirPos(S2, c2), ~(a = t /\ c2[a] = "dir" /\ (t \in S => c[t] = "no"))
                 PROVE  a \in DirPos(S, c)
      OBVIOUS
    <2>1. a \in S2 /\ c2[a] \in Dirs /\ \A b \in S2 : c2[b] \in Whs => a < b BY DEF DirPos
    <2>2. \A b \in S : c[b] \in Whs => a < b BY <2>1, <1>1
    <2>3. a \in S
      <3> SUFFICES ASSUME a \notin S PROVE FALSE OBVIOUS
      <3>1. a = t /\ c2[t] \in {"no", "dir"} BY <2>1
      <3> QED BY <3>1, <2>1 DEF Dirs
    <2>4. c2[a] = c[a] BY <2>1, <2>3, <1>2
    <2> QED BY <2>1, <2>2, <2>3, <2>4 DEF DirPos
  <1>5. Opaque(S2, c2) = Opaque(S, c) BY <1>3, <1>4 DEF Opaque
  <1>6. \A b : b \in Mrg(S, c) <=>
                 b \in DirPos(S, c) /\ (Opaque(S, c) # {} => \E a \in Opaque(S, c) : b <= a)
    BY DEF Mrg
  <1>7. \A b : b \in Mrg(S2, c2) <=>
                 b \in DirPos(S2, c2) /\ (Opaque(S, c) # {} => \E a \in Opaque(S, c) : b <= a)
    BY <1>5 DEF Mrg
  <1> QED BY <1>3, <1>4, <1>6, <1>7

(* Branch t is merged if nothing hides it.                                 *)
LEMMA MadeReached ==
  ASSUME NEW S \in SUBSET Br, NEW S2 \in SUBSET Br, NEW c, NEW c2, NEW t \in Br, MadeOn(S, S2, c, c2, t),
         Open(S, c, t), t \in S2, c2[t] \in Dirs
  PROVE  t \in Mrg(S2, c2)
  <1> USE DEF MadeOn, Open
  <1>1. \A a \in S2 : c2[a] \in Whs => a \in S /\ c[a] \in Whs
    BY DEF Made, Whs
  <1>2. t \in DirPos(S2, c2) BY <1>1 DEF DirPos
  <1>3. DirPos(S, c) \subseteq DirPos(S2, c2) BY MadeMerged
  <1>4. ASSUME NEW o \in Opaque(S2, c2) PROVE t <= o \/ o \in Opaque(S, c)
    <2>1. o \in S2 /\ c2[o] = "opq" /\ \A a \in S2 : c2[a] \in Whs => o < a BY DEF Opaque, DirPos
    <2>2. CASE o = t BY <2>2, BrIsNat
    <2>3. CASE o # t
      <3>1. o \in S /\ c[o] = "opq" BY <2>1, <2>3
      <3>2. \A a \in S : c[a] \in Whs => a = t \/ o < a BY <2>1
      <3>3. CASE t \in S /\ c[t] \in Whs BY <3>3, BrIsNat
      <3>4. CASE ~(t \in S /\ c[t] \in Whs) BY <3>1, <3>2, <3>4 DEF Opaque, DirPos, Dirs
      <3> QED BY <3>3, <3>4
    <2> QED BY <2>2, <2>3
  <1>5. \A o \in Opaque(S, c) : o \in Opaque(S2, c2) BY <1>3, BrIsNat DEF Opaque, DirPos, Made
  <1>6. Opaque(S2, c2) # {} => \E a \in Opaque(S2, c2) : t <= a BY <1>4, <1>5
  <1> QED BY <1>2, <1>6 DEF Mrg

(* The same over a whiteout, which may uncover more.                       *)
BuiltOn(S, S2, c, c2, t) ==
  /\ S \subseteq S2
  /\ \A b \in S : b # t => c2[b] = c[b]
  /\ t \in S => Built(c[t], c2[t])
  /\ \A b \in S2 \ S : (b = t /\ c2[b] \in {"no", "dir"}) \/ \A a \in DirPos(S, c) : a < b

(* What was merged before stays.                                           *)
LEMMA BuiltMerged ==
  ASSUME NEW S \in SUBSET Br, NEW S2 \in SUBSET Br, NEW c, NEW c2, NEW t \in Br, BuiltOn(S, S2, c, c2, t)
  PROVE  /\ DirPos(S, c) \subseteq DirPos(S2, c2)
         /\ Mrg(S, c) \subseteq Mrg(S2, c2)
  <1> USE DEF BuiltOn
  <1>1. \A a \in S : /\ c2[a] \in Whs => c[a] \in Whs
                     /\ c[a] \in Dirs => c2[a] = c[a]
                     /\ c2[a] = "opq" => c[a] = "opq" \/ (a = t /\ c[a] = "wh")
    BY DEF Built, Made, Whs, Dirs
  <1>2. ASSUME NEW a \in DirPos(S, c) PROVE a \in DirPos(S2, c2) /\ c2[a] = c[a]
    <2>1. a \in S /\ c[a] \in Dirs /\ \A b \in S : c[b] \in Whs => a < b BY <1>2 DEF DirPos
    <2>2. ASSUME NEW b \in S2, c2[b] \in Whs PROVE a < b
      <3>1. CASE b \in S BY <3>1, <2>1, <2>2, <1>1
      <3>2. CASE b \notin S
        <4>1. c2[b] \notin {"no", "dir"} BY <2>2 DEF Whs
        <4> QED BY <4>1, <3>2, <1>2
      <3> QED BY <3>1, <3>2
    <2> QED BY <2>1, <2>2, <1>1 DEF DirPos
  <1>3. ASSUME NEW b \in Mrg(S, c) PROVE b \in Mrg(S2, c2)
    <2>1. b \in DirPos(S, c) /\ (Opaque(S, c) # {} => \E a \in Opaque(S, c) : b <= a) BY <1>3 DEF Mrg
    <2>2. CASE Opaque(S, c) # {}
      <3>1. PICK a \in Opaque(S, c) : b <= a BY <2>1, <2>2
      <3>2. a \in Opaque(S2, c2) BY <1>2 DEF Opaque
      <3> QED BY <2>1, <3>1, <3>2, <1>2 DEF Mrg
    <2>3. CASE Opaque(S, c) = {}
      <3>1. ASSUME NEW a \in Opaque(S2, c2) PROVE b < a
        <4>1. a \in S2 /\ c2[a] = "opq" BY <3>1 DEF Opaque, DirPos
        <4>2. CASE a \in S
          <5>1. CASE c[a] = "opq"
            <6>1. a \notin DirPos(S, c) BY <5>1, <2>3 DEF Opaque
            <6>2. PICK x \in S : c[x] \in Whs /\ ~(a < x) BY <6>1, <4>2, <5>1 DEF DirPos, Dirs
            <6>3. b < x BY <2>1, <6>2 DEF DirPos
            <6>4. b \in Nat /\ x \in Nat /\ a \in Nat BY <2>1, <4>2, BrIsNat DEF DirPos
            <6> QED BY <6>2, <6>3, <6>4
          <5>2. CASE c[a] = "wh" BY <5>2, <4>2, <2>1 DEF DirPos, Whs
          <5> QED BY <4>1, <4>2, <5>1, <5>2, <1>1
        <4>3. CASE a \notin S BY <4>1, <4>3, <2>1
        <4> QED BY <4>2, <4>3
      <3>2. Opaque(S2, c2) # {} => \E a \in Opaque(S2, c2) : b <= a
        <4>1. \A a \in Opaque(S2, c2) : a \in Nat BY BrIsNat DEF Opaque, DirPos
        <4>2. b \in Nat BY <2>1, BrIsNat DEF DirPos
        <4> QED BY <3>1, <4>1, <4>2
      <3> QED BY <2>1, <3>2, <1>2 DEF Mrg
    <2> QED BY <2>2, <2>3
  <1> QED BY <1>2, <1>3

(* Directories are made on branch t, and nothing else is changed: over     *)
(* whiteouts or, with Plain, without any mark that hides what is lower.    *)
Elsewhere(e, e2, t) == \A b \in Br : b # t => e2[b] = e[b]
Raised(e, e2, t) ==
  /\ Legal(e2) /\ Elsewhere(e, e2, t) /\ e2[t].f = e[t].f
  /\ Built(e[t].g, e2[t].g) /\ Built(e[t].d, e2[t].d)
Plain(e, e2, t) ==
  /\ Raised(e, e2, t)
  /\ Made(e[t].g, e2[t].g) /\ Made(e[t].d, e2[t].d)

(* Columns of the other branches stay.                                     *)
LEMMA ElsewhereColumns ==
  ASSUME NEW e, NEW e2, NEW t, Elsewhere(e, e2, t)
  PROVE  \A b \in Br : b # t => /\ Col(e2, "g")[b] = Col(e, "g")[b]
                                /\ Col(e2, "d")[b] = Col(e, "d")[b]
                                /\ Col(e2, "f")[b] = Col(e, "f")[b]
  BY DEF Elsewhere, Col

(* What was merged stays merged, and the parents stay.                     *)
LEMMA RaisedKeeps ==
  ASSUME NEW e, NEW e2, NEW t \in Br, Legal(e), Raised(e, e2, t)
  PROVE  /\ GM(e) \subseteq GM(e2) /\ DM(e) \subseteq DM(e2)
         /\ HasParent(e) => HasParent(e2)
  <1>1. e \in [Br -> Entry] /\ e2 \in [Br -> Entry] BY DEF Legal, Raised
  <1>2. PICK g, g2, d, d2 : g = Col(e, "g") /\ g2 = Col(e2, "g") /\ d = Col(e, "d") /\ d2 = Col(e2, "d")
    OBVIOUS
  <1>3. \A b \in Br : b # t => g2[b] = g[b] /\ d2[b] = d[b] BY <1>2, ElsewhereColumns DEF Raised
  <1>4. g[t] = e[t].g /\ g2[t] = e2[t].g /\ d[t] = e[t].d /\ d2[t] = e2[t].d BY <1>1, <1>2, Columns
  <1>5. Built(g[t], g2[t]) /\ Built(d[t], d2[t]) BY <1>4 DEF Raised
  <1>6. d[t] # "no" => g[t] \in Dirs \cup {"whdir"} BY <1>4 DEF Legal
  <1>7. DirPos(Br, g) \subseteq DirPos(Br, g2) /\ Mrg(Br, g) \subseteq Mrg(Br, g2)
    <2>1. BuiltOn(Br, Br, g, g2, t) BY <1>3, <1>5 DEF BuiltOn
    <2> QED BY <2>1, BuiltMerged
  <1>8. GM(e) = Mrg(Br, g) /\ GM(e2) = Mrg(Br, g2) BY <1>2 DEF GM
  <1>9. PICK S, S2 : S = GM(e) /\ S2 = GM(e2) OBVIOUS
  <1>10. S \in SUBSET Br /\ S2 \in SUBSET Br /\ S \subseteq S2 BY <1>7, <1>8, <1>9, MergedBranches
  <1>11. ASSUME NEW b \in S2, b \notin S
         PROVE  (b = t /\ d2[b] \in {"no", "dir"}) \/ \A a \in DirPos(S, d) : a < b
    <2>1. b \in DirPos(Br, g2) BY <1>8, <1>9, MrgSubset
    <2>2. b \in Br /\ g2[b] \in Dirs /\ \A a \in Br : g2[a] \in Whs => b < a BY <2>1 DEF DirPos
    <2>3. DirPos(S, d) \subseteq S /\ \A x \in Br : x \in Nat BY MrgSubset, BrIsNat
    <2>4. CASE b \in DirPos(Br, g)
      <3>1. Opaque(Br, g) # {} /\ \A a \in Opaque(Br, g) : ~(b <= a) BY <2>4, <1>8, <1>9, <1>11 DEF Mrg
      <3>2. ASSUME NEW x \in S PROVE x < b
        <4>1. PICK a \in Opaque(Br, g) : x <= a BY <3>1, <1>8, <1>9 DEF Mrg
        <4>2. ~(b <= a) /\ a \in Nat /\ x \in Nat /\ b \in Nat
          BY <3>1, <2>2, <2>3, <1>10, MrgSubset
        <4> QED BY <4>1, <4>2
      <3> QED BY <3>2, <2>3
    <2>5. CASE b \notin DirPos(Br, g)
      <3>1. CASE b = t /\ g[t] = "no"
        <4>1. d[t] = "no" BY <3>1, <1>6 DEF Dirs
        <4>2. d2[t] \in {"no", "dir"} BY <4>1, <1>5 DEF Built, Made
        <4> QED BY <3>1, <4>2
      <3>2. CASE ~(b = t /\ g[t] = "no")
        <4>1. PICK a \in Br : g[a] \in Whs /\ ~(b < a)
          <5>1. CASE g[b] \in Dirs BY <5>1, <2>2, <2>5 DEF DirPos
          <5>2. CASE g[b] \notin Dirs
            <6>1. b = t BY <5>2, <2>2, <1>3
            <6>2. g[b] \in Whs BY <6>1, <5>2, <3>2, <2>2, <1>5 DEF Built, Made, Whs, Dirs
            <6>3. ~(b < b) BY <2>2, <2>3
            <6> QED BY <6>2, <6>3, <2>2
          <5> QED BY <5>1, <5>2
        <4>2. ASSUME NEW x \in S PROVE x < b
          <5>1. x < a BY <4>1, <1>8, <1>9 DEF Mrg, DirPos
          <5>2. x \in Nat /\ a \in Nat /\ b \in Nat BY <4>1, <2>2, <2>3, <1>10
          <5> QED BY <4>1, <5>1, <5>2
        <4> QED BY <4>2, <2>3
      <3> QED BY <3>1, <3>2
    <2> QED BY <2>4, <2>5
  <1>12. DirPos(S, d) \subseteq DirPos(S2, d2) /\ Mrg(S, d) \subseteq Mrg(S2, d2)
    <2>1. \A b \in S : b # t => d2[b] = d[b] BY <1>3, <1>10
    <2>2. \A b \in S2 \ S : (b = t /\ d2[b] \in {"no", "dir"}) \/ \A a \in DirPos(S, d) : a < b BY <1>11
    <2>3. BuiltOn(S, S2, d, d2, t) BY <2>1, <2>2, <1>5, <1>10 DEF BuiltOn
    <2> QED BY <2>3, <1>10, BuiltMerged
  <1>13. DM(e) = Mrg(S, d) /\ DM(e2) = Mrg(S2, d2) BY <1>2, <1>9 DEF DM
  <1>14. /\ HasParent(e) <=> DirPos(Br, g) # {} /\ DirPos(S, d) # {}
         /\ HasParent(e2) <=> DirPos(Br, g2) # {} /\ DirPos(S2, d2) # {}
    BY <1>1, <1>2, <1>9, LookIs
  <1>15. HasParent(e) => HasParent(e2)
    <2>1. DirPos(Br, g) # {} => DirPos(Br, g2) # {} BY <1>7
    <2>2. DirPos(S, d) # {} => DirPos(S2, d2) # {} BY <1>12
    <2> QED BY <2>1, <2>2, <1>14
  <1> QED BY <1>7, <1>8, <1>12, <1>13, <1>15

(* Without such marks only branch t is merged in addition, and it has      *)
(* nothing under the name then.                                            *)
LEMMA PlainKeeps ==
  ASSUME NEW e, NEW e2, NEW t \in Br, Legal(e), Plain(e, e2, t)
  PROVE  /\ GM(e2) \subseteq GM(e) \cup {t} /\ DM(e2) \subseteq DM(e) \cup {t}
         /\ t \in DM(e2) /\ t \notin DM(e) => e[t].f = "no"
  <1>1. e \in [Br -> Entry] /\ e2 \in [Br -> Entry] BY DEF Legal, Raised, Plain
  <1>2. PICK g, g2, d, d2 : g = Col(e, "g") /\ g2 = Col(e2, "g") /\ d = Col(e, "d") /\ d2 = Col(e2, "d")
    OBVIOUS
  <1>3. \A b \in Br : b # t => g2[b] = g[b] /\ d2[b] = d[b] BY <1>2, ElsewhereColumns DEF Raised, Plain
  <1>4. g[t] = e[t].g /\ g2[t] = e2[t].g /\ d[t] = e[t].d /\ d2[t] = e2[t].d BY <1>1, <1>2, Columns
  <1>5. Made(g[t], g2[t]) /\ Made(d[t], d2[t]) BY <1>4 DEF Plain
  <1>6. d[t] # "no" => g[t] # "no" BY <1>4 DEF Legal, Dirs
  <1>7. PICK S, S2 : S = GM(e) /\ S2 = GM(e2) /\ S = Mrg(Br, g) /\ S2 = Mrg(Br, g2) BY <1>2 DEF GM
  <1>8. S \in SUBSET Br /\ S2 \in SUBSET Br BY <1>7, MergedBranches
  <1>9. S \subseteq S2 /\ S2 \subseteq S \cup {t} /\ (t \in S2 /\ t \notin S => g2[t] = "dir" /\ g[t] = "no")
    <2>1. MadeOn(Br, Br, g, g2, t) BY <1>3, <1>5 DEF MadeOn
    <2> QED BY <2>1, <1>7, MadeMerged
  <1>10. t \in S2 /\ t \notin S => d[t] = "no" /\ d2[t] \in {"no", "dir"} BY <1>5, <1>6, <1>9 DEF Made
  <1>11. PICK T, T2 : T = DM(e) /\ T2 = DM(e2) /\ T = Mrg(S, d) /\ T2 = Mrg(S2, d2) BY <1>2, <1>7 DEF DM
  <1>12. T2 \subseteq T \cup {t} /\ (t \in T2 /\ t \notin T => d2[t] = "dir" /\ (t \in S => d[t] = "no"))
    <2>1. \A b \in S : b # t => d2[b] = d[b] BY <1>3, <1>8
    <2>2. MadeOn(S, S2, d, d2, t) BY <2>1, <1>5, <1>9, <1>10 DEF MadeOn
    <2> QED BY <2>2, <1>8, <1>11, MadeMerged
  <1>13. t \in T2 /\ t \notin T => d[t] = "no"
    <2>1. T2 \subseteq S2 BY <1>11, MrgSubset
    <2> QED BY <2>1, <1>10, <1>12
  <1>14. d[t] = "no" => e[t].f = "no" BY <1>4 DEF Legal, Dirs
  <1> QED BY <1>7, <1>9, <1>11, <1>12, <1>13, <1>14

(* Nothing hides the directories of branch t: no whiteout of g or d, and   *)
(* no opaque one, on a branch before it.                                   *)
Reaches(e, t) == Open(Br, Col(e, "g"), t) /\ Open(GM(e), Col(e, "d"), t)

(* Then they are merged once they are there.                               *)
LEMMA Reached ==
  ASSUME NEW e, NEW e2, NEW t \in Br, Legal(e), Plain(e, e2, t), Reaches(e, t),
         e2[t].g \in Dirs \cup {"whdir"}, e2[t].d \in Dirs \cup {"whdir"}
  PROVE  t \in DM(e2)
  <1>1. e \in [Br -> Entry] /\ e2 \in [Br -> Entry] BY DEF Legal, Raised, Plain
  <1>2. PICK g, g2, d, d2 : g = Col(e, "g") /\ g2 = Col(e2, "g") /\ d = Col(e, "d") /\ d2 = Col(e2, "d")
    OBVIOUS
  <1>3. \A b \in Br : b # t => g2[b] = g[b] /\ d2[b] = d[b] BY <1>2, ElsewhereColumns DEF Raised, Plain
  <1>4. \A b \in Br : g[b] = e[b].g /\ g2[b] = e2[b].g /\ d[b] = e[b].d /\ d2[b] = e2[b].d /\ g[b] \in DirCells
    BY <1>1, <1>2, Columns
  <1>5. Made(g[t], g2[t]) /\ Made(d[t], d2[t]) BY <1>4 DEF Plain
  <1>6. d[t] # "no" => g[t] # "no" BY <1>4 DEF Legal, Dirs
  <1>7. PICK S, S2 : S = GM(e) /\ S2 = GM(e2) /\ S = Mrg(Br, g) /\ S2 = Mrg(Br, g2) BY <1>2 DEF GM
  <1>8. S \in SUBSET Br /\ S2 \in SUBSET Br BY <1>7, MergedBranches
  <1>9. Open(Br, g, t) /\ Open(S, d, t) BY <1>2, <1>7 DEF Reaches
  <1>10. ~(t < t) BY BrIsNat
  <1>11. g2[t] \in Dirs
    <2>1. g[t] \notin Whs BY <1>9, <1>10 DEF Open
    <2> QED BY <2>1, <1>4, <1>5 DEF Made, Whs, Dirs
  <1>12. S \subseteq S2 /\ S2 \subseteq S \cup {t} /\ t \in S2 /\ (t \notin S => g[t] = "no")
    <2>1. MadeOn(Br, Br, g, g2, t) BY <1>3, <1>5 DEF MadeOn
    <2>2. t \in Mrg(Br, g2) BY <2>1, <1>9, <1>11, MadeReached
    <2>3. t \in Mrg(Br, g2) /\ t \notin Mrg(Br, g) => g2[t] = "dir" /\ g[t] = "no"
      BY <2>1, MadeMerged
    <2>4. S \subseteq S2 /\ S2 \subseteq S \cup {t} BY <2>1, <1>7, MadeMerged
    <2> QED BY <2>2, <2>3, <2>4, <1>7
  <1>13. t \notin S => d[t] = "no" /\ d2[t] \in {"no", "dir"} BY <1>5, <1>6, <1>12 DEF Made
  <1>14. d2[t] \in Dirs
    <2>1. d[t] \notin Whs BY <1>9, <1>10, <1>13 DEF Open, Whs
    <2> QED BY <2>1, <1>4, <1>5 DEF Made, Whs, Dirs
  <1>15. t \in Mrg(S2, d2)
    <2>1. \A b \in S : b # t => d2[b] = d[b] BY <1>3, <1>8
    <2>2. MadeOn(S, S2, d, d2, t) BY <2>1, <1>5, <1>12, <1>13 DEF MadeOn
    <2> QED BY <2>2, <1>8, <1>9, <1>12, <1>14, MadeReached
  <1> QED BY <1>2, <1>7, <1>15 DEF DM

(* Nothing is made where they are already.                                 *)
LEMMA NothingMade ==
  ASSUME NEW e, NEW t, Legal(e)
  PROVE  Plain(e, e, t)
  BY DEF Plain, Raised, Elsewhere, Made, Built

(* One cell is changed.                                                    *)
LEMMA SetCellIs ==
  ASSUME NEW e, e \in [Br -> Entry], NEW t \in Br, NEW x, NEW n, NEW z \in Entry,
         [e[t] EXCEPT ![n] = x] = z
  PROVE  SetCell(e, t, n, x) \in [Br -> Entry] /\ Elsewhere(e, SetCell(e, t, n, x), t) /\ SetCell(e, t, n, x)[t] = z
  <1>1. SetCell(e, t, n, x) = [e EXCEPT ![t] = z] BY DEF SetCell
  <1> QED BY <1>1 DEF Elsewhere

(* It is that of g.                                                        *)
LEMMA SetG ==
  ASSUME NEW e, e \in [Br -> Entry], NEW t \in Br, NEW x \in DirCells
  PROVE  /\ SetCell(e, t, "g", x) \in [Br -> Entry] /\ Elsewhere(e, SetCell(e, t, "g", x), t)
         /\ SetCell(e, t, "g", x)[t] = [g |-> x, d |-> e[t].d, f |-> e[t].f]
  <1>1. e[t] \in Entry OBVIOUS
  <1>2. PICK z : z = [g |-> x, d |-> e[t].d, f |-> e[t].f] OBVIOUS
  <1>3. z \in Entry BY <1>1, <1>2 DEF Entry
  <1>4. [e[t] EXCEPT !.g = x] = z BY <1>1, <1>2, SMT DEF Entry
  <1>5. [e[t] EXCEPT !["g"] = x] = [e[t] EXCEPT !.g = x] BY Zenon
  <1>6. [e[t] EXCEPT !["g"] = x] = z BY <1>4, <1>5, Zenon
  <1> QED BY <1>2, <1>3, <1>6, SetCellIs

(* It is that of d.                                                        *)
LEMMA SetD ==
  ASSUME NEW e, e \in [Br -> Entry], NEW t \in Br, NEW x \in DirCells
  PROVE  /\ SetCell(e, t, "d", x) \in [Br -> Entry] /\ Elsewhere(e, SetCell(e, t, "d", x), t)
         /\ SetCell(e, t, "d", x)[t] = [g |-> e[t].g, d |-> x, f |-> e[t].f]
  <1>1. e[t] \in Entry OBVIOUS
  <1>2. PICK z : z = [g |-> e[t].g, d |-> x, f |-> e[t].f] OBVIOUS
  <1>3. z \in Entry BY <1>1, <1>2 DEF Entry
  <1>4. [e[t] EXCEPT !.d = x] = z BY <1>1, <1>2, SMT DEF Entry
  <1>5. [e[t] EXCEPT !["d"] = x] = [e[t] EXCEPT !.d = x] BY Zenon
  <1>6. [e[t] EXCEPT !["d"] = x] = z BY <1>4, <1>5, Zenon
  <1> QED BY <1>2, <1>3, <1>6, SetCellIs

(* It is that of f.                                                        *)
LEMMA SetF ==
  ASSUME NEW e, e \in [Br -> Entry], NEW t \in Br, NEW x \in FileCells
  PROVE  /\ SetCell(e, t, "f", x) \in [Br -> Entry] /\ Elsewhere(e, SetCell(e, t, "f", x), t)
         /\ SetCell(e, t, "f", x)[t] = [g |-> e[t].g, d |-> e[t].d, f |-> x]
  <1>1. e[t] \in Entry OBVIOUS
  <1>2. PICK z : z = [g |-> e[t].g, d |-> e[t].d, f |-> x] OBVIOUS
  <1>3. z \in Entry BY <1>1, <1>2 DEF Entry
  <1>4. [e[t] EXCEPT !.f = x] = z BY <1>1, <1>2, SMT DEF Entry
  <1>5. [e[t] EXCEPT !["f"] = x] = [e[t] EXCEPT !.f = x] BY Zenon
  <1>6. [e[t] EXCEPT !["f"] = x] = z BY <1>4, <1>5, Zenon
  <1> QED BY <1>2, <1>3, <1>6, SetCellIs

(* The upper directory is made.                                            *)
MkG(e, m, t, down) ==
  /\ m.e \in [Br -> Entry] /\ Elsewhere(e, m.e, t)
  /\ m.e[t].d = e[t].d /\ m.e[t].f = e[t].f
  /\ Built(e[t].g, m.e[t].g) /\ (~down \/ e[t].g \notin Whs => Made(e[t].g, m.e[t].g))
  /\ m.ok => m.e[t].g \in Dirs \cup {"whdir"}

(* What it is made of is one of these.                                     *)
LEMMA MkDirG ==
  ASSUME NEW e, e \in [Br -> Entry], NEW t \in Br, NEW i, t \in i.pos => e[t].g \in Dirs,
         NEW down \in BOOLEAN, NEW m \in MkDir(e, i, t, "g", down)
  PROVE  MkG(e, m, t, down)
  <1>1. PICK x : x = e[t]["g"] /\ x = e[t].g OBVIOUS
  <1>2. e[t] \in Entry /\ x \in DirCells BY <1>1 DEF Entry
  <1>3. ASSUME NEW y \in DirCells, m.e = SetCell(e, t, "g", y), Built(x, y), ~down \/ x \notin Whs => Made(x, y),
               m.ok => y \in Dirs \cup {"whdir"}
        PROVE  MkG(e, m, t, down)
    <2>0. /\ SetCell(e, t, "g", y) \in [Br -> Entry] /\ Elsewhere(e, SetCell(e, t, "g", y), t)
          /\ SetCell(e, t, "g", y)[t] = [g |-> y, d |-> e[t].d, f |-> e[t].f]
      BY SetG
    <2>1. m.e \in [Br -> Entry] /\ Elsewhere(e, m.e, t) BY <2>0, <1>3
    <2>2. m.e[t] = [g |-> y, d |-> e[t].d, f |-> e[t].f] BY <2>0, <1>3
    <2>3. m.e[t].g = y /\ m.e[t].d = e[t].d /\ m.e[t].f = e[t].f BY <2>2
    <2> QED BY <2>1, <2>3, <1>1, <1>3 DEF MkG
  <1>4. CASE m.e = e /\ (m.ok => t \in i.pos)
    BY <1>4 DEF Elsewhere, Built, Made, MkG
  <1>5. CASE ~(m.e = e /\ (m.ok => t \in i.pos))
    <2>1. t \notin i.pos
      <3>1. t \in i.pos => m = [e |-> e, ok |-> TRUE] BY DEF MkDir
      <3> QED BY <3>1, <1>5
    <2>2. x \in {"no", "wh"}
      <3>1. x \notin {"no", "wh"} => m = [e |-> e, ok |-> FALSE] BY <1>1, <2>1 DEF MkDir
      <3> QED BY <3>1, <1>5
    <2>3. PICK made : made = IF x = "no" THEN "dir" ELSE IF down /\ i.wh = t THEN "opq" ELSE "whdir" OBVIOUS
    <2>4. PICK left : left = IF x = "no" THEN "dir" ELSE "whdir" OBVIOUS
    <2>5. m \in {[e |-> SetCell(e, t, "g", made), ok |-> TRUE], [e |-> e, ok |-> FALSE],
                  [e |-> SetCell(e, t, "g", left), ok |-> FALSE]}
      BY <1>1, <2>1, <2>2, <2>3, <2>4, Zenon DEF MkDir
    <2>6. m = [e |-> SetCell(e, t, "g", made), ok |-> TRUE] \/ m = [e |-> SetCell(e, t, "g", left), ok |-> FALSE]
      BY <2>5, <1>5
    <2>7. /\ made \in DirCells /\ Built(x, made) /\ (~down \/ x \notin Whs => Made(x, made))
          /\ made \in Dirs \cup {"whdir"}
      BY <2>2, <2>3 DEF DirCells, Built, Made, Whs, Dirs
    <2>8. left \in DirCells /\ Built(x, left) /\ Made(x, left)
      BY <2>2, <2>4 DEF DirCells, Built, Made, Whs, Dirs
    <2>9. CASE m = [e |-> SetCell(e, t, "g", made), ok |-> TRUE]
      <3>1. m.e = SetCell(e, t, "g", made) BY <2>9
      <3> QED BY <3>1, <2>7, <1>3
    <2>10. CASE m = [e |-> SetCell(e, t, "g", left), ok |-> FALSE]
      <3>1. m.e = SetCell(e, t, "g", left) /\ ~m.ok BY <2>10
      <3> QED BY <3>1, <2>8, <1>3
    <2> QED BY <2>6, <2>9, <2>10
  <1> QED BY <1>4, <1>5

(* The lower directory is made.                                            *)
MkD(e, m, t, down) ==
  /\ m.e \in [Br -> Entry] /\ Elsewhere(e, m.e, t)
  /\ m.e[t].g = e[t].g /\ m.e[t].f = e[t].f
  /\ Built(e[t].d, m.e[t].d) /\ (~down \/ e[t].d \notin Whs => Made(e[t].d, m.e[t].d))
  /\ m.ok => m.e[t].d \in Dirs \cup {"whdir"}

(* Likewise.                                                               *)
LEMMA MkDirD ==
  ASSUME NEW e, e \in [Br -> Entry], NEW t \in Br, NEW i, t \in i.pos => e[t].d \in Dirs,
         NEW down \in BOOLEAN, NEW m \in MkDir(e, i, t, "d", down)
  PROVE  MkD(e, m, t, down)
  <1>1. PICK x : x = e[t]["d"] /\ x = e[t].d OBVIOUS
  <1>2. e[t] \in Entry /\ x \in DirCells BY <1>1 DEF Entry
  <1>3. ASSUME NEW y \in DirCells, m.e = SetCell(e, t, "d", y), Built(x, y), ~down \/ x \notin Whs => Made(x, y),
               m.ok => y \in Dirs \cup {"whdir"}
        PROVE  MkD(e, m, t, down)
    <2>0. /\ SetCell(e, t, "d", y) \in [Br -> Entry] /\ Elsewhere(e, SetCell(e, t, "d", y), t)
          /\ SetCell(e, t, "d", y)[t] = [g |-> e[t].g, d |-> y, f |-> e[t].f]
      BY SetD
    <2>1. m.e \in [Br -> Entry] /\ Elsewhere(e, m.e, t) BY <2>0, <1>3
    <2>2. m.e[t] = [g |-> e[t].g, d |-> y, f |-> e[t].f] BY <2>0, <1>3
    <2>3. m.e[t].d = y /\ m.e[t].g = e[t].g /\ m.e[t].f = e[t].f BY <2>2
    <2> QED BY <2>1, <2>3, <1>1, <1>3 DEF MkD
  <1>4. CASE m.e = e /\ (m.ok => t \in i.pos)
    BY <1>4 DEF Elsewhere, Built, Made, MkD
  <1>5. CASE ~(m.e = e /\ (m.ok => t \in i.pos))
    <2>1. t \notin i.pos
      <3>1. t \in i.pos => m = [e |-> e, ok |-> TRUE] BY DEF MkDir
      <3> QED BY <3>1, <1>5
    <2>2. x \in {"no", "wh"}
      <3>1. x \notin {"no", "wh"} => m = [e |-> e, ok |-> FALSE] BY <1>1, <2>1 DEF MkDir
      <3> QED BY <3>1, <1>5
    <2>3. PICK made : made = IF x = "no" THEN "dir" ELSE IF down /\ i.wh = t THEN "opq" ELSE "whdir" OBVIOUS
    <2>4. PICK left : left = IF x = "no" THEN "dir" ELSE "whdir" OBVIOUS
    <2>5. m \in {[e |-> SetCell(e, t, "d", made), ok |-> TRUE], [e |-> e, ok |-> FALSE],
                  [e |-> SetCell(e, t, "d", left), ok |-> FALSE]}
      BY <1>1, <2>1, <2>2, <2>3, <2>4, Zenon DEF MkDir
    <2>6. m = [e |-> SetCell(e, t, "d", made), ok |-> TRUE] \/ m = [e |-> SetCell(e, t, "d", left), ok |-> FALSE]
      BY <2>5, <1>5
    <2>7. /\ made \in DirCells /\ Built(x, made) /\ (~down \/ x \notin Whs => Made(x, made))
          /\ made \in Dirs \cup {"whdir"}
      BY <2>2, <2>3 DEF DirCells, Built, Made, Whs, Dirs
    <2>8. left \in DirCells /\ Built(x, left) /\ Made(x, left)
      BY <2>2, <2>4 DEF DirCells, Built, Made, Whs, Dirs
    <2>9. CASE m = [e |-> SetCell(e, t, "d", made), ok |-> TRUE]
      <3>1. m.e = SetCell(e, t, "d", made) BY <2>9
      <3> QED BY <3>1, <2>7, <1>3
    <2>10. CASE m = [e |-> SetCell(e, t, "d", left), ok |-> FALSE]
      <3>1. m.e = SetCell(e, t, "d", left) /\ ~m.ok BY <2>10
      <3> QED BY <3>1, <2>8, <1>3
    <2> QED BY <2>6, <2>9, <2>10
  <1> QED BY <1>4, <1>5

(* Both of them.                                                           *)
LEMMA CpDirsIs ==
  ASSUME Legal(ent), di = Look(ent), NEW t \in Br, NEW down \in BOOLEAN, NEW m \in CpDirs(t, down)
  PROVE  /\ Raised(ent, m.e, t)
         /\ ~down \/ (ent[t].g \notin Whs /\ ent[t].d \notin Whs) => Plain(ent, m.e, t)
         /\ m.ok => m.e[t].g \in Dirs \cup {"whdir"} /\ m.e[t].d \in Dirs \cup {"whdir"}
  <1>0. ent \in [Br -> Entry] BY DEF Legal
  <1>1. (t \in G.pos => ent[t].g \in Dirs) /\ (t \in D.pos => ent[t].d \in Dirs)
    BY <1>0, LookIs, Columns DEF G, D, DirPos
  <1>2. PICK m1 \in MkDir(ent, G, t, "g", down) : m \in (IF m1.ok THEN MkDir(m1.e, D, t, "d", down) ELSE {m1})
    BY Zenon DEF CpDirs
  <1>3. /\ m1.e \in [Br -> Entry] /\ Elsewhere(ent, m1.e, t)
        /\ m1.e[t].d = ent[t].d /\ m1.e[t].f = ent[t].f
        /\ Built(ent[t].g, m1.e[t].g) /\ (~down \/ ent[t].g \notin Whs => Made(ent[t].g, m1.e[t].g))
        /\ m1.ok => m1.e[t].g \in Dirs \cup {"whdir"}
    <2>1. MkG(ent, m1, t, down) BY <1>0, <1>1, MkDirG, Zenon
    <2> QED BY <2>1 DEF MkG
  <1>4. /\ m.e \in [Br -> Entry] /\ Elsewhere(m1.e, m.e, t)
        /\ m.e[t].g = m1.e[t].g /\ m.e[t].f = m1.e[t].f
        /\ Built(m1.e[t].d, m.e[t].d) /\ (~down \/ m1.e[t].d \notin Whs => Made(m1.e[t].d, m.e[t].d))
        /\ m.ok => m1.ok /\ m.e[t].d \in Dirs \cup {"whdir"}
        /\ ~m1.ok => m.e[t].d = m1.e[t].d
    <2>1. CASE m1.ok
      <3>1. m \in MkDir(m1.e, D, t, "d", down) BY <2>1, <1>2
      <3>2. t \in D.pos => m1.e[t].d \in Dirs BY <1>1, <1>3
      <3>3. /\ m.e \in [Br -> Entry] /\ Elsewhere(m1.e, m.e, t)
            /\ m.e[t].g = m1.e[t].g /\ m.e[t].f = m1.e[t].f
            /\ Built(m1.e[t].d, m.e[t].d) /\ (~down \/ m1.e[t].d \notin Whs => Made(m1.e[t].d, m.e[t].d))
            /\ m.ok => m.e[t].d \in Dirs \cup {"whdir"}
        <4>1. PICK e1 : e1 = m1.e OBVIOUS
        <4>2. e1 \in [Br -> Entry] /\ (t \in D.pos => e1[t].d \in Dirs) /\ m \in MkDir(e1, D, t, "d", down)
          BY <4>1, <3>1, <3>2, <1>3
        <4>3. MkD(e1, m, t, down) BY <4>2, MkDirD, Zenon
        <4> QED BY <4>1, <4>3 DEF MkD
      <3> QED BY <3>3, <2>1
    <2>2. CASE ~m1.ok
      <3>1. m = m1 BY <2>2, <1>2
      <3> QED BY <3>1, <2>2, <1>3 DEF Elsewhere, Built, Made
    <2> QED BY <2>1, <2>2
  <1>5. Elsewhere(ent, m.e, t) BY <1>3, <1>4 DEF Elsewhere
  <1>6. Legal(m.e)
    <2>1. m.e[t].f # "no" => m.e[t].d \in Dirs \cup {"whdir"}
      <3>1. m.e[t].f # "no" => ent[t].d \in Dirs \cup {"whdir"} BY <1>3, <1>4 DEF Legal
      <3> QED BY <3>1, <1>3, <1>4 DEF Built, Made, Dirs
    <2>2. m.e[t].d # "no" => m.e[t].g \in Dirs \cup {"whdir"}
      <3>1. ent[t].d # "no" => ent[t].g \in Dirs \cup {"whdir"} BY DEF Legal
      <3>2. CASE m1.ok BY <3>2, <1>3, <1>4
      <3>3. CASE ~m1.ok BY <3>1, <3>3, <1>3, <1>4 DEF Built, Made, Dirs
      <3> QED BY <3>2, <3>3
    <2>3. \A b \in Br : b # t => m.e[b] = ent[b] BY <1>5 DEF Elsewhere
    <2> QED BY <2>1, <2>2, <2>3, <1>4 DEF Legal
  <1> QED BY <1>3, <1>4, <1>5, <1>6 DEF Raised, Plain

(* The parents on branch t, made if they are not there.                    *)
Parented(t, down, m) ==
  IF t \in D.pos THEN m = [e |-> ent, ok |-> TRUE] ELSE m \in CpDirs(t, down)

(* They are directories then, and nothing else has changed.                *)
LEMMA ParentedIs ==
  ASSUME Legal(ent), di = Look(ent), NEW t \in Br, NEW down \in BOOLEAN, NEW m, Parented(t, down, m)
  PROVE  /\ Raised(ent, m.e, t)
         /\ ~down \/ (ent[t].g \notin Whs /\ ent[t].d \notin Whs) => Plain(ent, m.e, t)
         /\ m.ok => m.e[t].g \in Dirs \cup {"whdir"} /\ m.e[t].d \in Dirs \cup {"whdir"}
  <1>1. CASE t \in D.pos
    <2>1. m.e = ent BY <1>1 DEF Parented
    <2>2. ent \in [Br -> Entry] BY DEF Legal
    <2>3. ent[t].d \in Dirs BY <1>1, <2>2, LookIs, Columns DEF D, DirPos
    <2>4. ent[t].g \in Dirs
      <3>1. t \in GM(ent) BY <1>1, <2>2, LookIs, MrgSubset DEF D
      <3>2. t \in DirPos(Br, Col(ent, "g")) BY <3>1, MrgSubset DEF GM
      <3> QED BY <3>2, <2>2, Columns DEF DirPos
    <2> QED BY <2>1, <2>3, <2>4, NothingMade DEF Plain
  <1>2. CASE t \notin D.pos BY <1>2, CpDirsIs DEF Parented
  <1> QED BY <1>1, <1>2

-----------------------------------------------------------------------------
(* What is remembered, and where it can be written.                        *)

(* Nothing under the name on the branches merged before t.                 *)
Clear(e, t) == \A a \in DM(e) : a < t => e[a].f = "no"

(* The state of the entries between two operations.                        *)
Settled == Legal(ent) /\ HasParent(ent) /\ di = Look(ent)

(* A branch at or before one that d is merged from is hidden by nothing.   *)
LEMMA UpReaches ==
  ASSUME NEW e, NEW a \in DM(e), NEW t \in Br, t <= a
  PROVE  Reaches(e, t)
  <1>1. DM(e) \in SUBSET Br /\ DM(e) \in SUBSET GM(e) BY MergedBranches
  <1>2. ASSUME NEW S \in SUBSET Br, NEW c, a \in Mrg(S, c) PROVE Open(S, c, t)
    <2>1. a \in DirPos(S, c) /\ (Opaque(S, c) # {} => \E o \in Opaque(S, c) : a <= o) BY <1>2 DEF Mrg
    <2>2. \A b \in Br : b \in Nat BY BrIsNat
    <2>3. a \in Nat /\ t \in Nat BY <1>1, <2>2
    <2>4. ASSUME NEW b \in S, c[b] \in Whs PROVE t < b
      <3>1. a < b /\ b \in Nat BY <2>1, <2>2, <2>4 DEF DirPos
      <3> QED BY <3>1, <2>3
    <2>5. ASSUME Opaque(S, c) # {} PROVE \E o \in Opaque(S, c) : t <= o
      <3>1. PICK o \in Opaque(S, c) : a <= o BY <2>1, <2>5
      <3>2. o \in Nat BY <2>2 DEF Opaque, DirPos
      <3> QED BY <3>1, <3>2, <2>3
    <2> QED BY <2>4, <2>5 DEF Open
  <1>3. Open(Br, Col(e, "g"), t)
    <2>1. a \in Mrg(Br, Col(e, "g")) BY <1>1 DEF GM
    <2> QED BY <2>1, <1>2
  <1>4. Open(GM(e), Col(e, "d"), t)
    <2>1. a \in Mrg(GM(e), Col(e, "d")) /\ GM(e) \in SUBSET Br BY MergedBranches DEF DM
    <2> QED BY <2>1, <1>2
  <1> QED BY <1>3, <1>4 DEF Reaches

(* What the dentry of the directory remembers.                             *)
LEMMA ParentInfo ==
  ASSUME Settled
  PROVE  /\ D.pos = DirPos(GM(ent), Col(ent, "d")) /\ D.pos \in SUBSET Br
         /\ Merged(D) = DM(ent)
         /\ D.start \in D.pos /\ D.start \in DM(ent) /\ \A b \in D.pos : D.start <= b
         /\ D.opq = HighestOr(Opaque(GM(ent), Col(ent, "d")), None)
         /\ G.opq = HighestOr(Opaque(Br, Col(ent, "g")), None)
  <1>0. ent \in [Br -> Entry] BY DEF Settled, Legal
  <1>1. PICK S, d : S = GM(ent) /\ d = Col(ent, "d") OBVIOUS
  <1>2. S \in SUBSET Br BY <1>1, MergedBranches
  <1>3. \A b \in Br : Col(ent, "g")[b] \in DirCells /\ d[b] \in DirCells BY <1>0, <1>1, Columns
  <1>4. D = Dinfo(S, d) /\ G = Dinfo(Br, Col(ent, "g")) BY <1>0, <1>1, LookIs DEF D, G, Settled
  <1>5. D.pos = DirPos(S, d) /\ D.start = LowestOr(DirPos(S, d), Min(S)) /\ D.opq = HighestOr(Opaque(S, d), None)
    <2>1. \A b \in S : d[b] \in DirCells BY <1>2, <1>3
    <2> QED BY <2>1, <1>2, <1>4, DirInfo
  <1>6. G.opq = HighestOr(Opaque(Br, Col(ent, "g")), None) BY <1>3, <1>4, DirInfo
  <1>7. D.pos # {} /\ Merged(D) = DM(ent) BY <1>0, LookIs DEF D, Settled
  <1>8. DirPos(S, d) \in SUBSET Br BY <1>2, MrgSubset
  <1>9. D.start \in D.pos /\ \A b \in D.pos : D.start <= b BY <1>5, <1>7, <1>8, Lowest
  <1>10. D.start \in DM(ent)
    <2>1. Opaque(S, d) # {} => \E a \in Opaque(S, d) : D.start <= a BY <1>5, <1>9, MrgSubset
    <2> QED BY <2>1, <1>1, <1>5, <1>9 DEF DM, Mrg
  <1> QED BY <1>1, <1>5, <1>6, <1>7, <1>8, <1>9, <1>10

(* What the dentry of the file remembers.                                  *)
LEMMA NameInfo ==
  ASSUME Settled
  PROVE  /\ View = Sight(ent)
         /\ F.start \in DM(ent) /\ F.start \in Br /\ Clear(ent, F.start)
         /\ View # "no" => ent[F.start].f = View /\ View \in Data
         /\ View = "no" => /\ F.wh # None => /\ F.wh \in DM(ent) /\ Clear(ent, F.wh)
                                            /\ ent[F.wh].f \in Whs
                           /\ F.wh = None => \A b \in DM(ent) : ent[b].f = "no"
  <1>0. ent \in [Br -> Entry] BY DEF Settled, Legal
  <1>1. View = Sight(ent) BY Zenon DEF View, Sight, F, Settled
  <1>2. PICK S, c : S = DM(ent) /\ c = Col(ent, "f") OBVIOUS
  <1>3. S \in SUBSET Br /\ S # {} BY <1>2, MergedBranches, ParentInfo
  <1>4. \A b \in Br : c[b] = ent[b].f /\ c[b] \in FileCells BY <1>0, <1>2, Columns
  <1>5. \A b \in S : c[b] \in FileCells BY <1>3, <1>4
  <1>6. PICK i : i = F /\ i = Dinfo(S, c) BY <1>0, <1>2, LookIs DEF F, Settled
  <1>7. /\ \A t : First(S, c, t) /\ c[t] \in Data => i.pos = {t} /\ i.start = t /\ i.wh = None
        /\ \A t : First(S, c, t) /\ c[t] \in Whs => i.pos = {} /\ i.start = Min(S) /\ i.wh = t
        /\ (\A b \in S : c[b] = "no") => i.pos = {} /\ i.start = Min(S) /\ i.wh = None
    BY <1>3, <1>5, <1>6, FileInfo
  <1>8. View = IF i.pos = {} THEN "no" ELSE c[i.start]
    <2>1. View = IF i.pos = {} THEN "no" ELSE ent[i.start].f BY <1>6 DEF View
    <2>2. i.pos # {} => i.start \in Br BY <1>3, <1>5, <1>7, FirstOrNone DEF First, FileCells, Whs
    <2> QED BY <2>1, <2>2, <1>4
  <1>9. Min(S) \in S /\ \A b \in S : Min(S) <= b BY <1>3, Lowest
  <1>10. \A b \in S : b \in Nat BY <1>3, BrIsNat
  <1>11. ASSUME NEW t \in S, First(S, c, t), c[t] \in Data
         PROVE  i.start = t /\ View = c[t] /\ c[t] # "no"
    BY <1>7, <1>8, <1>11, CellsApart
  <1>12. ASSUME NEW t \in S, First(S, c, t), c[t] \in Whs
         PROVE  i.start = Min(S) /\ View = "no" /\ i.wh = t
    BY <1>7, <1>8, <1>12
  <1>13. ASSUME \A b \in S : c[b] = "no"
         PROVE  i.start = Min(S) /\ View = "no" /\ i.wh = None
    BY <1>7, <1>8, <1>13
  <1>14. \A t : First(S, c, t) => t \in S /\ (c[t] \in Data \/ c[t] \in Whs)
    BY <1>5 DEF First, FileCells, Whs
  <1>15. \A t : First(S, c, t) => \A a \in S : a < t => c[a] = "no" BY DEF First
  <1>16. \A b \in S : ~(b < Min(S)) BY <1>9, <1>10
  <1>17. CASE \A b \in S : c[b] = "no"
    <2>1. /\ i.start \in S /\ (\A a \in S : a < i.start => c[a] = "no") /\ View = "no" /\ i.wh = None
      BY <1>9, <1>13, <1>17
    <2> QED BY <2>1, <1>1, <1>2, <1>3, <1>4, <1>6, <1>16, <1>17 DEF Clear
  <1>18. CASE \E t \in S : First(S, c, t)
    <2>1. PICK t \in S : First(S, c, t) BY <1>18
    <2>2. CASE c[t] \in Data
      <3>1. i.start \in S /\ (\A a \in S : a < i.start => c[a] = "no") /\ View = c[i.start] /\ View # "no" /\ View \in Data
        BY <2>1, <2>2, <1>11, <1>15
      <3> QED BY <3>1, <1>1, <1>2, <1>3, <1>4, <1>6 DEF Clear
    <2>3. CASE c[t] \in Whs
      <3>1. i.start \in S /\ (\A a \in S : a < i.start => c[a] = "no") BY <2>1, <2>3, <1>9, <1>12, <1>16
      <3>2. View = "no" /\ i.wh = t /\ t # None BY <2>1, <2>3, <1>3, <1>12, BrIsNat
      <3>3. \A a \in S : a < t => c[a] = "no" BY <2>1, <1>15
      <3> QED BY <3>1, <3>2, <3>3, <2>1, <2>3, <1>1, <1>2, <1>3, <1>4, <1>6 DEF Clear
    <2> QED BY <2>1, <2>2, <2>3, <1>14
  <1> QED BY <1>3, <1>17, <1>18, FirstOrNone

(* An operation that sees to the parents on branch t, t being hidden by    *)
(* nothing, and writes the file there: it is what the union shows.         *)
LEMMA WrittenShows ==
  ASSUME NEW e, NEW e2, NEW t \in Br, Legal(e), Plain(e, e2, t), Reaches(e, t), Clear(e, t),
         e2[t].g \in Dirs \cup {"whdir"}, e2[t].d \in Dirs \cup {"whdir"},
         NEW x \in Data
  PROVE  Sight(SetCell(e2, t, "f", x)) = x
  <1>1. PICK e3 : e3 = SetCell(e2, t, "f", x) OBVIOUS
  <1>2. e2 \in [Br -> Entry] /\ x \in FileCells BY DEF Plain, Raised, Legal, FileCells
  <1>3. e3 \in [Br -> Entry] /\ Elsewhere(e2, e3, t) /\ e3[t] = [g |-> e2[t].g, d |-> e2[t].d, f |-> x]
    BY <1>1, <1>2, SetF
  <1>4. \A b \in Br : e3[b].g = e2[b].g /\ e3[b].d = e2[b].d BY <1>3 DEF Elsewhere
  <1>5. Col(e3, "g") = Col(e2, "g") /\ Col(e3, "d") = Col(e2, "d") BY <1>4 DEF Col
  <1>6. DM(e3) = DM(e2) BY <1>5 DEF DM, GM
  <1>7. t \in DM(e3) BY <1>6, Reached
  <1>8. Col(e3, "f")[t] = x /\ e3[t].f = x BY <1>3, Columns
  <1>9. ASSUME NEW a \in DM(e3), a < t PROVE Col(e3, "f")[a] = "no"
    <2>1. a \in DM(e2) /\ a \in Br /\ a # t BY <1>6, <1>9, MergedBranches, BrIsNat
    <2>2. a \in DM(e) BY <2>1, PlainKeeps
    <2>3. e[a].f = "no" BY <2>2, <1>9 DEF Clear
    <2>4. e3[a] = e2[a] /\ e2[a] = e[a] BY <2>1, <1>3 DEF Elsewhere, Plain, Raised
    <2> QED BY <2>1, <2>3, <2>4, <1>3, Columns
  <1>10. First(DM(e3), Col(e3, "f"), t) BY <1>7, <1>8, <1>9, CellsApart DEF First
  <1> QED BY <1>1, <1>3, <1>8, <1>10, SightIs

-----------------------------------------------------------------------------
(* The policies.                                                           *)

(* What the variables hold between two operations.                         *)
IInv ==
  /\ Settled
  /\ rw \in SUBSET Br /\ free \in [Br -> Bytes] /\ wbytes \in [Br -> Nat]
  /\ pol \in [create : Policies \cup {"tdp"}, copyup : {"tdp", "bup", "bu"}]

(* The opaque g that counts is not before a branch d is merged from.       *)
LEMMA NonOpqUp ==
  ASSUME Settled, NEW a \in DM(ent), NEW b, b = None \/ (b \in Br /\ b <= a)
  PROVE  NonOpq(b) = b /\ (G.opq # None => a <= G.opq)
  <1>1. PICK O : O = Opaque(Br, Col(ent, "g")) OBVIOUS
  <1>2. G.opq = HighestOr(O, None) BY <1>1, ParentInfo
  <1>3. O \in SUBSET Br BY <1>1, MrgSubset
  <1>4. (O = {} => G.opq = None) /\ (O # {} => G.opq \in O /\ \A x \in O : x <= G.opq)
    BY <1>2, <1>3, Highest
  <1>5. a \in Mrg(Br, Col(ent, "g")) BY MergedBranches DEF GM
  <1>6. O # {} => \E o \in O : a <= o BY <1>1, <1>5 DEF Mrg
  <1>7. a \in Nat /\ \A x \in O : x \in Nat BY <1>3, MergedBranches, BrIsNat
  <1>8. G.opq # None => a <= G.opq /\ G.opq \in Nat BY <1>4, <1>6, <1>7
  <1>9. b # None => b \in Nat /\ b <= a BY BrIsNat
  <1>10. ~(b # None /\ G.opq \in 0 .. b - 1) BY <1>7, <1>8, <1>9, BrIsNat DEF None
  <1> QED BY <1>8, <1>10 DEF NonOpq

(* A branch found by asking the writable ones upwards.                     *)
LEMMA BuIs ==
  ASSUME rw \in SUBSET Br, NEW b \in Int
  PROVE  /\ Bu(b) # None => Bu(b) \in rw /\ Bu(b) <= b
         /\ Bu(b) = None => \A c \in rw : ~(c <= b)
  <1>1. PICK S : S = {c \in rw : c <= b} OBVIOUS
  <1>2. S \in SUBSET Br BY <1>1
  <1>3. Bu(b) = HighestOr(S, None) BY <1>1 DEF Bu
  <1>4. (S = {} => Bu(b) = None) /\ (S # {} => Bu(b) \in S /\ Bu(b) # None)
    <2>1. S # {} => Bu(b) \in S BY <1>2, <1>3, Highest
    <2> QED BY <2>1, <1>2, <1>3, Highest, BrIsNat
  <1> QED BY <1>1, <1>4

(* A usable branch, not below the one the name was looked up on.           *)
Usable(t) == t # None => t \in rw /\ t \in Br /\ t <= F.start

(* Top-down parent: no writable branch is left when none is found.         *)
LEMMA TdpIs ==
  ASSUME IInv
  PROVE  Usable(Tdp) /\ (Tdp = None => \A b \in rw : ~(b <= F.start))
  <1>0. Settled /\ rw \in SUBSET Br BY DEF IInv
  <1>1. F.start \in DM(ent) /\ F.start \in Br /\ F.start \in Nat BY <1>0, NameInfo, BrIsNat
  <1>2. \A b \in Br : b \in Nat /\ b # None BY BrIsNat
  <1>3. PICK S : S = {b \in D.pos \cap rw : b < F.start} OBVIOUS
  <1>4. PICK u : u = Bu(F.start - 1) OBVIOUS
  <1>5. /\ u # None => u \in rw /\ u <= F.start - 1
        /\ u = None => \A c \in rw : ~(c <= F.start - 1)
    BY <1>0, <1>1, <1>4, BuIs
  <1>6. NonOpq(u) = u
    <2>1. u = None \/ (u \in Br /\ u <= F.start) BY <1>0, <1>1, <1>2, <1>5
    <2> QED BY <2>1, <1>0, <1>1, NonOpqUp
  <1>7. Tdp = IF F.start \in rw THEN F.start ELSE LowestOr(S, u)
    BY <1>3, <1>4, <1>6, Zenon DEF Tdp
  <1>8. S \in SUBSET Br BY <1>0, <1>3
  <1>9. CASE F.start \in rw BY <1>1, <1>2, <1>7, <1>9 DEF Usable
  <1>10. CASE F.start \notin rw /\ S # {}
    <2>1. Tdp \in S BY <1>7, <1>8, <1>10, Lowest
    <2>2. Tdp \in rw /\ Tdp \in Br /\ Tdp < F.start BY <2>1, <1>0, <1>3
    <2> QED BY <2>2, <1>1, <1>2 DEF Usable
  <1>11. CASE F.start \notin rw /\ S = {}
    <2>1. Tdp = u BY <1>7, <1>8, <1>11, Lowest
    <2>2. \A b \in rw : b <= F.start => b <= F.start - 1 BY <1>0, <1>1, <1>2, <1>11
    <2> QED BY <2>1, <2>2, <1>0, <1>1, <1>2, <1>5 DEF Usable
  <1> QED BY <1>9, <1>10, <1>11

(* What EROFS says of the writable branches.                               *)
NoneUp == \A b \in rw : b > F.start \/ (pol.copyup = "bup" /\ b > D.start /\ b \notin D.pos)

(* Whatever the copy-up policy.                                            *)
LEMMA CopyupIs ==
  ASSUME IInv
  PROVE  Usable(CopyupPolicy) /\ (CopyupPolicy = None => NoneUp)
  <1>0. Settled /\ rw \in SUBSET Br BY DEF IInv
  <1>1. F.start \in DM(ent) /\ F.start \in Br /\ F.start \in Nat BY <1>0, NameInfo, BrIsNat
  <1>2. \A b \in Br : b \in Nat /\ b # None BY BrIsNat
  <1>3. /\ D.pos \in SUBSET Br /\ D.start \in D.pos /\ D.start \in Nat /\ \A b \in D.pos : D.start <= b
        /\ D.start <= F.start
    <2>1. D.pos \in SUBSET Br /\ D.start \in D.pos /\ \A b \in D.pos : D.start <= b BY <1>0, ParentInfo
    <2>2. F.start \in D.pos BY <1>0, <1>1, ParentInfo, MrgSubset DEF DM
    <2> QED BY <2>1, <2>2, <1>2
  <1>4. CASE pol.copyup = "tdp"
    <2>1. CopyupPolicy = Tdp BY <1>4 DEF CopyupPolicy
    <2> QED BY <2>1, <1>0, <1>1, <1>2, TdpIs DEF NoneUp
  <1>5. CASE pol.copyup = "bup"
    <2>1. PICK S : S = {b \in D.pos \cap rw : D.start <= b /\ b <= F.start} OBVIOUS
    <2>2. PICK u : u = Bu(D.start - 1) OBVIOUS
    <2>3. /\ u # None => u \in rw /\ u <= D.start - 1
          /\ u = None => \A c \in rw : ~(c <= D.start - 1)
      BY <2>2, <1>0, <1>3, BuIs
    <2>4. CopyupPolicy = HighestOr(S, u)
      <3>1. CopyupPolicy = Bup BY <1>5 DEF CopyupPolicy
      <3> QED BY <3>1, <2>1, <2>2, Zenon DEF Bup
    <2>5. S \in SUBSET Br BY <2>1, <1>3
    <2>6. CASE S # {}
      <3>1. CopyupPolicy \in S BY <2>4, <2>5, <2>6, Highest
      <3>2. CopyupPolicy \in rw /\ CopyupPolicy \in Br /\ CopyupPolicy <= F.start BY <3>1, <2>1, <2>5
      <3> QED BY <3>2, <1>2 DEF Usable
    <2>7. CASE S = {}
      <3>1. CopyupPolicy = u BY <2>4, <2>5, <2>7, Highest
      <3>2. Usable(u) BY <2>3, <1>0, <1>1, <1>2, <1>3 DEF Usable
      <3>3. ASSUME u = None PROVE NoneUp
        <4> SUFFICES ASSUME NEW b \in rw, ~(b > F.start) PROVE b > D.start /\ b \notin D.pos
          BY <1>5 DEF NoneUp
        <4>1. b \in Nat /\ b <= F.start /\ D.start <= b BY <3>3, <2>3, <1>0, <1>1, <1>2, <1>3
        <4>2. b \notin D.pos BY <4>1, <2>1, <2>7
        <4> QED BY <4>1, <4>2, <1>3
      <3> QED BY <3>1, <3>2, <3>3
    <2> QED BY <2>6, <2>7
  <1>6. CASE pol.copyup = "bu"
    <2>1. CopyupPolicy = Bu(F.start) BY <1>6 DEF CopyupPolicy
    <2>2. /\ Bu(F.start) # None => Bu(F.start) \in rw /\ Bu(F.start) <= F.start
          /\ Bu(F.start) = None => \A c \in rw : ~(c <= F.start)
      BY <1>0, <1>1, BuIs
    <2> QED BY <2>1, <2>2, <1>0, <1>1, <1>2 DEF Usable, NoneUp
  <1> QED BY <1>4, <1>5, <1>6 DEF IInv

(* A branch at or before the one the name was looked up on is fit for the  *)
(* name.                                                                   *)
Fit(t) == t \in Br /\ Reaches(ent, t) /\ Clear(ent, t)

(* Nothing hides a branch at or before that one.                           *)
LEMMA UpFits ==
  ASSUME Settled, NEW t \in Br, t <= F.start
  PROVE  Fit(t)
  <1>1. F.start \in DM(ent) /\ F.start \in Br /\ Clear(ent, F.start) BY NameInfo
  <1>2. Reaches(ent, t) BY <1>1, UpReaches
  <1>3. \A b \in DM(ent) : b < t => b < F.start
    <2>1. \A b \in DM(ent) : b \in Nat BY MergedBranches, BrIsNat
    <2>2. t \in Nat /\ F.start \in Nat BY <1>1, BrIsNat
    <2> QED BY <2>1, <2>2
  <1>4. Clear(ent, t) BY <1>1, <1>3 DEF Clear
  <1> QED BY <1>2, <1>4 DEF Fit

(* A choice: the branch, and what the policy leaves behind.                *)
IsChoice(s) ==
  s = [b |-> s.b, wb |-> s.wb, mfs |-> s.mfs, next |-> s.next] /\ s.wb \in [Br -> Nat]

(* What a whiteout or an opaque directory decides, or else any branch that *)
(* is not below an opaque ancestor.                                        *)
Chosen(x) == (Exp # None /\ x = Exp) \/ (Exp = None /\ \E y : x = NonOpq(y))

(* A choice with another branch, or another counter, is one.               *)
LEMMA ChoiceExcept ==
  ASSUME NEW s, IsChoice(s), NEW x, NEW t, t = [s EXCEPT !.b = x]
  PROVE  IsChoice(t) /\ t.b = x /\ t.wb = s.wb
  <1>1. PICK b, wb, m, n : s = [b |-> b, wb |-> wb, mfs |-> m, next |-> n] /\ wb \in [Br -> Nat] /\ s.wb = wb
    BY DEF IsChoice
  <1>2. t = [b |-> x, wb |-> wb, mfs |-> m, next |-> n] BY <1>1
  <1> QED BY <1>1, <1>2 DEF IsChoice

(* Likewise.                                                               *)
LEMMA ChoiceExceptNext ==
  ASSUME NEW s, IsChoice(s), NEW y, NEW t, t = [s EXCEPT !.next = y]
  PROVE  IsChoice(t) /\ t.b = s.b
  <1>1. PICK b, wb, m, n : s = [b |-> b, wb |-> wb, mfs |-> m, next |-> n] /\ wb \in [Br -> Nat] /\ s.b = b
    BY DEF IsChoice
  <1>2. t = [b |-> b, wb |-> wb, mfs |-> m, next |-> y] BY <1>1
  <1> QED BY <1>1, <1>2 DEF IsChoice

(* What is remembered to start with.                                       *)
LEMMA SameIs ==
  ASSUME IInv
  PROVE  IsChoice(Same)
  BY DEF Same, IsChoice, IInv

(* Asking for the free space.                                              *)
LEMMA MfsIs ==
  ASSUME IInv, NEW s, IsChoice(s), NEW parent, NEW ok
  PROVE  IsChoice(Mfs(s, parent, ok))
  <1>1. PICK S : S = {b \in rw \cap ok : parent => b \in D.pos /\ b <= TailDir(D)} OBVIOUS
  <1>2. PICK most, idx : Mfs(s, parent, ok) =
           [s EXCEPT !.wb = [b \in Br |-> IF b \in S THEN free[b] ELSE @[b]],
                     !.mfs = [idx |-> idx, old |-> idx = None /\ @.old, bytes |-> most]]
    BY <1>1, Zenon DEF Mfs
  <1>3. PICK b0, wb, m, n : s = [b |-> b0, wb |-> wb, mfs |-> m, next |-> n] /\ wb \in [Br -> Nat]
    BY DEF IsChoice
  <1>4. PICK wb2 : wb2 = [b \in Br |-> IF b \in S THEN free[b] ELSE wb[b]] OBVIOUS
  <1>5. wb2 \in [Br -> Nat] BY <1>3, <1>4, BytesAssumption DEF IInv
  <1>6. PICK m2 : m2 = [idx |-> idx, old |-> idx = None /\ m.old, bytes |-> most] OBVIOUS
  <1>7. s.wb = wb /\ s.mfs = m BY <1>3
  <1>8. Mfs(s, parent, ok) = [s EXCEPT !.wb = wb2, !.mfs = m2]
    BY <1>2, <1>4, <1>6, <1>7, Zenon
  <1>9. [s EXCEPT !.wb = wb2, !.mfs = m2] = [b |-> b0, wb |-> wb2, mfs |-> m2, next |-> n]
    <2>1. [s EXCEPT !.wb = wb2, !.mfs = m2] = [[s EXCEPT !.wb = wb2] EXCEPT !.mfs = m2] BY Zenon
    <2>2. [s EXCEPT !.wb = wb2] = [b |-> b0, wb |-> wb2, mfs |-> m, next |-> n] BY <1>3
    <2>3. [[b |-> b0, wb |-> wb2, mfs |-> m, next |-> n] EXCEPT !.mfs = m2]
            = [b |-> b0, wb |-> wb2, mfs |-> m2, next |-> n]
      OBVIOUS
    <2> QED BY <2>1, <2>2, <2>3, Zenon
  <1> QED BY <1>5, <1>8, <1>9 DEF IsChoice

(* The round robin.                                                        *)
LEMMA RrIs ==
  ASSUME NEW s, IsChoice(s), NEW isdir, NEW t \in Rr(s, isdir)
  PROVE  IsChoice(t) /\ Chosen(t.b)
  <1>1. CASE Exp # None
    <2>1. t = [s EXCEPT !.b = Exp] BY <1>1, Zenon DEF Rr
    <2> QED BY <2>1, <1>1, ChoiceExcept DEF Chosen
  <1>2. CASE Exp = None
    <2>1. PICK r : r = RrTries(s.next, isdir) /\ t = [s EXCEPT !.b = NonOpq(r.b), !.next = r.next]
      BY <1>2 DEF Rr
    <2>2. PICK x, y : x = NonOpq(r.b) /\ y = r.next OBVIOUS
    <2>3. PICK u : u = [s EXCEPT !.b = x] OBVIOUS
    <2>5. t = [u EXCEPT !.next = y] BY <2>1, <2>2, <2>3, Zenon
    <2>6. IsChoice(u) /\ u.b = x BY <2>3, ChoiceExcept
    <2>4. IsChoice(t) /\ t.b = u.b BY <2>5, <2>6, ChoiceExceptNext
    <2> QED BY <2>2, <2>4, <2>6, <1>2 DEF Chosen
  <1> QED BY <1>1, <1>2

(* The most free space.                                                    *)
LEMMA MfsPolicyIs ==
  ASSUME IInv, NEW s, IsChoice(s), NEW parent, NEW c \in MfsPolicy(s, parent)
  PROVE  IsChoice(c) /\ Chosen(c.b)
  <1>1. CASE Exp # None
    <2>1. c = [s EXCEPT !.b = Exp] BY <1>1 DEF MfsPolicy
    <2> QED BY <2>1, <1>1, ChoiceExcept DEF Chosen
  <1>2. CASE Exp = None
    <2> DEFINE stale == s.mfs.old \/ s.mfs.idx \notin rw
               after == {s} \cup {Mfs(s, parent, ok) :
                                    ok \in IF stale THEN {Br} \cup {Br \ {b} : b \in rw} ELSE {}}
    <2>1. \A a \in after : IsChoice(a) BY MfsIs
    <2>2. PICK a \in after : \E i : c = [a EXCEPT !.b = NonOpq(i)]
      BY <1>2, SMT DEF MfsPolicy
    <2>5. PICK i : c = [a EXCEPT !.b = NonOpq(i)] BY <2>2
    <2>3. IsChoice(a) BY <2>1
    <2>6. PICK x : x = NonOpq(i) OBVIOUS
    <2>4. IsChoice(c) /\ c.b = x BY <2>5, <2>3, <2>6, ChoiceExcept
    <2> QED BY <2>4, <2>6, <1>2 DEF Chosen
  <1> QED BY <1>1, <1>2

(* The same, with the round robin below the watermark.                     *)
LEMMA MfsrrPolicyIs ==
  ASSUME IInv, NEW s, IsChoice(s), NEW isdir, NEW parent, NEW t \in MfsrrPolicy(s, isdir, parent)
  PROVE  IsChoice(t) /\ Chosen(t.b)
  <1>1. PICK a \in MfsPolicy(s, parent) : t \in Rr(a, isdir) \/ t = a
    <2>1. PICK a \in MfsPolicy(s, parent) :
            t \in (IF a.b # None /\ a.mfs.bytes < Watermark THEN Rr(a, isdir) ELSE {a})
      BY Zenon DEF MfsrrPolicy
    <2> QED BY <2>1
  <1>2. IsChoice(a) /\ Chosen(a.b) BY <1>1, MfsPolicyIs
  <1> QED BY <1>1, <1>2, RrIs

(* Finitely many numbers have a greatest one.                              *)
LEMMA GreatestOfBranches ==
  ASSUME NEW T \in SUBSET Br, T # {}, NEW w \in [Br -> Nat], NEW V, V = {w[b] : b \in T}
  PROVE  Max(V) \in V /\ \A x \in V : x <= Max(V)
  <1> DEFINE Bad == {n \in Nat : ~(\E m \in Nat : \A b \in T : b < n => w[b] <= m)}
  <1>1. Bad = {}
    <2> SUFFICES ASSUME Bad # {} PROVE FALSE OBVIOUS
    <2>1. Min(Bad) \in Bad /\ \A x \in Bad : Min(Bad) <= x BY LeastNatural
    <2>2. PICK n \in Bad : \A x \in Bad : n <= x BY <2>1
    <2>3. n \in Nat OBVIOUS
    <2>4. \A b \in T : b \in Nat /\ w[b] \in Nat BY BrIsNat
    <2>5. n # 0
      <3> SUFFICES ASSUME n = 0 PROVE FALSE OBVIOUS
      <3>1. \A b \in T : b < 0 => w[b] <= 0 BY <2>4
      <3> QED BY <3>1
    <2>6. n - 1 \in Nat /\ n - 1 \notin Bad BY <2>2, <2>3, <2>5
    <2>7. PICK m \in Nat : \A b \in T : b < n - 1 => w[b] <= m BY <2>6
    <2>8. \E k \in Nat : \A b \in T : b < n => w[b] <= k
      <3>1. CASE n - 1 \in T
        <4>1. PICK v \in Nat : v = w[n - 1] BY <3>1, <2>4
        <4>2. PICK k \in Nat : k = m + v OBVIOUS
        <4>3. \A b \in T : b < n => w[b] <= k
          <5> SUFFICES ASSUME NEW b \in T, b < n PROVE w[b] <= k OBVIOUS
          <5>1. b = n - 1 \/ b < n - 1 BY <2>3, <2>4
          <5>2. b < n - 1 => w[b] <= m BY <2>7
          <5>3. w[b] \in Nat BY <2>4
          <5> QED BY <5>1, <5>2, <5>3, <4>1, <4>2
        <4> QED BY <4>3
      <3>2. CASE n - 1 \notin T
        <4>1. \A b \in T : b < n => b < n - 1 BY <3>2, <2>3, <2>4
        <4> QED BY <4>1, <2>7
      <3> QED BY <3>1, <3>2
    <2> QED BY <2>8
  <1>2. N \in Nat /\ N \notin Bad BY <1>1, NAssumption
  <1>3. PICK m \in Nat : \A b \in T : b < N => w[b] <= m BY <1>2
  <1>4. \A b \in T : b < N /\ w[b] \in Nat BY NAssumption DEF Br
  <1>5. V \in SUBSET Nat /\ V # {} /\ \A x \in V : x <= m BY <1>3, <1>4
  <1> QED BY <1>5, GreatestNatural

(* Top-down parent, or another branch that d is merged from.               *)
LEMMA PmfsPolicyIs ==
  ASSUME IInv, NEW s, IsChoice(s), NEW parent, NEW t \in PmfsPolicy(s, parent)
  PROVE  IsChoice(t) /\ (t.b # None => t.b \in DM(ent) \/ (t.b \in Br /\ t.b <= F.start))
  <1>0. Settled /\ rw \in SUBSET Br BY DEF IInv
  <1>1. PICK d : d = Tdp OBVIOUS
  <1>2. d # None => d \in rw /\ d \in Br /\ d <= F.start BY <1>1, TdpIs DEF Usable
  <1>3. DM(ent) \in SUBSET Br /\ Merged(D) = DM(ent) /\ F.start \in DM(ent)
    BY <1>0, MergedBranches, ParentInfo, NameInfo
  <1>4. ASSUME NEW a, IsChoice(a), t = [a EXCEPT !.b = d] PROVE IsChoice(t) /\ t.b = d
    BY <1>4, ChoiceExcept
  <1>5. CASE d = None \/ D.start = TailDir(D)
    <2>1. t = [s EXCEPT !.b = d] BY <1>1, <1>5, Zenon DEF PmfsPolicy
    <2> QED BY <2>1, <1>2, <1>4
  <1>6. CASE ~(d = None \/ D.start = TailDir(D))
    <2> DEFINE S == {b \in D.pos \cap rw : b <= TailDir(D)}
               V(a) == {a.wb[b] : b \in S \cup {d}}
               best(a) == IF Max(V(a)) > a.wb[d] THEN Min({b \in S : a.wb[b] = Max(V(a))}) ELSE d
    <2>1. PICK a \in MfsPolicy(s, parent) :
            t = IF a.b = None THEN [a EXCEPT !.b = d] ELSE [a EXCEPT !.b = NonOpq(best(a))]
      BY <1>1, <1>6, Zenon DEF PmfsPolicy
    <2>2. IsChoice(a) /\ a.wb \in [Br -> Nat] BY MfsPolicyIs DEF IsChoice
    <2>3. CASE a.b = None
      <3>1. t = [a EXCEPT !.b = d] BY <2>1, <2>3
      <3> QED BY <3>1, <2>2, <1>2, <1>4
    <2>4. CASE a.b # None
      <3>1. S \in SUBSET DM(ent) BY <1>3 DEF Merged
      <3>2. PICK T : T = S \cup {d} OBVIOUS
      <3>3. PICK w \in [Br -> Nat] : w = a.wb BY <2>2
      <3>4. PICK W : W = V(a) /\ W = {w[b] : b \in T} BY <3>2, <3>3
      <3>5. T \in SUBSET Br /\ T # {} /\ d \in Br BY <3>1, <3>2, <1>2, <1>3, <1>6
      <3>6. PICK most : most = Max(W) /\ most \in W
        BY <3>4, <3>5, GreatestOfBranches
      <3>7. best(a) = IF most > w[d] THEN Min({b \in S : w[b] = most}) ELSE d
        BY <3>3, <3>4, <3>6
      <3>8. PICK x : x = best(a) OBVIOUS
      <3>9. x \in S \/ x = d
        <4>1. CASE most > w[d]
          <5>1. most # w[d] /\ w[d] \in Nat BY <4>1, <3>5
          <5>2. PICK b \in T : w[b] = most BY <3>4, <3>6
          <5>3. b \in S BY <5>1, <5>2, <3>2
          <5>4. PICK U : U = {c \in S : w[c] = most} OBVIOUS
          <5>5. U # {} /\ U \in SUBSET Br BY <5>2, <5>3, <5>4, <3>1, <1>3
          <5>6. Min(U) \in U BY <5>5, Lowest
          <5>7. x = Min(U) BY <4>1, <5>4, <3>7, <3>8
          <5> QED BY <5>4, <5>6, <5>7
        <4>2. CASE ~(most > w[d]) BY <4>2, <3>7, <3>8
        <4> QED BY <4>1, <4>2
      <3>10. x \in DM(ent) \/ (x \in Br /\ x <= F.start) BY <3>1, <3>9, <1>2, <1>6
      <3>11. NonOpq(x) = x
        <4>1. CASE x \in DM(ent)
          <5>0. x \in Br /\ x \in Nat BY <4>1, <1>3, BrIsNat
          <5>1. x \in Br /\ x <= x BY <5>0
          <5> QED BY <4>1, <5>1, <1>0, NonOpqUp
        <4>2. CASE x \in Br /\ x <= F.start BY <4>2, <1>0, <1>3, NonOpqUp
        <4> QED BY <4>1, <4>2, <3>10
      <3>12. t = [a EXCEPT !.b = x] BY <2>1, <2>4, <3>8, <3>11
      <3>13. IsChoice(t) /\ t.b = x BY <3>12, <2>2, ChoiceExcept
      <3> QED BY <3>10, <3>13
    <2> QED BY <2>3, <2>4
  <1> QED BY <1>5, <1>6

(* Where no mark that hides the name is overlooked, the choice is fit for  *)
(* it.                                                                     *)
LEMMA ChosenFits ==
  ASSUME IInv, View = "no", ~Unseen, NEW x \in rw, Chosen(x)
  PROVE  Fit(x)
  <1>0. Settled /\ rw \in SUBSET Br /\ x \in Br BY DEF IInv
  <1>1. PICK w, o : w = F.wh /\ o = D.opq OBVIOUS
  <1>2. /\ w # None => w \in DM(ent) /\ Clear(ent, w) /\ ent[w].f \in Whs
        /\ w = None => \A b \in DM(ent) : ent[b].f = "no"
    BY <1>0, <1>1, NameInfo
  <1>3. PICK O, c : O = Opaque(GM(ent), c) /\ c = Col(ent, "d") /\ o = HighestOr(O, None)
    BY <1>0, <1>1, ParentInfo
  <1>4. O \in SUBSET Br /\ \A b \in O : b \in GM(ent) /\ ent[b].d = "opq"
    <2>1. O \in SUBSET GM(ent) /\ GM(ent) \in SUBSET Br BY <1>3, MrgSubset, MergedBranches
    <2>2. \A b \in O : c[b] = "opq" BY <1>3 DEF Opaque
    <2> QED BY <2>1, <2>2, <1>0, <1>3, Columns DEF Settled, Legal
  <1>5. (O = {} => o = None) /\ (O # {} => o \in O /\ \A b \in O : b <= o) BY <1>3, <1>4, Highest
  <1>6. o # None => o \in DM(ent) /\ ent[o].d = "opq"
    <2> SUFFICES ASSUME o # None PROVE o \in DM(ent) /\ ent[o].d = "opq" OBVIOUS
    <2>1. o \in O /\ o <= o BY <1>4, <1>5, BrIsNat
    <2>2. o \in DirPos(GM(ent), c) BY <2>1, <1>3, MrgSubset
    <2>3. o \in Mrg(GM(ent), c) BY <2>1, <2>2, <1>3 DEF Mrg
    <2> QED BY <2>1, <2>3, <1>3, <1>4 DEF DM
  <1>7. /\ \A b \in Br : ent[b].g \notin Whs /\ ent[b].d \notin Whs
        /\ \A b \in Br \ rw : ent[b].d # "opq" /\ ent[b].f \notin Whs
    BY DEF Unseen
  <1>8. DM(ent) \in SUBSET Br /\ GM(ent) \in SUBSET Br BY MergedBranches
  <1>9. (w # None => w \in rw) /\ (o # None => o \in rw) BY <1>2, <1>6, <1>7, <1>8
  <1>10. PICK m : m = {b \in {w, o} : b # None} OBVIOUS
  <1>11. Exp = IF (IF m = {} THEN None ELSE NonOpq(Min(m))) \in rw
               THEN (IF m = {} THEN None ELSE NonOpq(Min(m))) ELSE None
    BY <1>1, <1>10, Zenon DEF Exp
  <1>12. CASE m = {}
    <2>1. w = None /\ o = None BY <1>10, <1>12
    <2>2. Exp = None BY <1>11, <1>12
    <2>3. PICK y : x = NonOpq(y) BY <2>2 DEF Chosen
    <2>4. O = {} BY <2>1, <1>4, <1>5, BrIsNat
    <2>5. PICK P, d : P = Opaque(Br, d) /\ d = Col(ent, "g") /\ G.opq = HighestOr(P, None)
      BY <1>0, ParentInfo
    <2>6. P \in SUBSET Br BY <2>5, MrgSubset
    <2>7. P # {} => G.opq \in P /\ G.opq \in Nat BY <2>5, <2>6, Highest, BrIsNat
    <2>8. P # {} => x <= G.opq
      <3> SUFFICES ASSUME P # {} PROVE x <= G.opq OBVIOUS
      <3>1. x \in Nat /\ x # None BY <1>0, BrIsNat
      <3>2. x = IF y # None /\ G.opq \in 0 .. y - 1 THEN G.opq ELSE y BY <2>3 DEF NonOpq
      <3>3. CASE y # None /\ G.opq \in 0 .. y - 1 BY <3>2, <3>3, <2>7
      <3>4. CASE ~(y # None /\ G.opq \in 0 .. y - 1)
        <4>1. x = y BY <3>2, <3>4
        <4>2. G.opq \notin 0 .. x - 1 BY <4>1, <3>1, <3>4
        <4> QED BY <4>2, <3>1, <2>7
      <3> QED BY <3>3, <3>4
    <2>9. \A b \in Br : d[b] = ent[b].g /\ c[b] = ent[b].d
      BY <1>0, <1>3, <2>5, Columns DEF Settled, Legal
    <2>10. Open(Br, d, x) BY <2>5, <2>7, <2>8, <2>9, <1>7 DEF Open
    <2>11. Open(GM(ent), c, x) BY <2>4, <2>9, <1>3, <1>7, <1>8 DEF Open
    <2>12. Clear(ent, x) BY <2>1, <1>2 DEF Clear
    <2> QED BY <2>5, <2>10, <2>11, <2>12, <1>0, <1>3 DEF Fit, Reaches
  <1>13. CASE m # {}
    <2>1. m \in SUBSET Br BY <1>2, <1>6, <1>8, <1>10
    <2>2. PICK e : e = Min(m) /\ e \in m /\ \A b \in m : e <= b BY <2>1, <1>13, Lowest
    <2>3. e \in DM(ent) /\ e \in rw /\ e \in Br /\ e \in Nat /\ e # None
      BY <2>1, <2>2, <1>2, <1>6, <1>9, <1>10, BrIsNat
    <2>4. NonOpq(e) = e
      <3>1. e <= e BY <2>3
      <3> QED BY <3>1, <2>3, <1>0, NonOpqUp
    <2>5. Exp = e BY <2>2, <2>3, <2>4, <1>11, <1>13
    <2>6. x = e BY <2>3, <2>5 DEF Chosen
    <2>7. Reaches(ent, e) BY <2>3, UpReaches
    <2>8. Clear(ent, e)
      <3>1. CASE w = None BY <3>1, <1>2 DEF Clear
      <3>2. CASE w # None
        <4>1. e <= w /\ w \in Nat BY <3>2, <2>1, <2>2, <1>10, BrIsNat
        <4>2. \A b \in DM(ent) : b \in Nat BY <1>8, BrIsNat
        <4>3. \A b \in DM(ent) : b < e => b < w BY <4>1, <4>2, <2>3
        <4> QED BY <4>3, <3>2, <1>2 DEF Clear
      <3> QED BY <3>1, <3>2
    <2> QED BY <2>3, <2>6, <2>7, <2>8 DEF Fit
  <1> QED BY <1>12, <1>13

(* So is what pmfs picks, if the name has no whiteout.                     *)
LEMMA MergedFits ==
  ASSUME IInv, View = "no", F.wh = None, NEW x, x \in DM(ent) \/ (x \in Br /\ x <= F.start)
  PROVE  Fit(x)
  <1>0. Settled BY DEF IInv
  <1>1. CASE x \in DM(ent)
    <2>1. x \in Br /\ x <= x
      <3>1. x \in Br /\ x \in Nat BY <1>1, MergedBranches, BrIsNat
      <3> QED BY <3>1
    <2>2. Reaches(ent, x) BY <2>1, <1>1, UpReaches
    <2>3. Clear(ent, x) BY <1>0, NameInfo DEF Clear
    <2> QED BY <2>1, <2>2, <2>3 DEF Fit
  <1>2. CASE x \in Br /\ x <= F.start BY <1>0, <1>2, UpFits
  <1> QED BY <1>1, <1>2

(* Whatever the create policy.                                             *)
LEMMA CreatePolicyIs ==
  ASSUME IInv, NEW isdir, NEW s \in CreatePolicy(isdir)
  PROVE  /\ IsChoice(s)
         /\ pol.create = "tdp" => Usable(s.b)
         /\ View = "no" /\ ~Unseen /\ s.b \in rw => Fit(s.b)
  <1>0. Settled /\ rw \in SUBSET Br /\ None \notin rw BY BrIsNat DEF IInv
  <1>1. IsChoice(Same) BY SameIs
  <1>2. CASE pol.create = "tdp"
    <2>1. s = [Same EXCEPT !.b = Tdp] BY <1>2 DEF CreatePolicy
    <2>2. IsChoice(s) /\ s.b = Tdp BY <2>1, <1>1, ChoiceExcept
    <2>3. Usable(s.b) BY <2>2, TdpIs
    <2>4. s.b \in rw => Fit(s.b) BY <2>3, <1>0, UpFits DEF Usable
    <2> QED BY <2>2, <2>3, <2>4
  <1>3. CASE pol.create # "tdp"
    <2>1. pol.create \in {"rr", "mfs", "mfsrr", "pmfs", "pmfsrr"} BY <1>3, PoliciesAssumption DEF IInv
    <2>2. CASE pol.create \in {"rr", "mfs", "mfsrr"}
      <3>1. IsChoice(s) /\ Chosen(s.b)
        <4>1. CASE pol.create = "rr"
          <5>1. s \in Rr(Same, isdir) BY <4>1 DEF CreatePolicy
          <5> QED BY <5>1, <1>1, RrIs
        <4>2. CASE pol.create = "mfs"
          <5>1. s \in MfsPolicy(Same, FALSE) BY <4>2 DEF CreatePolicy
          <5> QED BY <5>1, <1>1, MfsPolicyIs
        <4>3. CASE pol.create = "mfsrr"
          <5>1. s \in MfsrrPolicy(Same, isdir, FALSE) BY <4>3 DEF CreatePolicy
          <5> QED BY <5>1, <1>1, MfsrrPolicyIs
        <4> QED BY <4>1, <4>2, <4>3, <2>2
      <3> QED BY <3>1, <1>3, ChosenFits
    <2>3. CASE pol.create \in {"pmfs", "pmfsrr"}
      <3>1. ~Unseen => F.wh = None BY <2>3 DEF Unseen
      <3>2. CASE \E parent : s \in PmfsPolicy(Same, parent)
        <4>1. IsChoice(s) /\ (s.b # None => s.b \in DM(ent) \/ (s.b \in Br /\ s.b <= F.start))
          BY <3>2, <1>1, PmfsPolicyIs
        <4> QED BY <4>1, <3>1, <1>0, <1>3, MergedFits
      <3>3. CASE ~\E parent : s \in PmfsPolicy(Same, parent)
        <4>1. pol.create = "pmfsrr" BY <3>3, <2>3 DEF CreatePolicy
        <4>2. s \in PmfsrrPolicy(Same, isdir) BY <4>1 DEF CreatePolicy
        <4>3. PICK t \in PmfsPolicy(Same, TRUE) : s \in MfsrrPolicy(t, isdir, FALSE) \/ s = t
          <5>1. PICK t \in PmfsPolicy(Same, TRUE) :
                  s \in (IF t.b # None /\ t.wb[t.b] < Watermark THEN MfsrrPolicy(t, isdir, FALSE) ELSE {t})
            BY <4>2, Zenon DEF PmfsrrPolicy
          <5> QED BY <5>1
        <4>4. s \in MfsrrPolicy(t, isdir, FALSE) BY <4>3, <3>3
        <4>5. IsChoice(t) BY <1>1, PmfsPolicyIs
        <4>6. IsChoice(s) /\ Chosen(s.b) BY <4>4, <4>5, MfsrrPolicyIs
        <4> QED BY <4>6, <1>3, ChosenFits
      <3> QED BY <3>2, <3>3
    <2> QED BY <2>1, <2>2, <2>3
  <1> QED BY <1>2, <1>3

(* au_wr_dir: the branch is writable, and the name written there is seen.  *)
LEMMA WrDirIs ==
  ASSUME IInv, NEW isdir, NEW s \in WrDir(isdir)
  PROVE  /\ IsChoice(s)
         /\ s.b # None => s.b \in rw /\ s.b \in Br
         /\ s.b = None => NoneUp
         /\ View = "no" /\ s.b # None /\ (pol.create = "tdp" \/ ~Unseen) => Fit(s.b)
         /\ s.b # None /\ pol.create = "tdp" => s.b <= F.start
  <1>0. Settled /\ rw \in SUBSET Br /\ None \notin rw BY BrIsNat DEF IInv
  <1>1. PICK a \in CreatePolicy(isdir) : s = IF a.b \notin rw THEN [a EXCEPT !.b = CopyupPolicy] ELSE a
    BY Zenon DEF WrDir
  <1>2. /\ IsChoice(a)
        /\ pol.create = "tdp" => Usable(a.b)
        /\ View = "no" /\ ~Unseen /\ a.b \in rw => Fit(a.b)
    BY <1>1, CreatePolicyIs
  <1>3. CASE a.b \in rw
    <2>1. s = a /\ a.b # None BY <1>0, <1>1, <1>3
    <2>2. pol.create = "tdp" => a.b <= F.start /\ Fit(a.b) BY <2>1, <1>0, <1>2, UpFits DEF Usable
    <2> QED BY <2>1, <2>2, <1>0, <1>2, <1>3
  <1>4. CASE a.b \notin rw
    <2>1. IsChoice(s) /\ s.b = CopyupPolicy BY <1>1, <1>2, <1>4, ChoiceExcept
    <2>2. Usable(s.b) /\ (s.b = None => NoneUp) BY <2>1, CopyupIs
    <2>3. s.b # None => Fit(s.b) BY <2>2, <1>0, UpFits DEF Usable
    <2> QED BY <2>1, <2>2, <2>3 DEF Usable
  <1> QED BY <1>3, <1>4


-----------------------------------------------------------------------------
(* What the operations do.                                                 *)

(* Only the files differ.                                                  *)
FilesOnly(e, e2) ==
  /\ e2 \in [Br -> Entry]
  /\ \A b \in Br : e2[b].g = e[b].g /\ e2[b].d = e[b].d

(* Then the directories are merged as before.                              *)
LEMMA SameMerged ==
  ASSUME NEW e, NEW e2, FilesOnly(e, e2)
  PROVE  DM(e2) = DM(e) /\ (HasParent(e2) <=> HasParent(e))
  <1>1. Col(e2, "g") = Col(e, "g") /\ Col(e2, "d") = Col(e, "d") BY DEF Col, FilesOnly
  <1>2. DM(e2) = DM(e) BY <1>1 DEF DM, GM
  <1>3. HasParent(e2) <=> HasParent(e) BY <1>1, Zenon DEF HasParent
  <1> QED BY <1>2, <1>3

(* A file is written or removed on branch t.                               *)
LEMMA FileSet ==
  ASSUME NEW e, Legal(e), HasParent(e), NEW t \in Br, NEW x \in FileCells,
         x # "no" => e[t].d \in Dirs \cup {"whdir"}
  PROVE  /\ Legal(SetCell(e, t, "f", x)) /\ HasParent(SetCell(e, t, "f", x))
         /\ Elsewhere(e, SetCell(e, t, "f", x), t) /\ FilesOnly(e, SetCell(e, t, "f", x))
         /\ SetCell(e, t, "f", x)[t].f = x
  <1>1. PICK e2 : e2 = SetCell(e, t, "f", x) OBVIOUS
  <1>2. e \in [Br -> Entry] BY DEF Legal
  <1>3. e2 \in [Br -> Entry] /\ Elsewhere(e, e2, t) /\ e2[t] = [g |-> e[t].g, d |-> e[t].d, f |-> x]
    BY <1>1, <1>2, SetF
  <1>4. e2[t].g = e[t].g /\ e2[t].d = e[t].d /\ e2[t].f = x BY <1>3
  <1>5. \A b \in Br : b # t => e2[b] = e[b] BY <1>3 DEF Elsewhere
  <1>6. FilesOnly(e, e2) BY <1>3, <1>4, <1>5 DEF FilesOnly
  <1>7. Legal(e2) BY <1>3, <1>4, <1>5 DEF Legal
  <1>8. HasParent(e2) BY <1>6, SameMerged
  <1> QED BY <1>1, <1>3, <1>4, <1>6, <1>7, <1>8

(* The dentries are looked up again.                                       *)
LEMMA Settles ==
  ASSUME NEW e, Legal(e), HasParent(e), Becomes(e)
  PROVE  Settled' /\ View' = Sight(e)
  <1>1. ent' = e /\ di' = Look(e) BY DEF Becomes
  <1>2. Settled' BY <1>1, Zenon DEF Settled
  <1>3. View' = Sight(e) BY <1>1, Zenon DEF View, F, Sight
  <1> QED BY <1>2, <1>3

(* The parents are seen to on branch t, and a new file may be written.     *)
LEMMA WriteOn ==
  ASSUME Settled, NEW t \in Br, NEW down \in BOOLEAN, NEW m, Parented(t, down, m),
         NEW e, e = m.e \/ (m.ok /\ e = SetCell(m.e, t, "f", New))
  PROVE  /\ Legal(e) /\ HasParent(e) /\ Elsewhere(ent, e, t)
         /\ /\ Fit(t) /\ m.ok /\ e = SetCell(m.e, t, "f", New)
            /\ ~down \/ (ent[t].g \notin Whs /\ ent[t].d \notin Whs)
            => Sight(e) = New
  <1>1. /\ Raised(ent, m.e, t)
        /\ ~down \/ (ent[t].g \notin Whs /\ ent[t].d \notin Whs) => Plain(ent, m.e, t)
        /\ m.ok => m.e[t].g \in Dirs \cup {"whdir"} /\ m.e[t].d \in Dirs \cup {"whdir"}
    BY ParentedIs DEF Settled
  <1>2. Legal(m.e) /\ HasParent(m.e) /\ Elsewhere(ent, m.e, t)
    BY <1>1, RaisedKeeps DEF Settled, Raised
  <1>3. New \in FileCells /\ New \in Data BY DEF FileCells, Data
  <1>4. CASE e = SetCell(m.e, t, "f", New) /\ m.ok
    <2>1. PICK e1 : e1 = m.e OBVIOUS
    <2>2. Legal(e) /\ HasParent(e) /\ Elsewhere(e1, e, t)
      BY <2>1, <1>1, <1>2, <1>3, <1>4, FileSet
    <2>3. Elsewhere(ent, e, t) BY <2>1, <2>2, <1>2 DEF Elsewhere
    <2>4. ASSUME Fit(t), ~down \/ (ent[t].g \notin Whs /\ ent[t].d \notin Whs)
          PROVE  Sight(e) = New
      <3>1. Plain(ent, e1, t) BY <2>1, <2>4, <1>1
      <3>2. Legal(ent) /\ Reaches(ent, t) /\ Clear(ent, t) BY <2>4 DEF Fit, Settled
      <3>3. e1[t].g \in Dirs \cup {"whdir"} /\ e1[t].d \in Dirs \cup {"whdir"} BY <2>1, <1>1, <1>4
      <3>4. Sight(SetCell(e1, t, "f", New)) = New BY <3>1, <3>2, <3>3, <1>3, WrittenShows
      <3> QED BY <3>4, <2>1, <1>4
    <2> QED BY <2>2, <2>3, <2>4
  <1>5. CASE ~(e = SetCell(m.e, t, "f", New) /\ m.ok) BY <1>2, <1>5
  <1> QED BY <1>4, <1>5

(* A create: what holds of the variables after it, and of its result.      *)
LEMMA CreateStep ==
  ASSUME IInv, NEW isdir \in BOOLEAN, Create(isdir)
  PROVE  /\ Settled' /\ wbytes' \in [Br -> Nat] /\ last'.op = "create"
         /\ \A b \in Br : ent'[b] # ent[b] => b \in rw
         /\ last'.res = "ok" /\ (pol.create = "tdp" \/ ~Unseen) => View' = New
         /\ last'.res = "EROFS" => NoneUp
  <1>0. Settled BY DEF IInv
  <1>1. View = "no" BY DEF Create
  <1>2. PICK s \in WrDir(isdir) :
          /\ wbytes' = s.wb
          /\ IF s.b = None THEN Ends("create", "EROFS", None) /\ UNCHANGED <<ent, di>>
             ELSE \E m \in ParentOn(s.b) :
                    IF m.ok /\ m.e[s.b].f \in {"no", "wh"}
                    THEN /\ Becomes(SetCell(m.e, s.b, "f", New)) /\ Ends("create", "ok", s.b)
                    ELSE /\ Becomes(m.e) /\ Ends("create", "EIO", s.b)
    BY DEF Create
  <1>3. /\ IsChoice(s)
        /\ s.b # None => s.b \in rw /\ s.b \in Br
        /\ s.b = None => NoneUp
        /\ s.b # None /\ (pol.create = "tdp" \/ ~Unseen) => Fit(s.b)
        /\ s.b # None /\ pol.create = "tdp" => s.b <= F.start
    BY <1>1, WrDirIs
  <1>4. wbytes' \in [Br -> Nat] BY <1>2, <1>3 DEF IsChoice
  <1>5. CASE s.b = None
    <2>1. last' = [op |-> "create", res |-> "EROFS", at |-> None] /\ ent' = ent /\ di' = di
      BY <1>2, <1>5 DEF Ends
    <2>2. Settled' BY <2>1, <1>0, Zenon DEF Settled
    <2> QED BY <2>1, <2>2, <1>3, <1>4, <1>5
  <1>6. CASE s.b # None
    <2>1. PICK t : t = s.b /\ t \in rw /\ t \in Br BY <1>3, <1>6
    <2>2. PICK m \in ParentOn(t) :
            IF m.ok /\ m.e[t].f \in {"no", "wh"}
            THEN Becomes(SetCell(m.e, t, "f", New)) /\ Ends("create", "ok", t)
            ELSE Becomes(m.e) /\ Ends("create", "EIO", t)
      BY <2>1, <1>2, <1>6
    <2>3. PICK down \in BOOLEAN : down <=> F.start < t OBVIOUS
    <2>4. Parented(t, down, m)
      <3>1. CASE t \in D.pos BY <3>1 DEF ParentOn, Parented
      <3>2. CASE t \notin D.pos
        <4>1. m \in CpDirs(t, F.start < t) BY <3>2 DEF ParentOn
        <4>2. (F.start < t) = down BY <2>3
        <4>3. m \in CpDirs(t, down) BY <4>1, <4>2
        <4> QED BY <4>3, <3>2 DEF Parented
      <3> QED BY <3>1, <3>2
    <2>5. ASSUME pol.create = "tdp" \/ ~Unseen
          PROVE  Fit(t) /\ (~down \/ (ent[t].g \notin Whs /\ ent[t].d \notin Whs))
      <3>1. Fit(t) BY <2>1, <2>5, <1>3, <1>6
      <3>2. CASE pol.create = "tdp"
        <4>1. t <= F.start /\ t \in Nat /\ F.start \in Nat
          BY <3>2, <2>1, <1>0, <1>3, <1>6, NameInfo, BrIsNat
        <4> QED BY <4>1, <3>1, <2>3
      <3>3. CASE ~Unseen BY <3>1, <3>3, <2>1 DEF Unseen
      <3> QED BY <3>2, <3>3, <2>5
    <2>6. CASE m.ok /\ m.e[t].f \in {"no", "wh"}
      <3>1. PICK e : e = SetCell(m.e, t, "f", New) OBVIOUS
      <3>2. Becomes(e) /\ Ends("create", "ok", t) BY <3>1, <2>2, <2>6
      <3>3. /\ Legal(e) /\ HasParent(e) /\ Elsewhere(ent, e, t)
            /\ (pol.create = "tdp" \/ ~Unseen) => Sight(e) = New
        BY <3>1, <2>1, <2>4, <2>5, <2>6, <1>0, WriteOn
      <3>4. Settled' /\ View' = Sight(e) BY <3>2, <3>3, Settles
      <3>5. last' = [op |-> "create", res |-> "ok", at |-> t] /\ ent' = e BY <3>2 DEF Ends, Becomes
      <3>6. last'.op = "create" /\ last'.res = "ok" BY <3>5
      <3>7. \A b \in Br : ent'[b] # ent[b] => b \in rw BY <3>3, <3>5, <2>1 DEF Elsewhere
      <3> QED BY <3>3, <3>4, <3>6, <3>7, <1>4
    <2>7. CASE ~(m.ok /\ m.e[t].f \in {"no", "wh"})
      <3>1. PICK e : e = m.e OBVIOUS
      <3>2. Becomes(e) /\ Ends("create", "EIO", t) BY <3>1, <2>2, <2>7
      <3>3. Legal(e) /\ HasParent(e) /\ Elsewhere(ent, e, t) BY <3>1, <2>1, <2>4, <1>0, WriteOn
      <3>4. Settled' BY <3>2, <3>3, Settles
      <3>5. last' = [op |-> "create", res |-> "EIO", at |-> t] /\ ent' = e BY <3>2 DEF Ends, Becomes
      <3>6. last'.op = "create" /\ last'.res = "EIO" BY <3>5
      <3>7. \A b \in Br : ent'[b] # ent[b] => b \in rw BY <3>3, <3>5, <2>1 DEF Elsewhere
      <3> QED BY <3>4, <3>6, <3>7, <1>4
    <2> QED BY <2>6, <2>7
  <1> QED BY <1>5, <1>6

(* A write of a file, copied up if its branch is read-only.                *)
LEMMA WriteStep ==
  ASSUME IInv, Write
  PROVE  /\ Settled' /\ last'.op = "write"
         /\ \A b \in Br : ent'[b] # ent[b] => b \in rw
         /\ last'.res = "ok" => View' = New
         /\ last'.res = "EROFS" => NoneUp
  <1>0. Settled /\ rw \in SUBSET Br BY DEF IInv
  <1>1. PICK t : t = IF F.start \in rw THEN F.start ELSE CopyupPolicy OBVIOUS
  <1>2. IF t = None THEN Ends("write", "EROFS", None) /\ UNCHANGED <<ent, di>>
        ELSE \E m \in (IF t \in D.pos THEN {[e |-> ent, ok |-> TRUE]} ELSE CpDirs(t, FALSE)) :
               IF m.ok THEN Becomes(SetCell(m.e, t, "f", New)) /\ Ends("write", "ok", t)
               ELSE Becomes(m.e) /\ Ends("write", "EIO", t)
    BY <1>1 DEF Write
  <1>3. F.start \in Br /\ F.start \in Nat /\ None \notin Br BY <1>0, NameInfo, BrIsNat
  <1>4. (t # None => t \in rw /\ t \in Br /\ t <= F.start) /\ (t = None => NoneUp)
    <2>1. CASE F.start \in rw BY <2>1, <1>1, <1>3
    <2>2. CASE F.start \notin rw BY <2>2, <1>1, CopyupIs DEF Usable
    <2> QED BY <2>1, <2>2
  <1>5. CASE t = None
    <2>1. last' = [op |-> "write", res |-> "EROFS", at |-> None] /\ ent' = ent /\ di' = di
      BY <1>2, <1>5 DEF Ends
    <2>2. Settled' BY <2>1, <1>0, Zenon DEF Settled
    <2> QED BY <2>1, <2>2, <1>4, <1>5
  <1>6. CASE t # None
    <2>1. PICK m \in (IF t \in D.pos THEN {[e |-> ent, ok |-> TRUE]} ELSE CpDirs(t, FALSE)) :
            IF m.ok THEN Becomes(SetCell(m.e, t, "f", New)) /\ Ends("write", "ok", t)
            ELSE Becomes(m.e) /\ Ends("write", "EIO", t)
      BY <1>2, <1>6
    <2>2. Parented(t, FALSE, m) BY <2>1 DEF Parented
    <2>3. t \in rw /\ t \in Br /\ Fit(t) BY <1>0, <1>4, <1>6, UpFits
    <2>4. CASE m.ok
      <3>1. PICK e : e = SetCell(m.e, t, "f", New) OBVIOUS
      <3>2. Becomes(e) /\ Ends("write", "ok", t) BY <3>1, <2>1, <2>4
      <3>3. Legal(e) /\ HasParent(e) /\ Elsewhere(ent, e, t) /\ Sight(e) = New
        BY <3>1, <2>2, <2>3, <2>4, <1>0, WriteOn
      <3>4. Settled' /\ View' = Sight(e) BY <3>2, <3>3, Settles
      <3>5. last' = [op |-> "write", res |-> "ok", at |-> t] /\ ent' = e BY <3>2 DEF Ends, Becomes
      <3>6. last'.op = "write" /\ last'.res = "ok" BY <3>5
      <3>7. \A b \in Br : ent'[b] # ent[b] => b \in rw BY <3>3, <3>5, <2>3 DEF Elsewhere
      <3> QED BY <3>3, <3>4, <3>6, <3>7
    <2>5. CASE ~m.ok
      <3>1. PICK e : e = m.e OBVIOUS
      <3>2. Becomes(e) /\ Ends("write", "EIO", t) BY <3>1, <2>1, <2>5
      <3>3. Legal(e) /\ HasParent(e) /\ Elsewhere(ent, e, t) BY <3>1, <2>2, <2>3, <1>0, WriteOn
      <3>4. Settled' BY <3>2, <3>3, Settles
      <3>5. last' = [op |-> "write", res |-> "EIO", at |-> t] /\ ent' = e BY <3>2 DEF Ends, Becomes
      <3>6. last'.op = "write" /\ last'.res = "EIO" BY <3>5
      <3>7. \A b \in Br : ent'[b] # ent[b] => b \in rw BY <3>3, <3>5, <2>3 DEF Elsewhere
      <3> QED BY <3>4, <3>6, <3>7
    <2> QED BY <2>4, <2>5
  <1> QED BY <1>5, <1>6

-----------------------------------------------------------------------------
(* Move-down.                                                              *)

(* What the search for something in between says: there is nothing.        *)
LEMMA Between ==
  ASSUME Settled, View \in Data, NEW fl, NEW bdst \in Br, MvdArgs(fl, bdst, TRUE)
  PROVE  /\ \A b \in DM(ent) : F.start < b /\ b < bdst => ent[b].f = "no"
         /\ F.start <= bdst => Reaches(ent, bdst)
            \/ \E b \in Br : ent[b].g \in Whs \/ ent[b].d \in Whs
  <1>0. ent \in [Br -> Entry] BY DEF Settled, Legal
  <1>1. PICK S : S = {b \in Merged(D) : b > F.start} OBVIOUS
  <1>2. PICK m : m = Dinfo(S, Col(ent, "f")) OBVIOUS
  <1>3. PICK l : l = Lower(TRUE) OBVIOUS
  <1>4. l = IF S = {} THEN [found |-> None, wh |-> None]
            ELSE [found |-> IF m.pos = {} THEN None ELSE m.start, wh |-> IF m.pos = {} THEN m.wh ELSE None]
    <2>1. l = IF ~TRUE \/ S = {} THEN [found |-> None, wh |-> None]
              ELSE [found |-> IF m.pos = {} THEN None ELSE m.start, wh |-> IF m.pos = {} THEN m.wh ELSE None]
      BY <1>1, <1>2, <1>3, Zenon DEF Lower
    <2> QED BY <2>1, Zenon
  <1>5. /\ NonOpq(bdst) = bdst /\ ~(D.opq # None /\ D.opq < bdst)
        /\ ~(l.found = None /\ l.wh # None /\ l.wh < bdst)
        /\ ~(l.found # None /\ l.found < bdst)
    BY <1>3, Zenon DEF MvdArgs
  <1>6. Merged(D) = DM(ent) /\ DM(ent) \in SUBSET Br /\ GM(ent) \in SUBSET Br
    BY ParentInfo, MergedBranches
  <1>7. \A b \in Br : b \in Nat /\ b # None BY BrIsNat
  <1>8. ASSUME NEW b \in DM(ent), F.start < b, b < bdst PROVE ent[b].f = "no"
    <2>1. S \in SUBSET Br /\ b \in S BY <1>1, <1>6, <1>8, NameInfo, <1>7
    <2>2. PICK c : c = Col(ent, "f") OBVIOUS
    <2>3. \A a \in Br : c[a] = ent[a].f /\ c[a] \in FileCells BY <1>0, <2>2, Columns
    <2>4. \A a \in S : c[a] \in FileCells BY <2>1, <2>3
    <2>5. /\ \A t : First(S, c, t) /\ c[t] \in Data => m.pos = {t} /\ m.start = t
          /\ \A t : First(S, c, t) /\ c[t] \in Whs => m.pos = {} /\ m.wh = t
      BY <2>1, <2>2, <2>4, <1>2, FileInfo
    <2>6. l = [found |-> IF m.pos = {} THEN None ELSE m.start, wh |-> IF m.pos = {} THEN m.wh ELSE None]
      BY <2>1, <1>4
    <2>7. l.found = (IF m.pos = {} THEN None ELSE m.start) /\ l.wh = (IF m.pos = {} THEN m.wh ELSE None)
      BY <2>6
    <2>8. SUFFICES ASSUME c[b] # "no" PROVE FALSE BY <2>1, <2>3
    <2>9. PICK t \in S : First(S, c, t) BY <2>1, <2>8, FirstOrNone
    <2>10. ~(b < t) /\ t \in Br /\ t \in Nat /\ b \in Nat /\ bdst \in Nat /\ t # None /\ c[t] # "no"
      BY <2>1, <2>8, <2>9, <1>7 DEF First
    <2>11. t < bdst BY <2>10, <1>8
    <2>12. c[t] \in Data \/ c[t] \in Whs BY <2>4, <2>9, <2>10 DEF FileCells, Whs
    <2>13. CASE c[t] \in Data
      <3>1. l.found = t BY <2>5, <2>7, <2>9, <2>13
      <3> QED BY <3>1, <2>10, <2>11, <1>5
    <2>14. CASE c[t] \in Whs
      <3>1. l.found = None /\ l.wh = t BY <2>5, <2>7, <2>9, <2>14
      <3> QED BY <3>1, <2>10, <2>11, <1>5
    <2> QED BY <2>12, <2>13, <2>14
  <1>9. ASSUME \A b \in Br : ent[b].g \notin Whs /\ ent[b].d \notin Whs PROVE Reaches(ent, bdst)
    <2>1. PICK g, d : g = Col(ent, "g") /\ d = Col(ent, "d") OBVIOUS
    <2>2. PICK P, O : P = Opaque(Br, g) /\ O = Opaque(GM(ent), d) OBVIOUS
    <2>3. G.opq = HighestOr(P, None) /\ D.opq = HighestOr(O, None) BY <2>1, <2>2, ParentInfo
    <2>4. P \in SUBSET Br /\ O \in SUBSET Br BY <2>2, <1>6, MrgSubset
    <2>5. \A b \in Br : g[b] \notin Whs /\ d[b] \notin Whs BY <2>1, <1>0, <1>9, Columns
    <2>6. P # {} => \E a \in P : bdst <= a
      <3> SUFFICES ASSUME P # {} PROVE bdst <= G.opq /\ G.opq \in P OBVIOUS
      <3>1. G.opq \in P /\ G.opq \in Nat /\ bdst \in Nat /\ bdst # None BY <2>3, <2>4, <1>7, Highest
      <3>2. ~(G.opq \in 0 .. bdst - 1)
        <4> SUFFICES ASSUME G.opq \in 0 .. bdst - 1 PROVE FALSE OBVIOUS
        <4>1. NonOpq(bdst) = G.opq BY <3>1 DEF NonOpq
        <4> QED BY <4>1, <3>1, <1>5
      <3> QED BY <3>1, <3>2
    <2>7. O # {} => \E a \in O : bdst <= a
      <3> SUFFICES ASSUME O # {} PROVE bdst <= D.opq /\ D.opq \in O OBVIOUS
      <3>1. D.opq \in O /\ D.opq \in Nat /\ bdst \in Nat /\ D.opq # None BY <2>3, <2>4, <1>7, Highest
      <3> QED BY <3>1, <1>5
    <2> QED BY <2>1, <2>2, <2>5, <2>6, <2>7, <1>6 DEF Reaches, Open
  <1> QED BY <1>8, <1>9

(* Making the parents somewhere, with no whiteout of them, changes nothing *)
(* of what is seen.                                                        *)
LEMMA PlainShows ==
  ASSUME Settled, View \in Data, NEW t \in Br, NEW e, Plain(ent, e, t)
  PROVE  /\ F.start \in DM(e) /\ e[F.start].f = View
         /\ \A a \in DM(e) : a < F.start => e[a].f = "no"
         /\ \A a \in DM(e) : a # t => a \in DM(ent) /\ e[a].f = ent[a].f
         /\ t \in DM(e) /\ t \notin DM(ent) => ent[t].f = "no"
  <1>1. View # "no" BY CellsApart
  <1>2. F.start \in DM(ent) /\ F.start \in Br /\ Clear(ent, F.start) /\ ent[F.start].f = View
    BY <1>1, NameInfo
  <1>3. DM(ent) \subseteq DM(e) BY RaisedKeeps DEF Plain, Settled
  <1>4. DM(e) \subseteq DM(ent) \cup {t} /\ (t \in DM(e) /\ t \notin DM(ent) => ent[t].f = "no")
    BY PlainKeeps DEF Settled
  <1>5. \A b \in Br : e[b].f = ent[b].f BY DEF Plain, Raised, Elsewhere
  <1>6. DM(e) \in SUBSET Br BY MergedBranches
  <1> QED BY <1>2, <1>3, <1>4, <1>5, <1>6 DEF Clear

(* What is on the lowest merged branch that has anything is seen.          *)
LEMMA Shows ==
  ASSUME NEW e, e \in [Br -> Entry], NEW t \in DM(e), e[t].f \in Data,
         \A a \in DM(e) : a < t => e[a].f = "no"
  PROVE  Sight(e) = e[t].f
  <1>1. DM(e) \in SUBSET Br BY MergedBranches
  <1>2. \A b \in Br : Col(e, "f")[b] = e[b].f BY Columns
  <1>3. First(DM(e), Col(e, "f"), t) BY <1>1, <1>2, CellsApart DEF First
  <1> QED BY <1>3, SightIs

(* The outcomes of the move itself.                                        *)
LEMMA Outcomes ==
  ASSUME NEW e, NEW fl, NEW bsrc, NEW bdst, NEW r \in DoMvdown(e, fl, bsrc, bdst)
  PROVE  \/ r.e = e
         \/ /\ bdst # bsrc
            /\ \/ e[bdst].f \in Whs /\ r.e = SetCell(e, bdst, "f", "whfile")
               \/ r.e = SetCell(e, bdst, "f", e[bsrc].f)
               \/ r.e = SetCell(SetCell(e, bdst, "f", e[bsrc].f), bsrc, "f", "no")
  <1>1. PICK d, old : d = e[bsrc].f /\ old = e[bdst].f OBVIOUS
  <1>2. PICK x : x = IF old \in Whs THEN "whfile" ELSE d OBVIOUS
  <1>3. PICK cp, wh : cp = SetCell(e, bdst, "f", x) /\ wh = SetCell(e, bdst, "f", d) OBVIOUS
  <1>4. PICK fin : fin = SetCell(wh, bsrc, "f", "no") OBVIOUS
  <1>5. r \in (IF bdst = bsrc \/ (old \in Data \cup {"whfile"} /\ ~fl.ow) THEN {[e |-> e, ok |-> FALSE]}
               ELSE {[e |-> e, ok |-> FALSE], [e |-> cp, ok |-> FALSE], [e |-> wh, ok |-> FALSE],
                     [e |-> IF fl.ku THEN wh ELSE fin, ok |-> TRUE]})
    BY <1>1, <1>2, <1>3, <1>4, Zenon DEF DoMvdown
  <1>6. r.e = e \/ (bdst # bsrc /\ (r.e = cp \/ r.e = wh \/ r.e = fin)) BY <1>5
  <1>7. cp = wh \/ (old \in Whs /\ cp = SetCell(e, bdst, "f", "whfile"))
    <2>1. CASE old \in Whs
      <3>1. x = "whfile" BY <2>1, <1>2
      <3> QED BY <3>1, <2>1, <1>3
    <2>2. CASE old \notin Whs
      <3>1. x = d BY <2>2, <1>2
      <3> QED BY <3>1, <1>3
    <2> QED BY <2>1, <2>2
  <1> QED BY <1>1, <1>3, <1>4, <1>6, <1>7

(* A file that is copied down, and its upper one kept or removed.          *)
LEMMA MovedShows ==
  ASSUME NEW e, Legal(e), HasParent(e), NEW bsrc \in Br, NEW bdst \in Br, bdst # bsrc,
         e[bsrc].f \in Data, e[bdst].d \in Dirs \cup {"whdir"}, NEW e2,
         \/ e[bdst].f \in Whs /\ e2 = SetCell(e, bdst, "f", "whfile")
         \/ e2 = SetCell(e, bdst, "f", e[bsrc].f)
         \/ e2 = SetCell(SetCell(e, bdst, "f", e[bsrc].f), bsrc, "f", "no")
  PROVE  /\ Legal(e2) /\ HasParent(e2)
         /\ /\ bsrc \in DM(e) /\ bdst \in DM(e)
            /\ \A a \in DM(e) : a < bsrc \/ (a # bsrc /\ a < bdst) => e[a].f = "no"
            => Sight(e2) = e[bsrc].f
  <1>1. PICK v : v = e[bsrc].f OBVIOUS
  <1>2. v \in FileCells /\ "whfile" \in FileCells /\ "no" \in FileCells /\ v \in Data /\ v # "no"
    BY <1>1, CellsApart DEF FileCells
  <1>3. \A b \in Br : b \in Nat BY BrIsNat
  <1>4. DM(e) \in SUBSET Br BY MergedBranches
  <1>5. ASSUME NEW x \in FileCells, e2 = SetCell(e, bdst, "f", x), x = v \/ e[bdst].f \in Whs
        PROVE  /\ Legal(e2) /\ HasParent(e2)
               /\ /\ bsrc \in DM(e) /\ bdst \in DM(e)
                  /\ \A a \in DM(e) : a < bsrc \/ (a # bsrc /\ a < bdst) => e[a].f = "no"
                  => Sight(e2) = v
    <2>1. /\ Legal(e2) /\ HasParent(e2) /\ Elsewhere(e, e2, bdst) /\ FilesOnly(e, e2) /\ e2[bdst].f = x
      BY <1>5, FileSet
    <2>2. DM(e2) = DM(e) /\ e2 \in [Br -> Entry] BY <2>1, SameMerged DEF Legal
    <2>3. ASSUME bsrc \in DM(e), bdst \in DM(e),
                 \A a \in DM(e) : a < bsrc \/ (a # bsrc /\ a < bdst) => e[a].f = "no"
          PROVE  Sight(e2) = v
      <3>1. \A a \in Br : a # bdst => e2[a].f = e[a].f BY <2>1 DEF Elsewhere
      <3>2. CASE bsrc < bdst
        <4>1. \A a \in DM(e2) : a < bsrc => e2[a].f = "no" BY <3>1, <3>2, <2>2, <2>3, <1>3, <1>4
        <4>2. e2[bsrc].f = v /\ bsrc \in DM(e2) BY <3>1, <2>2, <2>3, <1>1
        <4>3. Sight(e2) = e2[bsrc].f BY <4>1, <4>2, <2>2, <1>2, Shows
        <4> QED BY <4>2, <4>3
      <3>3. CASE bdst < bsrc
        <4>1. e[bdst].f = "no" BY <3>3, <2>3
        <4>2. x = v BY <4>1, <1>5, CellsApart
        <4>3. \A a \in DM(e2) : a < bdst => e2[a].f = "no" BY <3>1, <3>3, <2>2, <2>3, <1>3, <1>4
        <4>4. e2[bdst].f = v /\ bdst \in DM(e2) BY <4>2, <2>1, <2>2, <2>3
        <4>5. Sight(e2) = e2[bdst].f BY <4>3, <4>4, <2>2, <1>2, Shows
        <4> QED BY <4>4, <4>5
      <3> QED BY <3>2, <3>3, <1>3
    <2> QED BY <2>1, <2>3
  <1>6. ASSUME NEW e1, e1 = SetCell(e, bdst, "f", v), e2 = SetCell(e1, bsrc, "f", "no")
        PROVE  /\ Legal(e2) /\ HasParent(e2)
               /\ /\ bsrc \in DM(e) /\ bdst \in DM(e)
                  /\ \A a \in DM(e) : a < bsrc \/ (a # bsrc /\ a < bdst) => e[a].f = "no"
                  => Sight(e2) = v
    <2>1. /\ Legal(e1) /\ HasParent(e1) /\ Elsewhere(e, e1, bdst) /\ FilesOnly(e, e1) /\ e1[bdst].f = v
      BY <1>2, <1>6, FileSet
    <2>2. /\ Legal(e2) /\ HasParent(e2) /\ Elsewhere(e1, e2, bsrc) /\ FilesOnly(e1, e2) /\ e2[bsrc].f = "no"
      BY <2>1, <1>2, <1>6, FileSet
    <2>3. DM(e2) = DM(e) /\ e2 \in [Br -> Entry] BY <2>1, <2>2, SameMerged DEF Legal
    <2>4. ASSUME bsrc \in DM(e), bdst \in DM(e),
                 \A a \in DM(e) : a < bsrc \/ (a # bsrc /\ a < bdst) => e[a].f = "no"
          PROVE  Sight(e2) = v
      <3>1. \A a \in Br : a # bdst /\ a # bsrc => e2[a].f = e[a].f BY <2>1, <2>2 DEF Elsewhere
      <3>2. e2[bdst].f = v BY <2>1, <2>2 DEF Elsewhere
      <3>3. ASSUME NEW a \in DM(e2), a < bdst PROVE e2[a].f = "no"
        <4>1. a \in DM(e) /\ a \in Br /\ a # bdst BY <3>3, <2>3, <1>3, <1>4
        <4>2. CASE a = bsrc BY <4>2, <2>2
        <4>3. CASE a # bsrc BY <4>1, <4>3, <3>1, <3>3, <2>4
        <4> QED BY <4>2, <4>3
      <3>4. Sight(e2) = e2[bdst].f BY <3>2, <3>3, <2>3, <2>4, <1>2, Shows
      <3> QED BY <3>2, <3>4
    <2> QED BY <2>2, <2>4
  <1>7. CASE e[bdst].f \in Whs /\ e2 = SetCell(e, bdst, "f", "whfile") BY <1>1, <1>2, <1>5, <1>7
  <1>8. CASE e2 = SetCell(e, bdst, "f", e[bsrc].f) BY <1>1, <1>2, <1>5, <1>8
  <1>9. CASE e2 = SetCell(SetCell(e, bdst, "f", e[bsrc].f), bsrc, "f", "no")
    <2>1. PICK e1 : e1 = SetCell(e, bdst, "f", v) OBVIOUS
    <2>2. e2 = SetCell(e1, bsrc, "f", "no") BY <2>1, <1>1, <1>9
    <2> QED BY <2>1, <2>2, <1>1, <1>6
  <1> QED BY <1>7, <1>8, <1>9

(* Where the look-up of what is in between worked, and no directory has a  *)
(* whiteout, the parents and the move leave what is seen.                  *)
LEMMA MoveShows ==
  ASSUME Settled, View \in Data, NEW fl, NEW bdst \in Br, NEW lkup \in BOOLEAN, MvdArgs(fl, bdst, lkup),
         NEW m, Parented(bdst, TRUE, m),
         NEW e, e = m.e \/ (m.ok /\ \E r \in DoMvdown(m.e, fl, F.start, bdst) : e = r.e)
  PROVE  /\ Legal(e) /\ HasParent(e)
         /\ lkup /\ ~(\E b \in Br : ent[b].g \in Whs \/ ent[b].d \in Whs) => Sight(e) = View
  <1>1. /\ Raised(ent, m.e, bdst)
        /\ ent[bdst].g \notin Whs /\ ent[bdst].d \notin Whs => Plain(ent, m.e, bdst)
        /\ m.ok => m.e[bdst].g \in Dirs \cup {"whdir"} /\ m.e[bdst].d \in Dirs \cup {"whdir"}
    BY ParentedIs DEF Settled
  <1>2. PICK e1, s : e1 = m.e /\ s = F.start OBVIOUS
  <1>3. Legal(e1) /\ HasParent(e1) /\ e1 \in [Br -> Entry]
    BY <1>1, <1>2, RaisedKeeps DEF Settled, Raised, Legal
  <1>4. s \in Br /\ s \in DM(ent) /\ ent[s].f = View BY <1>2, NameInfo, CellsApart
  <1>5. e1[s].f = View BY <1>1, <1>2, <1>4 DEF Raised, Elsewhere
  <1>6. CASE e = e1
    <2>1. ASSUME ~(\E b \in Br : ent[b].g \in Whs \/ ent[b].d \in Whs) PROVE Sight(e) = View
      <3>1. Plain(ent, e1, bdst) BY <2>1, <1>1, <1>2
      <3>2. s \in DM(e1) /\ \A a \in DM(e1) : a < s => e1[a].f = "no" BY <3>1, <1>2, PlainShows
      <3>3. Sight(e1) = e1[s].f BY <3>2, <1>3, <1>5, Shows
      <3> QED BY <3>3, <1>5, <1>6
    <2> QED BY <2>1, <1>3, <1>6
  <1>7. CASE e # e1
    <2>1. PICK r \in DoMvdown(e1, fl, s, bdst) : e = r.e BY <1>2, <1>7
    <2>2. /\ bdst # s
          /\ \/ e1[bdst].f \in Whs /\ e = SetCell(e1, bdst, "f", "whfile")
             \/ e = SetCell(e1, bdst, "f", e1[s].f)
             \/ e = SetCell(SetCell(e1, bdst, "f", e1[s].f), s, "f", "no")
      BY <2>1, <1>7, Outcomes
    <2>3. m.ok /\ e1[bdst].g \in Dirs \cup {"whdir"} /\ e1[bdst].d \in Dirs \cup {"whdir"}
      BY <1>1, <1>2, <1>7
    <2>4. /\ Legal(e) /\ HasParent(e)
          /\ /\ s \in DM(e1) /\ bdst \in DM(e1)
             /\ \A a \in DM(e1) : a < s \/ (a # s /\ a < bdst) => e1[a].f = "no"
             => Sight(e) = e1[s].f
      BY <2>2, <2>3, <1>3, <1>4, <1>5, MovedShows
    <2>5. ASSUME lkup, ~(\E b \in Br : ent[b].g \in Whs \/ ent[b].d \in Whs)
          PROVE  /\ s \in DM(e1) /\ bdst \in DM(e1)
                 /\ \A a \in DM(e1) : a < s \/ (a # s /\ a < bdst) => e1[a].f = "no"
      <3>1. Plain(ent, e1, bdst) BY <2>5, <1>1, <1>2
      <3>2. /\ s \in DM(e1)
            /\ \A a \in DM(e1) : a < s => e1[a].f = "no"
            /\ \A a \in DM(e1) : a # bdst => a \in DM(ent) /\ e1[a].f = ent[a].f
        BY <3>1, <1>2, PlainShows
      <3>3. MvdArgs(fl, bdst, TRUE)
        <4>1. lkup = TRUE BY <2>5
        <4> QED BY <4>1
      <3>4. /\ \A b \in DM(ent) : s < b /\ b < bdst => ent[b].f = "no"
            /\ s <= bdst => Reaches(ent, bdst)
        BY <3>3, <2>5, <1>2, Between
      <3>5. \A b \in Br : b \in Nat BY BrIsNat
      <3>6. Reaches(ent, bdst)
        <4>1. CASE s <= bdst BY <4>1, <3>4
        <4>2. CASE bdst <= s BY <4>2, <1>2, UpFits DEF Fit
        <4> QED BY <4>1, <4>2, <3>5, <1>4
      <3>7. bdst \in DM(e1) BY <3>1, <3>6, <2>3, Reached DEF Settled
      <3>8. ASSUME NEW a \in DM(e1), a # s, a < bdst, ~(a < s) PROVE e1[a].f = "no"
        <4>1. a \in Br BY MergedBranches
        <4>2. a # bdst /\ s < a BY <4>1, <3>5, <3>8, <1>4
        <4> QED BY <4>2, <3>2, <3>4, <3>8
      <3> QED BY <3>2, <3>7, <3>8
    <2> QED BY <2>4, <2>5, <1>5
  <1> QED BY <1>6, <1>7

(* A move-down: what holds of the variables after it, and what is seen.    *)
LEMMA MvdownStep ==
  ASSUME IInv, NEW lkup \in BOOLEAN, Mvdown(lkup)
  PROVE  /\ Settled' /\ last'.op = (IF lkup THEN "mvdown" ELSE "mvdownBlind") /\ last'.res # "EROFS"
         /\ last'.op = "mvdown" /\ ~(\E b \in Br : ent[b].g \in Whs \/ ent[b].d \in Whs) => View' = View
  <1>0. Settled /\ View \in Data BY DEF IInv, Mvdown
  <1>1. PICK op : op = IF lkup THEN "mvdown" ELSE "mvdownBlind" OBVIOUS
  <1>2. op = "mvdown" => lkup BY <1>1
  <1>3. PICK fl \in MvdFlags : \E bdst \in (IF fl.to = "brid" THEN Br ELSE {FindLower(fl.to)}) :
          IF ~MvdArgs(fl, bdst, lkup) THEN Ends(op, "EINVAL", None) /\ UNCHANGED <<ent, di>>
          ELSE \E m \in (IF bdst \in D.pos THEN {[e |-> ent, ok |-> TRUE]} ELSE CpDirs(bdst, TRUE)) :
                 IF ~m.ok THEN Becomes(m.e) /\ Ends(op, "EIO", bdst)
                 ELSE \E r \in DoMvdown(m.e, fl, F.start, bdst) :
                        Becomes(r.e) /\ Ends(op, IF r.ok THEN "ok" ELSE "EIO", bdst)
    BY <1>1, Zenon DEF Mvdown
  <1>4. PICK bdst \in (IF fl.to = "brid" THEN Br ELSE {FindLower(fl.to)}) :
          IF ~MvdArgs(fl, bdst, lkup) THEN Ends(op, "EINVAL", None) /\ UNCHANGED <<ent, di>>
          ELSE \E m \in (IF bdst \in D.pos THEN {[e |-> ent, ok |-> TRUE]} ELSE CpDirs(bdst, TRUE)) :
                 IF ~m.ok THEN Becomes(m.e) /\ Ends(op, "EIO", bdst)
                 ELSE \E r \in DoMvdown(m.e, fl, F.start, bdst) :
                        Becomes(r.e) /\ Ends(op, IF r.ok THEN "ok" ELSE "EIO", bdst)
    BY <1>3, Zenon
  <1>5. CASE ~MvdArgs(fl, bdst, lkup)
    <2>1. Ends(op, "EINVAL", None) /\ ent' = ent /\ di' = di BY <1>4, <1>5
    <2>2. Settled' /\ View' = View BY <2>1, <1>0, Zenon DEF Settled, View, F
    <2>3. last'.op = op /\ last'.res = "EINVAL" BY <2>1 DEF Ends
    <2> QED BY <2>2, <2>3, <1>1
  <1>6. CASE MvdArgs(fl, bdst, lkup)
    <2>1. bdst \in Br
      <3>1. bdst # None BY <1>6, Zenon DEF MvdArgs
      <3>2. CASE fl.to = "brid" BY <3>2, <1>4
      <3>3. CASE fl.to # "brid"
        <4>1. PICK S : FindLower(fl.to) = LowestOr(S, None) /\ S \in SUBSET Br
          <5>1. PICK S : S = {b \in Br : b > F.start /\ CASE fl.to = "fhsm" -> b \in FhsmBr \ NativeRo
                                                           [] fl.to = "rw"   -> b \in rw
                                                           [] fl.to = "any"  -> b \notin NativeRo}
            OBVIOUS
          <5>2. S \in SUBSET Br BY <5>1
          <5>3. FindLower(fl.to) = LowestOr(S, None) BY <5>1, Zenon DEF FindLower
          <5> QED BY <5>2, <5>3
        <4>2. bdst = LowestOr(S, None) BY <4>1, <3>3, <1>4
        <4> QED BY <4>1, <4>2, <3>1, Lowest
      <3> QED BY <3>2, <3>3
    <2>2. PICK m \in (IF bdst \in D.pos THEN {[e |-> ent, ok |-> TRUE]} ELSE CpDirs(bdst, TRUE)) :
            IF ~m.ok THEN Becomes(m.e) /\ Ends(op, "EIO", bdst)
            ELSE \E r \in DoMvdown(m.e, fl, F.start, bdst) :
                   Becomes(r.e) /\ Ends(op, IF r.ok THEN "ok" ELSE "EIO", bdst)
      BY <1>4, <1>6, Zenon
    <2>3. Parented(bdst, TRUE, m) BY <2>2 DEF Parented
    <2>4. PICK e, res : /\ Becomes(e) /\ Ends(op, res, bdst) /\ res \in {"ok", "EIO"}
                        /\ e = m.e \/ (m.ok /\ \E r \in DoMvdown(m.e, fl, F.start, bdst) : e = r.e)
      <3>1. CASE ~m.ok BY <3>1, <2>2
      <3>2. CASE m.ok
        <4>1. PICK r \in DoMvdown(m.e, fl, F.start, bdst) :
                Becomes(r.e) /\ Ends(op, IF r.ok THEN "ok" ELSE "EIO", bdst)
          BY <3>2, <2>2
        <4>2. PICK res : res = IF r.ok THEN "ok" ELSE "EIO" OBVIOUS
        <4>3. Ends(op, res, bdst) /\ res \in {"ok", "EIO"} BY <4>1, <4>2
        <4> QED BY <4>1, <4>3, <3>2
      <3> QED BY <3>1, <3>2
    <2>5. /\ Legal(e) /\ HasParent(e)
          /\ lkup /\ ~(\E b \in Br : ent[b].g \in Whs \/ ent[b].d \in Whs) => Sight(e) = View
      BY <2>1, <2>3, <2>4, <1>0, <1>6, MoveShows
    <2>6. Settled' /\ View' = Sight(e) BY <2>4, <2>5, Settles
    <2>7. last'.op = op /\ last'.res \in {"ok", "EIO"} BY <2>4 DEF Ends
    <2>8. last'.res # "EROFS" BY <2>7
    <2> QED BY <2>5, <2>6, <2>7, <2>8, <1>1, <1>2
  <1> QED BY <1>5, <1>6

-----------------------------------------------------------------------------
(* The invariant and the theorems.                                         *)

(* IInv holds at first: what a branch holds is a tree.                     *)
LEMMA InitIInv == Init => IInv
  <1> SUFFICES ASSUME Init PROVE IInv OBVIOUS
  <1>1. /\ ent \in [Br -> UNION {Layouts(b) : b \in Br}] /\ \A b \in Br : ent[b] \in Layouts(b)
        /\ HasParent(ent) /\ di = Look(ent)
    BY DEF Init
  <1>2. ASSUME NEW b \in Br
        PROVE  /\ ent[b] \in Entry
               /\ ent[b].f # "no" => ent[b].d \in Dirs
               /\ ent[b].d # "no" => ent[b].g \in Dirs \cup {"whdir"}
    <2>1. PICK l : l = ent[b] /\ l \in Layouts(b) BY <1>1
    <2>2. /\ l \in [g : {"no", "wh"} \cup Dirs, d : {"no", "wh"} \cup Dirs, f : {"no", "wh", Old[b]}]
          /\ l.f # "no" => l.d \in Dirs
          /\ l.d # "no" => l.g \in Dirs
      BY <2>1, LayoutsAssumption
    <2>3. {"no", "wh", Old[b]} \subseteq FileCells BY DEF FileCells, Data
    <2>4. {"no", "wh"} \cup Dirs \subseteq DirCells BY DEF DirCells, Whs
    <2>5. l \in Entry BY <2>2, <2>3, <2>4 DEF Entry
    <2> QED BY <2>1, <2>2, <2>5
  <1>3. Legal(ent) BY <1>1, <1>2 DEF Legal
  <1>4. rw \in SUBSET Br BY DEF Init
  <1>5. free \in [Br -> Bytes] BY FreeAssumption DEF Init, Br
  <1>6. wbytes \in [Br -> Nat] BY DEF Init
  <1>7. pol \in [create : Policies \cup {"tdp"}, copyup : {"tdp", "bup", "bu"}] BY DEF Init
  <1> QED BY <1>1, <1>3, <1>4, <1>5, <1>6, <1>7 DEF IInv, Settled

(* Setting a policy, a branch filling up, time and a change of permissions *)
(* do not touch the entries, and are no operations on them.                *)
LEMMA OtherStep ==
  ASSUME IInv, SetCreate \/ SpaceChanges \/ MfsExpires \/ ModBranch
  PROVE  IInv' /\ last'.op \notin {"create", "write", "mvdown"} /\ last'.res = "ok"
  <1>1. ent' = ent /\ di' = di /\ wbytes' = wbytes
    BY DEF SetCreate, SpaceChanges, MfsExpires, ModBranch
  <1>2. Settled' BY <1>1, Zenon DEF IInv, Settled
  <1>3. CASE SetCreate
    <2>1. PICK c \in Policies : pol' = [pol EXCEPT !.create = c] BY <1>3 DEF SetCreate
    <2>2. pol' \in [create : Policies \cup {"tdp"}, copyup : {"tdp", "bup", "bu"}] BY <2>1 DEF IInv
    <2>3. rw' = rw /\ free' = free /\ last' = [op |-> "option", res |-> "ok", at |-> None]
      BY <1>3 DEF SetCreate, Ends
    <2> QED BY <2>2, <2>3, <1>1, <1>2 DEF IInv
  <1>4. CASE SpaceChanges
    <2>1. rw' = rw /\ pol' = pol /\ last' = [op |-> "space", res |-> "ok", at |-> None]
      BY <1>4 DEF SpaceChanges, Ends
    <2>2. free' \in [Br -> Bytes] BY <1>4 DEF SpaceChanges, IInv
    <2> QED BY <2>1, <2>2, <1>1, <1>2 DEF IInv
  <1>5. CASE MfsExpires
    <2>1. rw' = rw /\ pol' = pol /\ free' = free /\ last' = [op |-> "time", res |-> "ok", at |-> None]
      BY <1>5 DEF MfsExpires, Ends
    <2> QED BY <2>1, <1>1, <1>2 DEF IInv
  <1>6. CASE ModBranch
    <2>1. free' = free /\ pol' = pol /\ last' = [op |-> "mod", res |-> "ok", at |-> None]
      BY <1>6 DEF ModBranch, Ends
    <2>2. rw' \in SUBSET Br BY <1>6 DEF ModBranch, IInv
    <2> QED BY <2>1, <2>2, <1>1, <1>2 DEF IInv
  <1> QED BY <1>3, <1>4, <1>5, <1>6

(* IInv is kept by every step.                                             *)
LEMMA NextIInv == IInv /\ [Next]_vars => IInv'
  <1> SUFFICES ASSUME IInv, [Next]_vars PROVE IInv' OBVIOUS
  <1>1. CASE SetCreate \/ SpaceChanges \/ MfsExpires \/ ModBranch BY <1>1, OtherStep
  <1>2. ASSUME NEW isdir \in BOOLEAN, Create(isdir) PROVE IInv'
    <2>1. Settled' /\ wbytes' \in [Br -> Nat] BY <1>2, CreateStep
    <2>2. rw' = rw /\ free' = free /\ pol' = pol BY <1>2 DEF Create
    <2> QED BY <2>1, <2>2 DEF IInv
  <1>3. CASE Write
    <2>1. Settled' BY <1>3, WriteStep
    <2>2. rw' = rw /\ free' = free /\ pol' = pol /\ wbytes' = wbytes BY <1>3 DEF Write, choice
    <2> QED BY <2>1, <2>2 DEF IInv
  <1>4. ASSUME NEW lkup \in BOOLEAN, Mvdown(lkup) PROVE IInv'
    <2>1. Settled' BY <1>4, MvdownStep
    <2>2. rw' = rw /\ free' = free /\ pol' = pol /\ wbytes' = wbytes BY <1>4, Zenon DEF Mvdown, choice
    <2> QED BY <2>1, <2>2 DEF IInv
  <1>5. CASE UNCHANGED vars
    <2>1. ent' = ent /\ di' = di /\ rw' = rw /\ free' = free /\ wbytes' = wbytes /\ pol' = pol
      BY <1>5 DEF vars
    <2>2. Settled' BY <2>1, Zenon DEF IInv, Settled
    <2> QED BY <2>1, <2>2 DEF IInv
  <1> QED BY <1>1, <1>2, <1>3, <1>4, <1>5 DEF Next

(* Between two operations every branch holds a tree, the directories are   *)
(* there, the dentries remember what is on the branches, and the policies  *)
(* remember free space of branches only.                                   *)
THEOREM WbrInvariant == Spec => []IInv
  <1> QED BY InitIInv, NextIInv, PTL DEF Spec

(* A create or a write never touches a read-only branch, whatever policy   *)
(* chose it and whatever the policy remembered (au_wr_dir asks again), and *)
(* what it put there is what the union shows afterwards, unless a policy   *)
(* other than tdp overlooked a mark that hides it.                         *)
THEOREM TargetAlwaysVisible == Spec => TargetVisible
  <1> DEFINE A == last'.op \in {"create", "write"} =>
                    /\ \A b \in Br : ent'[b] # ent[b] => b \in rw
                    /\ last'.res = "ok" /\ (pol.create = "tdp" \/ ~Unseen) => View' = New
  <1>1. IInv /\ [Next]_vars => [A]_vars
    <2> SUFFICES ASSUME IInv, Next PROVE A OBVIOUS
    <2>1. CASE SetCreate \/ SpaceChanges \/ MfsExpires \/ ModBranch BY <2>1, OtherStep
    <2>2. ASSUME NEW isdir \in BOOLEAN, Create(isdir) PROVE A BY <2>2, CreateStep
    <2>3. CASE Write BY <2>3, WriteStep
    <2>4. ASSUME NEW lkup \in BOOLEAN, Mvdown(lkup) PROVE A BY <2>4, MvdownStep
    <2> QED BY <2>1, <2>2, <2>3, <2>4 DEF Next
  <1> QED BY WbrInvariant, <1>1, PTL DEF Spec, TargetVisible

(* EROFS is answered only when no branch from the top down to the one the  *)
(* name was looked up on is writable, and, with bup, has the directory:    *)
(* the last resort of au_wr_dir finds one whenever there is one.           *)
THEOREM RofsOnlyIfNoneAlways == Spec => RofsOnlyIfNone
  <1> DEFINE A == last'.res = "EROFS" => NoneUp
  <1>1. IInv /\ [Next]_vars => [A]_vars
    <2> SUFFICES ASSUME IInv, Next PROVE A OBVIOUS
    <2>1. CASE SetCreate \/ SpaceChanges \/ MfsExpires \/ ModBranch BY <2>1, OtherStep
    <2>2. ASSUME NEW isdir \in BOOLEAN, Create(isdir) PROVE A BY <2>2, CreateStep
    <2>3. CASE Write BY <2>3, WriteStep
    <2>4. ASSUME NEW lkup \in BOOLEAN, Mvdown(lkup) PROVE A BY <2>4, MvdownStep
    <2> QED BY <2>1, <2>2, <2>3, <2>4 DEF Next
  <1>2. [][A]_vars => RofsOnlyIfNone BY PTL DEF RofsOnlyIfNone, NoneUp
  <1> QED BY WbrInvariant, <1>1, <1>2, PTL DEF Spec

(* A move-down, completed or given up half-way, does not change what is    *)
(* read, if the search for something in between was answered and no parent *)
(* directory has a whiteout.                                               *)
THEOREM MoveAlwaysKeepsView == Spec => MoveKeepsView
  <1> DEFINE A == last'.op = "mvdown" /\ ~(\E b \in Br : ent[b].g \in Whs \/ ent[b].d \in Whs)
                    => View' = View
  <1>1. IInv /\ [Next]_vars => [A]_vars
    <2> SUFFICES ASSUME IInv, Next PROVE A OBVIOUS
    <2>1. CASE SetCreate \/ SpaceChanges \/ MfsExpires \/ ModBranch BY <2>1, OtherStep
    <2>2. ASSUME NEW isdir \in BOOLEAN, Create(isdir) PROVE A BY <2>2, CreateStep
    <2>3. CASE Write BY <2>3, WriteStep
    <2>4. ASSUME NEW lkup \in BOOLEAN, Mvdown(lkup) PROVE A BY <2>4, MvdownStep
    <2> QED BY <2>1, <2>2, <2>3, <2>4 DEF Next
  <1> QED BY WbrInvariant, <1>1, PTL DEF Spec, MoveKeepsView
=============================================================================
