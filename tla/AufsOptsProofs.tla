--------------------------- MODULE AufsOptsProofs ---------------------------
(***************************************************************************)
(* What mounts and remounts keep, for every set of option strings.         *)
(***************************************************************************)
EXTENDS AufsOpts, DataLemmas, FiniteSetTheorems

Base   == {"plink", "orph", "base"}
Branch == [d : Dir, perm : Word, wbr : BOOLEAN, bases : SUBSET Base, xf : BOOLEAN]
XFile  == Dir \cup {Outside, None}
Super  == [brs : Seq(Branch), xino : BOOLEAN, plink : BOOLEAN, udba : Word, xib : XFile,
           xigen : XFile, brid : Dir \cup {None}, fhsm : BOOLEAN, bottom : Int]
Option == Named(BrTypes \cup OtherTypes \cup {"xino"})
Entry  == Option \cup {Tail1}
Flag   == {"REFRESH", "TRUNC_XIB", "UDBA"}
Excuse == {"refs", "force", "orph", "nested", "torn"}
Pc     == {"idle", "parse", "parsed", "simple", "br", "xino", "all", "verify", "end"}
Call   == [pc : Pc, kind : {"none", "mount", "remount"}, raw : Seq(RawOption), bindex : Nat,
           opts : Seq(Entry), i : Nat \ {0}, ok : BOOLEAN, fl : SUBSET Flag,
           tmp : [xino : BOOLEAN, udba : Word], verified : BOOLEAN]
Cached == [gen : Nat, view : Seq(Dir \X BOOLEAN)]

TypeOK ==
  /\ mnt \in BOOLEAN /\ si \in Super /\ call \in Call /\ gen \in Nat
  /\ cache \in Cached \cup {None} /\ excused \in SUBSET Excuse

(* Which calls can be at which place, and how far.                         *)
PhaseOK ==
  /\ call.pc # "idle" => call.kind # "none" /\ mnt = (call.kind = "remount")
  /\ call.pc = "idle" /\ call.kind # "none" => mnt
  /\ ~mnt /\ call.pc \in {"idle", "parse", "parsed"} => si = NewSi
  /\ call.pc \in {"simple", "br", "xino"} => ~mnt
  /\ call.pc = "all" => mnt
  /\ call.pc = "verify" /\ ~mnt => call.ok
  /\ call.pc \in {"idle", "parsed"} \/ call.kind # "none"
  /\ call.pc \in {"parse", "parsed"} => call.ok /\ call.fl = {}
  /\ call.pc \in {"simple", "br", "xino", "all"} => call.i <= Len(Live) + 1
  /\ call.pc = "verify" => call.i <= Len(si.brs) + 1
  /\ "REFRESH" \in call.fl => call.raw # <<>>
  /\ call.raw = <<>> => call.opts = <<>>

(* The branches: no directory twice, and what a branch may lack.           *)
Once(s)    == \A i, j \in DOMAIN s.brs : s.brs[i].d = s.brs[j].d => i = j
BasesOK(s) == \A i \in DOMAIN s.brs :
                /\ ~s.brs[i].wbr => s.brs[i].bases = {}
                /\ Writable(s.brs[i].perm) => s.brs[i].wbr
OrphOK(s)  == \A i \in DOMAIN s.brs : Writable(s.brs[i].perm) => "orph" \in s.brs[i].bases
BranchOK   == Once(si) /\ BasesOK(si) /\ ("orph" \notin excused => OrphOK(si))

(* What verifying has reached.                                             *)
Fits(s, b) ==
  IF ~Writable(b.perm) THEN b.bases = {}
  ELSE ("base" \in b.bases <=> WhLinkable(b.perm)) /\ ("plink" \in b.bases <=> s.plink)
Fhsm(s) == {i \in DOMAIN s.brs : s.brs[i].perm = "rwf"}
FhsmOK(s) ==
  /\ s.fhsm <=> Cardinality(Fhsm(s)) >= 2
  /\ s.bottom = IF s.fhsm THEN Max(Fhsm(s)) - 1 ELSE -1
VerifyOK ==
  call.verified =>
    /\ call.pc = "verify" => \A i \in 1 .. call.i - 1 : Fits(si, si.brs[i])
    /\ call.pc = "end" \/ (call.pc = "idle" /\ call.kind # "none") =>
         (\A i \in DOMAIN si.brs : Fits(si, si.brs[i])) /\ FhsmOK(si)

(* The xino files: all there or none.                                      *)
Whole(s) ==
  /\ s.xino <=> s.xib # None
  /\ s.xino <=> s.xigen # None
  /\ \A i \in DOMAIN s.brs : s.brs[i].xf = s.xino
  /\ s.brid # None => s.brid \in Dirs(s) /\ s.xib = s.brid
Bare(s) ==
  s.xib = None /\ s.xigen = None /\ s.brid = None /\ \A i \in DOMAIN s.brs : ~s.brs[i].xf
XibOK(s) == s.xib # None => s.xino
OwnXino(live, n) == \E j \in 1 .. n : Class(live[j]) = "xino"
XinoOK ==
  /\ XibOK(si)
  /\ call.pc \in {"simple", "br"} => si.xib = None
  /\ "torn" \notin excused =>
       /\ mnt => Whole(si)
       /\ ~mnt /\ call.ok =>
            /\ call.pc = "simple" => Bare(si) /\ si.xino
            /\ call.pc = "br" => Bare(si) /\ ~si.xino
            /\ call.pc = "xino" => IF OwnXino(Live, call.i - 1) THEN Whole(si) ELSE Bare(si) /\ si.xino
            /\ call.pc \in {"verify", "end"} => IF OwnXino(Live, Len(Live)) THEN Whole(si) ELSE Bare(si) /\ si.xino
            /\ call.pc \in {"br", "xino", "verify", "end"} => call.tmp.xino

CacheOK ==
  cache # None =>
    /\ mnt /\ cache.gen <= gen
    /\ "nested" \notin excused /\ cache.gen = gen =>
         cache.view = View(si) \/ (call.pc \in {"all", "verify", "end"} /\ "REFRESH" \in call.fl)

NoTail(opts) == \A i \in DOMAIN opts : opts[i] # Tail1
(* The entries that hold a reference.                                      *)
Taken(opts) == Refs(opts, {"add", "append", "prepend", "del", "mod", "xino"})
RefsOK ==
  /\ "refs" \notin excused => /\ NoTail(call.opts)
                              /\ held = IF call.pc = "idle" THEN 0 ELSE Taken(call.opts)
  /\ "force" \notin excused => NoTail(call.opts)

(* How many options have had their turn in the pass of their class.        *)
Passed(cl, c) ==
  CASE cl.pc \in {"verify", "end", "idle"} -> Len(cl.opts)
    [] cl.pc \in {"all", c} -> cl.i - 1
    [] cl.pc = "br" /\ c = "simple" -> Len(cl.opts)
    [] cl.pc = "xino" /\ c \in {"simple", "br"} -> Len(cl.opts)
    [] OTHER -> 0
Done(cl, j) == j \in DOMAIN cl.opts /\ j <= Passed(cl, Class(cl.opts[j]))
Latest(cl, j) == Done(cl, j) /\ \A k \in DOMAIN cl.opts : k > j /\ Done(cl, k) => ~SameThing(cl.opts[k], cl.opts[j])

(* udba is put aside while a mount adds the branches.                      *)
Eventual(m, s, cl) ==
  IF ~m /\ cl.pc \in {"br", "xino", "verify", "end"} THEN [s EXCEPT !.udba = cl.tmp.udba] ELSE s
ForceOK ==
  call.ok /\ call.kind # "none" /\ call.pc \notin {"parse", "parsed"} /\ "force" \notin excused =>
    \A j \in DOMAIN call.opts : Latest(call, j) => InEffect(Eventual(mnt, si, call), call.opts[j])

IInv == TypeOK /\ PhaseOK /\ BranchOK /\ VerifyOK /\ XinoOK /\ CacheOK /\ RefsOK /\ ForceOK

-----------------------------------------------------------------------------
(* What changing one branch, or opening and closing the tables, gives.     *)
LEMMA SetBranchFacts ==
  ASSUME NEW s \in Super, NEW i \in DOMAIN s.brs, NEW p \in Word, NEW w \in BOOLEAN, NEW b \in SUBSET Base
  PROVE  LET t == SetBranch(s, i, p, w, b) IN
         /\ t = [s EXCEPT !.brs = t.brs] /\ t \in Super
         /\ t.brs \in Seq(Branch) /\ Len(t.brs) = Len(s.brs) /\ DOMAIN t.brs = DOMAIN s.brs
         /\ \A j \in DOMAIN s.brs : j # i => t.brs[j] = s.brs[j]
         /\ t.brs[i].d = s.brs[i].d /\ t.brs[i].perm = p /\ t.brs[i].wbr = w
         /\ t.brs[i].bases = b /\ t.brs[i].xf = s.brs[i].xf
  <1>1. s.brs \in Seq(Branch) BY DEF Super
  <1>2. PICK x \in Branch : x = s.brs[i] BY <1>1
  <1>a. PICK e : e = [x EXCEPT !.perm = p, !.wbr = w, !.bases = b] OBVIOUS
  <1>b. e \in Branch /\ e.d = x.d /\ e.perm = p /\ e.wbr = w /\ e.bases = b /\ e.xf = x.xf
    BY <1>a DEF Branch
  <1> DEFINE q == [s.brs EXCEPT ![i] = e]
  <1>3. q \in Seq(Branch) /\ Len(q) = Len(s.brs) /\ DOMAIN q = DOMAIN s.brs /\ q[i] = e
        /\ \A j \in DOMAIN s.brs : j # i => q[j] = s.brs[j]
    BY <1>1, <1>b
  <1>4. SetBranch(s, i, p, w, b) = [s EXCEPT !.brs = q] BY <1>2, <1>a DEF SetBranch
  <1> HIDE DEF q
  <1>5. [s EXCEPT !.brs = q].brs = q /\ [s EXCEPT !.brs = q] \in Super BY <1>3 DEF Super
  <1> QED BY <1>2, <1>b, <1>3, <1>4, <1>5

(* Opening or closing the tables changes nothing else of a branch.         *)
LEMMA TablesFacts ==
  ASSUME NEW q \in Seq(Branch), NEW on \in BOOLEAN
  PROVE  /\ Tables(q, on) \in Seq(Branch) /\ Len(Tables(q, on)) = Len(q)
         /\ DOMAIN Tables(q, on) = DOMAIN q
         /\ \A j \in DOMAIN q : /\ Tables(q, on)[j].d = q[j].d /\ Tables(q, on)[j].perm = q[j].perm
                                /\ Tables(q, on)[j].wbr = q[j].wbr /\ Tables(q, on)[j].bases = q[j].bases
                                /\ Tables(q, on)[j].xf = on
  <1> DEFINE f == Tables(q, on)
  <1>1. f = [j \in 1 .. Len(q) |-> [q[j] EXCEPT !.xf = on]] BY DEF Tables
  <1>2. ASSUME NEW x \in Branch
        PROVE  /\ [x EXCEPT !.xf = on] \in Branch /\ [x EXCEPT !.xf = on].d = x.d
               /\ [x EXCEPT !.xf = on].perm = x.perm /\ [x EXCEPT !.xf = on].wbr = x.wbr
               /\ [x EXCEPT !.xf = on].bases = x.bases /\ [x EXCEPT !.xf = on].xf = on
    BY DEF Branch
  <1>3. \A j \in 1 .. Len(q) : q[j] \in Branch OBVIOUS
  <1>4. f \in [1 .. Len(q) -> Branch] BY <1>1, <1>2, <1>3
  <1>5. f \in Seq(Branch) /\ Len(f) = Len(q) BY <1>4, SeqOfFunction
  <1> QED BY <1>1, <1>2, <1>3, <1>4, <1>5

-----------------------------------------------------------------------------
(* A branch is found by its directory.                                     *)
LEMMA Found ==
  ASSUME NEW s \in Super, Once(s), NEW d
  PROVE  /\ d \in Dirs(s) <=> \E i \in DOMAIN s.brs : s.brs[i].d = d
         /\ d \in Dirs(s) => /\ FindDbindex(s, d) \in DOMAIN s.brs
                             /\ s.brs[FindDbindex(s, d)].d = d
                             /\ \A i \in DOMAIN s.brs : s.brs[i].d = d => i = FindDbindex(s, d)
  BY DEF Dirs, FindDbindex, Once

(* What a change of one branch leaves.                                     *)
SetKeeps(s, i, p, w, b, t) ==
  /\ t \in Super /\ Dirs(t) = Dirs(s) /\ DOMAIN t.brs = DOMAIN s.brs
  /\ t.xino = s.xino /\ t.xib = s.xib /\ t.xigen = s.xigen /\ t.brid = s.brid
  /\ t.plink = s.plink /\ t.udba = s.udba
  /\ Once(t)
  /\ BasesOK(s) /\ (~w => b = {}) /\ (Writable(p) => w) => BasesOK(t)
  /\ OrphOK(s) /\ (Writable(p) => "orph" \in b) => OrphOK(t)
  /\ Whole(s) => Whole(t)
  /\ Bare(s) => Bare(t)
  /\ Whable(p) = Whable(s.brs[i].perm) => View(t) = View(s)
  /\ \A d \in Dirs(s) : FindDbindex(t, d) = FindDbindex(s, d)
  /\ t.brs[i].perm = p /\ t.brs[i].bases = b
  /\ \A j \in DOMAIN s.brs : j # i => t.brs[j] = s.brs[j]

(* Changing one branch leaves that.                                        *)
LEMMA SetBranchKeeps ==
  ASSUME NEW s \in Super, Once(s), NEW i \in DOMAIN s.brs, NEW p \in Word, NEW w \in BOOLEAN,
         NEW b \in SUBSET Base
  PROVE  SetKeeps(s, i, p, w, b, SetBranch(s, i, p, w, b))
  <1> DEFINE t == SetBranch(s, i, p, w, b)
  <1> HIDE DEF t
  <1>1. t \in Super /\ t = [s EXCEPT !.brs = t.brs] /\ DOMAIN t.brs = DOMAIN s.brs
        /\ Len(t.brs) = Len(s.brs)
    BY SetBranchFacts DEF t
  <1>2. /\ t.xino = s.xino /\ t.xib = s.xib /\ t.xigen = s.xigen /\ t.brid = s.brid
        /\ t.plink = s.plink /\ t.udba = s.udba
    BY <1>1 DEF Super
  <1>3. /\ t.brs[i].d = s.brs[i].d /\ t.brs[i].perm = p /\ t.brs[i].wbr = w
        /\ t.brs[i].bases = b /\ t.brs[i].xf = s.brs[i].xf
        /\ \A j \in DOMAIN s.brs : j # i => t.brs[j] = s.brs[j]
    BY SetBranchFacts DEF t
  <1>4. \A j \in DOMAIN s.brs : t.brs[j].d = s.brs[j].d /\ t.brs[j].xf = s.brs[j].xf BY <1>3
  <1>5. Dirs(t) = Dirs(s) BY <1>1, <1>4 DEF Dirs
  <1>6. Once(t) BY <1>1, <1>4 DEF Once
  <1>7. BasesOK(s) /\ (~w => b = {}) /\ (Writable(p) => w) => BasesOK(t) BY <1>1, <1>3 DEF BasesOK
  <1>8. OrphOK(s) /\ (Writable(p) => "orph" \in b) => OrphOK(t) BY <1>1, <1>3 DEF OrphOK
  <1>9. Whole(s) => Whole(t) BY <1>1, <1>2, <1>4, <1>5 DEF Whole
  <1>10. Bare(s) => Bare(t) BY <1>1, <1>2, <1>4, <1>5 DEF Bare
  <1>11. Whable(p) = Whable(s.brs[i].perm) => View(t) = View(s)
    BY <1>1, <1>3, <1>4 DEF View
  <1>12. ASSUME NEW d \in Dirs(s) PROVE FindDbindex(t, d) = FindDbindex(s, d)
    BY <1>1, <1>4, <1>5, <1>6, Found
  <1>13. SetKeeps(s, i, p, w, b, t)
    BY <1>1, <1>2, <1>3, <1>5, <1>6, <1>7, <1>8, <1>9, <1>10, <1>11, <1>12 DEF SetKeeps
  <1> QED BY <1>13 DEF t

(* A branch that is new comes in, with or without becoming the xino one.  *)
InsertLeaves(s, b, x, t) ==
  /\ t \in Super /\ Dirs(t) = Dirs(s) \cup {b.d} /\ t.brid = x
  /\ t.xino = s.xino /\ t.xib = s.xib /\ t.xigen = s.xigen
  /\ t.plink = s.plink /\ t.udba = s.udba
  /\ Once(t)
  /\ BasesOK(s) /\ (~b.wbr => b.bases = {}) /\ (Writable(b.perm) => b.wbr) => BasesOK(t)
  /\ OrphOK(s) /\ (Writable(b.perm) => "orph" \in b.bases) => OrphOK(t)
  /\ \A on \in BOOLEAN :
       (\A j \in DOMAIN s.brs : s.brs[j].xf = on) /\ b.xf = on => \A j \in DOMAIN t.brs : t.brs[j].xf = on
  /\ t.brs[FindDbindex(t, b.d)].perm = b.perm
  /\ \A d \in Dirs(s) : t.brs[FindDbindex(t, d)].perm = s.brs[FindDbindex(s, d)].perm

(* InsertAt leaves that.                                                   *)
LEMMA InsertKeeps ==
  ASSUME NEW s \in Super, Once(s), NEW i \in 1 .. Len(s.brs) + 1, NEW b \in Branch, b.d \notin Dirs(s),
         NEW x \in Dir \cup {None}
  PROVE  InsertLeaves(s, b, x, [s EXCEPT !.brs = InsertAt(@, i, b), !.brid = x])
  <1> DEFINE q == InsertAt(s.brs, i, b)
  <1>1. s.brs \in Seq(Branch) BY DEF Super
  <1>a. i \in 1 .. Len(s.brs) + 1 /\ b \in Branch OBVIOUS
  <1>c. \A z \in Seq(Branch) : \A k \in 1 .. Len(z) + 1 :
          /\ InsertAt(z, k, b) \in Seq(Branch) /\ Len(InsertAt(z, k, b)) = Len(z) + 1
          /\ \A j \in 1 .. Len(z) + 1 :
               InsertAt(z, k, b)[j] = IF j < k THEN z[j] ELSE IF j = k THEN b ELSE z[j - 1]
    BY <1>a, InsertedAt
  <1>2. /\ q \in Seq(Branch) /\ Len(q) = Len(s.brs) + 1
        /\ \A j \in 1 .. Len(s.brs) + 1 : q[j] = IF j < i THEN s.brs[j] ELSE IF j = i THEN b ELSE s.brs[j - 1]
    BY <1>1, <1>a, <1>c
  <1> DEFINE t == [s EXCEPT !.brs = InsertAt(@, i, b), !.brid = x]
  <1> HIDE DEF q, t
  <1>3. t = [s EXCEPT !.brs = q, !.brid = x] BY DEF q, t
  <1>4. /\ t \in Super /\ t.brs = q /\ t.brid = x
        /\ t.xino = s.xino /\ t.xib = s.xib /\ t.xigen = s.xigen
        /\ t.plink = s.plink /\ t.udba = s.udba
    BY <1>2, <1>3 DEF Super
  <1>5. DOMAIN q = 1 .. Len(s.brs) + 1 /\ DOMAIN s.brs = 1 .. Len(s.brs) /\ Len(s.brs) \in Nat
    BY <1>1, <1>2
  <1>6. q[i] = b BY <1>2
  <1>7. \A j \in DOMAIN q : j # i => \E k \in DOMAIN s.brs : q[j] = s.brs[k] /\ k = IF j < i THEN j ELSE j - 1
    BY <1>2, <1>5
  <1>8. \A k \in DOMAIN s.brs : \E j \in DOMAIN q : j # i /\ q[j] = s.brs[k]
    <2> SUFFICES ASSUME NEW k \in DOMAIN s.brs PROVE \E j \in DOMAIN q : j # i /\ q[j] = s.brs[k]
      OBVIOUS
    <2>1. CASE k < i BY <2>1, <1>2, <1>5
    <2>2. CASE k >= i
      <3>1. k + 1 \in DOMAIN q /\ k + 1 # i /\ q[k + 1] = s.brs[k] BY <2>2, <1>2, <1>5
      <3> QED BY <3>1
    <2> QED BY <2>1, <2>2, <1>5
  <1>9. \A k \in DOMAIN s.brs : s.brs[k].d # b.d BY DEF Dirs
  <1>10. i \in DOMAIN q BY <1>5
  <1>11. Dirs(t) = Dirs(s) \cup {b.d} BY <1>4, <1>6, <1>7, <1>8, <1>10 DEF Dirs
  <1>12. Once(t)
    <2> SUFFICES ASSUME NEW j \in DOMAIN q, NEW k \in DOMAIN q, q[j].d = q[k].d PROVE j = k
      BY <1>4 DEF Once
    <2>1. CASE j = i \/ k = i BY <2>1, <1>6, <1>7, <1>9
    <2>2. CASE j # i /\ k # i
      <3>1. PICK m \in DOMAIN s.brs : q[j] = s.brs[m] /\ m = IF j < i THEN j ELSE j - 1 BY <2>2, <1>7
      <3>2. PICK n \in DOMAIN s.brs : q[k] = s.brs[n] /\ n = IF k < i THEN k ELSE k - 1 BY <2>2, <1>7
      <3>3. m = n BY <3>1, <3>2 DEF Once
      <3> QED BY <2>2, <3>1, <3>2, <3>3, <1>5
    <2> QED BY <2>1, <2>2
  <1>13. BasesOK(s) /\ (~b.wbr => b.bases = {}) /\ (Writable(b.perm) => b.wbr) => BasesOK(t)
    BY <1>4, <1>6, <1>7 DEF BasesOK
  <1>14. OrphOK(s) /\ (Writable(b.perm) => "orph" \in b.bases) => OrphOK(t)
    BY <1>4, <1>6, <1>7 DEF OrphOK
  <1>15. \A on \in BOOLEAN :
           (\A j \in DOMAIN s.brs : s.brs[j].xf = on) /\ b.xf = on => \A j \in DOMAIN t.brs : t.brs[j].xf = on
    BY <1>4, <1>6, <1>7
  <1>16. t.brs[FindDbindex(t, b.d)].perm = b.perm
    <2>0. i \in DOMAIN t.brs /\ t.brs[i].d = b.d /\ b.d \in Dirs(t) BY <1>4, <1>6, <1>10, <1>11
    <2>1. i = FindDbindex(t, b.d) BY <2>0, <1>4, <1>12, Found
    <2> QED BY <2>1, <1>4, <1>6
  <1>17. ASSUME NEW d \in Dirs(s) PROVE t.brs[FindDbindex(t, d)].perm = s.brs[FindDbindex(s, d)].perm
    <2>1. PICK k \in DOMAIN s.brs : k = FindDbindex(s, d) /\ s.brs[k].d = d BY Found
    <2>2. PICK j \in DOMAIN q : q[j] = s.brs[k] BY <1>8
    <2>0. j \in DOMAIN t.brs /\ t.brs[j].d = d /\ d \in Dirs(t) BY <1>4, <1>11, <2>1, <2>2
    <2>3. \A m \in DOMAIN t.brs : t.brs[m].d = d => m = FindDbindex(t, d) BY <2>0, <1>4, <1>12, Found
    <2> QED BY <2>0, <2>1, <2>2, <2>3, <1>4
  <1>18. InsertLeaves(s, b, x, t)
    BY <1>4, <1>11, <1>12, <1>13, <1>14, <1>15, <1>16, <1>17 DEF InsertLeaves
  <1> QED BY <1>18 DEF t

(* A branch goes.                                                          *)
RemoveLeaves(s, i, x, t) ==
  /\ t \in Super /\ Dirs(t) = Dirs(s) \ {s.brs[i].d} /\ t.brid = x
  /\ t.xino = s.xino /\ t.xib = s.xib /\ t.xigen = s.xigen
  /\ t.plink = s.plink /\ t.udba = s.udba
  /\ Once(t)
  /\ BasesOK(s) => BasesOK(t)
  /\ OrphOK(s) => OrphOK(t)
  /\ \A on \in BOOLEAN :
       (\A j \in DOMAIN s.brs : s.brs[j].xf = on) => \A j \in DOMAIN t.brs : t.brs[j].xf = on
  /\ \A d \in Dirs(t) : t.brs[FindDbindex(t, d)].perm = s.brs[FindDbindex(s, d)].perm

(* RemoveAt leaves that.                                                   *)
LEMMA RemoveKeeps ==
  ASSUME NEW s \in Super, Once(s), NEW i \in DOMAIN s.brs,
         NEW x \in Dir \cup {None}
  PROVE  RemoveLeaves(s, i, x, [s EXCEPT !.brs = RemoveAt(@, i), !.brid = x])
  <1> DEFINE q == RemoveAt(s.brs, i)
  <1>1. s.brs \in Seq(Branch) /\ i \in 1 .. Len(s.brs) /\ Len(s.brs) \in Nat BY DEF Super
  <1>2. /\ q \in Seq(Branch) /\ Len(q) = Len(s.brs) - 1
        /\ \A j \in 1 .. Len(s.brs) - 1 : q[j] = IF j < i THEN s.brs[j] ELSE s.brs[j + 1]
    BY <1>1, RemovedAt
  <1> DEFINE t == [s EXCEPT !.brs = RemoveAt(@, i), !.brid = x]
  <1> HIDE DEF q, t
  <1>3. t = [s EXCEPT !.brs = q, !.brid = x] BY DEF q, t
  <1>4. /\ t \in Super /\ t.brs = q /\ t.brid = x
        /\ t.xino = s.xino /\ t.xib = s.xib /\ t.xigen = s.xigen
        /\ t.plink = s.plink /\ t.udba = s.udba
    BY <1>2, <1>3 DEF Super
  <1>5. DOMAIN q = 1 .. Len(s.brs) - 1 /\ DOMAIN s.brs = 1 .. Len(s.brs)
    BY <1>1, <1>2
  <1>7. \A j \in DOMAIN q : \E k \in DOMAIN s.brs : q[j] = s.brs[k] /\ k # i /\ k = IF j < i THEN j ELSE j + 1
    BY <1>1, <1>2, <1>5
  <1>8. \A k \in DOMAIN s.brs : k # i => \E j \in DOMAIN q : q[j] = s.brs[k]
    <2> SUFFICES ASSUME NEW k \in DOMAIN s.brs, k # i PROVE \E j \in DOMAIN q : q[j] = s.brs[k]
      OBVIOUS
    <2>1. CASE k < i BY <2>1, <1>1, <1>2, <1>5
    <2>2. CASE k > i
      <3>1. k - 1 \in DOMAIN q /\ q[k - 1] = s.brs[k] BY <2>2, <1>1, <1>2, <1>5
      <3> QED BY <3>1
    <2> QED BY <2>1, <2>2, <1>1, <1>5
  <1>9. \A k \in DOMAIN s.brs : k # i => s.brs[k].d # s.brs[i].d BY DEF Once
  <1>11. Dirs(t) = Dirs(s) \ {s.brs[i].d} BY <1>4, <1>7, <1>8, <1>9 DEF Dirs
  <1>12. Once(t)
    <2> SUFFICES ASSUME NEW j \in DOMAIN q, NEW k \in DOMAIN q, q[j].d = q[k].d PROVE j = k
      BY <1>4 DEF Once
    <2>1. PICK m \in DOMAIN s.brs : q[j] = s.brs[m] /\ m = IF j < i THEN j ELSE j + 1 BY <1>7
    <2>2. PICK n \in DOMAIN s.brs : q[k] = s.brs[n] /\ n = IF k < i THEN k ELSE k + 1 BY <1>7
    <2>3. m = n BY <2>1, <2>2 DEF Once
    <2> QED BY <2>1, <2>2, <2>3, <1>1, <1>5
  <1>13. BasesOK(s) => BasesOK(t) BY <1>4, <1>7 DEF BasesOK
  <1>14. OrphOK(s) => OrphOK(t) BY <1>4, <1>7 DEF OrphOK
  <1>15. \A on \in BOOLEAN :
           (\A j \in DOMAIN s.brs : s.brs[j].xf = on) => \A j \in DOMAIN t.brs : t.brs[j].xf = on
    BY <1>4, <1>7
  <1>17. ASSUME NEW d \in Dirs(t) PROVE t.brs[FindDbindex(t, d)].perm = s.brs[FindDbindex(s, d)].perm
    <2>1. PICK k \in DOMAIN s.brs : k = FindDbindex(s, d) /\ s.brs[k].d = d BY <1>11, Found
    <2>2. PICK j \in DOMAIN q : q[j] = s.brs[k] BY <1>8, <1>11, <2>1
    <2>0. j \in DOMAIN t.brs /\ t.brs[j].d = d BY <1>4, <2>1, <2>2
    <2>3. j = FindDbindex(t, d) BY <2>0, <1>4, <1>12, Found
    <2> QED BY <2>0, <2>1, <2>2, <2>3, <1>4
  <1>18. RemoveLeaves(s, i, x, t)
    BY <1>4, <1>11, <1>12, <1>13, <1>14, <1>15, <1>17 DEF RemoveLeaves
  <1> QED BY <1>18 DEF t

-----------------------------------------------------------------------------
(* What the result of an option keeps, whether it succeeds or not ...      *)
Result == [si : Super, ok : BOOLEAN, fl : SUBSET Flag, odd : BOOLEAN, ex : SUBSET Excuse]

Sound(s, r) ==
  /\ r \in Result /\ Once(r.si) /\ BasesOK(r.si)
  /\ "orph" \in r.ex \/ (OrphOK(s) => OrphOK(r.si))
  /\ "REFRESH" \in r.fl \/ "nested" \in r.ex \/ View(r.si) = View(s)
  /\ XibOK(s) => XibOK(r.si)

(* ... of the xino files, when it is not about them ...                    *)
Apart(s, o, r) ==
  /\ r.si.xino = s.xino /\ r.si.xib = s.xib
  /\ Whole(s) => Whole(r.si)
  /\ Bare(s) /\ (Class(o) = "br" => ~s.xino) => Bare(r.si)

(* ... and, when it succeeds, of what was in effect.                       *)
Others(s, o, t) == \A q \in Entry : InEffect(s, q) /\ ~SameThing(o, q) => InEffect(t, q)
Effect(s, o, r) == r.ok => InEffect(r.si, o) /\ Others(s, o, r.si)

(* The result of an option that is carried out ...                         *)
LEMMA ResFacts ==
  ASSUME NEW s \in Super, NEW ok \in BOOLEAN, NEW fl \in SUBSET Flag, NEW r, r = Res(s, ok, fl)
  PROVE  r \in Result /\ r.si = s /\ r.ok = ok /\ r.fl = fl /\ r.ex = {} /\ r.odd = FALSE
  BY DEF Res, Result

(* ... and of one that fails.                                              *)
LEMMA OddFacts ==
  ASSUME NEW s \in Super, NEW ex \in SUBSET Excuse, NEW r, r = Odd(s, ex)
  PROVE  r \in Result /\ r.si = s /\ ~r.ok /\ r.fl = {} /\ r.ex = ex /\ r.odd = TRUE
  BY DEF Odd, Result

(* What changes nothing of the superblock keeps everything.                *)
LEMMA Stays ==
  ASSUME NEW s \in Super, Once(s), BasesOK(s), NEW o, NEW r \in Result, r.si = s
  PROVE  Sound(s, r) /\ Apart(s, o, r)
  BY DEF Sound, Apart

(* ... and disturbs no option.                                             *)
LEMMA StaysOthers ==
  ASSUME NEW s, NEW o PROVE Others(s, o, s)
  BY DEF Others

(* An option about one branch disturbs no option about another thing.      *)
LEMMA BranchOthers ==
  ASSUME NEW s, NEW t, NEW o, Class(o) = "br",
         t.xino = s.xino, t.xib = s.xib, t.plink = s.plink, t.udba = s.udba,
         \A d : d # o.d => (d \in Dirs(t) <=> d \in Dirs(s)),
         \A d \in Dirs(s) : d # o.d => t.brs[FindDbindex(t, d)].perm = s.brs[FindDbindex(s, d)].perm
  PROVE  Others(s, o, t)
  <1> SUFFICES ASSUME NEW q \in Entry, InEffect(s, q), ~SameThing(o, q) PROVE InEffect(t, q)
    BY DEF Others
  <1>1. Class(q) = "br" => q.d # o.d BY DEF SameThing
  <1>2. q.t = "mod" => Class(q) = "br" BY DEF Class, BrTypes
  <1> QED BY <1>1, <1>2 DEF InEffect

(* au_wh_init: the bases are of the three kinds ...                        *)
LEMMA FullBasesType ==
  ASSUME NEW s, NEW p PROVE FullBases(s, p) \in SUBSET Base
  BY DEF FullBases, PlinkDir, Base

(* ... and fit the permission and the plink option.                        *)
LEMMA FullBasesFit ==
  ASSUME NEW s, NEW p
  PROVE  /\ ~Writable(p) => FullBases(s, p) = {}
         /\ Writable(p) => "orph" \in FullBases(s, p)
         /\ \A b : b.bases = FullBases(s, p) /\ b.perm = p => Fits(s, b)
  BY DEF FullBases, PlinkDir, Fits

(* What au_wh_init leaves when it succeeds or fails.                       *)
LEMMA WhInitType ==
  ASSUME NEW s, NEW b \in SUBSET Base, NEW p, NEW r \in WhInit(s, b, p)
  PROVE  /\ r.bases \in SUBSET Base /\ r.ok \in BOOLEAN
         /\ r.ok => r.bases = FullBases(s, p)
         /\ ~Writable(p) => r.bases \in {{}, b}
  <1> DEFINE F == FullBases(s, p)
  <1>1. F \in SUBSET Base /\ (~Writable(p) => F = {}) BY FullBasesType, FullBasesFit
  <1>2. \/ r = [bases |-> F, ok |-> TRUE]
        \/ r = [bases |-> b, ok |-> FALSE]
        \/ Writable(p) /\ \E c \in {{}, F \ {"orph"}} : r = [bases |-> c, ok |-> FALSE]
    BY DEF WhInit
  <1> HIDE DEF F
  <1>3. CASE r = [bases |-> F, ok |-> TRUE] BY <1>1, <1>3 DEF F
  <1>4. CASE r = [bases |-> b, ok |-> FALSE] BY <1>1, <1>4 DEF F
  <1>5. ASSUME Writable(p), NEW c \in {{}, F \ {"orph"}}, r = [bases |-> c, ok |-> FALSE]
        PROVE  r.bases \in SUBSET Base /\ ~r.ok /\ r.ok \in BOOLEAN
    BY <1>1, <1>5
  <1> QED BY <1>2, <1>3, <1>4, <1>5

(* The missing directory of orphans is excused, and only that.             *)
LEMMA NoOrphFacts ==
  ASSUME NEW r
  PROVE  /\ NoOrph(r) \in SUBSET Excuse
         /\ "orph" \in NoOrph(r) \/ r.ok \/ "orph" \in r.bases
         /\ "force" \notin NoOrph(r) /\ "refs" \notin NoOrph(r)
  BY DEF NoOrph, Excuse

(* au_br_add                                                               *)
LEMMA AddResults ==
  ASSUME NEW s \in Super, Once(s), BasesOK(s), NEW o \in Option, o.t \in {"add", "append", "prepend"},
         NEW n \in Nat, NEW remount \in BOOLEAN, NEW r \in BrAdd(s, o, n, remount)
  PROVE  Sound(s, r) /\ Apart(s, o, r) /\ Effect(s, o, r)
  <1> USE DEF Res, Odd
  <1>1. o.d \in Dir /\ o.p \in Word /\ Class(o) = "br" /\ o.t # "mod" /\ o.t # "del"
    BY DEF Option, Named, Class, BrTypes
  <1>2. InEffect(s, o) <=> o.d \in Dirs(s)
    BY <1>1 DEF InEffect, Class, BrTypes
  <1>3. CASE o.d \in Dirs(s)
    <2>1. r = Res(s, remount, IF remount THEN {"REFRESH"} ELSE {}) BY <1>3 DEF BrAdd
    <2>2. r \in Result /\ r.si = s BY <2>1 DEF Flag, Result
    <2> QED BY <1>2, <1>3, <2>2, Stays, StaysOthers DEF Effect
  <1>4. CASE o.d \notin Dirs(s) /\ n > Len(s.brs)
    <2>1. r = Res(s, FALSE, {}) BY <1>4 DEF BrAdd
    <2>2. r \in Result /\ r.si = s /\ ~r.ok BY <2>1 DEF Result
    <2> QED BY <2>2, Stays DEF Effect
  <1>5. CASE o.d \notin Dirs(s) /\ n <= Len(s.brs)
    <2> DEFINE b == [d |-> o.d, perm |-> o.p, wbr |-> Writable(o.p), bases |-> FullBases(s, o.p), xf |-> s.xino]
               x == IF s.brid = None /\ Writable(o.p) /\ s.xino /\ s.xib = o.d THEN o.d ELSE s.brid
    <2>a. Len(s.brs) \in Nat BY DEF Super
    <2>1. PICK t : t = [s EXCEPT !.brs = InsertAt(@, n + 1, b), !.brid = x] OBVIOUS
    <2>2. r = Odd(s, {}) \/ r = Res(t, TRUE, {"REFRESH"}) BY <1>5, <2>1, <2>a DEF BrAdd
    <2>3. b \in Branch /\ b.d = o.d /\ b.perm = o.p /\ b.wbr = Writable(o.p) /\ b.bases = FullBases(s, o.p)
          /\ b.xf = s.xino
      BY <1>1, FullBasesType DEF Branch, Super, Writable
    <2>4. x \in Dir \cup {None} /\ n + 1 \in 1 .. Len(s.brs) + 1 BY <1>1, <1>5, <2>a DEF Super
    <2>5. /\ x = s.brid \/ (s.xino /\ s.xib = x /\ x = o.d)
          /\ Bare(s) => x = None
      BY <1>1, DirAssumption DEF Bare
    <2> HIDE DEF b, x
    <2>b. InsertLeaves(s, b, x, t) BY <1>5, <2>1, <2>3, <2>4, InsertKeeps
    <2>6. /\ t \in Super /\ Dirs(t) = Dirs(s) \cup {b.d} /\ t.brid = x
          /\ t.xino = s.xino /\ t.xib = s.xib /\ t.xigen = s.xigen
          /\ t.plink = s.plink /\ t.udba = s.udba
          /\ Once(t) /\ BasesOK(t) /\ (OrphOK(s) => OrphOK(t))
          /\ \A on \in BOOLEAN :
               (\A j \in DOMAIN s.brs : s.brs[j].xf = on) /\ b.xf = on => \A j \in DOMAIN t.brs : t.brs[j].xf = on
          /\ \A d \in Dirs(s) : t.brs[FindDbindex(t, d)].perm = s.brs[FindDbindex(s, d)].perm
      BY <2>b, <2>3, FullBasesFit DEF InsertLeaves
    <2>7. CASE r = Odd(s, {})
      <3>1. r \in Result /\ r.si = s /\ ~r.ok BY <2>7 DEF Result
      <3> QED BY <3>1, Stays DEF Effect
    <2>8. CASE r = Res(t, TRUE, {"REFRESH"})
      <3>1. r \in Result /\ r.si = t /\ r.ok /\ r.fl = {"REFRESH"} BY <2>6, <2>8 DEF Flag, Result
      <3>2. Sound(s, r) BY <3>1, <2>6 DEF Sound, XibOK
      <3>3. Whole(s) => Whole(t)
        <4> HAVE Whole(s)
        <4>1. s.xino \in BOOLEAN BY DEF Super
        <4>2. \A j \in DOMAIN t.brs : t.brs[j].xf = t.xino BY <4>1, <2>3, <2>6 DEF Whole
        <4>3. t.brid # None => t.brid \in Dirs(t) /\ t.xib = t.brid BY <2>3, <2>5, <2>6 DEF Whole
        <4> QED BY <4>2, <4>3, <2>6 DEF Whole
      <3>4. Bare(s) /\ ~s.xino => Bare(t)
        <4> HAVE Bare(s) /\ ~s.xino
        <4>1. \A j \in DOMAIN s.brs : s.brs[j].xf = FALSE BY DEF Bare, Super, Branch
        <4>2. \A j \in DOMAIN t.brs : t.brs[j].xf = FALSE BY <4>1, <2>3, <2>6 DEF Super
        <4> QED BY <4>2, <2>5, <2>6 DEF Bare
      <3>5. Apart(s, o, r) BY <1>1, <3>1, <3>3, <3>4, <2>6 DEF Apart
      <3>6. InEffect(t, o) BY <1>1, <2>3, <2>6 DEF InEffect, Class, BrTypes
      <3>7. Others(s, o, t) BY <1>1, <2>3, <2>6, BranchOthers
      <3> QED BY <3>1, <3>2, <3>5, <3>6, <3>7 DEF Effect
    <2> QED BY <2>2, <2>7, <2>8
  <1>6. Len(s.brs) \in Nat BY DEF Super
  <1> QED BY <1>3, <1>4, <1>5, <1>6

(* au_br_del                                                               *)
LEMMA DelResults ==
  ASSUME NEW s \in Super, Once(s), BasesOK(s), NEW o \in Option, o.t = "del",
         NEW remount \in BOOLEAN, NEW r \in BrDel(s, o.d, remount)
  PROVE  Sound(s, r) /\ Apart(s, o, r) /\ Effect(s, o, r)
  <1> USE DEF Res, Odd
  <1>1. o.d \in Dir /\ Class(o) = "br"
    BY DEF Option, Named, Class, BrTypes
  <1>2. \A t : InEffect(t, o) <=> o.d \notin Dirs(t)
    BY <1>1 DEF InEffect, Class, BrTypes
  <1>a. {"TRUNC_XIB", "REFRESH"} \in SUBSET Flag BY DEF Flag
  <1>3. CASE o.d \notin Dirs(s)
    <2>1. PICK fl \in {{}, {"TRUNC_XIB", "REFRESH"}} : r = Res(s, remount, fl) BY <1>3 DEF BrDel
    <2>2. r \in Result /\ r.si = s BY <2>1, <1>a DEF Result
    <2> QED BY <1>2, <1>3, <2>2, Stays, StaysOthers DEF Effect
  <1>4. CASE o.d \in Dirs(s) /\ Len(s.brs) = 1
    <2>1. r = Res(s, FALSE, {}) BY <1>4 DEF BrDel
    <2>2. r \in Result /\ r.si = s /\ ~r.ok BY <2>1 DEF Result
    <2> QED BY <2>2, Stays DEF Effect
  <1>5. CASE o.d \in Dirs(s) /\ Len(s.brs) # 1
    <2>1. PICK i : i = FindDbindex(s, o.d) OBVIOUS
    <2>2. i \in DOMAIN s.brs /\ s.brs[i].d = o.d BY <1>5, <2>1, Found
    <2>3. PICK b \in Branch : b = s.brs[i] BY <2>2 DEF Super
    <2> DEFINE x == IF s.brid = o.d THEN None ELSE s.brid
    <2>4. PICK t : t = [s EXCEPT !.brs = RemoveAt(@, i), !.brid = x] OBVIOUS
    <2>5. \/ r = Res(t, TRUE, {"TRUNC_XIB", "REFRESH"})
          \/ b.bases = {} /\ r = Odd(s, {})
          \/ b.bases # {} /\ \E w \in WhInit(s, {}, b.perm) :
               r = Odd(SetBranch(s, i, b.perm, b.wbr, w.bases), NoOrph(w))
      BY <1>5, <2>1, <2>3, <2>4 DEF BrDel
    <2>6. CASE b.bases = {} /\ r = Odd(s, {})
      <3>1. r \in Result /\ r.si = s /\ ~r.ok BY <2>6 DEF Result
      <3> QED BY <3>1, Stays DEF Effect
    <2>7. ASSUME b.bases # {}, NEW w \in WhInit(s, {}, b.perm),
                 r = Odd(SetBranch(s, i, b.perm, b.wbr, w.bases), NoOrph(w))
          PROVE  Sound(s, r) /\ Apart(s, o, r) /\ Effect(s, o, r)
      <3>1. PICK u : u = SetBranch(s, i, b.perm, b.wbr, w.bases) OBVIOUS
      <3>2. b.perm \in Word /\ b.wbr \in BOOLEAN /\ {} \in SUBSET Base BY DEF Branch
      <3>3. w.bases \in SUBSET Base /\ w.ok \in BOOLEAN /\ (w.ok => w.bases = FullBases(s, b.perm))
        BY <3>2, WhInitType
      <3>4. b.wbr BY <2>2, <2>3, <2>7 DEF BasesOK
      <3>5. b.perm = s.brs[i].perm BY <2>3
      <3>a. SetKeeps(s, i, b.perm, b.wbr, w.bases, u) BY <2>2, <3>1, <3>2, <3>3, SetBranchKeeps
      <3>6. /\ u \in Super /\ u.xino = s.xino /\ u.xib = s.xib /\ u.xigen = s.xigen /\ Once(u)
            /\ BasesOK(s) /\ (~b.wbr => w.bases = {}) /\ (Writable(b.perm) => b.wbr) => BasesOK(u)
            /\ OrphOK(s) /\ (Writable(b.perm) => "orph" \in w.bases) => OrphOK(u)
            /\ Whole(s) => Whole(u)
            /\ Bare(s) => Bare(u)
            /\ Whable(b.perm) = Whable(s.brs[i].perm) => View(u) = View(s)
        BY <3>a DEF SetKeeps
      <3>7. "orph" \in NoOrph(w) \/ (Writable(b.perm) => "orph" \in w.bases)
        BY <3>3, NoOrphFacts, FullBasesFit
      <3>8. r \in Result /\ r.si = u /\ ~r.ok /\ r.ex = NoOrph(w)
        BY <3>1, <2>7, <3>6, NoOrphFacts DEF Result
      <3> QED BY <3>4, <3>5, <3>6, <3>7, <3>8 DEF Sound, Apart, Effect, XibOK
    <2>8. CASE r = Res(t, TRUE, {"TRUNC_XIB", "REFRESH"})
      <3>1. x \in Dir \cup {None} BY DEF Super
      <3> HIDE DEF x
      <3>b. RemoveLeaves(s, i, x, t) BY <2>2, <2>4, <3>1, RemoveKeeps
      <3>2. /\ t \in Super /\ Dirs(t) = Dirs(s) \ {o.d} /\ t.brid = x
            /\ t.xino = s.xino /\ t.xib = s.xib /\ t.xigen = s.xigen
            /\ t.plink = s.plink /\ t.udba = s.udba
            /\ Once(t) /\ BasesOK(t) /\ (OrphOK(s) => OrphOK(t))
            /\ \A on \in BOOLEAN :
                 (\A j \in DOMAIN s.brs : s.brs[j].xf = on) => \A j \in DOMAIN t.brs : t.brs[j].xf = on
            /\ \A d \in Dirs(t) : t.brs[FindDbindex(t, d)].perm = s.brs[FindDbindex(s, d)].perm
        BY <2>2, <3>b DEF RemoveLeaves
      <3>3. r \in Result /\ r.si = t /\ r.ok /\ r.fl = {"TRUNC_XIB", "REFRESH"} BY <2>8, <3>2, <1>a DEF Result
      <3>4. Sound(s, r) BY <3>2, <3>3 DEF Sound, XibOK
      <3>5. Whole(s) => Whole(t)
        <4> HAVE Whole(s)
        <4>1. s.xino \in BOOLEAN BY DEF Super
        <4>2. \A j \in DOMAIN t.brs : t.brs[j].xf = t.xino BY <4>1, <3>2 DEF Whole
        <4>3. t.brid # None => t.brid \in Dirs(t) /\ t.xib = t.brid BY <3>2 DEF Whole, x
        <4> QED BY <4>2, <4>3, <3>2 DEF Whole
      <3>6. Bare(s) => Bare(t)
        <4> HAVE Bare(s)
        <4>1. \A j \in DOMAIN s.brs : s.brs[j].xf = FALSE BY DEF Bare, Super, Branch
        <4>2. \A j \in DOMAIN t.brs : t.brs[j].xf = FALSE BY <4>1, <3>2
        <4> QED BY <4>2, <3>2 DEF Bare, x
      <3>7. Apart(s, o, r) BY <3>2, <3>3, <3>5, <3>6 DEF Apart
      <3>8. InEffect(t, o) BY <1>2, <3>2
      <3>9. Others(s, o, t) BY <1>1, <3>2, BranchOthers
      <3> QED BY <3>3, <3>4, <3>7, <3>8, <3>9 DEF Effect
    <2> QED BY <2>5, <2>6, <2>7, <2>8
  <1> QED BY <1>3, <1>4, <1>5

(* au_br_mod                                                               *)
LEMMA SetSound ==
  ASSUME NEW s \in Super, Once(s), BasesOK(s), NEW o, Class(o) = "br", NEW i \in DOMAIN s.brs,
         o.d = s.brs[i].d,
         NEW p \in Word, NEW w \in BOOLEAN, NEW b \in SUBSET Base, (~w => b = {}), (Writable(p) => w),
         NEW r \in Result, r.si = SetBranch(s, i, p, w, b),
         "orph" \in r.ex \/ (Writable(p) => "orph" \in b),
         "REFRESH" \in r.fl \/ "nested" \in r.ex \/ Whable(p) = Whable(s.brs[i].perm)
  PROVE  Sound(s, r) /\ Apart(s, o, r) /\ Others(s, o, r.si)
  <1>1. SetKeeps(s, i, p, w, b, r.si) BY SetBranchKeeps
  <1>2. PICK t : t = r.si OBVIOUS
  <1>3. Sound(s, r) BY <1>1, <1>2 DEF Sound, SetKeeps, XibOK
  <1>4. Apart(s, o, r) BY <1>1, <1>2 DEF Apart, SetKeeps
  <1>5. ASSUME NEW d \in Dirs(s), d # o.d PROVE t.brs[FindDbindex(t, d)].perm = s.brs[FindDbindex(s, d)].perm
    <2>1. FindDbindex(s, d) \in DOMAIN s.brs /\ s.brs[FindDbindex(s, d)].d = d BY Found
    <2>2. FindDbindex(s, d) # i BY <1>5, <2>1
    <2> QED BY <2>1, <2>2, <1>1, <1>2 DEF SetKeeps
  <1>6. t.xino = s.xino /\ t.xib = s.xib /\ t.plink = s.plink /\ t.udba = s.udba /\ Dirs(t) = Dirs(s)
    BY <1>1, <1>2 DEF SetKeeps
  <1>7. Others(s, o, t) BY <1>5, <1>6, BranchOthers
  <1> QED BY <1>2, <1>3, <1>4, <1>7

(* au_br_mod                                                               *)
LEMMA ModResults ==
  ASSUME NEW s \in Super, Once(s), BasesOK(s), NEW o \in Option, o.t = "mod",
         NEW remount \in BOOLEAN, NEW r \in BrMod(s, o, remount)
  PROVE  Sound(s, r) /\ Apart(s, o, r) /\ Effect(s, o, r)
  <1> USE DEF Res, Odd
  <1>1. o.d \in Dir /\ o.p \in Word /\ Class(o) = "br"
    BY DEF Option, Named, Class, BrTypes
  <1>2. \A t : InEffect(t, o) <=> (o.d \in Dirs(t) => t.brs[FindDbindex(t, o.d)].perm = o.p)
    BY <1>1 DEF InEffect, Class, BrTypes
  <1>3. CASE o.d \notin Dirs(s) \/ s.brs[FindDbindex(s, o.d)].perm = o.p
    <2>1. PICK fl \in {{}, {"REFRESH"}}, ok \in BOOLEAN : r = Res(s, ok, fl) BY <1>3 DEF BrMod
    <2>2. r \in Result /\ r.si = s BY <2>1 DEF Result, Flag
    <2> QED BY <1>2, <1>3, <2>2, Stays, StaysOthers DEF Effect
  <1>4. CASE ~(o.d \notin Dirs(s) \/ s.brs[FindDbindex(s, o.d)].perm = o.p)
    <2>1. PICK i : i = FindDbindex(s, o.d) OBVIOUS
    <2>2. i \in DOMAIN s.brs /\ s.brs[i].d = o.d BY <1>4, <2>1, Found
    <2>a. s.brs \in Seq(Branch) BY DEF Super
    <2>b. s.brs[i] \in Branch BY <2>a, <2>2
    <2>3. PICK old \in Word : old = s.brs[i].perm BY <2>b DEF Branch
    <2>4. s.brs[i].bases \in SUBSET Base BY <2>b DEF Branch
    <2>5. \/ r = Odd(s, {})
          \/ r \in ModDone(s, i, SetBranch(s, i, o.p, Writable(o.p), FullBases(s, o.p)))
          \/ Writable(old) /\ \E w \in WhInit(s, s.brs[i].bases, o.p) :
               ~w.ok /\ r = Odd(SetBranch(s, i, old, TRUE, w.bases), NoOrph(w))
          \/ Writable(old) /\ ~Writable(o.p) /\ r = Odd(SetBranch(s, i, o.p, FALSE, {}), {"nested"})
          \/ Writable(old) /\ ~Writable(o.p) /\ \E w \in WhInit(s, {}, old) :
               r = Odd(SetBranch(s, i, IF w.ok THEN old ELSE o.p, TRUE, w.bases),
                       IF w.ok THEN {} ELSE {"nested", "orph"})
      BY <1>4, <2>1, <2>3 DEF BrMod
    <2>6. CASE r = Odd(s, {})
      <3>1. r \in Result /\ r.si = s /\ ~r.ok BY <2>6 DEF Result
      <3> QED BY <3>1, Stays DEF Effect
    <2>7. CASE r \in ModDone(s, i, SetBranch(s, i, o.p, Writable(o.p), FullBases(s, o.p)))
      <3>1. PICK w : w = Writable(o.p) OBVIOUS
      <3>2. PICK b : b = FullBases(s, o.p) OBVIOUS
      <3>a. w \in BOOLEAN BY <3>1 DEF Writable
      <3>3. w \in BOOLEAN /\ b \in SUBSET Base /\ (~w => b = {}) /\ (Writable(o.p) => w)
            /\ (Writable(o.p) => "orph" \in b)
        BY <3>a, <3>1, <3>2, FullBasesType, FullBasesFit
      <3>4. PICK t : t = SetBranch(s, i, o.p, w, b) OBVIOUS
      <3>5. SetKeeps(s, i, o.p, w, b, t) BY <1>1, <2>2, <3>3, <3>4, SetBranchKeeps
      <3>6. t \in Super /\ t.brs[i].perm = o.p /\ Dirs(t) = Dirs(s) /\ FindDbindex(t, o.d) = i
        BY <3>5, <2>1, <1>4 DEF SetKeeps
      <3>7. PICK fl \in {{}, {"REFRESH"}} : /\ NeedSigenInc(old, o.p) => fl = {"REFRESH"}
                                            /\ r = Res(t, TRUE, fl)
        BY <2>3, <2>7, <3>1, <3>2, <3>4, <3>6 DEF ModDone
      <3>8. r \in Result /\ r.si = t /\ r.ok /\ r.fl = fl BY <3>6, <3>7 DEF Result, Flag
      <3>9. "REFRESH" \in r.fl \/ Whable(o.p) = Whable(s.brs[i].perm)
        BY <3>7, <3>8, <2>3 DEF NeedSigenInc
      <3>10. Sound(s, r) /\ Apart(s, o, r) /\ Others(s, o, r.si)
        BY <1>1, <2>2, <3>3, <3>4, <3>8, <3>9, SetSound
      <3>11. InEffect(t, o) BY <1>2, <3>6
      <3> QED BY <3>8, <3>10, <3>11 DEF Effect
    <2>8. ASSUME Writable(old), NEW w \in WhInit(s, s.brs[i].bases, o.p), ~w.ok,
                 r = Odd(SetBranch(s, i, old, TRUE, w.bases), NoOrph(w))
          PROVE  Sound(s, r) /\ Apart(s, o, r) /\ Effect(s, o, r)
      <3>a. PICK c \in SUBSET Base : c = s.brs[i].bases BY <2>4
      <3>b. w \in WhInit(s, c, o.p) BY <3>a
      <3>1. w.bases \in SUBSET Base BY <3>b, WhInitType
      <3>2. SetBranch(s, i, old, TRUE, w.bases) \in Super BY <2>2, <3>1, SetBranchKeeps DEF SetKeeps
      <3>3. /\ r \in Result /\ r.si = SetBranch(s, i, old, TRUE, w.bases) /\ ~r.ok
            /\ r.ex = NoOrph(w)
        BY <2>8, <3>2, NoOrphFacts DEF Result
      <3>4. "orph" \in r.ex \/ "orph" \in w.bases BY <2>8, <3>3, NoOrphFacts
      <3>5. Sound(s, r) /\ Apart(s, o, r)
        BY <1>1, <2>2, <2>3, <3>1, <3>3, <3>4, SetSound
      <3> QED BY <3>3, <3>5 DEF Effect
    <2>9. CASE Writable(old) /\ ~Writable(o.p) /\ r = Odd(SetBranch(s, i, o.p, FALSE, {}), {"nested"})
      <3>1. {} \in SUBSET Base OBVIOUS
      <3>2. SetBranch(s, i, o.p, FALSE, {}) \in Super BY <1>1, <2>2, <3>1, SetBranchKeeps DEF SetKeeps
      <3>3. /\ r \in Result /\ r.si = SetBranch(s, i, o.p, FALSE, {}) /\ ~r.ok
            /\ r.ex = {"nested"}
        BY <2>9, <3>2 DEF Result, Excuse
      <3>5. Sound(s, r) /\ Apart(s, o, r)
        BY <1>1, <2>2, <2>3, <2>9, <3>1, <3>3, SetSound
      <3> QED BY <3>3, <3>5 DEF Effect
    <2>10. ASSUME Writable(old), ~Writable(o.p), NEW w \in WhInit(s, {}, old),
                  r = Odd(SetBranch(s, i, IF w.ok THEN old ELSE o.p, TRUE, w.bases),
                          IF w.ok THEN {} ELSE {"nested", "orph"})
           PROVE  Sound(s, r) /\ Apart(s, o, r) /\ Effect(s, o, r)
      <3>1. w.bases \in SUBSET Base /\ w.ok \in BOOLEAN /\ (w.ok => w.bases = FullBases(s, old))
        BY WhInitType
      <3>2. PICK p \in Word : p = IF w.ok THEN old ELSE o.p BY <1>1
      <3>3. PICK ex \in SUBSET Excuse : ex = IF w.ok THEN {} ELSE {"nested", "orph"} BY DEF Excuse
      <3>4. SetBranch(s, i, p, TRUE, w.bases) \in Super BY <2>2, <3>1, SetBranchKeeps DEF SetKeeps
      <3>5. r \in Result /\ r.si = SetBranch(s, i, p, TRUE, w.bases) /\ ~r.ok /\ r.ex = ex
        BY <2>10, <3>2, <3>3, <3>4 DEF Result
      <3>6. "orph" \in r.ex \/ (Writable(p) => "orph" \in w.bases)
        BY <3>1, <3>3, <3>5, FullBasesFit, <2>10
      <3>7. "nested" \in r.ex \/ Whable(p) = Whable(s.brs[i].perm) BY <2>3, <3>2, <3>3, <3>5
      <3>8. Sound(s, r) /\ Apart(s, o, r)
        BY <1>1, <2>2, <3>1, <3>5, <3>6, <3>7, SetSound
      <3> QED BY <3>5, <3>8 DEF Effect
    <2> QED BY <2>5, <2>6, <2>7, <2>8, <2>9, <2>10
  <1> QED BY <1>3, <1>4

(* The xino options change nothing of a branch but its table.              *)
SameBranches(s, t) ==
  /\ DOMAIN t.brs = DOMAIN s.brs
  /\ \A j \in DOMAIN s.brs : /\ t.brs[j].d = s.brs[j].d /\ t.brs[j].perm = s.brs[j].perm
                             /\ t.brs[j].wbr = s.brs[j].wbr /\ t.brs[j].bases = s.brs[j].bases
  /\ t.plink = s.plink /\ t.udba = s.udba /\ t.fhsm = s.fhsm /\ t.bottom = s.bottom

(* Then nothing that depends on the branches changes ...                   *)
LEMMA SameBranchesKeep ==
  ASSUME NEW s \in Super, NEW t \in Super, SameBranches(s, t), Once(s)
  PROVE  /\ Once(t) /\ Dirs(t) = Dirs(s) /\ View(t) = View(s) /\ Fhsm(t) = Fhsm(s)
         /\ BasesOK(s) => BasesOK(t)
         /\ OrphOK(s) => OrphOK(t)
         /\ \A d \in Dirs(s) : t.brs[FindDbindex(t, d)].perm = s.brs[FindDbindex(s, d)].perm
         /\ \A j \in DOMAIN s.brs : Fits(s, s.brs[j]) => Fits(t, t.brs[j])
  <1>1. Once(t) /\ Dirs(t) = Dirs(s) BY DEF SameBranches, Once, Dirs
  <1>2. View(t) = View(s) BY DEF SameBranches, View
  <1>3. Fhsm(t) = Fhsm(s) BY DEF SameBranches, Fhsm
  <1>4. BasesOK(s) => BasesOK(t) BY DEF SameBranches, BasesOK
  <1>5. OrphOK(s) => OrphOK(t) BY DEF SameBranches, OrphOK
  <1>6. ASSUME NEW d \in Dirs(s) PROVE t.brs[FindDbindex(t, d)].perm = s.brs[FindDbindex(s, d)].perm
    <2>1. PICK k \in DOMAIN s.brs : k = FindDbindex(s, d) /\ s.brs[k].d = d BY Found
    <2>2. k \in DOMAIN t.brs /\ t.brs[k].d = d BY <2>1 DEF SameBranches
    <2>3. \A j \in DOMAIN t.brs : t.brs[j].d = d => j = FindDbindex(t, d) BY <1>1, Found
    <2> QED BY <2>1, <2>2, <2>3 DEF SameBranches
  <1>7. ASSUME NEW j \in DOMAIN s.brs, Fits(s, s.brs[j]) PROVE Fits(t, t.brs[j])
    BY <1>7 DEF SameBranches, Fits
  <1> QED BY <1>1, <1>2, <1>3, <1>4, <1>5, <1>6, <1>7

(* ... nor does an option about another thing.                             *)
LEMMA XinoOthers ==
  ASSUME NEW s \in Super, NEW t \in Super, SameBranches(s, t), Once(s), NEW o, Class(o) = "xino"
  PROVE  Others(s, o, t)
  <1> SUFFICES ASSUME NEW q \in Entry, InEffect(s, q), ~SameThing(o, q) PROVE InEffect(t, q)
    BY DEF Others
  <1>1. Class(q) # "xino" BY DEF SameThing
  <1>2. t.plink = s.plink /\ t.udba = s.udba BY DEF SameBranches
  <1>3. /\ Dirs(t) = Dirs(s)
        /\ \A d \in Dirs(s) : t.brs[FindDbindex(t, d)].perm = s.brs[FindDbindex(s, d)].perm
    BY SameBranchesKeep
  <1> QED BY <1>1, <1>2, <1>3 DEF InEffect

(* au_xino_clr *)
LEMMA ClrFacts ==
  ASSUME NEW s \in Super, NEW t, t = XinoClr(s)
  PROVE  t \in Super /\ SameBranches(s, t) /\ Whole(t) /\ ~t.xino /\ t.xib = None /\ t.xigen = None
  <1> DEFINE q == Tables(s.brs, FALSE)
  <1>1. s.brs \in Seq(Branch) BY DEF Super
  <1>2. /\ q \in Seq(Branch) /\ Len(q) = Len(s.brs) /\ DOMAIN q = DOMAIN s.brs
        /\ \A j \in DOMAIN s.brs : /\ q[j].d = s.brs[j].d /\ q[j].perm = s.brs[j].perm
                                   /\ q[j].wbr = s.brs[j].wbr /\ q[j].bases = s.brs[j].bases
                                   /\ q[j].xf = FALSE
    BY <1>1, TablesFacts
  <1> HIDE DEF q
  <1>3. t = [s EXCEPT !.xino = FALSE, !.xib = None, !.xigen = None, !.brid = None, !.brs = q]
    BY DEF XinoClr, q
  <1>4. /\ t \in Super /\ t.brs = q /\ t.xino = FALSE /\ t.xib = None /\ t.xigen = None /\ t.brid = None
        /\ t.plink = s.plink /\ t.udba = s.udba /\ t.fhsm = s.fhsm /\ t.bottom = s.bottom
    BY <1>2, <1>3 DEF Super, XFile
  <1>5. SameBranches(s, t) BY <1>2, <1>4 DEF SameBranches
  <1>6. Whole(t) BY <1>2, <1>4 DEF Whole
  <1> QED BY <1>4, <1>5, <1>6

(* au_xino_set *)
LEMMA SetFacts ==
  ASSUME NEW s \in Super, NEW d \in Dir \cup {Outside}, NEW remount \in BOOLEAN, NEW r \in XinoSet(s, d, remount)
  PROVE  /\ r \in Result /\ SameBranches(s, r.si) /\ r.si.brid = s.brid
         /\ XibOK(s) => XibOK(r.si)
         /\ ~r.ok => r.ex = {"torn"}
         /\ r.ok => r.si.xib = d /\ r.fl = {} /\ r.ex = {}
         /\ r.ok /\ XibOK(s) => r.si.xino
         /\ r.ok => \/ remount /\ s.xib = d /\ r.si = s
                    \/ /\ r.si.xino /\ r.si.xigen = d
                       /\ \A j \in DOMAIN r.si.brs : r.si.brs[j].xf
  <1> USE DEF Res, Odd
  <1> DEFINE q == Tables(s.brs, TRUE)
  <1>1. s.brs \in Seq(Branch) /\ d \in XFile /\ d # None /\ TRUE \in BOOLEAN BY DirAssumption DEF Super, XFile
  <1>2. /\ q \in Seq(Branch) /\ Len(q) = Len(s.brs) /\ DOMAIN q = DOMAIN s.brs
        /\ \A j \in DOMAIN s.brs : /\ q[j].d = s.brs[j].d /\ q[j].perm = s.brs[j].perm
                                   /\ q[j].wbr = s.brs[j].wbr /\ q[j].bases = s.brs[j].bases
                                   /\ q[j].xf = TRUE
    BY <1>1, TablesFacts
  <1> HIDE DEF q
  <1>3. PICK on : on = [s EXCEPT !.xino = TRUE] OBVIOUS
  <1>4. PICK on1 : on1 = [on EXCEPT !.xib = d] OBVIOUS
  <1>5. PICK on2 : on2 = [on EXCEPT !.xib = d, !.xigen = d] OBVIOUS
  <1>6. PICK t : t = [on EXCEPT !.xib = d, !.xigen = d, !.brs = q] OBVIOUS
  <1>6a. PICK on0 : on0 = [on EXCEPT !.xib = None] OBVIOUS
  <1>7. \/ remount /\ s.xib = d /\ r = Res(s, TRUE, {})
        \/ r = Odd(on, {"torn"}) \/ r = Odd(on0, {"torn"}) \/ r = Odd(on1, {"torn"}) \/ r = Odd(on2, {"torn"})
        \/ r = Res(t, TRUE, {})
    BY <1>3, <1>4, <1>5, <1>6, <1>6a DEF XinoSet, q
  <1>8. /\ on \in Super /\ SameBranches(s, on) /\ on.brid = s.brid /\ on.xib = s.xib /\ on.xigen = s.xigen
        /\ on.xino = TRUE /\ on.brs = s.brs
    BY <1>3 DEF Super, SameBranches
  <1>8a. on0 \in Super /\ SameBranches(s, on0) /\ on0.brid = s.brid /\ on0.xib = None /\ on0.xino = TRUE
    BY <1>6a, <1>8 DEF Super, SameBranches, XFile
  <1>9. on1 \in Super /\ SameBranches(s, on1) /\ on1.brid = s.brid /\ on1.xib = d /\ on1.xino = TRUE
    BY <1>1, <1>4, <1>8 DEF Super, SameBranches
  <1>10. on2 \in Super /\ SameBranches(s, on2) /\ on2.brid = s.brid /\ on2.xib = d /\ on2.xino = TRUE
    BY <1>1, <1>5, <1>8 DEF Super, SameBranches
  <1>11. /\ t \in Super /\ t.brs = q /\ t.brid = s.brid /\ t.xib = d /\ t.xigen = d /\ t.xino = TRUE
         /\ t.plink = on.plink /\ t.udba = on.udba /\ t.fhsm = on.fhsm /\ t.bottom = on.bottom
    BY <1>1, <1>2, <1>6, <1>8 DEF Super
  <1>12. SameBranches(s, t) BY <1>2, <1>8, <1>11 DEF SameBranches
  <1>13. CASE remount /\ s.xib = d /\ r = Res(s, TRUE, {})
    <2>1. r \in Result /\ r.si = s /\ r.ok /\ r.fl = {} /\ r.ex = {} BY <1>13 DEF Result
    <2> QED BY <2>1, <1>1, <1>13 DEF SameBranches, XibOK
  <1>14. CASE r = Odd(on, {"torn"})
    <2>1. r \in Result /\ r.si = on /\ ~r.ok /\ r.ex = {"torn"} BY <1>8, <1>14 DEF Result, Excuse
    <2> QED BY <2>1, <1>8 DEF XibOK
  <1>14a. CASE r = Odd(on0, {"torn"})
    <2>1. r \in Result /\ r.si = on0 /\ ~r.ok /\ r.ex = {"torn"} BY <1>8a, <1>14a DEF Result, Excuse
    <2> QED BY <2>1, <1>8a DEF XibOK
  <1>15. CASE r = Odd(on1, {"torn"})
    <2>1. r \in Result /\ r.si = on1 /\ ~r.ok /\ r.ex = {"torn"} BY <1>9, <1>15 DEF Result, Excuse
    <2> QED BY <2>1, <1>1, <1>9 DEF XibOK
  <1>16. CASE r = Odd(on2, {"torn"})
    <2>1. r \in Result /\ r.si = on2 /\ ~r.ok /\ r.ex = {"torn"} BY <1>10, <1>16 DEF Result, Excuse
    <2> QED BY <2>1, <1>1, <1>10 DEF XibOK
  <1>17. CASE r = Res(t, TRUE, {})
    <2>1. r \in Result /\ r.si = t /\ r.ok /\ r.fl = {} /\ r.ex = {} BY <1>11, <1>17 DEF Result
    <2> QED BY <2>1, <1>1, <1>2, <1>11, <1>12 DEF XibOK
  <1> QED BY <1>7, <1>13, <1>14, <1>14a, <1>15, <1>16, <1>17

(* The xino option: xino=<path> and noxino.                                *)
LEMMA XinoResults ==
  ASSUME NEW s \in Super, Once(s), BasesOK(s), XibOK(s), NEW o \in Option, o.t \in {"xino", "noxino"},
         NEW remount \in BOOLEAN, NEW r \in OptXino(s, o, remount)
  PROVE  /\ Sound(s, r) /\ Effect(s, o, r)
         /\ "torn" \in r.ex \/ (Whole(s) => Whole(r.si))
         /\ r.ok => Whole(r.si) \/ (remount /\ o.t = "xino" /\ s.xib = o.d)
  <1> USE DEF Res, Odd
  <1>1. Class(o) = "xino" BY DEF Class, BrTypes
  <1>2. \A t : InEffect(t, o) <=> t.xino = (o.t = "xino") /\ t.xib = (IF o.t = "xino" THEN o.d ELSE None)
    BY <1>1 DEF InEffect
  <1>3. CASE o.t = "noxino"
    <2>1. PICK t : t = XinoClr(s) OBVIOUS
    <2>2. t \in Super /\ SameBranches(s, t) /\ Whole(t) /\ ~t.xino /\ t.xib = None /\ t.xigen = None
      BY <2>1, ClrFacts
    <2>3. r = Res(t, TRUE, {}) BY <1>3, <2>1 DEF OptXino
    <2>4. r \in Result /\ r.si = t /\ r.ok BY <2>2, <2>3 DEF Result
    <2>5. Sound(s, r) BY <2>2, <2>4, SameBranchesKeep DEF Sound, XibOK
    <2>6. Others(s, o, t) BY <1>1, <2>2, XinoOthers
    <2>7. InEffect(t, o)
      <3>1. t.xino = FALSE BY <2>2 DEF Super
      <3> QED BY <1>2, <1>3, <2>2, <3>1
    <2> QED BY <2>2, <2>4, <2>5, <2>6, <2>7 DEF Effect
  <1>4. CASE o.t = "xino"
    <2>1. o.d \in Dir \cup {Outside} /\ o.d # None BY <1>4, DirAssumption DEF Option, Named
    <2>2. PICK r0 \in XinoSet(s, o.d, remount) :
            r = IF r0.ok THEN Res([r0.si EXCEPT !.brid = IF o.d \in Dirs(s) THEN o.d ELSE None], TRUE, {}) ELSE r0
      BY <1>4 DEF OptXino
    <2>3. /\ r0 \in Result /\ SameBranches(s, r0.si) /\ r0.si.brid = s.brid
          /\ XibOK(r0.si)
          /\ ~r0.ok => r0.ex = {"torn"}
          /\ r0.ok => r0.si.xib = o.d /\ r0.si.xino
          /\ r0.ok => \/ remount /\ s.xib = o.d /\ r0.si = s
                      \/ /\ r0.si.xino /\ r0.si.xigen = o.d
                         /\ \A j \in DOMAIN r0.si.brs : r0.si.brs[j].xf
      BY <2>1, SetFacts
    <2>4. CASE ~r0.ok
      <3>1. r = r0 BY <2>2, <2>4
      <3>2. r0.si \in Super BY <2>3 DEF Result
      <3>3. Sound(s, r) BY <2>3, <3>1, <3>2, SameBranchesKeep DEF Sound
      <3> QED BY <2>3, <2>4, <3>1, <3>3 DEF Effect
    <2>5. CASE r0.ok
      <3>1. PICK v \in Super : v = r0.si BY <2>3 DEF Result
      <3>2. PICK x \in Dir \cup {None} : x = IF o.d \in Dirs(s) THEN o.d ELSE None
        <4>a. s.brs \in Seq(Branch) BY DEF Super
        <4>b. \A j \in DOMAIN s.brs : s.brs[j] \in Branch BY <4>a
        <4>1. o.d \in Dirs(s) => o.d \in Dir BY <4>b DEF Dirs, Branch
        <4> QED BY <4>1
      <3>3. PICK t : t = [v EXCEPT !.brid = x] OBVIOUS
      <3>4. /\ t \in Super /\ t.brs = v.brs /\ t.xino = v.xino /\ t.xib = v.xib /\ t.xigen = v.xigen /\ t.brid = x
            /\ t.plink = v.plink /\ t.udba = v.udba /\ t.fhsm = v.fhsm /\ t.bottom = v.bottom
        BY <3>3 DEF Super
      <3>5. SameBranches(s, t) BY <2>3, <3>1, <3>4 DEF SameBranches
      <3>6. r = Res(t, TRUE, {}) BY <2>2, <2>5, <3>1, <3>2, <3>3
      <3>7. r \in Result /\ r.si = t /\ r.ok /\ r.ex = {} BY <3>4, <3>6 DEF Result
      <3>8. XibOK(t) BY <2>3, <3>1, <3>4 DEF XibOK
      <3>9. Sound(s, r) BY <3>4, <3>5, <3>7, <3>8, SameBranchesKeep DEF Sound
      <3>10. t.xino = TRUE /\ t.xib = o.d BY <2>3, <2>5, <3>1, <3>4 DEF Super
      <3>11. InEffect(t, o) BY <1>2, <1>4, <3>10
      <3>12. Others(s, o, t) BY <1>1, <3>4, <3>5, XinoOthers
      <3>13. Dirs(t) = Dirs(s) BY <3>4, <3>5, SameBranchesKeep
      <3>14. CASE remount /\ s.xib = o.d /\ r0.si = s
        <4>1. Whole(s) => Whole(t) BY <3>14, <2>1, <3>1, <3>2, <3>4, <3>13 DEF Whole
        <4> QED BY <4>1, <1>4, <3>7, <3>9, <3>11, <3>12, <3>14 DEF Effect
      <3>15. CASE r0.si.xigen = o.d /\ \A j \in DOMAIN r0.si.brs : r0.si.brs[j].xf
        <4>1. \A j \in DOMAIN t.brs : t.brs[j].xf = TRUE BY <3>1, <3>4, <3>15 DEF Super, Branch
        <4>2. Whole(t) BY <4>1, <2>1, <3>1, <3>2, <3>4, <3>10, <3>13, <3>15 DEF Whole
        <4> QED BY <4>2, <3>7, <3>9, <3>11, <3>12 DEF Effect
      <3> QED BY <2>3, <2>5, <3>14, <3>15
    <2> QED BY <2>4, <2>5
  <1> QED BY <1>3, <1>4

(* The simple options.                                                     *)
LEMMA SimpleOthers ==
  ASSUME NEW s \in Super, NEW t \in Super, NEW o \in Option, t.brs = s.brs, t.xino = s.xino, t.xib = s.xib,
         o.t \in {"plink", "noplink"} \/ t.plink = s.plink,
         o.t = "udba" \/ t.udba = s.udba
  PROVE  Others(s, o, t)
  <1> SUFFICES ASSUME NEW q \in Entry, InEffect(s, q), ~SameThing(o, q) PROVE InEffect(t, q)
    BY DEF Others
  <1>1. Dirs(t) = Dirs(s) /\ \A d : FindDbindex(t, d) = FindDbindex(s, d) BY DEF Dirs, FindDbindex
  <1>2. q.t \in {"plink", "noplink"} => t.plink = s.plink BY DEF SameThing
  <1>3. q.t = "udba" => t.udba = s.udba BY DEF SameThing
  <1> QED BY <1>1, <1>2, <1>3 DEF InEffect

(* Each simple option puts itself in force and leaves the rest.            *)
LEMMA SimpleResults ==
  ASSUME NEW s \in Super, Once(s), BasesOK(s), NEW o \in Option, o.t \in OtherTypes, o.t # "noxino",
         NEW r \in OptSimple(s, o)
  PROVE  Sound(s, r) /\ Apart(s, o, r) /\ Effect(s, o, r)
  <1> USE DEF Res, Odd
  <1>1. Class(o) = "simple" /\ o.t \notin BrTypes /\ o.p \in Word
    BY DEF Class, OtherTypes, BrTypes, Option, Named
  <1>2. \A t : InEffect(t, o) <=> /\ o.t \in {"plink", "noplink"} => t.plink = (o.t = "plink")
                                  /\ o.t = "udba" => t.udba = o.p
    BY <1>1 DEF InEffect, BrTypes
  <1>3. ASSUME o.t \notin {"plink", "noplink", "udba"}, r \in Result, r.si = s
        PROVE  Sound(s, r) /\ Apart(s, o, r) /\ Effect(s, o, r)
    BY <1>2, <1>3, Stays, StaysOthers DEF Effect
  <1>4. ASSUME NEW t \in Super, t.brs = s.brs, t.xino = s.xino, t.xib = s.xib, t.xigen = s.xigen,
               t.brid = s.brid, r \in Result, r.si = t
        PROVE  Sound(s, r) /\ Apart(s, o, r)
    <2>1. Dirs(t) = Dirs(s) BY <1>4 DEF Dirs
    <2>2. Sound(s, r) BY <1>4 DEF Sound, Once, BasesOK, OrphOK, View, XibOK
    <2>3. Apart(s, o, r) BY <1>1, <1>4, <2>1 DEF Apart, Whole, Bare
    <2> QED BY <2>2, <2>3
  <1>5. CASE o.t \in {"plink", "noplink"}
    <2>1. PICK b \in BOOLEAN : b = (o.t = "plink") OBVIOUS
    <2>2. PICK t : t = [s EXCEPT !.plink = b] OBVIOUS
    <2>3. r = Res(t, TRUE, {}) BY <1>5, <2>1, <2>2 DEF OptSimple
    <2>4. /\ t \in Super /\ t.brs = s.brs /\ t.xino = s.xino /\ t.xib = s.xib /\ t.xigen = s.xigen
          /\ t.brid = s.brid /\ t.plink = b /\ t.udba = s.udba
      BY <2>2 DEF Super
    <2>5. r \in Result /\ r.si = t BY <2>3, <2>4 DEF Result
    <2>6. InEffect(t, o) BY <1>2, <1>5, <2>1, <2>4
    <2>7. Others(s, o, t) BY <1>5, <2>4, SimpleOthers
    <2> QED BY <1>4, <2>4, <2>5, <2>6, <2>7 DEF Effect
  <1>6. CASE o.t = "udba"
    <2>2. PICK t : t = [s EXCEPT !.udba = o.p] OBVIOUS
    <2>3. r = Res(t, TRUE, {"UDBA"}) BY <1>6, <2>2 DEF OptSimple
    <2>4. /\ t \in Super /\ t.brs = s.brs /\ t.xino = s.xino /\ t.xib = s.xib /\ t.xigen = s.xigen
          /\ t.brid = s.brid /\ t.plink = s.plink /\ t.udba = o.p
      BY <1>1, <2>2 DEF Super
    <2>5. r \in Result /\ r.si = t BY <2>3, <2>4 DEF Result, Flag
    <2>6. InEffect(t, o) BY <1>2, <1>6, <2>4
    <2>7. Others(s, o, t) BY <1>6, <2>4, SimpleOthers
    <2> QED BY <1>4, <2>4, <2>5, <2>6, <2>7 DEF Effect
  <1>7. CASE o.t = "wbr_create"
    <2>1. r = Res(s, TRUE, {}) \/ r = Odd(s, {}) BY <1>7 DEF OptSimple
    <2>2. CASE r = Res(s, TRUE, {})
      <3>1. r \in Result /\ r.si = s BY <2>2 DEF Result
      <3> QED BY <1>3, <1>7, <3>1
    <2>3. CASE r = Odd(s, {})
      <3>1. r \in Result /\ r.si = s BY <2>3 DEF Result
      <3> QED BY <1>3, <1>7, <3>1
    <2> QED BY <2>1, <2>2, <2>3
  <1>8. CASE o.t = "trunc_xib"
    <2>1. r = Res(s, TRUE, {"TRUNC_XIB"}) BY <1>8 DEF OptSimple
    <2>2. r \in Result /\ r.si = s BY <2>1 DEF Result, Flag
    <2> QED BY <1>3, <1>8, <2>2
  <1>9. CASE o.t = "trunc_path"
    <2>1. PICK ok : ok = (o.n \in DOMAIN s.brs /\ s.brs[o.n].xf) OBVIOUS
    <2>2. ok \in BOOLEAN
      <3>1. s.brs \in Seq(Branch) BY DEF Super
      <3>2. o.n \in DOMAIN s.brs => s.brs[o.n] \in Branch BY <3>1
      <3>3. o.n \in DOMAIN s.brs => s.brs[o.n].xf \in BOOLEAN BY <3>2 DEF Branch
      <3> QED BY <2>1, <3>3
    <2>3. r = Res(s, ok, {}) \/ r = Odd(s, {}) BY <1>9, <2>1 DEF OptSimple
    <2>4. CASE r = Res(s, ok, {})
      <3>1. r \in Result /\ r.si = s BY <2>2, <2>4 DEF Result
      <3> QED BY <1>3, <1>9, <3>1
    <2>5. CASE r = Odd(s, {})
      <3>1. r \in Result /\ r.si = s BY <2>5 DEF Result
      <3> QED BY <1>3, <1>9, <3>1
    <2> QED BY <2>3, <2>4, <2>5
  <1> QED BY <1>5, <1>6, <1>7, <1>8, <1>9 DEF OtherTypes

(* What any option does.                                                   *)
LEMMA OptionResults ==
  ASSUME si \in Super, Once(si), BasesOK(si), XibOK(si), NEW o \in Option, NEW remount \in BOOLEAN,
         NEW r \in Results(o, remount)
  PROVE  /\ Sound(si, r) /\ Effect(si, o, r)
         /\ Class(o) # "xino" => Apart(si, o, r)
         /\ Class(o) = "xino" =>
              /\ "torn" \in r.ex \/ (Whole(si) => Whole(r.si))
              /\ r.ok => Whole(r.si) \/ (remount /\ o.t = "xino" /\ si.xib = o.d)
  <1>0. o.n \in Nat /\ o.t \in BrTypes \cup OtherTypes \cup {"xino"} BY DEF Option, Named
  <1>1. CASE o.t \in {"add", "append", "prepend"}
    <2>1. Class(o) = "br" BY <1>1 DEF Class, BrTypes
    <2>2. Len(si.brs) \in Nat BY DEF Super
    <2>3. PICK n \in Nat : r \in BrAdd(si, o, n, remount) BY <1>0, <1>1, <2>1, <2>2 DEF Results, OptBr
    <2> QED BY <1>1, <2>1, <2>3, AddResults
  <1>2. CASE o.t = "del"
    <2>1. Class(o) = "br" BY <1>2 DEF Class, BrTypes
    <2>3. r \in BrDel(si, o.d, remount) BY <1>2, <2>1 DEF Results, OptBr
    <2> QED BY <1>2, <2>1, <2>3, DelResults
  <1>3. CASE o.t = "mod"
    <2>1. Class(o) = "br" BY <1>3 DEF Class, BrTypes
    <2>3. r \in BrMod(si, o, remount) BY <1>3, <2>1 DEF Results, OptBr
    <2> QED BY <1>3, <2>1, <2>3, ModResults
  <1>4. CASE o.t \in {"xino", "noxino"}
    <2>1. Class(o) = "xino" BY <1>4 DEF Class, BrTypes
    <2>3. r \in OptXino(si, o, remount) BY <1>4, <2>1 DEF Results
    <2> QED BY <1>4, <2>1, <2>3, XinoResults
  <1>5. CASE o.t \in OtherTypes /\ o.t # "noxino"
    <2>1. Class(o) = "simple" BY <1>5 DEF Class, BrTypes, OtherTypes
    <2>3. r \in OptSimple(si, o) BY <1>5, <2>1 DEF Results
    <2> QED BY <1>5, <2>1, <2>3, SimpleResults
  <1> QED BY <1>0, <1>1, <1>2, <1>3, <1>4, <1>5 DEF BrTypes

-----------------------------------------------------------------------------
(* The entries before the first tail.                                      *)
LEMMA LiveFacts ==
  ASSUME NEW opts \in Seq(Entry)
  PROVE  /\ UpToTail(opts) \in Seq(Option) /\ Len(UpToTail(opts)) <= Len(opts)
         /\ \A i \in 1 .. Len(UpToTail(opts)) : UpToTail(opts)[i] = opts[i]
         /\ NoTail(opts) => UpToTail(opts) = opts /\ OptsFree(opts) = Taken(opts)
  <1> DEFINE tails == {i \in DOMAIN opts : opts[i] = Tail1}
  <1>1. Len(opts) \in Nat /\ DOMAIN opts = 1 .. Len(opts) /\ tails \in SUBSET Nat
        /\ \A i \in 1 .. Len(opts) : opts[i] \in Entry
    OBVIOUS
  <1>2. CASE tails = {}
    <2>1. UpToTail(opts) = opts BY <1>2 DEF UpToTail
    <2>2. \A i \in 1 .. Len(opts) : opts[i] \in Option BY <1>1, <1>2 DEF Entry
    <2>3. opts \in [1 .. Len(opts) -> Option] BY <2>2
    <2>4. opts \in Seq(Option) BY <1>1, <2>3, SeqOfFunction
    <2>5. OptsFree(opts) = Taken(opts) BY <2>1 DEF OptsFree, Taken
    <2> QED BY <1>1, <2>1, <2>4, <2>5
  <1>3. CASE tails # {}
    <2>1. PICK m : m = Min(tails) OBVIOUS
    <2>2. m \in tails /\ \A x \in tails : m <= x BY <1>1, <1>3, <2>1, LeastNatural
    <2>3. m \in 1 .. Len(opts) /\ \A i \in 1 .. m - 1 : opts[i] # Tail1 BY <1>1, <2>2
    <2>4. UpToTail(opts) = SubSeq(opts, 1, m - 1) BY <1>3, <2>1 DEF UpToTail
    <2> DEFINE q == SubSeq(opts, 1, m - 1)
    <2>5. Len(q) = m - 1 /\ q \in Seq(Entry) /\ \A i \in 1 .. m - 1 : q[i] = opts[i]
      BY <1>1, <2>3, SubSeqProperties
    <2> HIDE DEF q
    <2>6. \A i \in 1 .. m - 1 : q[i] \in Option BY <1>1, <2>3, <2>5 DEF Entry
    <2>7. q \in [1 .. m - 1 -> Option] /\ m - 1 \in Nat BY <2>3, <2>5, <2>6
    <2>8. q \in Seq(Option) BY <2>7, SeqOfFunction
    <2>9. ~NoTail(opts) BY <1>1, <2>2 DEF NoTail
    <2> QED BY <1>1, <2>3, <2>4, <2>5, <2>8, <2>9 DEF q
  <1> QED BY <1>2, <1>3

(* How many references the entries hold, one more with every entry that    *)
(* takes one.                                                              *)
LEMMA TakenFacts ==
  ASSUME NEW opts \in Seq(Entry)
  PROVE  /\ Taken(opts) \in Nat /\ Taken(<<>>) = 0
         /\ \A e \in Entry : Taken(opts \o <<e>>) =
              Taken(opts) + IF e.t \in {"add", "append", "prepend", "del", "mod", "xino"} THEN 1 ELSE 0
  <1> DEFINE T == {"add", "append", "prepend", "del", "mod", "xino"}
             S(q) == {i \in DOMAIN q : q[i].t \in T}
  <1>1. \A q : Taken(q) = Cardinality(S(q)) BY DEF Taken, Refs
  <1>2. IsFiniteSet(S(opts)) /\ Cardinality(S(opts)) \in Nat
    <2>1. IsFiniteSet(1 .. Len(opts)) BY FS_Interval
    <2>2. S(opts) \in SUBSET (1 .. Len(opts)) OBVIOUS
    <2> QED BY <2>1, <2>2, FS_Subset, FS_CardinalityType
  <1>3. Taken(<<>>) = 0
    <2>1. S(<<>>) = {} OBVIOUS
    <2> QED BY <1>1, <2>1, FS_EmptySet
  <1>4. ASSUME NEW e \in Entry
        PROVE  Taken(opts \o <<e>>) = Taken(opts) + IF e.t \in T THEN 1 ELSE 0
    <2> DEFINE q == opts \o <<e>>
               n == Len(opts) + 1
    <2>1. /\ DOMAIN q = 1 .. n /\ n \in Nat \ {0} /\ DOMAIN opts = 1 .. n - 1
          /\ q[n] = e /\ \A i \in DOMAIN opts : q[i] = opts[i]
      OBVIOUS
    <2> HIDE DEF q, n
    <2>2. n \notin S(opts) BY <2>1
    <2>5. DOMAIN q = DOMAIN opts \cup {n} /\ n \notin DOMAIN opts
      <3>1. \A m \in Nat \ {0} : (\A i : i \in 1 .. m <=> i \in 1 .. m - 1 \/ i = m) /\ m \notin 1 .. m - 1
        OBVIOUS
      <3> QED BY <2>1, <3>1
    <2>3. CASE e.t \in T
      <3>2. S(q) = S(opts) \cup {n} BY <2>1, <2>3, <2>5, Zenon
      <3> HIDE DEF S, T
      <3>3. Cardinality(S(q)) = Cardinality(S(opts)) + 1 BY <1>2, <2>2, <3>2, FS_AddElement
      <3>4. Taken(q) = Taken(opts) + 1 BY <1>1, <3>3
      <3> QED BY <2>3, <3>4 DEF q
    <2>4. CASE e.t \notin T
      <3>2. S(q) = S(opts) BY <2>1, <2>4, <2>5, Zenon
      <3> HIDE DEF S, T
      <3>3. Taken(q) = Taken(opts) /\ Taken(opts) \in Nat BY <1>1, <1>2, <3>2
      <3>4. Taken(q) = Taken(opts) + 0 BY <3>3
      <3> QED BY <2>4, <3>4 DEF q
    <2> QED BY <2>3, <2>4
  <1> QED BY <1>1, <1>2, <1>3, <1>4

(* The tail of the page is none of the options.                            *)
LEMMA TailIsNoOption == Tail1 \notin Option
  BY DEF Tail1, O, Option, Named, BrTypes, OtherTypes

(* The type of the superblock that a mount begins with.                    *)
LEMMA NewSiFacts ==
  /\ NewSi \in Super /\ Once(NewSi) /\ BasesOK(NewSi) /\ OrphOK(NewSi) /\ NewSi.brs = <<>>
  /\ Bare(NewSi) /\ NewSi.xino /\ NewSi.xib = None /\ NewSi.xigen = None /\ XibOK(NewSi)
  <1>1. <<>> \in Seq(Branch) /\ DOMAIN <<>> = {} OBVIOUS
  <1>2. NewSi \in Super BY <1>1 DEF NewSi, Super, XFile, Word
  <1>3. /\ NewSi.brs = <<>> /\ NewSi.xino = TRUE /\ NewSi.xib = None /\ NewSi.xigen = None
        /\ NewSi.brid = None
    BY DEF NewSi
  <1>4. Once(NewSi) /\ BasesOK(NewSi) /\ OrphOK(NewSi) /\ Bare(NewSi)
    BY <1>1, <1>3 DEF Once, BasesOK, OrphOK, Bare
  <1> QED BY <1>2, <1>3, <1>4 DEF XibOK

(* The call before the first mount.                                        *)
LEMMA NoCallFacts ==
  /\ NoCall \in Call /\ NoCall.opts = <<>> /\ NoCall.fl = {} /\ NoCall.pc = "idle" /\ NoCall.kind = "none"
  /\ NoTail(NoCall.opts)
  <1>1. <<>> \in Seq(RawOption) /\ <<>> \in Seq(Entry) /\ DOMAIN <<>> = {} OBVIOUS
  <1>2. NoCall \in Call BY <1>1 DEF NoCall, Call, Pc, Word
  <1> QED BY <1>1, <1>2 DEF NoCall, NoTail

(* What has failed leaves no call behind.                                  *)
Gone == call' = [NoCall EXCEPT !.ok = FALSE]
(* Then no call is under way.                                              *)
LEMMA GoneFacts ==
  ASSUME Gone
  PROVE  /\ call' \in Call /\ call'.opts = <<>> /\ call'.fl = {} /\ call'.pc = "idle" /\ call'.kind = "none"
         /\ ~call'.ok /\ NoTail(call'.opts)
  <1>1. <<>> \in Seq(RawOption) /\ <<>> \in Seq(Entry) /\ DOMAIN <<>> = {} OBVIOUS
  <1>2. call' \in Call BY NoCallFacts DEF Gone, Call
  <1>3. /\ call'.opts = <<>> /\ call'.fl = {} /\ call'.pc = "idle" /\ call'.kind = "none" /\ ~call'.ok
    BY NoCallFacts DEF Gone, Call
  <1> QED BY <1>1, <1>2, <1>3 DEF NoTail

(* The next phase begins with the first option.                            *)
LEMMA GotoFacts ==
  ASSUME NEW cl \in Call, NEW pc \in Pc
  PROVE  LET c == [cl EXCEPT !.pc = pc, !.i = 1] IN
         /\ c \in Call /\ c.pc = pc /\ c.kind = cl.kind /\ c.opts = cl.opts /\ c.raw = cl.raw /\ c.fl = cl.fl
         /\ c.ok = cl.ok /\ c.i = 1 /\ c.tmp = cl.tmp /\ c.verified = cl.verified
  <1>1. PICK n \in Nat \ {0} : n = 1 OBVIOUS
  <1> QED BY <1>1 DEF Call

(* The initial state satisfies the invariant.                              *)
LEMMA InitOK == Init => IInv
  <1> SUFFICES ASSUME Init PROVE IInv OBVIOUS
  <1> USE DEF Init
  <1>1. /\ call \in Call /\ call.opts = <<>> /\ call.fl = {} /\ call.pc = "idle" /\ call.kind = "none"
        /\ NoTail(call.opts)
    BY NoCallFacts
  <1>2. /\ si \in Super /\ Once(si) /\ BasesOK(si) /\ OrphOK(si) /\ XibOK(si)
    BY NewSiFacts
  <1>3. TypeOK BY <1>1, <1>2 DEF TypeOK
  <1>4. PhaseOK BY <1>1 DEF PhaseOK
  <1>5. BranchOK BY <1>2 DEF BranchOK
  <1>6. VerifyOK BY <1>1 DEF VerifyOK
  <1>7. XinoOK BY <1>1, <1>2 DEF XinoOK
  <1>8. CacheOK BY DEF CacheOK
  <1>9. RefsOK BY <1>1 DEF RefsOK
  <1>10. ForceOK BY <1>1 DEF ForceOK
  <1> QED BY <1>3, <1>4, <1>5, <1>6, <1>7, <1>8, <1>9, <1>10 DEF IInv

-----------------------------------------------------------------------------
(* The invariant is kept by every step: parsing ...                        *)
LEMMA StartOK ==
  ASSUME IInv, NEW kind \in {"mount", "remount"},
         NEW str \in IF kind = "mount" THEN MountStrs ELSE RemountStrs, Start(kind, str)
  PROVE  IInv'
  <1> USE DEF IInv, Start
  <1>1. str \in Seq(RawOption) BY StrAssumption
  <1>2. call' = [NoCall EXCEPT !.pc = "parse", !.kind = kind, !.raw = str] OBVIOUS
  <1>3. /\ call' \in Call /\ call'.pc = "parse" /\ call'.kind = kind /\ call'.raw = str /\ call'.opts = <<>>
        /\ call'.fl = {} /\ call'.ok
    <2>1. NoCall.ok = TRUE BY DEF NoCall
    <2> QED BY <1>1, <1>2, <2>1, NoCallFacts DEF Call, Pc
  <1>4. /\ UNCHANGED <<mnt, si, gen, cache>> /\ mnt = (kind = "remount")
        /\ excused' = excused \ {"force", "refs"} /\ held' = 0
        /\ call.pc = "idle"
    OBVIOUS
  <1> HIDE DEF IInv, Start
  <1>5. TypeOK /\ PhaseOK /\ BranchOK /\ XinoOK /\ CacheOK /\ RefsOK BY DEF IInv
  <1>6. TypeOK' BY <1>3, <1>4, <1>5 DEF TypeOK
  <1>7. PhaseOK' BY <1>3, <1>4, <1>5 DEF PhaseOK
  <1>8. BranchOK' BY <1>3, <1>4, <1>5 DEF BranchOK
  <1>9. VerifyOK' BY <1>3 DEF VerifyOK
  <1>10. XinoOK' BY <1>3, <1>4, <1>5 DEF XinoOK
  <1>11. CacheOK' BY <1>3, <1>4, <1>5 DEF CacheOK
  <1>12. RefsOK'
    <2>1. Taken(<<>>) = 0
      <3>1. <<>> \in Seq(Entry) OBVIOUS
      <3> QED BY <3>1, TakenFacts
    <2> QED BY <1>3, <1>4, <2>1 DEF RefsOK, NoTail
  <1>13. ForceOK' BY <1>3 DEF ForceOK
  <1> QED BY <1>6, <1>7, <1>8, <1>9, <1>10, <1>11, <1>12, <1>13 DEF IInv

(* What the parser appends.                                                *)
LEMMA ParseOneFacts ==
  ASSUME TypeOK, NEW o \in RawOption, NEW n \in Nat, ~BadOption(o)
  PROVE  /\ ParseOne(o, n) \in Seq(Entry) /\ NextIndex(o, n) \in Nat
         /\ o.t # "fhsm_ignored" => NoTail(ParseOne(o, n))
  <1>1. /\ o.t \in BrTypes \cup OtherTypes \cup {"br", "xino", "fhsm_ignored", "ignore"}
        /\ o.d \in Dir \cup {Outside, None} /\ o.p \in Word /\ o.n \in Nat
        /\ o.t \in BrTypes \cup {"br"} => o.d \in Dir
        /\ o.t = "xino" => o.d # None
    BY DEF RawOption, Named, BadOption
  <1>2. o.t = "trunc_path" => FindDbindex(si, o.d) \in Nat
    <2> HAVE o.t = "trunc_path"
    <2>1. o.d \in Dirs(si) BY DEF BadOption
    <2>2. FindDbindex(si, o.d) \in DOMAIN si.brs BY <2>1 DEF Dirs, FindDbindex
    <2>3. si.brs \in Seq(Branch) BY DEF TypeOK, Super
    <2> QED BY <2>2, <2>3
  <1>3. ASSUME NEW e \in Option PROVE <<e>> \in Seq(Entry) /\ NoTail(<<e>>)
    BY TailIsNoOption DEF NoTail, Entry
  <1>4. <<Tail1>> \in Seq(Entry) BY DEF Entry
  <1>5. <<>> \in Seq(Entry) /\ NoTail(<<>>) BY DEF NoTail
  <1>6. ASSUME NEW t \in {"add", "append", "prepend"}, NEW m \in Nat, o.d \in Dir
        PROVE  OptAdd(o, t, m) \in Option
    <2>1. o \in [t : BrTypes \cup OtherTypes \cup {"br", "xino", "fhsm_ignored", "ignore", "unknown"},
                 d : Dir \cup {Outside, None}, p : Word, n : Nat]
      BY DEF RawOption, Named
    <2>2. PICK p \in Word : p = IF o.p # "" THEN o.p ELSE IF m = 0 THEN "rw" ELSE "ro" BY <1>1 DEF Word
    <2>3. OptAdd(o, t, m) = [o EXCEPT !.t = t, !.n = m, !.p = p] BY <2>2 DEF OptAdd
    <2>4. [o EXCEPT !.t = t, !.n = m, !.p = p] \in [t : BrTypes \cup OtherTypes \cup {"xino"},
                 d : Dir \cup {Outside, None}, p : Word, n : Nat]
      BY <2>1, <1>1 DEF BrTypes
    <2>5. [o EXCEPT !.t = t, !.n = m, !.p = p].t = t /\ [o EXCEPT !.t = t, !.n = m, !.p = p].d = o.d
      BY <2>1
    <2> QED BY <1>6, <2>3, <2>4, <2>5 DEF Option, Named
  <1>7. o.t \in BrTypes \cup OtherTypes \cup {"xino"} => o \in Option
    BY DEF Option, RawOption, Named
  <1>8. NextIndex(o, n) \in Nat BY <1>1 DEF NextIndex
  <1>9. CASE o.t = "br"
    <2>1. ParseOne(o, n) = <<OptAdd(o, "add", n)>> BY <1>9 DEF ParseOne
    <2> QED BY <1>1, <1>3, <1>6, <1>8, <1>9, <2>1
  <1>10. CASE o.t = "add"
    <2>1. ParseOne(o, n) = <<OptAdd(o, "add", o.n)>> BY <1>10 DEF ParseOne
    <2> QED BY <1>1, <1>3, <1>6, <1>8, <1>10, <2>1 DEF BrTypes
  <1>11. CASE o.t = "append"
    <2>1. ParseOne(o, n) = <<OptAdd(o, "append", 1)>> BY <1>11 DEF ParseOne
    <2> QED BY <1>1, <1>3, <1>6, <1>8, <1>11, <2>1 DEF BrTypes
  <1>12. CASE o.t = "prepend"
    <2>1. ParseOne(o, n) = <<OptAdd(o, "prepend", 0)>> BY <1>12 DEF ParseOne
    <2> QED BY <1>1, <1>3, <1>6, <1>8, <1>12, <2>1 DEF BrTypes
  <1>13. CASE o.t = "trunc_path"
    <2>1. PICK m \in Nat : m = FindDbindex(si, o.d) BY <1>2, <1>13
    <2>2. ParseOne(o, n) = <<[o EXCEPT !.n = m]>> BY <1>13, <2>1 DEF ParseOne
    <2>3. o \in Option BY <1>7, <1>13 DEF OtherTypes
    <2>4. [o EXCEPT !.n = m] \in Option BY <2>3 DEF Option, Named
    <2> QED BY <1>3, <1>8, <2>2, <2>4
  <1>14. CASE o.t = "fhsm_ignored"
    <2>1. ParseOne(o, n) = <<Tail1>> BY <1>14 DEF ParseOne
    <2> QED BY <1>4, <1>8, <1>14, <2>1
  <1>15. CASE o.t = "ignore"
    <2>1. ParseOne(o, n) = <<>> BY <1>15 DEF ParseOne
    <2> QED BY <1>5, <1>8, <2>1
  <1>16. CASE o.t \notin {"br", "add", "append", "prepend", "trunc_path", "fhsm_ignored", "ignore"}
    <2>1. ParseOne(o, n) = <<o>> BY <1>16 DEF ParseOne
    <2>2. o \in Option BY <1>1, <1>7, <1>16
    <2> QED BY <1>3, <1>8, <2>1, <2>2
  <1> QED BY <1>9, <1>10, <1>11, <1>12, <1>13, <1>14, <1>15, <1>16

(* What the parser takes for an option is what au_opts_free puts back for  *)
(* the entry that it makes.                                                *)
LEMMA ParseTakes ==
  ASSUME TypeOK, NEW o \in RawOption, NEW n \in Nat, ~BadOption(o), NEW q \in Seq(Entry)
  PROVE  Taken(q \o ParseOne(o, n)) = Taken(q) + IF TakesRef(o) THEN 1 ELSE 0
  <1> DEFINE T == {"add", "append", "prepend", "del", "mod", "xino"}
  <1>1. ParseOne(o, n) \in Seq(Entry) BY ParseOneFacts
  <1>2. ASSUME NEW e, ParseOne(o, n) = <<e>>, e.t \in T <=> TakesRef(o)
        PROVE  Taken(q \o ParseOne(o, n)) = Taken(q) + IF TakesRef(o) THEN 1 ELSE 0
    <2>1. e \in Entry
      <3>1. <<e>> \in Seq(Entry) /\ Len(<<e>>) = 1 /\ <<e>>[1] = e BY <1>1, <1>2
      <3> QED BY <3>1
    <2> QED BY <1>2, <2>1, TakenFacts
  <1>3. o \in [t : BrTypes \cup OtherTypes \cup {"br", "xino", "fhsm_ignored", "ignore", "unknown"},
               d : Dir \cup {Outside, None}, p : Word, n : Nat]
    BY DEF RawOption, Named
  <1>4. ASSUME NEW t, NEW m PROVE OptAdd(o, t, m).t = t BY <1>3 DEF OptAdd
  <1>5. CASE o.t = "br"
    <2>1. ParseOne(o, n) = <<OptAdd(o, "add", n)>> BY <1>5 DEF ParseOne
    <2> QED BY <1>2, <1>4, <1>5, <2>1 DEF TakesRef
  <1>6. CASE o.t = "add"
    <2>1. ParseOne(o, n) = <<OptAdd(o, "add", o.n)>> BY <1>6 DEF ParseOne
    <2> QED BY <1>2, <1>4, <1>6, <2>1 DEF TakesRef
  <1>7. CASE o.t = "append"
    <2>1. ParseOne(o, n) = <<OptAdd(o, "append", 1)>> BY <1>7 DEF ParseOne
    <2> QED BY <1>2, <1>4, <1>7, <2>1 DEF TakesRef
  <1>8. CASE o.t = "prepend"
    <2>1. ParseOne(o, n) = <<OptAdd(o, "prepend", 0)>> BY <1>8 DEF ParseOne
    <2> QED BY <1>2, <1>4, <1>8, <2>1 DEF TakesRef
  <1>9. CASE o.t = "trunc_path"
    <2>1. ParseOne(o, n) = <<[o EXCEPT !.n = FindDbindex(si, o.d)]>> BY <1>9 DEF ParseOne
    <2>2. [o EXCEPT !.n = FindDbindex(si, o.d)].t = o.t BY <1>3
    <2> QED BY <1>2, <1>9, <2>1, <2>2 DEF TakesRef
  <1>10. CASE o.t = "fhsm_ignored"
    <2>1. ParseOne(o, n) = <<Tail1>> /\ Tail1.t = "tail" BY <1>10 DEF ParseOne, Tail1, O
    <2> QED BY <1>2, <1>10, <2>1 DEF TakesRef
  <1>11. CASE o.t = "ignore"
    <2>1. ParseOne(o, n) = <<>> BY <1>11 DEF ParseOne
    <2>2. q \o <<>> = q OBVIOUS
    <2>3. Taken(q) + 0 = Taken(q) BY TakenFacts
    <2> QED BY <1>11, <2>1, <2>2, <2>3 DEF TakesRef
  <1>12. CASE o.t \notin {"br", "add", "append", "prepend", "trunc_path", "fhsm_ignored", "ignore"}
    <2>1. ParseOne(o, n) = <<o>> BY <1>12 DEF ParseOne
    <2> QED BY <1>2, <1>12, <2>1 DEF TakesRef
  <1> QED BY <1>5, <1>6, <1>7, <1>8, <1>9, <1>10, <1>11, <1>12

(* Parsing one option ...                                                  *)
LEMMA ParseOK ==
  ASSUME IInv, Parse PROVE IInv'
  <1>1. TypeOK /\ PhaseOK /\ BranchOK /\ XinoOK /\ CacheOK /\ RefsOK BY DEF IInv
  <1>2. PICK o : o = call.raw[call.i] OBVIOUS
  <1>3. PICK p : p = ParseOne(o, call.bindex) OBVIOUS
  <1>4. /\ call.pc = "parse" /\ call.i <= Len(call.raw) /\ ~BadOption(o)
        /\ call' = [call EXCEPT !.i = @ + 1, !.opts = call.opts \o p, !.bindex = NextIndex(o, @)]
        /\ excused' = excused \cup IF o.t = "fhsm_ignored" THEN {"refs", "force"} ELSE {}
        /\ held' = held + IF TakesRef(o) THEN 1 ELSE 0
        /\ UNCHANGED <<mnt, si, gen, cache>>
    BY <1>2, <1>3 DEF Parse, Full
  <1>5. /\ call \in Call /\ call.raw \in Seq(RawOption) /\ call.i \in Nat \ {0} /\ call.bindex \in Nat
        /\ call.opts \in Seq(Entry)
    BY <1>1 DEF TypeOK, Call
  <1>6. o \in RawOption BY <1>2, <1>4, <1>5
  <1>7. /\ p \in Seq(Entry) /\ NextIndex(o, call.bindex) \in Nat
        /\ o.t # "fhsm_ignored" => NoTail(p)
    BY <1>1, <1>3, <1>4, <1>5, <1>6, ParseOneFacts
  <1>8. PICK q : q = call.opts \o p OBVIOUS
  <1>9. q \in Seq(Entry) /\ (NoTail(call.opts) /\ NoTail(p) => NoTail(q))
    <2>1. /\ q \in Seq(Entry) /\ Len(q) = Len(call.opts) + Len(p)
          /\ \A k \in 1 .. Len(call.opts) + Len(p) :
               q[k] = IF k <= Len(call.opts) THEN call.opts[k] ELSE p[k - Len(call.opts)]
      BY <1>5, <1>7, <1>8, ConcatProperties
    <2>2. Len(call.opts) \in Nat /\ Len(p) \in Nat BY <1>5, <1>7
    <2>3. DOMAIN q = 1 .. Len(q) /\ DOMAIN p = 1 .. Len(p) /\ DOMAIN call.opts = 1 .. Len(call.opts)
      BY <1>5, <1>7, <2>1
    <2>4. ASSUME NoTail(call.opts), NoTail(p), NEW k \in DOMAIN q PROVE q[k] # Tail1
      <3>1. CASE k <= Len(call.opts) BY <3>1, <2>1, <2>2, <2>3, <2>4 DEF NoTail
      <3>2. CASE k > Len(call.opts)
        <4>1. k - Len(call.opts) \in DOMAIN p BY <3>2, <2>1, <2>2, <2>3
        <4> QED BY <4>1, <3>2, <2>1, <2>2, <2>3, <2>4 DEF NoTail
      <3> QED BY <3>1, <3>2, <2>1, <2>2, <2>3
    <2> QED BY <2>1, <2>4 DEF NoTail
  <1>10. /\ call' \in Call /\ call'.pc = "parse" /\ call'.kind = call.kind /\ call'.opts = q
         /\ call'.fl = call.fl /\ call'.ok = call.ok
    <2>1. PICK n \in Nat : n = NextIndex(o, call.bindex) BY <1>7
    <2>2. PICK i \in Nat \ {0} : i = call.i + 1 BY <1>5
    <2>3. call' = [call EXCEPT !.i = i, !.opts = q, !.bindex = n] BY <1>4, <1>8, <2>1, <2>2
    <2> QED BY <1>4, <1>5, <1>9, <2>3 DEF Call
  <1>11. /\ excused' \in SUBSET Excuse
         /\ \A x \in {"orph", "nested", "torn"} : x \in excused' <=> x \in excused
         /\ \A x \in {"refs", "force"} : x \notin excused' => x \notin excused /\ o.t # "fhsm_ignored"
    BY <1>1, <1>4 DEF TypeOK, Excuse
  <1>12. TypeOK' BY <1>1, <1>4, <1>10, <1>11 DEF TypeOK
  <1>13. PhaseOK'
    <2>1. call'.raw = call.raw /\ call.raw # <<>>
      <3>1. call'.raw = call.raw BY <1>4, <1>5 DEF Call
      <3> QED BY <1>4, <1>5, <3>1
    <2> QED BY <1>1, <1>4, <1>10, <2>1 DEF PhaseOK
  <1>14. BranchOK' BY <1>1, <1>4, <1>11 DEF BranchOK
  <1>15. VerifyOK' BY <1>10 DEF VerifyOK
  <1>16. XinoOK' BY <1>1, <1>4, <1>10, <1>11 DEF XinoOK
  <1>17. CacheOK' BY <1>1, <1>4, <1>10, <1>11 DEF CacheOK
  <1>18. RefsOK'
    <2>1. Taken(q) = Taken(call.opts) + IF TakesRef(o) THEN 1 ELSE 0
      BY <1>1, <1>3, <1>4, <1>5, <1>6, <1>8, ParseTakes
    <2> QED BY <1>1, <1>4, <1>7, <1>9, <1>10, <1>11, <2>1 DEF RefsOK
  <1>19. ForceOK' BY <1>10 DEF ForceOK
  <1> QED BY <1>12, <1>13, <1>14, <1>15, <1>16, <1>17, <1>18, <1>19 DEF IInv

(* Freeing the options while the call is under way puts back what is held. *)
LEMMA AllFreed ==
  ASSUME TypeOK, RefsOK, call.pc # "idle", "refs" \notin excused
  PROVE  held - OptsFree(call.opts) = 0
  <1>1. call.opts \in Seq(Entry) BY DEF TypeOK, Call
  <1>2. held = Taken(call.opts) /\ NoTail(call.opts) BY DEF RefsOK
  <1>3. OptsFree(call.opts) = Taken(call.opts) /\ Taken(call.opts) \in Nat
    BY <1>1, <1>2, LiveFacts, TakenFacts
  <1> QED BY <1>2, <1>3

(* ... failing to parse it ...                                             *)
LEMMA ParseFailsOK ==
  ASSUME IInv, ParseFails PROVE IInv'
  <1>1. TypeOK /\ PhaseOK /\ BranchOK /\ XinoOK /\ CacheOK /\ RefsOK BY DEF IInv
  <1>2. /\ call.pc = "parse" /\ Gone /\ UNCHANGED <<mnt, si, gen, cache>>
        /\ excused' = excused /\ held' = held - OptsFree(call.opts)
    BY DEF ParseFails, Gone
  <1>3. /\ call' \in Call /\ call'.opts = <<>> /\ call'.fl = {} /\ call'.pc = "idle" /\ call'.kind = "none"
        /\ ~call'.ok /\ NoTail(call'.opts)
    BY <1>2, GoneFacts
  <1>4. /\ excused' \in SUBSET Excuse
        /\ \A x \in {"orph", "nested", "torn", "force"} : x \in excused' <=> x \in excused
    BY <1>1, <1>2 DEF TypeOK, Excuse
  <1>5. TypeOK' BY <1>1, <1>2, <1>3, <1>4 DEF TypeOK
  <1>6. PhaseOK' BY <1>1, <1>2, <1>3 DEF PhaseOK
  <1>7. BranchOK' BY <1>1, <1>2, <1>4 DEF BranchOK
  <1>8. VerifyOK' BY <1>3 DEF VerifyOK
  <1>9. XinoOK' BY <1>1, <1>2, <1>3, <1>4 DEF XinoOK
  <1>10. CacheOK' BY <1>1, <1>2, <1>3, <1>4 DEF CacheOK
  <1>11. RefsOK'
    <2>1. ASSUME "refs" \notin excused' PROVE held' = 0 BY <1>1, <1>2, <2>1, AllFreed
    <2> QED BY <1>3, <2>1 DEF RefsOK
  <1>12. ForceOK' BY <1>3 DEF ForceOK
  <1> QED BY <1>5, <1>6, <1>7, <1>8, <1>9, <1>10, <1>11, <1>12 DEF IInv

(* ... finding the page full, with an entry that holds no reference or     *)
(* with one that is excused ...                                            *)
LEMMA PageFullOK ==
  ASSUME IInv, PageFull PROVE IInv'
  <1>1. TypeOK /\ PhaseOK /\ BranchOK /\ XinoOK /\ CacheOK /\ RefsOK BY DEF IInv
  <1> DEFINE o == call.raw[call.i]
  <1>2. /\ call.pc = "parse" /\ Gone /\ UNCHANGED <<mnt, si, gen, cache>>
        /\ excused' = excused \cup IF TakesRef(o) THEN {"refs"} ELSE {}
        /\ held' = (held + IF TakesRef(o) THEN 1 ELSE 0)
                  - OptsFree(IF o.t = "br" THEN Full ELSE call.opts)
    BY DEF PageFull, Gone
  <1>3. /\ call' \in Call /\ call'.opts = <<>> /\ call'.fl = {} /\ call'.pc = "idle" /\ call'.kind = "none"
        /\ ~call'.ok /\ NoTail(call'.opts)
    BY <1>2, GoneFacts
  <1>4. /\ excused' \in SUBSET Excuse
        /\ \A x \in {"orph", "nested", "torn", "force"} : x \in excused' <=> x \in excused
    BY <1>1, <1>2 DEF TypeOK, Excuse
  <1>5. TypeOK' BY <1>1, <1>2, <1>3, <1>4 DEF TypeOK
  <1>6. PhaseOK' BY <1>1, <1>2, <1>3 DEF PhaseOK
  <1>7. BranchOK' BY <1>1, <1>2, <1>4 DEF BranchOK
  <1>8. VerifyOK' BY <1>3 DEF VerifyOK
  <1>9. XinoOK' BY <1>1, <1>2, <1>3, <1>4 DEF XinoOK
  <1>10. CacheOK' BY <1>1, <1>2, <1>3, <1>4 DEF CacheOK
  <1>11. RefsOK'
    <2>1. ASSUME "refs" \notin excused' PROVE held' = 0
      <3>1. ~TakesRef(o) /\ "refs" \notin excused BY <1>2, <2>1
      <3>2. o.t # "br" BY <3>1 DEF TakesRef
      <3>3. call.opts \in Seq(Entry) BY <1>1 DEF TypeOK, Call
      <3>4. held = Taken(call.opts) /\ Taken(call.opts) \in Nat
        BY <1>1, <1>2, <3>1, <3>3, TakenFacts DEF RefsOK
      <3>5. held' = held - OptsFree(call.opts)
        <4>1. PICK v : v = IF o.t = "br" THEN Full ELSE call.opts OBVIOUS
        <4>2. PICK k : k = IF TakesRef(o) THEN 1 ELSE 0 OBVIOUS
        <4>3. held' = (held + k) - OptsFree(v) BY <1>2, <4>1, <4>2
        <4>4. v = call.opts /\ k = 0 /\ held + 0 = held BY <3>1, <3>2, <3>4, <4>1, <4>2
        <4>5. held + k = held BY <4>4
        <4> QED BY <4>3, <4>4, <4>5, Zenon
      <3> QED BY <1>1, <1>2, <3>1, <3>5, AllFreed
    <2> QED BY <1>3, <2>1 DEF RefsOK
  <1>12. ForceOK' BY <1>3 DEF ForceOK
  <1> QED BY <1>5, <1>6, <1>7, <1>8, <1>9, <1>10, <1>11, <1>12 DEF IInv

(* ... having parsed the last one ...                                      *)
LEMMA ParseEndOK ==
  ASSUME IInv, ParseEnd PROVE IInv'
  <1>1. TypeOK /\ PhaseOK /\ BranchOK /\ XinoOK /\ CacheOK /\ RefsOK BY DEF IInv
  <1>2. /\ call.pc = "parse" /\ call' = [call EXCEPT !.pc = "parsed", !.i = 1]
        /\ UNCHANGED <<mnt, si, gen, cache, held, excused>>
    BY DEF ParseEnd, Goto
  <1>4. /\ call' \in Call /\ call'.pc = "parsed" /\ call'.kind = call.kind /\ call'.opts = call.opts /\ call'.raw = call.raw
        /\ call'.fl = call.fl /\ call'.ok = call.ok
    <2>1. call \in Call /\ "parsed" \in Pc BY <1>1 DEF TypeOK, Pc
    <2> QED BY <1>2, <2>1, GotoFacts
  <1>5. TypeOK' BY <1>1, <1>2, <1>4 DEF TypeOK
  <1>6. PhaseOK' BY <1>1, <1>2, <1>4 DEF PhaseOK
  <1>7. BranchOK' BY <1>1, <1>2 DEF BranchOK
  <1>8. VerifyOK' BY <1>4 DEF VerifyOK
  <1>9. XinoOK' BY <1>1, <1>2, <1>4 DEF XinoOK
  <1>10. CacheOK' BY <1>1, <1>2, <1>4 DEF CacheOK
  <1>11. RefsOK' BY <1>1, <1>2, <1>4 DEF RefsOK
  <1>12. ForceOK' BY <1>4 DEF ForceOK
  <1> QED BY <1>5, <1>6, <1>7, <1>8, <1>9, <1>10, <1>11, <1>12 DEF IInv

(* ... the lock refused to a remount ...                                   *)
LEMMA LockRefusedOK ==
  ASSUME IInv, LockRefused PROVE IInv'
  <1>1. TypeOK /\ PhaseOK /\ BranchOK /\ XinoOK /\ CacheOK /\ RefsOK BY DEF IInv
  <1>2. /\ call.pc = "parsed" /\ Gone /\ UNCHANGED <<mnt, si, gen, cache>>
        /\ excused' = excused \cup {"refs"}
    BY DEF LockRefused, Gone
  <1>3. /\ call' \in Call /\ call'.opts = <<>> /\ call'.fl = {} /\ call'.pc = "idle" /\ call'.kind = "none"
        /\ ~call'.ok /\ NoTail(call'.opts)
    BY <1>2, GoneFacts
  <1>4. /\ excused' \in SUBSET Excuse
        /\ \A x \in {"orph", "nested", "torn", "force"} : x \in excused' <=> x \in excused
    BY <1>1, <1>2 DEF TypeOK, Excuse
  <1>5. TypeOK' BY <1>1, <1>2, <1>3, <1>4 DEF TypeOK
  <1>6. PhaseOK' BY <1>1, <1>2, <1>3 DEF PhaseOK
  <1>7. BranchOK' BY <1>1, <1>2, <1>4 DEF BranchOK
  <1>8. VerifyOK' BY <1>3 DEF VerifyOK
  <1>9. XinoOK' BY <1>1, <1>2, <1>3, <1>4 DEF XinoOK
  <1>10. CacheOK' BY <1>1, <1>2, <1>3, <1>4 DEF CacheOK
  <1>11. RefsOK' BY <1>2, <1>3 DEF RefsOK
  <1>12. ForceOK' BY <1>3 DEF ForceOK
  <1> QED BY <1>5, <1>6, <1>7, <1>8, <1>9, <1>10, <1>11, <1>12 DEF IInv

(* ... taking the lock ...                                                 *)
LEMMA LockOK ==
  ASSUME IInv, Lock PROVE IInv'
  <1>1. TypeOK /\ PhaseOK /\ BranchOK /\ XinoOK /\ CacheOK /\ RefsOK BY DEF IInv
  <1>2. PICK pc : pc = IF call.kind = "mount" THEN "simple" ELSE IF call.raw = <<>> THEN "verify" ELSE "all"
    OBVIOUS
  <1>3. /\ call.pc = "parsed" /\ call' = [call EXCEPT !.pc = pc, !.i = 1]
        /\ UNCHANGED <<mnt, si, gen, cache, held, excused>>
    BY <1>2 DEF Lock, Goto
  <1>4. /\ call' \in Call /\ call'.pc = pc /\ call'.kind = call.kind /\ call'.opts = call.opts /\ call'.raw = call.raw
        /\ call'.fl = call.fl /\ call'.ok = call.ok /\ call'.i = 1 /\ call'.verified = call.verified
    <2>1. call \in Call /\ pc \in Pc BY <1>1, <1>2 DEF TypeOK, Pc
    <2> QED BY <1>3, <2>1, GotoFacts
  <1>5. /\ call.kind \in {"mount", "remount"} /\ mnt = (call.kind = "remount") /\ call.ok /\ call.fl = {}
    BY <1>1, <1>3 DEF TypeOK, Call, PhaseOK
  <1>6. /\ call.opts \in Seq(Entry) /\ Len(UpToTail(call.opts)) \in Nat /\ Len(si.brs) \in Nat
        /\ Len(call.opts) \in Nat
    BY <1>1, LiveFacts DEF TypeOK, Call, Super
  <1>7. ~mnt => si = NewSi BY <1>1, <1>3 DEF PhaseOK
  <1>8. Live' = Live /\ Live = UpToTail(call.opts) BY <1>4 DEF Live
  <1>9. TypeOK' BY <1>1, <1>3, <1>4 DEF TypeOK
  <1>10. PhaseOK'
    <2>1. call.kind = "mount" => pc = "simple" BY <1>2
    <2>2. call.kind = "remount" => pc \in {"verify", "all"} BY <1>2
    <2>4. call'.i <= Len(Live') + 1 /\ call'.i <= Len(si'.brs) + 1 BY <1>3, <1>4, <1>6, <1>8
    <2> QED BY <1>1, <1>3, <1>4, <1>5, <2>1, <2>2, <2>4 DEF PhaseOK
  <1>11. BranchOK' BY <1>1, <1>3 DEF BranchOK
  <1>12. VerifyOK' BY <1>2, <1>4 DEF VerifyOK
  <1>13. XinoOK'
    <2>1. mnt => pc \notin {"simple", "br"} BY <1>2, <1>5
    <2>2. ~mnt => pc = "simple" BY <1>2, <1>5
    <2> QED BY <1>1, <1>3, <1>4, <1>7, <2>1, <2>2, NewSiFacts DEF XinoOK
  <1>14. CacheOK' BY <1>1, <1>3, <1>4 DEF CacheOK
  <1>15. RefsOK'
    <2>1. pc # "idle" BY <1>2
    <2> QED BY <1>1, <1>3, <1>4, <2>1 DEF RefsOK
  <1>16. ForceOK'
    <2>1. CASE pc = "verify"
      <3>1. call'.opts = <<>> BY <1>1, <1>2, <1>4, <2>1 DEF PhaseOK
      <3> QED BY <3>1 DEF ForceOK
    <2>2. CASE pc \in {"simple", "all"}
      <3>1. \A c \in {"simple", "br", "xino"} : Passed(call', c) = 0 BY <1>4, <2>2 DEF Passed
      <3>2. \A e : Class(e) \in {"simple", "br", "xino"} BY DEF Class
      <3>3. \A j \in DOMAIN call'.opts : j \in Nat \ {0} BY <1>4, <1>6
      <3>4. ASSUME NEW j PROVE ~Done(call', j)
        <4>1. PICK c : c = Class(call'.opts[j]) OBVIOUS
        <4>2. Passed(call', c) = 0 BY <3>1, <3>2, <4>1
        <4> QED BY <3>3, <4>1, <4>2 DEF Done
      <3> QED BY <3>4 DEF ForceOK, Latest
    <2> QED BY <1>2, <2>1, <2>2
  <1> QED BY <1>9, <1>10, <1>11, <1>12, <1>13, <1>14, <1>15, <1>16 DEF IInv

(* ... a look-up between two calls ...                                     *)
LEMMA LookupOK ==
  ASSUME IInv, Lookup PROVE IInv'
  <1>1. TypeOK /\ PhaseOK /\ BranchOK /\ VerifyOK /\ XinoOK /\ RefsOK /\ ForceOK BY DEF IInv
  <1>2. /\ mnt /\ cache' = [gen |-> gen, view |-> View(si)] /\ gen \in Nat
        /\ UNCHANGED <<mnt, si, call, gen, held, excused>>
    BY <1>1 DEF Lookup, TypeOK
  <1>3. View(si) \in Seq(Dir \X BOOLEAN)
    <2>1. si.brs \in Seq(Branch) BY <1>1 DEF TypeOK, Super
    <2>2. \A j \in 1 .. Len(si.brs) : si.brs[j] \in Branch BY <2>1
    <2>3. \A j \in 1 .. Len(si.brs) : <<si.brs[j].d, Whable(si.brs[j].perm)>> \in Dir \X BOOLEAN
      <3>1. \A p : Whable(p) \in BOOLEAN BY DEF Whable, Writable
      <3> QED BY <2>2, <3>1 DEF Branch
    <2>4. View(si) = [j \in 1 .. Len(si.brs) |-> <<si.brs[j].d, Whable(si.brs[j].perm)>>]
      BY <2>1 DEF View
    <2>5. View(si) \in [1 .. Len(si.brs) -> Dir \X BOOLEAN] BY <2>3, <2>4
    <2> QED BY <2>1, <2>5, SeqOfFunction
  <1>4. cache' \in Cached BY <1>2, <1>3 DEF Cached
  <1>5. TypeOK' BY <1>1, <1>2, <1>4 DEF TypeOK
  <1>6. PhaseOK' BY <1>1, <1>2 DEF PhaseOK, Live
  <1>7. BranchOK' BY <1>1, <1>2 DEF BranchOK
  <1>8. VerifyOK' BY <1>1, <1>2 DEF VerifyOK
  <1>9. XinoOK' BY <1>1, <1>2 DEF XinoOK, Live
  <1>10. CacheOK' BY <1>1, <1>2 DEF CacheOK
  <1>11. RefsOK' BY <1>1, <1>2 DEF RefsOK
  <1>12. ForceOK' BY <1>1, <1>2 DEF ForceOK
  <1> QED BY <1>5, <1>6, <1>7, <1>8, <1>9, <1>10, <1>11, <1>12 DEF IInv

(* ... and steps that change nothing of this.                              *)
LEMMA StutterOK ==
  ASSUME IInv, UNCHANGED vars PROVE IInv'
  <1>1. TypeOK /\ PhaseOK /\ BranchOK /\ VerifyOK /\ XinoOK /\ CacheOK /\ RefsOK /\ ForceOK BY DEF IInv
  <1>2. UNCHANGED <<mnt, si, call, gen, cache, held, excused>> BY DEF vars
  <1>5. TypeOK' BY <1>1, <1>2 DEF TypeOK
  <1>6. PhaseOK' BY <1>1, <1>2 DEF PhaseOK, Live
  <1>7. BranchOK' BY <1>1, <1>2 DEF BranchOK
  <1>8. VerifyOK' BY <1>1, <1>2 DEF VerifyOK
  <1>9. XinoOK' BY <1>1, <1>2 DEF XinoOK, Live
  <1>10. CacheOK' BY <1>1, <1>2 DEF CacheOK
  <1>11. RefsOK' BY <1>1, <1>2 DEF RefsOK
  <1>12. ForceOK' BY <1>1, <1>2 DEF ForceOK
  <1> QED BY <1>5, <1>6, <1>7, <1>8, <1>9, <1>10, <1>11, <1>12 DEF IInv

-----------------------------------------------------------------------------
(* What a change of the other fields of the superblock leaves.             *)
LEMMA SameBrs ==
  ASSUME NEW s, NEW t, t.brs = s.brs
  PROVE  /\ Once(s) => Once(t)
         /\ BasesOK(s) => BasesOK(t)
         /\ OrphOK(s) => OrphOK(t)
         /\ View(t) = View(s) /\ Dirs(t) = Dirs(s) /\ Fhsm(t) = Fhsm(s)
         /\ \A d : FindDbindex(t, d) = FindDbindex(s, d)
         /\ t.plink = s.plink => \A b : Fits(s, b) <=> Fits(t, b)
  <1>1. Once(s) => Once(t) BY DEF Once
  <1>2. BasesOK(s) => BasesOK(t) BY DEF BasesOK
  <1>3. OrphOK(s) => OrphOK(t) BY DEF OrphOK
  <1>4. View(t) = View(s) BY DEF View
  <1>5. Dirs(t) = Dirs(s) BY DEF Dirs
  <1>6. Fhsm(t) = Fhsm(s) BY DEF Fhsm
  <1>7. \A d : FindDbindex(t, d) = FindDbindex(s, d) BY DEF FindDbindex
  <1>8. t.plink = s.plink => \A b : Fits(s, b) <=> Fits(t, b) BY DEF Fits
  <1> QED BY <1>1, <1>2, <1>3, <1>4, <1>5, <1>6, <1>7, <1>8

(* ... and of the xino files.                                              *)
LEMMA SameXino ==
  ASSUME NEW s, NEW t, t.brs = s.brs, t.xib = s.xib, t.xigen = s.xigen, t.brid = s.brid
  PROVE  /\ Bare(s) => Bare(t)
         /\ t.xino = s.xino => (XibOK(s) => XibOK(t)) /\ (Whole(s) => Whole(t))
         /\ XibOK(s) /\ s.xib = None => XibOK(t)
  <1>1. Bare(s) => Bare(t) BY DEF Bare
  <1>2. Dirs(t) = Dirs(s) BY SameBrs
  <1>3. t.xino = s.xino => (XibOK(s) => XibOK(t)) /\ (Whole(s) => Whole(t)) BY <1>2 DEF XibOK, Whole
  <1>4. XibOK(s) /\ s.xib = None => XibOK(t) BY DEF XibOK
  <1> QED BY <1>1, <1>3, <1>4

(* An option that is not about xino does not see its flag.                 *)
LEMMA SameEffect ==
  ASSUME NEW s, NEW t, t.brs = s.brs, t.plink = s.plink, t.udba = s.udba, NEW o, InEffect(s, o),
         Class(o) # "xino" \/ (t.xino = s.xino /\ t.xib = s.xib)
  PROVE  InEffect(t, o)
  BY SameBrs DEF InEffect

(* udba plays no part but in its own option.                               *)
LEMMA UdbaEffect ==
  ASSUME NEW s \in Super, NEW u \in Word, NEW q \in Entry, NEW t, t = [s EXCEPT !.udba = u]
  PROVE  /\ q.t # "udba" => (InEffect(s, q) <=> InEffect(t, q))
         /\ q.t = "udba" => (InEffect(t, q) <=> u = q.p)
  <1>1. /\ t.brs = s.brs /\ t.plink = s.plink /\ t.xino = s.xino /\ t.xib = s.xib /\ t.udba = u
    BY DEF Super
  <1>2. Dirs(t) = Dirs(s) /\ \A d : FindDbindex(t, d) = FindDbindex(s, d) BY <1>1, SameBrs
  <1>3. ASSUME q.t # "udba" PROVE InEffect(s, q) <=> InEffect(t, q)
    BY <1>1, <1>2, <1>3 DEF InEffect
  <1>4. ASSUME q.t = "udba" PROVE InEffect(t, q) <=> u = q.p
    <2>1. Class(q) = "simple" BY <1>4 DEF Class, BrTypes
    <2> QED BY <1>1, <1>4, <2>1 DEF InEffect
  <1> QED BY <1>3, <1>4

(* No step but Exec gives an option its turn.                              *)
LEMMA ForceStays ==
  ASSUME ForceOK, call'.opts = call.opts, call'.ok => call.ok,
         call.kind # "none", call.pc \notin {"parse", "parsed"}, "force" \notin excused' => "force" \notin excused,
         call'.ok /\ "force" \notin excused' =>
           /\ \A j : Done(call', j) <=> Done(call, j)
           /\ \A j \in DOMAIN call.opts :
                Done(call, j) /\ InEffect(Eventual(mnt, si, call), call.opts[j])
                  => InEffect(Eventual(mnt', si', call'), call.opts[j])
  PROVE  ForceOK'
  <1> SUFFICES ASSUME call'.ok, "force" \notin excused', NEW j \in DOMAIN call.opts, Latest(call', j)
               PROVE  InEffect(Eventual(mnt', si', call'), call.opts[j])
    BY DEF ForceOK
  <1>1. Done(call, j) /\ Latest(call, j) BY DEF Latest
  <1>2. InEffect(Eventual(mnt, si, call), call.opts[j]) BY <1>1 DEF ForceOK
  <1> QED BY <1>1, <1>2

(* The same when no pass moves.                                            *)
LEMMA ForceKeeps ==
  ASSUME ForceOK, call'.opts = call.opts, call'.ok => call.ok,
         call.kind # "none", call.pc \notin {"parse", "parsed"}, "force" \notin excused' => "force" \notin excused,
         call'.ok /\ "force" \notin excused' =>
           /\ \A c \in {"simple", "br", "xino"} : Passed(call', c) = Passed(call, c)
           /\ \A j \in DOMAIN call.opts :
                Done(call, j) /\ InEffect(Eventual(mnt, si, call), call.opts[j])
                  => InEffect(Eventual(mnt', si', call'), call.opts[j])
  PROVE  ForceOK'
  <1>1. \A e : Class(e) \in {"simple", "br", "xino"} BY DEF Class
  <1>2. ASSUME call'.ok, "force" \notin excused', NEW k PROVE Done(call', k) <=> Done(call, k)
    <2>1. PICK c \in {"simple", "br", "xino"} : c = Class(call.opts[k]) BY <1>1
    <2>2. Passed(call', c) = Passed(call, c) BY <1>2
    <2>3. Done(call', k) <=> k \in DOMAIN call.opts /\ k <= Passed(call', c) BY <2>1 DEF Done
    <2>4. Done(call, k) <=> k \in DOMAIN call.opts /\ k <= Passed(call, c) BY <2>1 DEF Done
    <2> QED BY <2>2, <2>3, <2>4
  <1> QED BY <1>2, ForceStays

(* ... from one pass to the next ...                                       *)
LEMMA ToBranchesOK ==
  ASSUME IInv, ToBranches PROVE IInv'
  <1>1. TypeOK /\ PhaseOK /\ BranchOK /\ XinoOK /\ CacheOK /\ RefsOK /\ ForceOK BY DEF IInv
  <1>2. PICK u \in Word : u = si.udba BY <1>1 DEF TypeOK, Super
  <1>3. PICK x \in BOOLEAN : x = si.xino BY <1>1 DEF TypeOK, Super
  <1>4. /\ call.pc = "simple" /\ call.ok /\ call.i > Len(Live)
        /\ si' = [si EXCEPT !.xino = FALSE, !.udba = "reval"]
        /\ call' = [call EXCEPT !.pc = "br", !.i = 1, !.tmp = [xino |-> x, udba |-> u]]
        /\ UNCHANGED <<mnt, gen, cache, held, excused>>
    BY <1>2, <1>3 DEF ToBranches, PassOver
  <1>5. /\ call' \in Call /\ call'.pc = "br" /\ call'.kind = call.kind /\ call'.opts = call.opts /\ call'.raw = call.raw
        /\ call'.fl = call.fl /\ call'.ok /\ call'.i = 1 /\ call'.tmp.xino = x /\ call'.tmp.udba = u
    <2>1. call \in Call /\ "br" \in Pc BY <1>1 DEF TypeOK, Pc
    <2>2. PICK n \in Nat \ {0} : n = 1 OBVIOUS
    <2>3. PICK e \in [xino : BOOLEAN, udba : Word] : e = [xino |-> x, udba |-> u] OBVIOUS
    <2>4. call' = [call EXCEPT !.pc = "br", !.i = n, !.tmp = e] BY <1>4, <2>2, <2>3
    <2>5. call' \in Call /\ call'.pc = "br" /\ call'.i = n /\ call'.tmp = e BY <2>1, <2>4 DEF Call
    <2> QED BY <1>4, <2>1, <2>2, <2>3, <2>4, <2>5 DEF Call
  <1>6. /\ si' \in Super /\ si'.brs = si.brs /\ si'.xib = si.xib /\ si'.xigen = si.xigen /\ si'.brid = si.brid
        /\ si'.plink = si.plink /\ ~si'.xino
    BY <1>1, <1>4 DEF TypeOK, Super, Word
  <1>7. /\ call.kind # "none" /\ mnt = (call.kind = "remount") /\ ~mnt
        /\ call.opts \in Seq(Entry) /\ Len(UpToTail(call.opts)) \in Nat /\ Live' = Live
        /\ call.i \in Nat /\ call.i = Len(Live) + 1
    BY <1>1, <1>4, <1>5, LiveFacts DEF TypeOK, Call, PhaseOK, Live
  <1>8. TypeOK' BY <1>1, <1>4, <1>5, <1>6 DEF TypeOK
  <1>9. PhaseOK'
    <2>1. call'.i <= Len(Live') + 1 BY <1>5, <1>7 DEF Live
    <2>2. /\ "REFRESH" \in call'.fl => call'.raw # <<>>
          /\ call'.raw = <<>> => call'.opts = <<>>
      BY <1>1, <1>5 DEF PhaseOK
    <2>3. mnt' = (call'.kind = "remount") /\ ~mnt' /\ call'.kind # "none"
      BY <1>4, <1>5, <1>7
    <2>4. call'.pc = "br" /\ call'.ok BY <1>5
    <2> QED BY ONLY <2>1, <2>2, <2>3, <2>4 DEF PhaseOK
  <1>10. BranchOK' BY <1>1, <1>4, <1>6, SameBrs DEF BranchOK
  <1>11. VerifyOK' BY <1>5 DEF VerifyOK
  <1>12. XinoOK'
    <2>1. XibOK(si) /\ si.xib = None BY <1>1, <1>4 DEF XinoOK
    <2>2. XibOK(si') BY <2>1, <1>6, SameXino
    <2>3. "torn" \notin excused => Bare(si) /\ si.xino BY <1>1, <1>4, <1>7 DEF XinoOK
    <2>4. Bare(si) => Bare(si') BY <1>6, SameXino
    <2> QED BY <1>3, <1>4, <1>5, <1>6, <1>7, <2>1, <2>2, <2>3, <2>4 DEF XinoOK
  <1>13. CacheOK' BY <1>1, <1>4, <1>7 DEF CacheOK
  <1>14. RefsOK' BY <1>1, <1>4, <1>5 DEF RefsOK
  <1>15. ForceOK'
    <2> DEFINE t == [si' EXCEPT !.udba = u]
    <2>1. Eventual(mnt, si, call) = si /\ Eventual(mnt', si', call') = t BY <1>4, <1>5, <1>7 DEF Eventual
    <2>2. t.brs = si.brs /\ t.plink = si.plink /\ t.udba = si.udba BY <1>1, <1>2, <1>6 DEF TypeOK, Super
    <2>3. ASSUME "force" \notin excused
          PROVE  \A c \in {"simple", "br", "xino"} : Passed(call', c) = Passed(call, c)
      <3>1. Len(Live) = Len(call.opts) BY <1>1, <1>7, <2>3, LiveFacts DEF RefsOK, Live
      <3>2. Len(call.opts) \in Nat BY <1>7
      <3>3. Passed(call', "simple") = Passed(call, "simple") BY <1>4, <1>5, <1>7, <3>1, <3>2 DEF Passed
      <3>4. Passed(call', "br") = Passed(call, "br") BY <1>4, <1>5 DEF Passed
      <3>5. Passed(call', "xino") = Passed(call, "xino") BY <1>4, <1>5 DEF Passed
      <3> QED BY <3>3, <3>4, <3>5
    <2>4. ASSUME NEW j \in DOMAIN call.opts, Done(call, j) PROVE Class(call.opts[j]) # "xino"
      <3>1. Passed(call, "xino") = 0 BY <1>4 DEF Passed
      <3>2. j \in Nat \ {0} BY <1>7
      <3> QED BY <2>4, <3>1, <3>2 DEF Done
    <2> HIDE DEF t
    <2> QED BY <1>1, <1>4, <1>5, <1>7, <2>1, <2>2, <2>3, <2>4, ForceKeeps, SameEffect
  <1> QED BY <1>8, <1>9, <1>10, <1>11, <1>12, <1>13, <1>14, <1>15 DEF IInv

(* ... to the pass of the xino options ...                                 *)
LEMMA ToXinoOK ==
  ASSUME IInv, ToXino PROVE IInv'
  <1>1. TypeOK /\ PhaseOK /\ BranchOK /\ XinoOK /\ CacheOK /\ RefsOK /\ ForceOK BY DEF IInv
  <1>2. PICK x \in BOOLEAN : x = call.tmp.xino BY <1>1 DEF TypeOK, Call
  <1>3. /\ call.pc = "br" /\ call.ok /\ call.i > Len(Live)
        /\ si' = [si EXCEPT !.xino = x] /\ call' = [call EXCEPT !.pc = "xino", !.i = 1]
        /\ UNCHANGED <<mnt, gen, cache, held, excused>>
    BY <1>2 DEF ToXino, PassOver, Goto
  <1>4. /\ call' \in Call /\ call'.pc = "xino" /\ call'.kind = call.kind /\ call'.opts = call.opts /\ call'.raw = call.raw
        /\ call'.fl = call.fl /\ call'.ok /\ call'.i = 1 /\ call'.tmp = call.tmp
    <2>1. call \in Call /\ "xino" \in Pc BY <1>1 DEF TypeOK, Pc
    <2> QED BY <1>3, <2>1, GotoFacts
  <1>5. /\ si' \in Super /\ si'.brs = si.brs /\ si'.xib = si.xib /\ si'.xigen = si.xigen /\ si'.brid = si.brid
        /\ si'.plink = si.plink /\ si'.udba = si.udba /\ si'.xino = x
    BY <1>1, <1>2, <1>3 DEF TypeOK, Super
  <1>6. /\ call.kind # "none" /\ mnt = (call.kind = "remount") /\ ~mnt
        /\ call.opts \in Seq(Entry) /\ Len(UpToTail(call.opts)) \in Nat /\ Live' = Live
        /\ call.i \in Nat /\ call.i = Len(Live) + 1
    BY <1>1, <1>3, <1>4, LiveFacts DEF TypeOK, Call, PhaseOK, Live
  <1>7. TypeOK' BY <1>1, <1>3, <1>4, <1>5 DEF TypeOK
  <1>8. PhaseOK'
    <2>1. call'.i <= Len(Live') + 1 BY <1>4, <1>6 DEF Live
    <2> QED BY <1>1, <1>3, <1>4, <1>6, <2>1 DEF PhaseOK
  <1>9. BranchOK' BY <1>1, <1>3, <1>5, SameBrs DEF BranchOK
  <1>10. VerifyOK' BY <1>4 DEF VerifyOK
  <1>11. XinoOK'
    <2>1. XibOK(si) /\ si.xib = None BY <1>1, <1>3 DEF XinoOK
    <2>2. XibOK(si') BY <2>1, <1>5, SameXino
    <2>3. "torn" \notin excused => Bare(si) /\ call.tmp.xino BY <1>1, <1>3, <1>6 DEF XinoOK
    <2>4. Bare(si) => Bare(si') BY <1>5, SameXino
    <2>5. ~OwnXino(Live', call'.i - 1) BY <1>4 DEF OwnXino
    <2> QED BY <1>2, <1>3, <1>4, <1>5, <1>6, <2>1, <2>2, <2>3, <2>4, <2>5 DEF XinoOK
  <1>12. CacheOK' BY <1>1, <1>3, <1>6 DEF CacheOK
  <1>13. RefsOK' BY <1>1, <1>3, <1>4 DEF RefsOK
  <1>14. ForceOK'
    <2>0. PICK u \in Word : u = call.tmp.udba BY <1>1 DEF TypeOK, Call
    <2> DEFINE s == [si EXCEPT !.udba = u]
    <2> DEFINE t == [si' EXCEPT !.udba = u]
    <2>1. Eventual(mnt, si, call) = s /\ Eventual(mnt', si', call') = t
      BY <1>3, <1>4, <1>6, <2>0 DEF Eventual
    <2>2. t.brs = s.brs /\ t.plink = s.plink /\ t.udba = s.udba BY <1>1, <2>0, <1>5 DEF TypeOK, Super
    <2>3. ASSUME "force" \notin excused
          PROVE  \A c \in {"simple", "br", "xino"} : Passed(call', c) = Passed(call, c)
      <3>1. Len(Live) = Len(call.opts) BY <1>1, <1>6, <2>3, LiveFacts DEF RefsOK, Live
      <3>2. Len(call.opts) \in Nat BY <1>6
      <3>3. Passed(call', "simple") = Passed(call, "simple") BY <1>3, <1>4 DEF Passed
      <3>4. Passed(call', "br") = Passed(call, "br") BY <1>3, <1>4, <1>6, <3>1, <3>2 DEF Passed
      <3>5. Passed(call', "xino") = Passed(call, "xino") BY <1>3, <1>4 DEF Passed
      <3> QED BY <3>3, <3>4, <3>5
    <2>4. ASSUME NEW j \in DOMAIN call.opts, Done(call, j) PROVE Class(call.opts[j]) # "xino"
      <3>1. Passed(call, "xino") = 0 BY <1>3 DEF Passed
      <3>2. j \in Nat \ {0} BY <1>6
      <3> QED BY <2>4, <3>1, <3>2 DEF Done
    <2> HIDE DEF s, t
    <2> QED BY <1>1, <1>3, <1>4, <1>6, <2>1, <2>2, <2>3, <2>4, ForceKeeps, SameEffect
  <1> QED BY <1>7, <1>8, <1>9, <1>10, <1>11, <1>12, <1>13, <1>14 DEF IInv

(* ... and to verifying.                                                   *)
LEMMA ToVerifyOK ==
  ASSUME IInv, ToVerify PROVE IInv'
  <1>1. TypeOK /\ PhaseOK /\ BranchOK /\ XinoOK /\ CacheOK /\ RefsOK /\ ForceOK BY DEF IInv
  <1>2. /\ call.pc \in {"xino", "all"} /\ call' = [call EXCEPT !.pc = "verify", !.i = 1]
        /\ call.ok => call.i > Len(Live)
        /\ call.pc = "xino" => call.ok
        /\ UNCHANGED <<mnt, si, gen, cache, held, excused>>
    BY DEF ToVerify, PassOver, Goto
  <1>3. /\ call' \in Call /\ call'.pc = "verify" /\ call'.kind = call.kind /\ call'.opts = call.opts /\ call'.raw = call.raw
        /\ call'.fl = call.fl /\ call'.ok = call.ok /\ call'.i = 1 /\ call'.tmp = call.tmp
    <2>1. call \in Call /\ "verify" \in Pc BY <1>1 DEF TypeOK, Pc
    <2> QED BY <1>2, <2>1, GotoFacts
  <1>4. /\ call.kind # "none" /\ mnt = (call.kind = "remount") /\ mnt = (call.pc = "all")
        /\ call.opts \in Seq(Entry) /\ Len(UpToTail(call.opts)) \in Nat /\ Live' = Live
        /\ call.i \in Nat /\ (call.ok => call.i = Len(Live) + 1) /\ Len(si.brs) \in Nat
    BY <1>1, <1>2, <1>3, LiveFacts DEF TypeOK, Call, PhaseOK, Live, Super
  <1>5. TypeOK' BY <1>1, <1>2, <1>3 DEF TypeOK
  <1>6. PhaseOK'
    <2>1. call'.i <= Len(si'.brs) + 1 BY <1>2, <1>3, <1>4
    <2> QED BY <1>1, <1>2, <1>3, <1>4, <2>1 DEF PhaseOK
  <1>7. BranchOK' BY <1>1, <1>2 DEF BranchOK
  <1>8. VerifyOK' BY <1>3 DEF VerifyOK
  <1>9. XinoOK'
    <2>1. call.ok => call.i - 1 = Len(Live) BY <1>4 DEF Live
    <2> QED BY <1>1, <1>2, <1>3, <1>4, <2>1 DEF XinoOK
  <1>10. CacheOK' BY <1>1, <1>2, <1>3 DEF CacheOK
  <1>11. RefsOK' BY <1>1, <1>2, <1>3 DEF RefsOK
  <1>12. ForceOK'
    <2>1. Eventual(mnt', si', call') = Eventual(mnt, si, call)
      <3>1. CASE mnt BY <1>2, <3>1 DEF Eventual
      <3>2. CASE ~mnt
        <4>1. call.pc = "xino" /\ call'.pc = "verify" /\ ~mnt' BY <1>2, <1>3, <1>4, <3>2
        <4>2. si' = si /\ call'.tmp.udba = call.tmp.udba BY <1>2, <1>3
        <4> QED BY <3>2, <4>1, <4>2 DEF Eventual
      <3> QED BY <3>1, <3>2
    <2>2. ASSUME "force" \notin excused, call.ok
          PROVE  \A c \in {"simple", "br", "xino"} : Passed(call', c) = Passed(call, c)
      <3>1. Len(Live) = Len(call.opts) BY <1>1, <1>4, <2>2, LiveFacts DEF RefsOK, Live
      <3>2. Len(call.opts) \in Nat /\ call.i - 1 = Len(call.opts) BY <1>4, <2>2, <3>1 DEF Live
      <3> QED BY <1>2, <1>3, <3>2 DEF Passed
    <2> QED BY <1>1, <1>2, <1>3, <1>4, <2>1, <2>2, ForceKeeps
  <1> QED BY <1>5, <1>6, <1>7, <1>8, <1>9, <1>10, <1>11, <1>12 DEF IInv

-----------------------------------------------------------------------------
(* ... the options, one after the other: one that has its turn ...         *)
Skipped(o) ==
  /\ call.pc \notin {"all", Class(o)} /\ call' = [call EXCEPT !.i = @ + 1] /\ UNCHANGED <<si, excused>>
Turn(o, r) ==
  /\ call.pc \in {"all", Class(o)} /\ si' = r.si
  /\ excused' = (excused \cup r.ex) \ IF Mends(o, r) THEN {"torn"} ELSE {}
  /\ call' = [call EXCEPT !.i = @ + 1, !.ok = r.ok, !.fl = @ \cup r.fl]

(* What is known when an option is due.                                    *)
Due(o) ==
  /\ call.pc \in {"simple", "br", "xino", "all"} /\ call.ok /\ UNCHANGED <<mnt, gen, cache, held>>
  /\ o \in Option /\ o = call.opts[call.i] /\ o = Live[call.i]
  /\ Live = UpToTail(call.opts) /\ Len(Live) \in Nat
  /\ call.i \in Nat \ {0} /\ call.i <= Len(Live) /\ call.i \in DOMAIN call.opts
  /\ call.kind # "none" /\ mnt = (call.kind = "remount") /\ mnt = (call.pc = "all")
  /\ call.opts \in Seq(Entry)

(* Exec is one or the other.                                               *)
LEMMA ExecCases ==
  ASSUME TypeOK, PhaseOK, Exec
  PROVE  \E o : Due(o) /\ (Skipped(o) \/ \E r \in Results(o, call.kind = "remount") : Turn(o, r))
  <1>1. PICK o : o = Live[call.i] OBVIOUS
  <1>2. /\ call.opts \in Seq(Entry) /\ call.i \in Nat \ {0} /\ call.kind \in {"none", "mount", "remount"}
    BY DEF TypeOK, Call
  <1>3. Live = UpToTail(call.opts) /\ Live \in Seq(Option) /\ Len(Live) <= Len(call.opts)
    BY <1>2, LiveFacts DEF Live
  <1>4. /\ call.pc \in {"simple", "br", "xino", "all"} /\ call.ok /\ call.i <= Len(Live)
        /\ UNCHANGED <<mnt, gen, cache, held>>
        /\ Skipped(o) \/ \E r \in Results(o, call.kind = "remount") : Turn(o, r)
    BY <1>1 DEF Exec, Skipped, Turn
  <1>5. Len(Live) \in Nat /\ Len(call.opts) \in Nat /\ call.i \in 1 .. Len(Live)
        /\ call.i \in DOMAIN call.opts
    BY <1>2, <1>3, <1>4
  <1>6. Live[call.i] = call.opts[call.i] BY <1>2, <1>5, LiveFacts DEF Live
  <1>7. o \in Option BY <1>1, <1>3, <1>5
  <1>8. call.kind # "none" /\ mnt = (call.kind = "remount") /\ mnt = (call.pc = "all")
    BY <1>4 DEF PhaseOK
  <1>9. Due(o) BY <1>1, <1>2, <1>3, <1>4, <1>5, <1>6, <1>7, <1>8 DEF Due
  <1> QED BY <1>4, <1>9

(* An option of another class is left for its pass.                        *)
LEMMA SkippedOK ==
  ASSUME IInv, NEW o, Due(o), Skipped(o) PROVE IInv'
  <1>1. TypeOK /\ PhaseOK /\ BranchOK /\ XinoOK /\ CacheOK /\ RefsOK /\ ForceOK BY DEF IInv
  <1>2. /\ call.pc \in {"simple", "br", "xino"} /\ call.pc # Class(o) /\ call.ok
        /\ UNCHANGED <<mnt, si, gen, cache, held, excused>>
        /\ call.kind # "none" /\ mnt = (call.kind = "remount") /\ ~mnt
        /\ call.i \in Nat \ {0} /\ call.i <= Len(Live) /\ Len(Live) \in Nat /\ call.i \in DOMAIN call.opts
        /\ call.opts \in Seq(Entry) /\ o = Live[call.i] /\ o = call.opts[call.i]
    BY DEF Due, Skipped
  <1>3. /\ call' \in Call /\ call'.pc = call.pc /\ call'.kind = call.kind /\ call'.opts = call.opts /\ call'.raw = call.raw
        /\ call'.fl = call.fl /\ call'.ok = call.ok /\ call'.i = call.i + 1 /\ call'.tmp = call.tmp
    <2>1. PICK n \in Nat \ {0} : n = call.i + 1 BY <1>2
    <2>2. call \in Call BY <1>1 DEF TypeOK
    <2>3. call' = [call EXCEPT !.i = n] BY <2>1 DEF Skipped
    <2> QED BY <2>1, <2>2, <2>3 DEF Call
  <1>4. Live' = Live BY <1>3 DEF Live
  <1>5. TypeOK' BY <1>1, <1>2, <1>3 DEF TypeOK
  <1>6. PhaseOK'
    <2>1. call'.i <= Len(Live') + 1 BY <1>2, <1>3, <1>4
    <2> QED BY <1>1, <1>2, <1>3, <2>1 DEF PhaseOK
  <1>7. BranchOK' BY <1>1, <1>2 DEF BranchOK
  <1>8. VerifyOK' BY <1>2, <1>3 DEF VerifyOK
  <1>9. XinoOK'
    <2>1. call'.i - 1 = call.i BY <1>2, <1>3
    <2>2. call.pc = "xino" => (OwnXino(Live, call.i) <=> OwnXino(Live, call.i - 1))
      <3> HAVE call.pc = "xino"
      <3>1. Class(Live[call.i]) # "xino" BY <1>2
      <3>2. \A j : j \in 1 .. call.i <=> j \in 1 .. call.i - 1 \/ j = call.i BY <1>2
      <3> QED BY <3>1, <3>2 DEF OwnXino
    <2> QED BY <1>1, <1>2, <1>3, <1>4, <2>1, <2>2 DEF XinoOK
  <1>10. CacheOK' BY <1>1, <1>2, <1>3 DEF CacheOK
  <1>11. RefsOK' BY <1>1, <1>2, <1>3 DEF RefsOK
  <1>12. ForceOK'
    <2>1. Eventual(mnt', si', call') = Eventual(mnt, si, call) BY <1>2, <1>3 DEF Eventual
    <2>2. ASSUME NEW j PROVE Done(call', j) <=> Done(call, j)
      <3>1. PICK c : c = Class(call.opts[j]) OBVIOUS
      <3>2. Done(call', j) <=> j \in DOMAIN call.opts /\ j <= Passed(call', c) BY <1>3, <3>1 DEF Done
      <3>3. Done(call, j) <=> j \in DOMAIN call.opts /\ j <= Passed(call, c) BY <3>1 DEF Done
      <3>4. CASE c = call.pc
        <4>1. Passed(call', c) = call.i /\ Passed(call, c) = call.i - 1
          BY <1>2, <1>3, <3>4 DEF Passed
        <4>2. j # call.i BY <1>2, <3>1, <3>4
        <4>3. j \in DOMAIN call.opts => j \in Nat BY <1>2
        <4> QED BY <1>2, <3>2, <3>3, <4>1, <4>2, <4>3
      <3>5. CASE c # call.pc
        <4>1. Passed(call', c) = Passed(call, c) BY <1>2, <1>3, <3>5 DEF Passed
        <4> QED BY <3>2, <3>3, <4>1
      <3> QED BY <3>4, <3>5
    <2> QED BY <1>1, <1>2, <1>3, <2>1, <2>2, ForceStays
  <1> QED BY <1>5, <1>6, <1>7, <1>8, <1>9, <1>10, <1>11, <1>12 DEF IInv

(* Who has had its turn after this one, and what is in effect.             *)
LEMMA TurnForce ==
  ASSUME TypeOK, ForceOK, NEW o, NEW r \in Result, Due(o), Turn(o, r), Effect(si, o, r),
         r.ok => call'.i = call.i + 1, call'.pc = call.pc, call'.kind = call.kind, call'.opts = call.opts,
         call'.ok = r.ok, call'.tmp = call.tmp
  PROVE  ForceOK'
  <1>1. /\ call.pc \in {"simple", "br", "xino", "all"} /\ call.ok /\ call.pc \in {"all", Class(o)}
        /\ call.kind # "none" /\ mnt' = mnt /\ mnt = (call.pc = "all") /\ si' = r.si
        /\ call.i \in Nat \ {0} /\ call.i \in DOMAIN call.opts
        /\ call.opts \in Seq(Entry) /\ o = call.opts[call.i] /\ excused \ {"torn"} \subseteq excused'
    BY DEF Due, Turn
  <1> SUFFICES ASSUME r.ok, "force" \notin excused', NEW j \in DOMAIN call.opts, Latest(call', j)
               PROVE  InEffect(Eventual(mnt, r.si, call), call.opts[j])
    <2>1. Eventual(mnt, r.si, call) = Eventual(mnt', si', call') BY <1>1 DEF Eventual
    <2> QED BY <2>1 DEF ForceOK
  <1>2. call'.i = call.i + 1 /\ "force" \notin excused BY <1>1
  <1>3. ASSUME NEW k \in DOMAIN call.opts
        PROVE  /\ Done(call', k) <=> Done(call, k) \/ k = call.i
               /\ k # call.i /\ Done(call, k) => k < call.i \/ ~SameThing(o, call.opts[k])
    <2>1. PICK c : c = Class(call.opts[k]) OBVIOUS
    <2>2. c \in {"simple", "br", "xino"} BY <2>1 DEF Class
    <2>3. Done(call', k) <=> k <= Passed(call', c) BY <2>1 DEF Done
    <2>4. Done(call, k) <=> k <= Passed(call, c) BY <2>1 DEF Done
    <2>5. k \in Nat BY <1>1
    <2>6. CASE call.pc \in {"all", c}
      <3>1. Passed(call', c) = call.i /\ Passed(call, c) = call.i - 1
        BY <1>1, <1>2, <2>2, <2>6 DEF Passed
      <3> QED BY <1>1, <2>3, <2>4, <2>5, <3>1
    <2>7. CASE call.pc \notin {"all", c}
      <3>1. Passed(call', c) = Passed(call, c) BY <1>1, <1>2, <2>2, <2>7 DEF Passed
      <3>2. Class(o) # c BY <1>1, <2>7
      <3>3. ~SameThing(o, call.opts[k])
        <4>1. ASSUME o.t \in {"plink", "noplink", "udba"} PROVE Class(o) = "simple"
          BY <4>1 DEF Class, BrTypes
        <4>2. ASSUME call.opts[k].t \in {"plink", "noplink", "udba"} PROVE c = "simple"
          BY <2>1, <4>2 DEF Class, BrTypes
        <4> QED BY <2>1, <3>2, <4>1, <4>2 DEF SameThing
      <3>4. k # call.i BY <1>1, <2>1, <3>2
      <3> QED BY <2>3, <2>4, <3>1, <3>3, <3>4
    <2> QED BY <2>6, <2>7
  <1>4. Done(call', j) /\ Done(call', call.i)
    BY <1>1, <1>3 DEF Latest
  <1>5. CASE j = call.i
    <2>1. InEffect(r.si, o) BY DEF Effect
    <2>2. CASE mnt \/ call.pc = "simple"
      <3>1. Eventual(mnt, r.si, call) = r.si BY <1>1, <2>2 DEF Eventual
      <3> QED BY <1>1, <1>5, <2>1, <3>1
    <2>3. CASE ~mnt /\ call.pc # "simple"
      <3>1. PICK u \in Word : u = call.tmp.udba BY DEF TypeOK, Call
      <3>2. Eventual(mnt, r.si, call) = [r.si EXCEPT !.udba = u] BY <1>1, <2>3, <3>1 DEF Eventual
      <3>3. o.t # "udba"
        <4>1. Class(o) # "simple" BY <1>1, <2>3
        <4> QED BY <4>1 DEF Class, BrTypes
      <3>4. r.si \in Super /\ o \in Entry BY <1>1 DEF Result
      <3> QED BY <1>1, <1>5, <2>1, <3>2, <3>3, <3>4, UdbaEffect
    <2> QED BY <2>2, <2>3
  <1>6. CASE j # call.i
    <2>1. Done(call, j) BY <1>3, <1>4, <1>6
    <2>2. ~SameThing(o, call.opts[j])
      <3>1. CASE j < call.i
        <4>1. call.i > j BY <1>1, <3>1
        <4> QED BY <1>1, <1>4, <4>1 DEF Latest
      <3> QED BY <1>3, <1>6, <2>1, <3>1
    <2>3. Latest(call, j)
      <3>1. ASSUME NEW k \in DOMAIN call.opts, k > j, Done(call, k) PROVE ~SameThing(call.opts[k], call.opts[j])
        BY <1>3, <3>1 DEF Latest
      <3> QED BY <2>1, <3>1 DEF Latest
    <2>4. InEffect(Eventual(mnt, si, call), call.opts[j]) BY <1>1, <1>2, <2>3 DEF ForceOK
    <2>5. PICK q \in Entry : q = call.opts[j] BY <1>1
    <2>6. InEffect(si, q) => InEffect(r.si, q) BY <2>2, <2>5 DEF Effect, Others
    <2>7. CASE mnt \/ call.pc = "simple"
      <3>1. Eventual(mnt, r.si, call) = r.si /\ Eventual(mnt, si, call) = si BY <1>1, <2>7 DEF Eventual
      <3> QED BY <2>4, <2>5, <2>6, <3>1
    <2>8. CASE ~mnt /\ call.pc # "simple"
      <3>1. PICK u \in Word : u = call.tmp.udba BY DEF TypeOK, Call
      <3>2. PICK s : s = [si EXCEPT !.udba = u] OBVIOUS
      <3>3. PICK t : t = [r.si EXCEPT !.udba = u] OBVIOUS
      <3>4. Eventual(mnt, r.si, call) = t /\ Eventual(mnt, si, call) = s
        BY <1>1, <2>8, <3>1, <3>2, <3>3 DEF Eventual
      <3>5. si \in Super /\ r.si \in Super BY DEF TypeOK, Result
      <3>6. /\ q.t # "udba" => (InEffect(si, q) <=> InEffect(s, q))
            /\ q.t = "udba" => (InEffect(s, q) <=> u = q.p)
        BY <3>2, <3>5, UdbaEffect
      <3>7. /\ q.t # "udba" => (InEffect(r.si, q) <=> InEffect(t, q))
            /\ q.t = "udba" => (InEffect(t, q) <=> u = q.p)
        BY <3>3, <3>5, UdbaEffect
      <3> QED BY <2>4, <2>5, <2>6, <3>4, <3>6, <3>7
    <2> QED BY <2>7, <2>8
  <1> QED BY <1>5, <1>6

(* An option that has its turn keeps the invariant.                        *)
LEMMA TurnOK ==
  ASSUME IInv, NEW o, Due(o), NEW r \in Results(o, call.kind = "remount"), Turn(o, r) PROVE IInv'
  <1>1. TypeOK /\ PhaseOK /\ BranchOK /\ XinoOK /\ CacheOK /\ RefsOK /\ ForceOK BY DEF IInv
  <1>2. /\ call.pc \in {"simple", "br", "xino", "all"} /\ call.pc \in {"all", Class(o)} /\ call.ok
        /\ UNCHANGED <<mnt, gen, cache, held>>
        /\ call.kind # "none" /\ mnt = (call.kind = "remount") /\ mnt = (call.pc = "all")
        /\ call.i \in Nat \ {0} /\ call.i <= Len(Live) /\ Len(Live) \in Nat /\ call.i \in DOMAIN call.opts
        /\ call.opts \in Seq(Entry) /\ o \in Option /\ o = Live[call.i]
        /\ si' = r.si /\ excused' = (excused \cup r.ex) \ IF Mends(o, r) THEN {"torn"} ELSE {}
    BY DEF Due, Turn
  <1>3. /\ Sound(si, r) /\ Effect(si, o, r)
        /\ Class(o) # "xino" => Apart(si, o, r)
        /\ Class(o) = "xino" =>
              /\ "torn" \in r.ex \/ (Whole(si) => Whole(r.si))
              /\ r.ok => Whole(r.si) \/ (mnt /\ o.t = "xino" /\ si.xib = o.d)
    <2>1. PICK remount \in BOOLEAN : remount = (call.kind = "remount") OBVIOUS
    <2>2. si \in Super /\ Once(si) /\ BasesOK(si) /\ XibOK(si) BY <1>1 DEF TypeOK, BranchOK, XinoOK
    <2>3. r \in Results(o, remount) BY <2>1
    <2>4. remount = mnt BY <1>2, <2>1
    <2> QED BY <1>2, <2>2, <2>3, <2>4, OptionResults
  <1>4. /\ r \in Result /\ r.si \in Super /\ r.ok \in BOOLEAN /\ r.fl \in SUBSET Flag /\ r.ex \in SUBSET Excuse
    BY <1>3 DEF Sound, Result
  <1>5. /\ call' \in Call /\ call'.pc = call.pc /\ call'.kind = call.kind /\ call'.opts = call.opts /\ call'.raw = call.raw
        /\ call'.fl = call.fl \cup r.fl /\ call'.ok = r.ok /\ call'.i = call.i + 1 /\ call'.tmp = call.tmp
    <2>1. PICK n \in Nat \ {0} : n = call.i + 1 BY <1>2
    <2>2. call \in Call BY <1>1 DEF TypeOK
    <2>3. PICK fl \in SUBSET Flag : fl = call.fl \cup r.fl BY <1>4, <2>2 DEF Call
    <2>4. PICK ok \in BOOLEAN : ok = r.ok BY <1>4
    <2>5. call' = [call EXCEPT !.i = n, !.ok = ok, !.fl = fl] BY <2>1, <2>3, <2>4 DEF Turn
    <2> QED BY <2>1, <2>2, <2>3, <2>4, <2>5 DEF Call
  <1>6. Live' = Live BY <1>5 DEF Live
  <1>7. TypeOK' BY <1>1, <1>2, <1>4, <1>5 DEF TypeOK
  <1>8. PhaseOK'
    <2>1. call'.i <= Len(Live') + 1 BY <1>2, <1>5, <1>6
    <2>2. call'.raw # <<>> /\ call'.opts = call.opts BY <1>1, <1>2, <1>5 DEF PhaseOK
    <2> QED BY <1>1, <1>2, <1>5, <2>1, <2>2 DEF PhaseOK
  <1>9. BranchOK'
    <2>1. Once(r.si) /\ BasesOK(r.si) BY <1>3 DEF Sound
    <2>2. "orph" \in r.ex \/ (OrphOK(si) => OrphOK(r.si)) BY <1>3 DEF Sound
    <2> QED BY <1>1, <1>2, <2>1, <2>2 DEF BranchOK
  <1>10. VerifyOK' BY <1>2, <1>5 DEF VerifyOK
  <1>11. XinoOK'
    <2>1. XibOK(r.si) BY <1>1, <1>3 DEF Sound, XinoOK
    <2>2. call.pc \in {"simple", "br"} => r.si.xib = None BY <1>1, <1>2, <1>3 DEF XinoOK, Apart
    <2>0. Mends(o, r) => mnt /\ r.ok /\ Class(o) = "xino" /\ ~(o.t = "xino" /\ si.xib = o.d)
      BY DEF Mends, Class, BrTypes
    <2>3. ASSUME "torn" \notin excused', mnt PROVE Whole(r.si)
      <3>1. CASE Mends(o, r) BY <1>3, <2>0, <3>1
      <3>2. CASE ~Mends(o, r)
        <4>1. Whole(si) /\ "torn" \notin r.ex BY <1>1, <1>2, <2>3, <3>2 DEF XinoOK
        <4> QED BY <1>3, <4>1 DEF Apart
      <3> QED BY <3>1, <3>2
    <2>a. "torn" \notin excused' /\ ~mnt => "torn" \notin excused BY <1>2, <2>0
    <2>4. ASSUME "torn" \notin excused', r.ok, call.pc = "simple" PROVE Bare(r.si) /\ r.si.xino
      <3>1. Bare(si) /\ si.xino /\ Class(o) = "simple" BY <1>1, <1>2, <2>4, <2>a DEF XinoOK
      <3> QED BY <1>3, <3>1 DEF Apart
    <2>5. ASSUME "torn" \notin excused', r.ok, call.pc = "br" PROVE Bare(r.si) /\ ~r.si.xino
      <3>1. Bare(si) /\ ~si.xino /\ Class(o) = "br" BY <1>1, <1>2, <2>5, <2>a DEF XinoOK
      <3> QED BY <1>3, <3>1 DEF Apart
    <2>6. ASSUME r.ok, call.pc = "xino" PROVE Whole(r.si) /\ OwnXino(Live, call'.i - 1)
      <3>1. Class(o) = "xino" /\ ~mnt BY <1>2, <2>6
      <3>2. call'.i - 1 = call.i /\ call.i \in 1 .. call.i BY <1>2, <1>5
      <3> QED BY <1>2, <1>3, <2>6, <3>1, <3>2 DEF OwnXino
    <2>7. "torn" \notin excused' /\ ~mnt /\ call.pc \in {"br", "xino"} => call.tmp.xino
      BY <1>1, <1>2, <2>a DEF XinoOK
    <2> QED BY <1>2, <1>5, <1>6, <2>1, <2>2, <2>3, <2>4, <2>5, <2>6, <2>7 DEF XinoOK
  <1>12. CacheOK'
    <2>1. "REFRESH" \in r.fl \/ "nested" \in r.ex \/ View(r.si) = View(si) BY <1>3 DEF Sound
    <2> QED BY <1>1, <1>2, <1>5, <2>1 DEF CacheOK
  <1>13. RefsOK' BY <1>1, <1>2, <1>5 DEF RefsOK
  <1>14. ForceOK' BY <1>1, <1>3, <1>4, <1>5, TurnForce
  <1> QED BY <1>7, <1>8, <1>9, <1>10, <1>11, <1>12, <1>13, <1>14 DEF IInv

(* Exec keeps the invariant.                                               *)
LEMMA ExecOK ==
  ASSUME IInv, Exec PROVE IInv'
  <1>1. TypeOK /\ PhaseOK BY DEF IInv
  <1>2. PICK o : Due(o) /\ (Skipped(o) \/ \E r \in Results(o, call.kind = "remount") : Turn(o, r))
    BY <1>1, ExecCases
  <1> QED BY <1>2, SkippedOK, TurnOK

-----------------------------------------------------------------------------
(* What matters of a branch for the options is its permission.             *)
LEMMA PermEffect ==
  ASSUME NEW s, NEW t, Dirs(t) = Dirs(s), t.plink = s.plink, t.udba = s.udba,
         \A d \in Dirs(s) : t.brs[FindDbindex(t, d)].perm = s.brs[FindDbindex(s, d)].perm,
         NEW o, InEffect(s, o), Class(o) # "xino" \/ (t.xino = s.xino /\ t.xib = s.xib)
  PROVE  InEffect(t, o)
  BY DEF InEffect

(* ... verifying ...                                                       *)
LEMMA SkipFits ==
  ASSUME NEW s, NEW i \in DOMAIN s.brs, BasesOK(s), VerifySkip(s, s.brs[i])
  PROVE  Fits(s, s.brs[i])
  BY DEF BasesOK, VerifySkip, Fits

Checked(r) ==
  /\ si' = SetBranch(si, call.i, si.brs[call.i].perm, Writable(si.brs[call.i].perm) \/ ~r.ok, r.bases)
  /\ call' = [call EXCEPT !.i = @ + 1, !.verified = r.ok]
  /\ excused' = excused \cup NoOrph(r)

(* Verifying one branch keeps the invariant.                               *)
LEMMA VerifyStepOK ==
  ASSUME IInv, Verify PROVE IInv'
  <1>1. TypeOK /\ PhaseOK /\ BranchOK /\ VerifyOK /\ XinoOK /\ CacheOK /\ RefsOK /\ ForceOK BY DEF IInv
  <1>2. /\ call.pc = "verify" /\ call.verified /\ call.i <= Len(si.brs) /\ call.i \in Nat \ {0}
        /\ call.kind # "none" /\ mnt = (call.kind = "remount") /\ (~mnt => call.ok)
        /\ UNCHANGED <<mnt, gen, cache, held>>
        /\ call \in Call /\ si \in Super
    BY <1>1 DEF Verify, TypeOK, Call, PhaseOK
  <1>3. PICK b : b = si.brs[call.i] OBVIOUS
  <1>4. /\ si.brs \in Seq(Branch) /\ Len(si.brs) \in Nat /\ DOMAIN si.brs = 1 .. Len(si.brs)
        /\ call.i \in DOMAIN si.brs
    BY <1>2 DEF Super
  <1>5. b \in Branch /\ b.perm \in Word /\ b.bases \in SUBSET Base
    <2>1. b \in Branch BY <1>3, <1>4
    <2> QED BY <2>1 DEF Branch
  <1>6. \/ VerifySkip(si, b) /\ call' = [call EXCEPT !.i = @ + 1] /\ UNCHANGED <<si, excused>>
        \/ \E r \in WhInit(si, b.bases, b.perm) : Checked(r)
    BY <1>3 DEF Verify, Checked
  <1>7. PICK n \in Nat \ {0} : n = call.i + 1 BY <1>2
  <1>8. ASSUME VerifySkip(si, b), call' = [call EXCEPT !.i = @ + 1], UNCHANGED <<si, excused>>
        PROVE  IInv'
    <2>1. /\ call' \in Call /\ call'.pc = call.pc /\ call'.kind = call.kind /\ call'.opts = call.opts /\ call'.raw = call.raw
          /\ call'.fl = call.fl /\ call'.ok = call.ok /\ call'.i = n /\ call'.tmp = call.tmp
          /\ call'.verified = call.verified
      BY <1>2, <1>7, <1>8 DEF Call
    <2>2. TypeOK' BY <1>1, <1>2, <1>8, <2>1 DEF TypeOK
    <2>3. PhaseOK'
      <3>1. call'.i <= Len(si'.brs) + 1 BY <1>2, <1>4, <1>7, <1>8, <2>1
      <3> QED BY <1>1, <1>2, <1>8, <2>1, <3>1 DEF PhaseOK
    <2>4. BranchOK' BY <1>1, <1>8 DEF BranchOK
    <2>5. VerifyOK'
      <3>1. \A k \in 1 .. call.i - 1 : Fits(si, si.brs[k]) BY <1>1, <1>2 DEF VerifyOK
      <3>2. Fits(si, si.brs[call.i]) BY <1>1, <1>3, <1>4, <1>8, SkipFits DEF BranchOK
      <3>3. \A k \in 1 .. n - 1 : k \in 1 .. call.i - 1 \/ k = call.i BY <1>2, <1>7
      <3>4. \A k \in 1 .. n - 1 : Fits(si, si.brs[k]) BY <3>1, <3>2, <3>3
      <3> QED BY <1>2, <1>8, <2>1, <3>4 DEF VerifyOK
    <2>6. XinoOK'
      <3>1. Live' = Live BY <2>1 DEF Live
      <3> QED BY <1>1, <1>2, <1>8, <2>1, <3>1 DEF XinoOK
    <2>7. CacheOK' BY <1>1, <1>2, <1>8, <2>1 DEF CacheOK
    <2>8. RefsOK' BY <1>1, <1>2, <1>8, <2>1 DEF RefsOK
    <2>9. ForceOK'
      <3>1. Eventual(mnt', si', call') = Eventual(mnt, si, call) BY <1>2, <1>8, <2>1 DEF Eventual
      <3>2. \A c \in {"simple", "br", "xino"} : Passed(call', c) = Passed(call, c)
        BY <1>2, <2>1 DEF Passed
      <3> QED BY <1>1, <1>2, <1>8, <2>1, <3>1, <3>2, ForceKeeps
    <2> QED BY <2>2, <2>3, <2>4, <2>5, <2>6, <2>7, <2>8, <2>9 DEF IInv
  <1>9. ASSUME NEW r \in WhInit(si, b.bases, b.perm), Checked(r) PROVE IInv'
    <2>1. /\ r.bases \in SUBSET Base /\ r.ok \in BOOLEAN
          /\ r.ok => r.bases = FullBases(si, b.perm)
          /\ ~Writable(b.perm) => r.bases \in {{}, b.bases}
      BY <1>5, WhInitType
    <2>2. PICK w \in BOOLEAN : w = (Writable(b.perm) \/ ~r.ok) OBVIOUS
    <2>3. PICK t : t = SetBranch(si, call.i, b.perm, w, r.bases) OBVIOUS
    <2>4. si' = t /\ excused' = excused \cup NoOrph(r) BY <1>3, <1>9, <2>2, <2>3 DEF Checked
    <2>5. SetKeeps(si, call.i, b.perm, w, r.bases, t)
      BY <1>1, <1>2, <1>4, <1>5, <2>1, <2>2, <2>3, SetBranchKeeps DEF BranchOK
    <2>6. /\ call' \in Call /\ call'.pc = call.pc /\ call'.kind = call.kind /\ call'.opts = call.opts /\ call'.raw = call.raw
          /\ call'.fl = call.fl /\ call'.ok = call.ok /\ call'.i = n /\ call'.tmp = call.tmp
          /\ call'.verified = r.ok
      <3>1. PICK ok \in BOOLEAN : ok = r.ok BY <2>1
      <3>2. call' = [call EXCEPT !.i = n, !.verified = ok] BY <1>7, <1>9, <3>1 DEF Checked
      <3> QED BY <1>2, <3>1, <3>2 DEF Call
    <2>7. /\ NoOrph(r) \in SUBSET Excuse
          /\ "orph" \in NoOrph(r) \/ r.ok \/ "orph" \in r.bases
      BY NoOrphFacts
    <2>8. TypeOK' BY <1>1, <1>2, <2>4, <2>5, <2>6, <2>7 DEF TypeOK, SetKeeps
    <2>9. PhaseOK'
      <3>1. DOMAIN t.brs = DOMAIN si.brs /\ t.brs \in Seq(Branch) BY <2>5 DEF SetKeeps, Super
      <3>2. call'.i <= Len(si'.brs) + 1 BY <1>2, <1>4, <1>7, <2>4, <2>6, <3>1
      <3> QED BY <1>1, <1>2, <2>6, <3>2 DEF PhaseOK
    <2>10. BranchOK'
      <3>1. ~Writable(b.perm) => FullBases(si, b.perm) = {} BY FullBasesFit
      <3>2. ~w => r.bases = {} BY <2>1, <2>2, <3>1
      <3>3. Once(t) /\ BasesOK(t) BY <1>1, <2>2, <2>5, <3>2 DEF SetKeeps, BranchOK
      <3>4. "orph" \notin excused' => OrphOK(t)
        <4> HAVE "orph" \notin excused'
        <4>1. OrphOK(si) /\ (r.ok \/ "orph" \in r.bases) BY <1>1, <2>4, <2>7 DEF BranchOK
        <4>2. Writable(b.perm) => "orph" \in r.bases BY <2>1, <4>1, FullBasesFit
        <4> QED BY <2>5, <4>1, <4>2 DEF SetKeeps
      <3> QED BY <2>4, <3>3, <3>4 DEF BranchOK
    <2>11. VerifyOK'
      <3> SUFFICES ASSUME r.ok, NEW k \in 1 .. n - 1 PROVE Fits(t, t.brs[k])
        BY <1>2, <2>4, <2>6 DEF VerifyOK
      <3>1. k \in 1 .. call.i - 1 \/ k = call.i BY <1>2, <1>7
      <3>2. k \in DOMAIN si.brs BY <1>2, <1>4, <1>7
      <3>3. \A x : Fits(si, x) <=> Fits(t, x) BY <2>5 DEF SetKeeps, Fits
      <3>4. CASE k = call.i
        <4>1. t.brs[k].bases = FullBases(si, b.perm) /\ t.brs[k].perm = b.perm
          BY <2>1, <2>5, <3>4 DEF SetKeeps
        <4>2. Fits(si, t.brs[k]) BY <4>1, FullBasesFit
        <4> QED BY <3>3, <4>2
      <3>5. CASE k # call.i
        <4>1. Fits(si, si.brs[k]) BY <1>1, <1>2, <3>1, <3>5 DEF VerifyOK
        <4>2. t.brs[k] = si.brs[k] BY <2>5, <3>2, <3>5 DEF SetKeeps
        <4> QED BY <3>3, <4>1, <4>2
      <3> QED BY <3>4, <3>5
    <2>12. XinoOK'
      <3>1. Live' = Live BY <2>6 DEF Live
      <3>2. /\ t.xino = si.xino /\ t.xib = si.xib /\ t.xigen = si.xigen /\ (Whole(si) => Whole(t))
            /\ (Bare(si) => Bare(t))
        BY <2>5 DEF SetKeeps
      <3>3. XibOK(t) BY <1>1, <3>2 DEF XibOK, XinoOK
      <3>4. "torn" \notin excused' => "torn" \notin excused BY <2>4
      <3> QED BY <1>1, <1>2, <2>4, <2>6, <3>1, <3>2, <3>3, <3>4 DEF XinoOK
    <2>13. CacheOK'
      <3>1. View(t) = View(si) BY <1>3, <2>5 DEF SetKeeps
      <3> QED BY <1>1, <1>2, <2>4, <2>6, <3>1 DEF CacheOK
    <2>14. RefsOK' BY <1>1, <1>2, <2>4, <2>6 DEF RefsOK
    <2>15. ForceOK'
      <3>1. \A c \in {"simple", "br", "xino"} : Passed(call', c) = Passed(call, c)
        BY <1>2, <2>6 DEF Passed
      <3>2. /\ Dirs(t) = Dirs(si) /\ t.plink = si.plink /\ t.udba = si.udba /\ t.xino = si.xino /\ t.xib = si.xib
            /\ \A d \in Dirs(si) : t.brs[FindDbindex(t, d)].perm = si.brs[FindDbindex(si, d)].perm
        <4>1. ASSUME NEW d \in Dirs(si)
              PROVE  t.brs[FindDbindex(t, d)].perm = si.brs[FindDbindex(si, d)].perm
          <5>1. FindDbindex(t, d) = FindDbindex(si, d) BY <2>5 DEF SetKeeps
          <5>2. FindDbindex(si, d) \in DOMAIN si.brs BY <1>1, Found DEF BranchOK, TypeOK
          <5> QED BY <1>3, <2>5, <5>1, <5>2 DEF SetKeeps
        <4> QED BY <2>5, <4>1 DEF SetKeeps
      <3>3. ASSUME NEW q, InEffect(Eventual(mnt, si, call), q) PROVE InEffect(Eventual(mnt', si', call'), q)
        <4>1. CASE mnt
          <5>1. Eventual(mnt, si, call) = si /\ Eventual(mnt', si', call') = t
            BY <1>2, <2>4, <4>1 DEF Eventual
          <5> QED BY <3>2, <3>3, <5>1, PermEffect
        <4>2. CASE ~mnt
          <5>1. PICK u \in Word : u = call.tmp.udba BY <1>2 DEF Call
          <5>2. PICK e : e = [si EXCEPT !.udba = u] OBVIOUS
          <5>3. PICK f : f = [t EXCEPT !.udba = u] OBVIOUS
          <5>4. Eventual(mnt, si, call) = e /\ Eventual(mnt', si', call') = f
            BY <1>2, <2>4, <2>6, <4>2, <5>1, <5>2, <5>3 DEF Eventual
          <5>5. /\ e.brs = si.brs /\ e.plink = si.plink /\ e.udba = u /\ e.xino = si.xino /\ e.xib = si.xib
            BY <1>2, <5>2 DEF Super
          <5>6. t \in Super BY <2>5 DEF SetKeeps
          <5>7. /\ f.brs = t.brs /\ f.plink = t.plink /\ f.udba = u /\ f.xino = t.xino /\ f.xib = t.xib
            BY <5>3, <5>6 DEF Super
          <5>8. /\ Dirs(e) = Dirs(si) /\ Dirs(f) = Dirs(t)
                /\ \A d : FindDbindex(e, d) = FindDbindex(si, d) /\ FindDbindex(f, d) = FindDbindex(t, d)
            BY <5>5, <5>7, SameBrs
          <5>9. /\ Dirs(f) = Dirs(e)
                /\ \A d \in Dirs(e) : f.brs[FindDbindex(f, d)].perm = e.brs[FindDbindex(e, d)].perm
            BY <3>2, <5>5, <5>7, <5>8
          <5>10. InEffect(f, q) BY <3>2, <3>3, <5>4, <5>5, <5>7, <5>9, PermEffect
          <5> QED BY <5>4, <5>10
        <4> QED BY <4>1, <4>2
      <3>4. "force" \notin excused' => "force" \notin excused BY <2>4
      <3> QED BY <1>1, <1>2, <2>6, <3>1, <3>3, <3>4, ForceKeeps
    <2> QED BY <2>8, <2>9, <2>10, <2>11, <2>12, <2>13, <2>14, <2>15 DEF IInv
  <1> QED BY <1>6, <1>8, <1>9

-----------------------------------------------------------------------------
(* ... the end of verifying, with fhsm ...                                 *)
LEMMA VerifyEndOK ==
  ASSUME IInv, VerifyEnd PROVE IInv'
  <1>1. TypeOK /\ PhaseOK /\ BranchOK /\ VerifyOK /\ XinoOK /\ CacheOK /\ RefsOK /\ ForceOK BY DEF IInv
  <1>2. /\ call.pc = "verify" /\ (call.verified => call.i > Len(si.brs)) /\ call.i \in Nat \ {0}
        /\ call.verified \in BOOLEAN /\ call.ok \in BOOLEAN
        /\ call.kind # "none" /\ mnt = (call.kind = "remount") /\ call.i <= Len(si.brs) + 1
        /\ UNCHANGED <<mnt, gen, cache, held, excused>>
        /\ call \in Call /\ si \in Super
    BY <1>1 DEF VerifyEnd, TypeOK, Call, PhaseOK
  <1>0. Cardinality(FhsmSeen) \in Nat
    <2>1. FhsmSeen \subseteq 1 .. call.i - 1 BY DEF FhsmSeen
    <2>2. IsFiniteSet(1 .. call.i - 1) BY <1>2, FS_Interval
    <2>3. IsFiniteSet(FhsmSeen) BY <2>1, <2>2, FS_Subset
    <2> QED BY <2>3, FS_CardinalityType
  <1>3. PICK many \in BOOLEAN : many = (Cardinality(FhsmSeen) >= 2)
    <2>1. PICK c \in Nat : c = Cardinality(FhsmSeen) BY <1>0
    <2>2. (c >= 2) \in BOOLEAN BY <2>1
    <2> QED BY <2>1, <2>2
  <1>4. PICK m : m = IF many THEN FhsmBottom ELSE -1 OBVIOUS
  <1>5. PICK ok \in BOOLEAN : ok = (call.ok /\ call.verified) BY <1>2
  <1>6. si' = [si EXCEPT !.fhsm = many, !.bottom = m] /\ call' = [call EXCEPT !.pc = "end", !.ok = ok]
    BY <1>3, <1>4, <1>5 DEF VerifyEnd
  <1>7. si.brs \in Seq(Branch) /\ Len(si.brs) \in Nat /\ DOMAIN si.brs = 1 .. Len(si.brs)
    BY <1>2 DEF Super
  <1>8. m \in Int
    <2> SUFFICES ASSUME many PROVE FhsmBottom \in Int BY <1>4
    <2>0. Cardinality({}) = 0 BY FS_EmptySet
    <2>1. FhsmSeen # {}
      <3> SUFFICES ASSUME FhsmSeen = {} PROVE FALSE OBVIOUS
      <3>1. PICK c \in Nat : c = Cardinality(FhsmSeen) BY <1>0
      <3>2. c = 0 BY <2>0, <3>1, Zenon
      <3>3. c >= 2 BY <1>3, <3>1
      <3> QED BY <3>2, <3>3
    <2>2. PICK f : f = {i \in DOMAIN si.brs : si.brs[i].perm = "rwf"} OBVIOUS
    <2>3. FhsmSeen \subseteq f BY <1>2, <1>7, <2>2 DEF FhsmSeen
    <2>4. f \in SUBSET Nat /\ f # {} /\ \A x \in f : x <= Len(si.brs) BY <1>7, <2>1, <2>2, <2>3
    <2>5. Max(f) \in f BY <1>7, <2>4, GreatestNatural
    <2>6. FhsmBottom = Max(f) - 1 BY <2>2 DEF FhsmBottom
    <2> QED BY <2>4, <2>5, <2>6
  <1>9. /\ call' \in Call /\ call'.pc = "end" /\ call'.kind = call.kind /\ call'.opts = call.opts /\ call'.raw = call.raw
        /\ call'.fl = call.fl /\ call'.ok = ok /\ call'.tmp = call.tmp
        /\ call'.verified = call.verified
    <2>1. PICK pc \in Pc : pc = "end" BY DEF Pc
    <2>2. call' = [call EXCEPT !.pc = pc, !.ok = ok] BY <1>6, <2>1
    <2> QED BY <1>2, <2>1, <2>2 DEF Call
  <1>10. /\ si' \in Super /\ si'.brs = si.brs /\ si'.xib = si.xib /\ si'.xigen = si.xigen /\ si'.brid = si.brid
         /\ si'.plink = si.plink /\ si'.udba = si.udba /\ si'.xino = si.xino /\ si'.fhsm = many
         /\ si'.bottom = m
    BY <1>2, <1>6, <1>8 DEF Super
  <1>11. Live' = Live BY <1>9 DEF Live
  <1>12. TypeOK' BY <1>1, <1>2, <1>9, <1>10 DEF TypeOK
  <1>13. PhaseOK' BY <1>1, <1>2, <1>9 DEF PhaseOK
  <1>14. BranchOK' BY <1>1, <1>2, <1>10, SameBrs DEF BranchOK
  <1>15. VerifyOK'
    <2> SUFFICES ASSUME call.verified PROVE (\A i \in DOMAIN si'.brs : Fits(si', si'.brs[i])) /\ FhsmOK(si')
      BY <1>9 DEF VerifyOK
    <2>1. call.i - 1 = Len(si.brs) BY <1>2, <1>7
    <2>2. \A i \in DOMAIN si.brs : Fits(si, si.brs[i]) BY <1>1, <1>2, <1>7, <2>1 DEF VerifyOK
    <2>3. \A i \in DOMAIN si'.brs : Fits(si', si'.brs[i]) BY <1>10, <2>2, SameBrs
    <2>4. FhsmSeen = Fhsm(si) BY <1>7, <2>1 DEF FhsmSeen, Fhsm
    <2>5. FhsmBottom = Max(Fhsm(si)) - 1 BY DEF FhsmBottom, Fhsm
    <2>6. Fhsm(si') = Fhsm(si) BY <1>10, SameBrs
    <2>7. many <=> Cardinality(Fhsm(si)) >= 2 BY <1>3, <2>4
    <2>8. m = IF many THEN Max(Fhsm(si)) - 1 ELSE -1 BY <1>4, <2>5
    <2>9. FhsmOK(si') BY <1>10, <2>6, <2>7, <2>8 DEF FhsmOK
    <2> QED BY <2>3, <2>9
  <1>16. XinoOK'
    <2>1. XibOK(si) => XibOK(si') BY <1>10, SameXino
    <2>2. (Bare(si) => Bare(si')) /\ (Whole(si) => Whole(si')) BY <1>10, SameXino
    <2> QED BY <1>1, <1>2, <1>5, <1>9, <1>10, <1>11, <2>1, <2>2 DEF XinoOK
  <1>17. CacheOK'
    <2>1. View(si') = View(si) BY <1>10, SameBrs
    <2> QED BY <1>1, <1>2, <1>9, <2>1 DEF CacheOK
  <1>18. RefsOK' BY <1>1, <1>2, <1>9 DEF RefsOK
  <1>19. ForceOK'
    <2>1. \A c \in {"simple", "br", "xino"} : Passed(call', c) = Passed(call, c)
      BY <1>2, <1>9 DEF Passed
    <2>2. ASSUME NEW q, InEffect(Eventual(mnt, si, call), q) PROVE InEffect(Eventual(mnt', si', call'), q)
      <3>1. CASE mnt
        <4>1. Eventual(mnt, si, call) = si /\ Eventual(mnt', si', call') = si'
          BY <1>2, <3>1 DEF Eventual
        <4> QED BY <1>10, <2>2, <4>1, SameEffect
      <3>2. CASE ~mnt
        <4>1. PICK u \in Word : u = call.tmp.udba BY <1>2 DEF Call
        <4>2. PICK e : e = [si EXCEPT !.udba = u] OBVIOUS
        <4>3. PICK f : f = [si' EXCEPT !.udba = u] OBVIOUS
        <4>4. Eventual(mnt, si, call) = e /\ Eventual(mnt', si', call') = f
          BY <1>2, <1>9, <3>2, <4>1, <4>2, <4>3 DEF Eventual
        <4>5. /\ f.brs = e.brs /\ f.plink = e.plink /\ f.udba = e.udba /\ f.xino = e.xino /\ f.xib = e.xib
          BY <1>2, <1>10, <4>2, <4>3 DEF Super
        <4>6. InEffect(f, q) BY <2>2, <4>4, <4>5, SameEffect
        <4> QED BY <4>4, <4>6
      <3> QED BY <3>1, <3>2
    <2> QED BY <1>1, <1>2, <1>5, <1>9, <2>1, <2>2, ForceKeeps
  <1> QED BY <1>12, <1>13, <1>14, <1>15, <1>16, <1>17, <1>18, <1>19 DEF IInv

(* ... a mount that fails ...                                              *)
LEMMA MountFailsOK ==
  ASSUME IInv, MountFails PROVE IInv'
  <1>1. TypeOK /\ PhaseOK /\ BranchOK /\ XinoOK /\ CacheOK /\ RefsOK BY DEF IInv
  <1>2. /\ call.kind = "mount" /\ call.pc # "idle" /\ Gone /\ si' = NewSi
        /\ UNCHANGED <<mnt, gen, cache>>
        /\ excused' = excused \cap {"refs"} /\ held' = held - OptsFree(call.opts)
    BY DEF MountFails, PassOver, Gone
  <1>3. ~mnt /\ cache = None BY <1>1, <1>2 DEF PhaseOK, CacheOK
  <1>4. /\ call' \in Call /\ call'.opts = <<>> /\ call'.fl = {} /\ call'.pc = "idle" /\ call'.kind = "none"
        /\ ~call'.ok /\ NoTail(call'.opts)
    BY <1>2, GoneFacts
  <1>5. /\ si' \in Super /\ Once(si') /\ BasesOK(si') /\ OrphOK(si') /\ XibOK(si')
    BY <1>2, NewSiFacts
  <1>6. excused' \in SUBSET Excuse BY <1>2 DEF Excuse
  <1>7. TypeOK' BY <1>1, <1>2, <1>4, <1>5, <1>6 DEF TypeOK
  <1>8. PhaseOK' BY <1>2, <1>3, <1>4 DEF PhaseOK
  <1>9. BranchOK' BY <1>5 DEF BranchOK
  <1>10. VerifyOK' BY <1>4 DEF VerifyOK
  <1>11. XinoOK' BY <1>2, <1>3, <1>4, <1>5 DEF XinoOK
  <1>12. CacheOK' BY <1>2, <1>3 DEF CacheOK
  <1>13. RefsOK'
    <2>1. ASSUME "refs" \notin excused' PROVE held' = 0
      <3>1. "refs" \notin excused BY <1>2, <2>1
      <3> QED BY <1>1, <1>2, <3>1, AllFreed
    <2> QED BY <1>4, <2>1 DEF RefsOK
  <1>14. ForceOK' BY <1>4 DEF ForceOK
  <1> QED BY <1>7, <1>8, <1>9, <1>10, <1>11, <1>12, <1>13, <1>14 DEF IInv

(* ... and the end of a remount.                                           *)
LEMMA EndRemountOK ==
  ASSUME IInv, EndRemount PROVE IInv'
  <1>1. TypeOK /\ PhaseOK /\ BranchOK /\ VerifyOK /\ XinoOK /\ CacheOK /\ RefsOK /\ ForceOK BY DEF IInv
  <1>2. PICK trunc \in BOOLEAN : call' = [call EXCEPT !.pc = "idle", !.ok = @ /\ trunc]
    BY DEF EndRemount
  <1>3. /\ call.pc = "end" /\ call.kind = "remount" /\ mnt /\ call \in Call /\ gen \in Nat
        /\ gen' = IF call.raw # <<>> /\ (call.fl \cap {"REFRESH", "UDBA"} # {} \/ si.xino) THEN gen + 1 ELSE gen
        /\ held' = held - OptsFree(call.opts)
        /\ UNCHANGED <<mnt, si, cache, excused>>
    BY <1>1 DEF EndRemount, TypeOK, PhaseOK
  <1>4. PICK ok \in BOOLEAN : ok = (call.ok /\ trunc) BY <1>3 DEF Call
  <1>5. /\ call' \in Call /\ call'.pc = "idle" /\ call'.kind = call.kind /\ call'.opts = call.opts /\ call'.raw = call.raw
        /\ call'.fl = call.fl /\ call'.ok = ok /\ call'.tmp = call.tmp
        /\ call'.verified = call.verified
    <2>1. PICK pc \in Pc : pc = "idle" BY DEF Pc
    <2>2. call' = [call EXCEPT !.pc = pc, !.ok = ok] BY <1>2, <1>4, <2>1
    <2> QED BY <1>3, <2>1, <2>2 DEF Call
  <1>6. gen' \in Nat /\ gen' >= gen BY <1>3
  <1>7. TypeOK' BY <1>1, <1>3, <1>5, <1>6 DEF TypeOK
  <1>8. PhaseOK' BY <1>1, <1>3, <1>5 DEF PhaseOK
  <1>9. BranchOK' BY <1>1, <1>3 DEF BranchOK
  <1>10. VerifyOK' BY <1>1, <1>3, <1>5 DEF VerifyOK
  <1>11. XinoOK' BY <1>1, <1>3, <1>5 DEF XinoOK
  <1>12. CacheOK'
    <2> SUFFICES ASSUME cache # None
                 PROVE  /\ cache.gen <= gen'
                        /\ "nested" \notin excused /\ cache.gen = gen' => cache.view = View(si)
      BY <1>3 DEF CacheOK
    <2>1. cache.gen \in Nat /\ cache.gen <= gen BY <1>1 DEF TypeOK, Cached, CacheOK
    <2>2. ASSUME "nested" \notin excused, cache.gen = gen' PROVE cache.view = View(si)
      <3>1. gen' = gen BY <1>3, <1>6, <2>1, <2>2
      <3>2. ~(call.raw # <<>> /\ (call.fl \cap {"REFRESH", "UDBA"} # {} \/ si.xino)) BY <1>3, <3>1
      <3>3. "REFRESH" \notin call.fl BY <1>1, <3>2 DEF PhaseOK
      <3> QED BY <1>1, <1>3, <2>2, <3>1, <3>3 DEF CacheOK
    <2> QED BY <1>3, <1>6, <2>1, <2>2
  <1>13. RefsOK'
    <2>1. ASSUME "refs" \notin excused' PROVE held' = 0
      BY <1>1, <1>3, <2>1, AllFreed
    <2> QED BY <1>1, <1>3, <1>5, <2>1 DEF RefsOK
  <1>14. ForceOK'
    <2>1. \A c \in {"simple", "br", "xino"} : Passed(call', c) = Passed(call, c)
      BY <1>3, <1>5 DEF Passed
    <2>2. Eventual(mnt', si', call') = Eventual(mnt, si, call) BY <1>3 DEF Eventual
    <2> QED BY <1>1, <1>3, <1>4, <1>5, <2>1, <2>2, ForceKeeps
  <1> QED BY <1>7, <1>8, <1>9, <1>10, <1>11, <1>12, <1>13, <1>14 DEF IInv

-----------------------------------------------------------------------------
(* ... the end of a mount: the default xino file and udba.                 *)
AllFit(s) == \A j \in DOMAIN s.brs : Fits(s, s.brs[j])
Ended(s, t) ==
  /\ t \in Super /\ Once(t) /\ BasesOK(t) /\ XibOK(t)
  /\ OrphOK(s) => OrphOK(t)
  /\ AllFit(s) => AllFit(t)
  /\ FhsmOK(s) => FhsmOK(t)
  /\ Dirs(t) = Dirs(s) /\ t.plink = s.plink
  /\ \A d \in Dirs(s) : t.brs[FindDbindex(t, d)].perm = s.brs[FindDbindex(s, d)].perm

(* A change of the xino files ends well ...                                *)
LEMMA EndedTables ==
  ASSUME NEW s \in Super, NEW t \in Super, SameBranches(s, t), Once(s), BasesOK(s), XibOK(t)
  PROVE  Ended(s, t)
  <1>1. /\ Once(t) /\ Dirs(t) = Dirs(s) /\ Fhsm(t) = Fhsm(s) /\ BasesOK(t) /\ (OrphOK(s) => OrphOK(t))
        /\ \A d \in Dirs(s) : t.brs[FindDbindex(t, d)].perm = s.brs[FindDbindex(s, d)].perm
        /\ \A j \in DOMAIN s.brs : Fits(s, s.brs[j]) => Fits(t, t.brs[j])
    BY SameBranchesKeep
  <1>2. DOMAIN t.brs = DOMAIN s.brs /\ t.plink = s.plink /\ t.fhsm = s.fhsm /\ t.bottom = s.bottom
    BY DEF SameBranches
  <1>3. AllFit(s) => AllFit(t) BY <1>1, <1>2 DEF AllFit
  <1>4. FhsmOK(s) => FhsmOK(t) BY <1>1, <1>2 DEF FhsmOK
  <1> QED BY <1>1, <1>2, <1>3, <1>4 DEF Ended

(* ... as does one of udba or si_xino_brid ...                             *)
LEMMA EndedFields ==
  ASSUME NEW s \in Super, NEW t \in Super, t.brs = s.brs, t.plink = s.plink, t.fhsm = s.fhsm, t.bottom = s.bottom,
         t.xino = s.xino, t.xib = s.xib, t.xigen = s.xigen, Once(s), BasesOK(s), XibOK(s)
  PROVE  Ended(s, t)
  <1>1. /\ Once(t) /\ BasesOK(t) /\ (OrphOK(s) => OrphOK(t)) /\ Dirs(t) = Dirs(s) /\ Fhsm(t) = Fhsm(s)
        /\ \A d : FindDbindex(t, d) = FindDbindex(s, d)
        /\ \A b : Fits(s, b) <=> Fits(t, b)
    BY SameBrs
  <1>2. XibOK(t) BY DEF XibOK
  <1>3. AllFit(s) => AllFit(t) BY <1>1 DEF AllFit
  <1>4. FhsmOK(s) => FhsmOK(t) BY <1>1 DEF FhsmOK
  <1> QED BY <1>1, <1>2, <1>3, <1>4 DEF Ended

(* ... and one after the other.                                            *)
LEMMA EndedTwice ==
  ASSUME NEW s, NEW t, NEW u, Ended(s, t), Ended(t, u)
  PROVE  Ended(s, u)
  BY DEF Ended

OwnOption == \E i \in DOMAIN Live : Class(Live[i]) = "xino"

(* What the restored options and the default xino file leave.              *)
LEMMA RestoredResults ==
  ASSUME TypeOK, Once(si), BasesOK(si), XibOK(si), NEW r \in Restored(si)
  PROVE  /\ Ended(si, r.si) /\ r.ok \in BOOLEAN
         /\ r.ok => r.si.udba = call.tmp.udba
         /\ r.ok /\ (~call.tmp.xino \/ OwnOption) =>
              r.si.xino = si.xino /\ r.si.xib = si.xib /\ (Whole(si) => Whole(r.si))
         /\ r.ok /\ call.tmp.xino /\ ~OwnOption => Whole(r.si)
  <1>1. PICK u \in Word : u = call.tmp.udba BY DEF TypeOK, Call
  <1>2. si \in Super /\ si.brs \in Seq(Branch) /\ DOMAIN si.brs = 1 .. Len(si.brs) /\ Len(si.brs) \in Nat
    BY DEF TypeOK, Super
  <1>3. CASE ~call.tmp.xino \/ OwnOption
    <2>1. PICK t : t = [si EXCEPT !.udba = u] OBVIOUS
    <2>2. r = Res(t, TRUE, {}) BY <1>1, <1>3, <2>1 DEF Restored, OwnOption
    <2>3. r.si = t /\ r.ok = TRUE BY <2>2 DEF Res
    <2>4. /\ t \in Super /\ t.brs = si.brs /\ t.plink = si.plink /\ t.fhsm = si.fhsm /\ t.bottom = si.bottom
          /\ t.xino = si.xino /\ t.xib = si.xib /\ t.xigen = si.xigen /\ t.brid = si.brid /\ t.udba = u
      BY <1>2, <2>1 DEF Super
    <2>5. Ended(si, t) BY <1>2, <2>4, EndedFields
    <2>6. Whole(si) => Whole(t) BY <2>4, SameXino
    <2> QED BY <1>1, <1>3, <2>3, <2>4, <2>5, <2>6
  <1>4. CASE call.tmp.xino /\ ~OwnOption
    <2>1. PICK wr : wr = {i \in DOMAIN si.brs : Writable(si.brs[i].perm)} OBVIOUS
    <2>2. PICK d : d = IF wr = {} THEN Outside ELSE si.brs[Min(wr)].d OBVIOUS
    <2>3. d \in Dir \cup {Outside} /\ (d # Outside => d \in Dirs(si))
      <3>1. CASE wr = {} BY <2>2, <3>1
      <3>2. CASE wr # {}
        <4>1. wr \in SUBSET Nat BY <1>2, <2>1
        <4>2. PICK m \in wr : m = Min(wr) BY <3>2, <4>1, LeastNatural
        <4>3. m \in DOMAIN si.brs /\ d = si.brs[m].d BY <2>1, <2>2, <3>2, <4>2
        <4>4. si.brs[m] \in Branch BY <1>2, <4>3
        <4>5. d \in Dir BY <4>3, <4>4 DEF Branch
        <4> QED BY <4>3, <4>5 DEF Dirs
      <3> QED BY <3>1, <3>2
    <2>4. PICK x : x = IF d = Outside THEN None ELSE d OBVIOUS
    <2>5. x \in Dir \cup {None} BY <2>3, <2>4
    <2>6. PICK s : s = [si EXCEPT !.brid = x] OBVIOUS
    <2>7. /\ s \in Super /\ s.brs = si.brs /\ s.plink = si.plink /\ s.fhsm = si.fhsm /\ s.bottom = si.bottom
          /\ s.xino = si.xino /\ s.xib = si.xib /\ s.xigen = si.xigen /\ s.brid = x
      BY <1>2, <2>5, <2>6 DEF Super
    <2>8. Ended(si, s) BY <1>2, <2>7, EndedFields
    <2>9. \E q \in {Odd(si, {})} \cup XinoSet(s, d, FALSE) :
            r = IF q.ok THEN Res([q.si EXCEPT !.udba = u], TRUE, {}) ELSE q
      BY <1>1, <1>4, <2>1, <2>2, <2>4, <2>6 DEF Restored, OwnOption
    <2>10. CASE r = Odd(si, {})
      <3>1. r.si = si /\ r.ok = FALSE BY <2>10 DEF Odd
      <3>2. Ended(si, si) BY <1>2, EndedFields
      <3> QED BY <3>1, <3>2
    <2>11. ASSUME NEW q \in XinoSet(s, d, FALSE),
                  r = IF q.ok THEN Res([q.si EXCEPT !.udba = u], TRUE, {}) ELSE q
           PROVE  Ended(si, r.si) /\ r.ok \in BOOLEAN /\ (r.ok => r.si.udba = u /\ Whole(r.si))
      <3>1. Once(s) /\ BasesOK(s) /\ XibOK(s) /\ Dirs(s) = Dirs(si) BY <2>8 DEF Ended
      <3>2. /\ q \in Result /\ SameBranches(s, q.si) /\ q.si.brid = s.brid /\ XibOK(q.si)
            /\ q.ok => q.si.xib = d /\ q.si.xino /\ q.si.xigen = d /\ \A j \in DOMAIN q.si.brs : q.si.brs[j].xf
        BY <2>3, <2>7, <2>11, <3>1, SetFacts
      <3>3. q.si \in Super /\ q.ok \in BOOLEAN BY <3>2 DEF Result
      <3>4. Ended(s, q.si) BY <2>7, <3>1, <3>2, <3>3, EndedTables
      <3>5. Ended(si, q.si) BY <2>8, <3>4, EndedTwice
      <3>6. CASE ~q.ok BY <2>11, <3>3, <3>5, <3>6
      <3>7. CASE q.ok
        <4>1. PICK t : t = [q.si EXCEPT !.udba = u] OBVIOUS
        <4>2. r.si = t /\ r.ok = TRUE BY <2>11, <3>7, <4>1 DEF Res
        <4>3. /\ t \in Super /\ t.brs = q.si.brs /\ t.plink = q.si.plink /\ t.fhsm = q.si.fhsm
              /\ t.bottom = q.si.bottom /\ t.xino = q.si.xino /\ t.xib = q.si.xib /\ t.xigen = q.si.xigen
              /\ t.brid = q.si.brid /\ t.udba = u
          BY <3>3, <4>1 DEF Super
        <4>4. Once(q.si) /\ BasesOK(q.si) BY <3>5 DEF Ended
        <4>5. Ended(q.si, t) BY <3>2, <3>3, <4>3, <4>4, EndedFields
        <4>6. Ended(si, t) BY <3>5, <4>5, EndedTwice
        <4>7. Whole(t)
          <5>1. t.xino = TRUE /\ t.xib = d /\ t.xigen = d /\ t.brid = x /\ d # None
            BY <2>3, <2>7, <3>2, <3>3, <3>7, <4>3, DirAssumption DEF Super
          <5>2. \A j \in DOMAIN t.brs : t.brs[j].xf = TRUE
            <6>1. t.brs \in Seq(Branch) BY <4>3 DEF Super
            <6>2. \A j \in DOMAIN t.brs : t.brs[j] \in Branch BY <6>1
            <6>3. \A j \in DOMAIN t.brs : t.brs[j].xf \in BOOLEAN BY <6>2 DEF Branch
            <6> QED BY <3>2, <3>7, <4>3, <6>3
          <5>3. Dirs(t) = Dirs(si) BY <4>6 DEF Ended
          <5>4. x # None => x \in Dirs(t) /\ x = d BY <2>3, <2>4, <5>3
          <5> QED BY <5>1, <5>2, <5>4 DEF Whole
        <4> QED BY <4>2, <4>3, <4>6, <4>7
      <3> QED BY <3>3, <3>6, <3>7
    <2>12. Odd(si, {}).ok = FALSE BY DEF Odd
    <2> QED BY <1>1, <1>4, <2>9, <2>10, <2>11, <2>12
  <1>5. call.tmp.xino \in BOOLEAN BY DEF TypeOK, Call
  <1> QED BY <1>3, <1>4, <1>5

(* ... the end of a mount.                                                 *)
LEMMA EndMountOK ==
  ASSUME IInv, EndMount PROVE IInv'
  <1>1. TypeOK /\ PhaseOK /\ BranchOK /\ VerifyOK /\ XinoOK /\ CacheOK /\ RefsOK /\ ForceOK BY DEF IInv
  <1>2. PICK r \in Restored(si) :
          /\ si' = r.si
          /\ IF r.ok THEN mnt' = TRUE /\ call' = [call EXCEPT !.pc = "idle"] /\ held' = held - OptsFree(call.opts)
             ELSE call' = [call EXCEPT !.ok = FALSE] /\ UNCHANGED <<mnt, held>>
    BY DEF EndMount
  <1>3. /\ call.pc = "end" /\ call.kind = "mount" /\ call.ok /\ ~mnt /\ cache = None
        /\ call \in Call /\ call.opts \in Seq(Entry)
        /\ UNCHANGED <<gen, cache, excused>>
    BY <1>1 DEF EndMount, TypeOK, Call, PhaseOK, CacheOK
  <1>4. /\ Ended(si, r.si) /\ r.ok \in BOOLEAN
        /\ r.ok => r.si.udba = call.tmp.udba
        /\ r.ok /\ (~call.tmp.xino \/ OwnOption) =>
             r.si.xino = si.xino /\ r.si.xib = si.xib /\ (Whole(si) => Whole(r.si))
        /\ r.ok /\ call.tmp.xino /\ ~OwnOption => Whole(r.si)
    BY <1>1, RestoredResults DEF BranchOK, XinoOK
  <1>5. /\ r.si \in Super /\ Once(r.si) /\ BasesOK(r.si) /\ XibOK(r.si) /\ (OrphOK(si) => OrphOK(r.si))
        /\ AllFit(si) => AllFit(r.si)
        /\ FhsmOK(si) => FhsmOK(r.si)
    BY <1>4 DEF Ended
  <1>6. BranchOK' BY <1>1, <1>2, <1>3, <1>5 DEF BranchOK
  <1>7. call.verified => AllFit(r.si) /\ FhsmOK(r.si) BY <1>1, <1>3, <1>5 DEF VerifyOK, AllFit
  <1>8. CASE ~r.ok
    <2>1. /\ call' \in Call /\ call'.pc = "end" /\ call'.kind = call.kind /\ call'.opts = call.opts /\ call'.raw = call.raw
          /\ call'.fl = call.fl /\ ~call'.ok /\ call'.verified = call.verified
          /\ UNCHANGED <<mnt, held>>
      <3>1. PICK ok \in BOOLEAN : ok = FALSE OBVIOUS
      <3>2. call' = [call EXCEPT !.ok = ok] /\ UNCHANGED <<mnt, held>> BY <1>2, <1>8, <3>1
      <3> QED BY <1>3, <3>1, <3>2 DEF Call
    <2>2. TypeOK' BY <1>1, <1>2, <1>3, <1>5, <2>1 DEF TypeOK
    <2>3. PhaseOK' BY <1>1, <1>3, <2>1 DEF PhaseOK
    <2>4. VerifyOK' BY <1>2, <1>7, <2>1 DEF VerifyOK, AllFit
    <2>5. XinoOK' BY <1>2, <1>3, <1>5, <2>1 DEF XinoOK
    <2>6. CacheOK' BY <1>3 DEF CacheOK
    <2>7. RefsOK' BY <1>1, <1>3, <2>1 DEF RefsOK
    <2>8. ForceOK' BY <2>1 DEF ForceOK
    <2> QED BY <1>6, <2>2, <2>3, <2>4, <2>5, <2>6, <2>7, <2>8 DEF IInv
  <1>9. CASE r.ok
    <2>1. /\ call' \in Call /\ call'.pc = "idle" /\ call'.kind = call.kind /\ call'.opts = call.opts /\ call'.raw = call.raw
          /\ call'.fl = call.fl /\ call'.ok = call.ok /\ call'.verified = call.verified
      <3>1. PICK pc \in Pc : pc = "idle" BY DEF Pc
      <3>2. call' = [call EXCEPT !.pc = pc] BY <1>2, <1>9, <3>1
      <3> QED BY <1>3, <3>1, <3>2 DEF Call
    <2>2. mnt' = TRUE /\ held' = held - OptsFree(call.opts) BY <1>2, <1>9
    <2>3. TypeOK' BY <1>1, <1>2, <1>3, <1>5, <2>1, <2>2 DEF TypeOK
    <2>4. PhaseOK' BY <1>1, <1>3, <2>1, <2>2 DEF PhaseOK
    <2>5. VerifyOK' BY <1>2, <1>7, <2>1 DEF VerifyOK, AllFit
    <2>6. Live \in Seq(Option) /\ (NoTail(call.opts) => Live = call.opts) BY <1>3, LiveFacts DEF Live
    <2>7. XinoOK'
      <3>1. ASSUME "torn" \notin excused PROVE Whole(r.si)
        <4>1. call.tmp.xino BY <1>1, <1>3, <3>1 DEF XinoOK
        <4>2. CASE OwnOption
          <5>1. OwnXino(Live, Len(Live)) BY <2>6, <4>2 DEF OwnOption, OwnXino
          <5>2. Whole(si) BY <1>1, <1>3, <3>1, <5>1 DEF XinoOK
          <5> QED BY <1>4, <1>9, <4>2, <5>2
        <4> QED BY <1>4, <1>9, <4>1, <4>2
      <3> QED BY <1>2, <1>3, <1>5, <2>1, <2>2, <3>1 DEF XinoOK
    <2>8. CacheOK' BY <1>3 DEF CacheOK
    <2>9. RefsOK'
      <3>1. "refs" \notin excused => held' = 0 BY <1>1, <1>3, <2>2, AllFreed
      <3> QED BY <1>1, <1>3, <2>1, <3>1 DEF RefsOK
    <2>10. ForceOK'
      <3>1. \A c \in {"simple", "br", "xino"} : Passed(call', c) = Passed(call, c)
        BY <1>3, <2>1 DEF Passed
      <3>2. PICK u \in Word : u = call.tmp.udba BY <1>3 DEF Call
      <3>3. PICK e : e = [si EXCEPT !.udba = u] OBVIOUS
      <3>4. Eventual(mnt, si, call) = e /\ Eventual(mnt', si', call') = r.si
        BY <1>2, <1>3, <2>2, <3>2, <3>3 DEF Eventual
      <3>5. si \in Super BY <1>1 DEF TypeOK
      <3>6. /\ e.brs = si.brs /\ e.plink = si.plink /\ e.udba = u /\ e.xino = si.xino /\ e.xib = si.xib
        BY <3>3, <3>5 DEF Super
      <3>7. Dirs(e) = Dirs(si) /\ \A d : FindDbindex(e, d) = FindDbindex(si, d) BY <3>6, SameBrs
      <3>8. /\ Dirs(r.si) = Dirs(e) /\ r.si.plink = e.plink /\ r.si.udba = e.udba
            /\ \A d \in Dirs(e) : r.si.brs[FindDbindex(r.si, d)].perm = e.brs[FindDbindex(e, d)].perm
        BY <1>4, <1>9, <3>2, <3>6, <3>7 DEF Ended
      <3>9. ASSUME "force" \notin excused, NEW j \in DOMAIN call.opts, InEffect(e, call.opts[j])
            PROVE  InEffect(r.si, call.opts[j])
        <4>1. Class(call.opts[j]) = "xino" => OwnOption BY <1>1, <2>6, <3>9 DEF RefsOK, OwnOption
        <4>2. Class(call.opts[j]) # "xino" \/ (r.si.xino = e.xino /\ r.si.xib = e.xib)
          BY <1>4, <1>9, <3>6, <4>1
        <4> QED BY <3>8, <3>9, <4>2, PermEffect
      <3> QED BY <1>1, <1>3, <2>1, <3>1, <3>4, <3>9, ForceKeeps
    <2> QED BY <1>6, <2>3, <2>4, <2>5, <2>7, <2>8, <2>9, <2>10 DEF IInv
  <1> QED BY <1>4, <1>8, <1>9

-----------------------------------------------------------------------------
(* Every step keeps the invariant.                                         *)
LEMMA NextOK ==
  ASSUME IInv, [Next]_vars PROVE IInv'
  <1>1. ASSUME NEW str \in MountStrs, Start("mount", str) PROVE IInv' BY <1>1, StartOK
  <1>2. ASSUME NEW str \in RemountStrs, Start("remount", str) PROVE IInv' BY <1>2, StartOK
  <1> QED
    BY <1>1, <1>2, ParseOK, ParseFailsOK, PageFullOK, ParseEndOK, LockOK, LockRefusedOK, ExecOK, ToBranchesOK, ToXinoOK,
       ToVerifyOK, VerifyStepOK, VerifyEndOK, EndMountOK, MountFailsOK, EndRemountOK, LookupOK, StutterOK
    DEF Next

(* The inductive invariant holds in every state that mounts and remounts   *)
(* reach: types, the place of every call, the branches and their bases,    *)
(* the xino files, the cached dentry, the references and the options that  *)
(* have had their turn (opts.c, aufs_fill_super and aufs_remount_fs).      *)
THEOREM Invariant == Spec => []IInv
  <1>1. Init => IInv BY InitOK
  <1>2. IInv /\ [Next]_vars => IInv' BY NextOK
  <1> QED BY <1>1, <1>2, PTL DEF Spec

(* After a mount or remount whose verification passed the bases of every   *)
(* branch are those that its permission and the plink option ask for, and  *)
(* fhsm is what its branches make it (au_opts_verify), whatever came       *)
(* before and whatever failed.                                             *)
THEOREM VerifiedMatchesAlways == Spec => []VerifiedMatches
  <1>1. IInv => VerifiedMatches
    <2> SUFFICES ASSUME IInv, Quiet, call.verified, call.kind # "none"
                 PROVE  LET ig == IF "orph" \in excused THEN {"orph"} ELSE {}
                            f  == {i \in DOMAIN si.brs : si.brs[i].perm = "rwf"}
                        IN /\ \A i \in DOMAIN si.brs :
                                si.brs[i].bases \ ig = FullBases(si, si.brs[i].perm) \ ig
                           /\ si.fhsm <=> Cardinality(f) >= 2
                           /\ si.bottom = IF si.fhsm THEN Max(f) - 1 ELSE -1
      BY DEF VerifiedMatches
    <2>1. (\A i \in DOMAIN si.brs : Fits(si, si.brs[i])) /\ FhsmOK(si) BY DEF IInv, VerifyOK, Quiet
    <2>2. si.brs \in Seq(Branch) /\ ("orph" \notin excused => OrphOK(si))
      BY DEF IInv, TypeOK, Super, BranchOK
    <2>3. ASSUME NEW i \in DOMAIN si.brs
          PROVE  \A ig : ig = (IF "orph" \in excused THEN {"orph"} ELSE {}) =>
                   si.brs[i].bases \ ig = FullBases(si, si.brs[i].perm) \ ig
      <3>1. PICK b : b = si.brs[i] OBVIOUS
      <3>2. b \in Branch BY <2>2, <3>1
      <3>3. b.bases \in SUBSET Base BY <3>2 DEF Branch
      <3>4. Fits(si, b) /\ ("orph" \notin excused /\ Writable(b.perm) => "orph" \in b.bases)
        BY <2>1, <2>2, <3>1 DEF OrphOK
      <3>5. CASE ~Writable(b.perm)
        <4>1. b.bases = {} /\ FullBases(si, b.perm) = {} BY <3>4, <3>5 DEF Fits, FullBases
        <4> QED BY <3>1, <4>1
      <3>6. CASE Writable(b.perm)
        <4>1. FullBases(si, b.perm) \in SUBSET Base BY FullBasesType
        <4>2. /\ "base" \in b.bases <=> "base" \in FullBases(si, b.perm)
              /\ "plink" \in b.bases <=> "plink" \in FullBases(si, b.perm)
              /\ "orph" \in FullBases(si, b.perm)
          BY <3>4, <3>6 DEF Fits, FullBases, PlinkDir
        <4> QED BY <3>1, <3>3, <3>4, <3>6, <4>1, <4>2 DEF Base
      <3> QED BY <3>5, <3>6
    <2>4. /\ si.fhsm <=> Cardinality({i \in DOMAIN si.brs : si.brs[i].perm = "rwf"}) >= 2
          /\ si.bottom = IF si.fhsm THEN Max({i \in DOMAIN si.brs : si.brs[i].perm = "rwf"}) - 1 ELSE -1
      BY <2>1 DEF FhsmOK, Fhsm
    <2> QED BY <2>3, <2>4
  <1> QED BY <1>1, Invariant, PTL

(* While nothing has torn them the bitmap, the generations and the tables  *)
(* of all branches are there together and with the flag, and the branch    *)
(* whose directory has the xino file is in the union (au_xino_set).        *)
THEOREM XinoWholeAlways == Spec => []XinoWhole
  <1>1. IInv => XinoWhole BY DEF IInv, XinoOK, XinoWhole, Whole, Quiet
  <1> QED BY <1>1, Invariant, PTL

(* A cached dentry of the current generation shows the branches of now,    *)
(* however many remounts succeeded or failed half way (aufs_remount_fs).   *)
THEOREM CacheFreshAlways == Spec => []CacheFresh
  <1>1. IInv => CacheFresh BY DEF IInv, CacheOK, CacheFresh, Quiet
  <1> QED BY <1>1, Invariant, PTL

(* Every reference that the parser takes is released when the call returns *)
(* (au_opts_free), on all the ways out that are not excused.               *)
THEOREM RefsReleasedAlways == Spec => []RefsReleased
  <1>1. IInv => RefsReleased BY DEF IInv, RefsOK, RefsReleased
  <1> QED BY <1>1, Invariant, PTL

(* After success the last option about each thing is in force, for option  *)
(* strings of any length and order (au_opts_mount, au_opts_remount).       *)
THEOREM InForceAlways == Spec => []InForce
  <1>1. IInv => InForce
    <2> SUFFICES ASSUME IInv, Quiet, call.ok, call.kind # "none", "force" \notin excused,
                        NEW j \in DOMAIN call.opts,
                        \A k \in DOMAIN call.opts : k > j => ~SameThing(call.opts[k], call.opts[j])
                 PROVE  InEffect(si, call.opts[j])
      BY DEF InForce
    <2>1. mnt /\ call.pc = "idle" BY DEF Quiet
    <2>2. DOMAIN call.opts = 1 .. Len(call.opts) BY DEF IInv, TypeOK, Call
    <2>3. \A c \in {"simple", "br", "xino"} : Passed(call, c) = Len(call.opts) BY <2>1 DEF Passed
    <2>a. \A e : Class(e) \in {"simple", "br", "xino"} BY DEF Class
    <2>4. Latest(call, j) BY <2>2, <2>3, <2>a DEF Latest, Done
    <2>5. Eventual(mnt, si, call) = si BY <2>1 DEF Eventual
    <2> QED BY <2>1, <2>4, <2>5 DEF IInv, ForceOK
  <1> QED BY <1>1, Invariant, PTL
=============================================================================
