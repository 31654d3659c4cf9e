---------------------------- MODULE AufsXinoProofs ---------------------------
(***************************************************************************)
(* Proofs about AufsXino, for any number of tasks, branches, lower inodes, *)
(* numbers and pages of the bitmap.                                        *)
(***************************************************************************)
EXTENDS AufsXino, DataLemmas, FiniteSetTheorems

(* What the theorems suppose of the mount: every branch has a file system  *)
(* of its own, as RWFS and the squashfs do.  Hard links of a lower inode   *)
(* in two branches of one file system are looked up under two mutexes      *)
(* (inode.c:307) and can get two numbers.                                  *)
OwnFs == \A b, c \in Br : Fs(b) = Fs(c) => b = c

(* What the variables hold.                                                *)
LowType   == [obj : Nat, n : [Br -> 0 .. MaxLinks], wh : Nat, hid : SUBSET Br]
InodeType == [at : SUBSET Low, nlink : Nat, gen : Nat, new : BOOLEAN, users : SUBSET Procs, obj : Nat]
DyingType == [ino : Ino, at : SUBSET Low, gen : Nat, unlinked : BOOLEAN,
              step : {"gen", "bit", "zero", "put"}]
ProcType  == [pc : {"newino", "write", "iget", "set", "reval"}, x : Low, b : Br,
              kind : {"inode", "ino", "new"}, ino : 0 .. MaxIno]
XibType   == [file : Seq(SUBSET Bits), buf : SUBSET Bits, last : Nat, next : Nat]
XibOK(x)  == x \in XibType /\ x.last < Len(x.file)

TypeOK ==
  /\ low \in [Low -> LowType] /\ xino \in [Low -> 0 .. MaxIno]
  /\ XibOK(xib)
  /\ xigen \in [Ino -> Nat] /\ icache \in [Ino -> InodeType] /\ dying \in SUBSET DyingType
  /\ proc \in [Procs -> ProcType \cup {Idle}] /\ mtx \in [Br -> Procs \cup {"free"}]
  /\ gone \in SUBSET (Ino \X Nat \X Nat) /\ nobj \in Nat

On(p, x)   == proc[p].pc # "idle" /\ proc[p].x = x
Named(x)   == \E b \in Br : low[x].n[b] > 0
Plain(i)   == Hashed(i) /\ ~icache[i].new

(* Somebody can come by the lower inode, or is on the way with it.         *)
Open(x)    == Reachable(x) \/ \E p \in Procs : On(p, x)

(* The entry of a lower inode does not count when its names are hidden, or *)
(* when it is about to be cleared because the file was removed.            *)
Removed(e) == e.unlinked /\ e.step # "put"
Dead(x) ==
  \/ low[x].hid # {} /\ \A p \in Procs : ~On(p, x)
  \/ \E e \in dying : Removed(e) /\ x \in e.at
Entry(x, i) == ~Dead(x) /\ xino[x] = i

(* A number on its way into an entry, and one on its way to be free.       *)
Fresh(p, i)  == proc[p].pc \in {"iget", "write"} /\ proc[p].ino = i /\ xino[proc[p].x] = 0
Ending(e, i) == e.ino = i /\ e.step \in {"gen", "bit"}

(* A lower inode has its names in the branch of its file system, and one   *)
(* that somebody holds is not free.                                        *)
LowOK(x) ==
  /\ \A b \in Br : low[x].n[b] > 0 => Fs(b) = x.fs
  /\ 0 \notin low[x].hid /\ \A b \in low[x].hid : low[x].n[b] > 0
  /\ low[x].obj = 0 => low[x] = Free
  /\ x \in HeldBy(icache, dying, proc) => low[x].obj # 0
LowsOK == \A x \in Low : LowOK(x)

(* A task has a name to go by, the mutex, and no entry or the one it read. *)
ProcOK(p) ==
  /\ Fs(proc[p].b) = proc[p].x.fs
  /\ low[proc[p].x].n[proc[p].b] > 0
  /\ proc[p].b \in low[proc[p].x].hid => low[proc[p].x].n[proc[p].b] > 1
  /\ proc[p].pc # "reval" => mtx[proc[p].b] = p
  /\ proc[p].pc \in {"newino", "write"} => xino[proc[p].x] = 0
  /\ proc[p].pc \in {"iget", "set"} => xino[proc[p].x] \in {0, proc[p].ino} /\ proc[p].kind # "ino"
  /\ proc[p].pc # "newino" => proc[p].ino \in Ino
  /\ proc[p].pc = "set" => icache[proc[p].ino].new /\ icache[proc[p].ino].users = {p}
  /\ proc[p].pc = "reval" => proc[p].x \in icache[proc[p].ino].at /\ p \in icache[proc[p].ino].users
  /\ proc[p].kind = "new" => proc[p].pc # "reval" /\ \A j \in Ino : proc[p].x \notin icache[j].at
ProcsOK == \A p \in Procs : proc[p].pc # "idle" => ProcOK(p)

(* A number is used in one way only, and its bit is set.                   *)
Used(i) ==
  \/ Hashed(i)
  \/ \E x \in Low : Entry(x, i)
  \/ \E p \in Procs : Fresh(p, i)
  \/ \E e \in dying : Ending(e, i)
BitsSet  == \A i \in Ino : Used(i) => Taken(i)
OneEntry == \A i \in Ino : \A x, y \in Low : Entry(x, i) /\ Entry(y, i) => x = y
FreshAlone ==
  \A p \in Procs, i \in Ino : Fresh(p, i) =>
    /\ ~Hashed(i) /\ \A x \in Low : ~Entry(x, i)
    /\ \A q \in Procs : Fresh(q, i) => q = p
EndingAlone ==
  \A e \in dying, i \in Ino : Ending(e, i) =>
    /\ e.unlinked
    /\ ~Hashed(i) /\ \A x \in Low : ~Entry(x, i)
    /\ \A p \in Procs : ~Fresh(p, i)
    /\ \A f \in dying : Ending(f, i) => f = e
    /\ e.step = "gen" => e.gen = xigen[i]

(* A new inode is that of one task.  One that is set has the lower inodes  *)
(* with its number, and as many links as it can be found by.               *)
GensOK == \A i \in Ino : Hashed(i) => icache[i].gen = xigen[i]
NewOK(i) ==
  /\ icache[i].at = {}
  /\ \E p \in Procs : /\ proc[p].pc = "set" /\ proc[p].ino = i
                      /\ \A x \in Low : Entry(x, i) => x = proc[p].x
NewsOK == \A i \in Ino : icache[i].new => NewOK(i)
EntriesAt == \A i \in Ino, x \in Low : Plain(i) /\ Entry(x, i) => x \in icache[i].at
AtOK(i, x) ==
  /\ Named(x) => xino[x] = i
  /\ \A b \in Br : b \notin low[x].hid => low[x].n[b] <= icache[i].nlink
  /\ Open(x) => icache[i].nlink > 0
  /\ \A j \in Ino : x \in icache[j].at => j = i
AtsOK == \A i \in Ino : \A x \in icache[i].at : AtOK(i, x)

(* The lower inodes of a removed file are out of use until they are let go.*)
OutOK(e, x) ==
  /\ ~Open(x) /\ (Named(x) => xino[x] # 0)
  /\ \A i \in Ino : x \notin icache[i].at
  /\ \A f \in dying : Removed(f) /\ x \in f.at => f = e
RemovedOut == \A e \in dying : Removed(e) => \A x \in e.at : OutOK(e, x)

(* What was removed has an old generation, or its number is not free yet.  *)
GoneOld ==
  \A g \in gone :
    \/ g[2] < xigen[g[1]]
    \/ \E e \in dying : Ending(e, g[1]) /\ e.step = "gen" /\ e.gen = g[2]

IInv ==
  /\ TypeOK /\ LowsOK /\ ProcsOK /\ BitsSet /\ OneEntry /\ FreshAlone /\ EndingAlone
  /\ GensOK /\ NewsOK /\ EntriesAt /\ AtsOK /\ RemovedOut /\ GoneOld

-----------------------------------------------------------------------------
(* The bitmap.                                                             *)
BitIn(x, i) == BitOf(i) \in Page(x, PageOf(i))

LEMMA BitPlace ==
  ASSUME NEW i \in Nat \ {0}
  PROVE  /\ PageOf(i) \in Nat /\ BitOf(i) \in Bits
         /\ XibCalcIno(PageOf(i), BitOf(i)) = i
  <1> USE BoundAssumption
  <1>1. i - 1 \in Nat OBVIOUS
  <1>2. PICK q \in Int : q = (i - 1) \div PageBits BY Quotient
  <1>3. PICK r \in Int : r = (i - 1) % PageBits OBVIOUS
  <1>4. r \in 0 .. PageBits - 1 BY <1>3
  <1>5. i - 1 = PageBits * q + r BY <1>2, <1>3, Division
  <1>6. PageBits * q = q * PageBits /\ PageBits * q \in Int OBVIOUS
  <1>7. q >= 0
    <2> SUFFICES ASSUME q <= -1 PROVE FALSE OBVIOUS
    <2>1. PageBits * q <= -PageBits
      <3>1. PageBits * (q + 1) <= 0 OBVIOUS
      <3>2. PageBits * (q + 1) = PageBits * q + PageBits OBVIOUS
      <3> QED BY <3>1, <3>2, <1>6
    <2> QED BY <1>1, <1>4, <1>5, <2>1, <1>6
  <1>8. 1 + q * PageBits + r = i BY <1>4, <1>5, <1>6
  <1> QED BY <1>2, <1>3, <1>4, <1>7, <1>8 DEF PageOf, BitOf, Bits, XibCalcIno

LEMMA PlaceBit ==
  ASSUME NEW p \in Nat, NEW b \in Bits
  PROVE  /\ XibCalcIno(p, b) \in Nat \ {0}
         /\ PageOf(XibCalcIno(p, b)) = p /\ BitOf(XibCalcIno(p, b)) = b
  <1> USE BoundAssumption DEF Bits
  <1>1. p * PageBits \in Nat /\ PageBits * p = p * PageBits OBVIOUS
  <1>2. PICK x \in Nat : x = p * PageBits BY <1>1
  <1>3. XibCalcIno(p, b) = 1 + x + b BY <1>2 DEF XibCalcIno
  <1>4. (1 + x + b) - 1 = x + b /\ 1 + x + b \in Nat \ {0} BY <1>2
  <1>5. (x + b) \div PageBits = p /\ (x + b) % PageBits = b
    BY <1>1, <1>2, DivisionUnique
  <1> QED BY <1>3, <1>4, <1>5 DEF PageOf, BitOf

LEMMA WriteEffect ==
  ASSUME NEW f \in Seq(SUBSET Bits), NEW p \in Nat, NEW bits \in SUBSET Bits
  PROVE  LET g == WritePage(f, p, bits) IN
         /\ g \in Seq(SUBSET Bits) /\ Len(g) >= Len(f) /\ Len(g) > p
         /\ \A q \in 0 .. Len(g) - 1 :
              g[q + 1] = IF q = p THEN bits ELSE IF q < Len(f) THEN f[q + 1] ELSE {}
  <1> DEFINE m == Max({Len(f), p + 1})
             g == WritePage(f, p, bits)
             e(q) == IF q = p + 1 THEN bits ELSE IF q <= Len(f) THEN f[q] ELSE {}
  <1>1. Len(f) \in Nat OBVIOUS
  <1>2. m \in Nat /\ m >= Len(f) /\ m > p
    <2>1. {Len(f), p + 1} \in SUBSET Nat /\ \A x \in {Len(f), p + 1} : x <= Len(f) + p + 1 BY <1>1
    <2>2. m \in {Len(f), p + 1} /\ \A x \in {Len(f), p + 1} : x <= m
      <3> DEFINE S == {Len(f), p + 1}
                 u == Len(f) + p + 1
      <3>1. S \in SUBSET Nat /\ S # {} /\ u \in Nat /\ \A x \in S : x <= u BY <1>1, <2>1
      <3> HIDE DEF S, u
      <3>2. Max(S) \in S /\ \A x \in S : x <= Max(S) BY <3>1, GreatestNatural
      <3> QED BY <3>2 DEF S
    <2> QED BY <1>1, <2>2
  <1>3. g = [q \in 1 .. m |-> e(q)] BY DEF WritePage
  <1> HIDE DEF m, g
  <1>4. \A q \in 1 .. m : e(q) \in SUBSET Bits BY <1>1
  <1>5. g \in [1 .. m -> SUBSET Bits] BY <1>3, <1>4
  <1>6. g \in Seq(SUBSET Bits) /\ Len(g) = m BY <1>2, <1>5
  <1>7. \A q \in 0 .. m - 1 :
          g[q + 1] = IF q = p THEN bits ELSE IF q < Len(f) THEN f[q + 1] ELSE {}
    <2> SUFFICES ASSUME NEW q \in 0 .. m - 1
                 PROVE  g[q + 1] = IF q = p THEN bits ELSE IF q < Len(f) THEN f[q + 1] ELSE {}
      OBVIOUS
    <2>1. q + 1 \in 1 .. m /\ g[q + 1] = e(q + 1) BY <1>2, <1>3
    <2>2. (q + 1 = p + 1 <=> q = p) /\ (q + 1 <= Len(f) <=> q < Len(f)) BY <1>1, <1>2
    <2> QED BY <2>1, <2>2
  <1> QED BY <1>2, <1>6, <1>7 DEF g

(* xib_pindex loses nothing: every page has the bits it had.               *)
LEMMA XibPindexKeeps ==
  ASSUME NEW x, XibOK(x), NEW p \in Nat
  PROVE  LET y == XibPindex(x, p) IN
         /\ XibOK(y) /\ y.last = p /\ y.next = x.next /\ y.buf = Page(x, p)
         /\ \A q \in Nat : Page(y, q) = Page(x, q)
  <1> DEFINE y == XibPindex(x, p)
  <1>0. /\ x.file \in Seq(SUBSET Bits) /\ x.buf \in SUBSET Bits /\ x.last \in Nat /\ x.next \in Nat
        /\ x.last < Len(x.file) /\ Len(x.file) \in Nat
        /\ x = [file |-> x.file, buf |-> x.buf, last |-> x.last, next |-> x.next]
    BY DEF XibOK, XibType
  <1>1. CASE p = x.last
    <2>1. y = x BY <1>1 DEF XibPindex
    <2> QED BY <2>1, <1>1 DEF Page
  <1>2. CASE p # x.last
    <2> DEFINE f == WritePage(x.file, x.last, x.buf)
               g == WritePage(f, p, {})
    <2>1. /\ f \in Seq(SUBSET Bits) /\ Len(f) >= Len(x.file) /\ Len(f) > x.last
          /\ \A q \in 0 .. Len(f) - 1 :
               f[q + 1] = IF q = x.last THEN x.buf ELSE IF q < Len(x.file) THEN x.file[q + 1] ELSE {}
      BY <1>0, WriteEffect
    <2>2. y = [file |-> IF p < Len(f) THEN f ELSE g, buf |-> IF p < Len(f) THEN f[p + 1] ELSE {},
               last |-> p, next |-> x.next]
      BY <1>0, <1>2, Zenon DEF XibPindex
    <2> HIDE DEF f
    <2>3. /\ g \in Seq(SUBSET Bits) /\ Len(g) >= Len(f) /\ Len(g) > p
          /\ \A q \in 0 .. Len(g) - 1 :
               g[q + 1] = IF q = p THEN {} ELSE IF q < Len(f) THEN f[q + 1] ELSE {}
      <3>1. f \in Seq(SUBSET Bits) /\ {} \in SUBSET Bits BY <2>1
      <3> QED BY <3>1, WriteEffect
    <2> HIDE DEF g, y
    <2>4. Len(f) \in Nat /\ Len(g) \in Nat BY <2>1, <2>3
    <2>5. \A q \in 0 .. Len(f) - 1 : f[q + 1] = Page(x, q)
      BY <2>1, <1>0, <2>4 DEF Page
    <2>6. \A q \in Nat : q >= Len(f) => Page(x, q) = {} BY <1>0, <2>1, <2>4 DEF Page
    <2>7. \A q \in 0 .. Len(f) - 1 : f[q + 1] \in SUBSET Bits
      <3> SUFFICES ASSUME NEW q \in 0 .. Len(f) - 1 PROVE f[q + 1] \in SUBSET Bits OBVIOUS
      <3>1. q + 1 \in 1 .. Len(f) BY <2>4
      <3> QED BY <3>1, <2>1
    <2>8. CASE p < Len(f)
      <3>1. y.file = f /\ y.buf = f[p + 1] /\ y.last = p /\ y.next = x.next BY <2>2, <2>8
      <3>2. y.buf = Page(x, p) /\ y.buf \in SUBSET Bits BY <3>1, <2>5, <2>7, <2>8, <2>4
      <3>3. y \in XibType /\ y.last < Len(y.file)
        <4>1. y = [file |-> f, buf |-> f[p + 1], last |-> p, next |-> x.next] BY <2>2, <2>8
        <4> QED BY <4>1, <3>1, <3>2, <2>1, <2>8, <1>0 DEF XibType
      <3>4. \A q \in Nat : Page(y, q) = Page(x, q)
        <4> SUFFICES ASSUME NEW q \in Nat PROVE Page(y, q) = Page(x, q) OBVIOUS
        <4>1. CASE q = p BY <4>1, <3>1, <3>2 DEF Page
        <4>2. CASE q # p /\ q < Len(f)
          <5>1. q \in 0 .. Len(f) - 1 BY <4>2, <2>4
          <5>2. Page(y, q) = f[q + 1] BY <4>2, <3>1 DEF Page
          <5> QED BY <5>1, <5>2, <2>5
        <4>3. CASE q # p /\ ~(q < Len(f))
          <5>1. q >= Len(f) BY <4>3, <2>4
          <5>2. Page(y, q) = {} BY <4>3, <3>1 DEF Page
          <5> QED BY <5>1, <5>2, <2>6
        <4> QED BY <4>1, <4>2, <4>3
      <3> QED BY <3>1, <3>2, <3>3, <3>4 DEF XibOK, y
    <2>9. CASE ~(p < Len(f))
      <3>0. p >= Len(f) BY <2>9, <2>4
      <3>1. y.file = g /\ y.buf = {} /\ y.last = p /\ y.next = x.next BY <2>2, <2>9
      <3>2. y.buf = Page(x, p) BY <3>0, <3>1, <2>6
      <3>3. y \in XibType /\ y.last < Len(y.file)
        <4>1. y = [file |-> g, buf |-> {}, last |-> p, next |-> x.next] BY <2>2, <2>9
        <4> QED BY <4>1, <3>1, <2>3, <1>0 DEF XibType
      <3>4. \A q \in Nat : Page(y, q) = Page(x, q)
        <4> SUFFICES ASSUME NEW q \in Nat PROVE Page(y, q) = Page(x, q) OBVIOUS
        <4>1. CASE q = p BY <4>1, <3>1, <3>2 DEF Page
        <4>2. CASE q # p /\ q < Len(f)
          <5>1. q \in 0 .. Len(f) - 1 /\ q \in 0 .. Len(g) - 1 /\ q < Len(g) BY <4>2, <2>4, <2>3
          <5>2. Page(y, q) = g[q + 1] BY <5>1, <4>2, <3>1 DEF Page
          <5>3. g[q + 1] = f[q + 1] BY <5>1, <4>2, <2>3
          <5> QED BY <5>1, <5>2, <5>3, <2>5
        <4>3. CASE q # p /\ ~(q < Len(f))
          <5>1. q >= Len(f) BY <4>3, <2>4
          <5>2. Page(y, q) = IF q < Len(g) THEN g[q + 1] ELSE {} BY <4>3, <3>1 DEF Page
          <5>3. q < Len(g) => q \in 0 .. Len(g) - 1 BY <2>4
          <5>4. Page(y, q) = {} BY <5>2, <5>3, <4>3, <2>3
          <5> QED BY <5>1, <5>4, <2>6
        <4> QED BY <4>1, <4>2, <4>3
      <3> QED BY <3>1, <3>2, <3>3, <3>4 DEF XibOK, y
    <2> QED BY <2>8, <2>9
  <1> QED BY <1>1, <1>2

LEMMA BitsNotEmpty == Bits # {} /\ Bits \in SUBSET Nat
  <1>1. 0 \in 0 .. PageBits - 1 BY BoundAssumption
  <1> QED BY <1>1 DEF Bits

(* au_xino_new_ino finds a page with room.                                 *)
LEMMA NewInoPageRoom ==
  ASSUME NEW x, XibOK(x)
  PROVE  NewInoPage(x) \in Nat /\ HasRoom(x, NewInoPage(x))
  <1> DEFINE below == {p \in 0 .. x.last - 1 : HasRoom(x, p)}
             top == Max({Len(x.file), x.last + 1})
             above == {p \in x.last + 1 .. top : HasRoom(x, p)}
  <1>0. x.last \in Nat /\ Len(x.file) \in Nat /\ x.last < Len(x.file) BY DEF XibOK, XibType
  <1>1. CASE HasRoom(x, x.last) BY <1>0, <1>1 DEF NewInoPage
  <1>2. CASE ~HasRoom(x, x.last) /\ below # {}
    <2>1. NewInoPage(x) = Max(below) BY <1>2, Zenon DEF NewInoPage
    <2>2. below \in SUBSET Nat /\ \A p \in below : p <= x.last BY <1>0
    <2>3. \A p \in below : HasRoom(x, p) OBVIOUS
    <2> HIDE DEF below
    <2>4. Max(below) \in below BY <1>0, <1>2, <2>2, GreatestNatural
    <2> QED BY <2>1, <2>2, <2>3, <2>4
  <1>3. CASE ~HasRoom(x, x.last) /\ below = {}
    <2>1. NewInoPage(x) = Min(above) BY <1>3, Zenon DEF NewInoPage
    <2>2. top \in Nat /\ top >= Len(x.file)
      <3> DEFINE S == {Len(x.file), x.last + 1}
                 u == Len(x.file) + x.last + 1
      <3>1. S \in SUBSET Nat /\ S # {} /\ u \in Nat /\ \A y \in S : y <= u BY <1>0
      <3> HIDE DEF S, u
      <3>2. Max(S) \in S /\ \A y \in S : y <= Max(S) BY <3>1, GreatestNatural
      <3> QED BY <3>2, <1>0 DEF S
    <2> HIDE DEF top
    <2>3. Page(x, Len(x.file)) = {} BY <1>0 DEF Page
    <2>4. HasRoom(x, Len(x.file)) BY <2>3, BitsNotEmpty DEF HasRoom
    <2>5. Len(x.file) \in above BY <1>0, <2>2, <2>4
    <2>6. above \in SUBSET Nat /\ \A p \in above : HasRoom(x, p) BY <1>0, <2>2
    <2> HIDE DEF above
    <2>7. Min(above) \in above BY <2>5, <2>6, LeastNatural
    <2> QED BY <2>1, <2>6, <2>7
  <1> QED BY <1>1, <1>2, <1>3

(* A page with one bit more, or less, is that number more or less.         *)
LEMMA OtherPlace ==
  ASSUME NEW i \in Nat \ {0}, NEW j \in Nat \ {0}, PageOf(i) = PageOf(j), BitOf(i) = BitOf(j)
  PROVE  i = j
  BY BitPlace

LEMMA PageSub == ASSUME NEW x, XibOK(x), NEW p \in Nat PROVE Page(x, p) \in SUBSET Bits
  <1>1. x.last \in Nat /\ Len(x.file) \in Nat /\ x.file \in Seq(SUBSET Bits) /\ x.buf \in SUBSET Bits
    BY DEF XibOK, XibType
  <1>2. p < Len(x.file) => p + 1 \in 1 .. Len(x.file) BY <1>1
  <1> QED BY <1>1, <1>2 DEF Page

LEMMA SetPage ==
  ASSUME NEW y, XibOK(y), NEW bits \in SUBSET Bits, NEW k \in Nat
  PROVE  LET z == [y EXCEPT !.buf = bits, !.next = k] IN
         /\ XibOK(z)
         /\ \A q \in Nat : Page(z, q) = IF q = y.last THEN bits ELSE Page(y, q)
  <1> DEFINE z == [y EXCEPT !.buf = bits, !.next = k]
  <1>1. y \in [file : Seq(SUBSET Bits), buf : SUBSET Bits, last : Nat, next : Nat] BY DEF XibOK, XibType
  <1>2. z \in XibType BY <1>1 DEF XibType
  <1>3. z.buf = bits BY <1>1
  <1>4. z.file = y.file BY <1>1
  <1>5. z.last = y.last BY <1>1
  <1> HIDE DEF z
  <1> QED BY <1>2, <1>3, <1>4, <1>5 DEF XibOK, Page, z

(* The number that au_xino_new_ino returns was free, and is taken then;    *)
(* nothing else changes.                                                   *)
LEMMA NewNumber ==
  ASSUME NEW x, XibOK(x)
  PROVE  LET r == XinoNewIno(x) IN
         /\ r.ino \in Nat \ {0} /\ ~BitIn(x, r.ino) /\ XibOK(r.xib)
         /\ \A i \in Nat \ {0} : BitIn(r.xib, i) <=> BitIn(x, i) \/ i = r.ino
  <1> DEFINE P == NewInoPage(x)
             y == XibPindex(x, P)
             bit == IF y.last = x.last /\ x.next \in Bits \ x.buf THEN x.next ELSE Min(Bits \ y.buf)
             z == [y EXCEPT !.buf = y.buf \cup {bit}, !.next = bit + 1]
             r == XinoNewIno(x)
  <1>1. P \in Nat /\ HasRoom(x, P) BY NewInoPageRoom
  <1>2. r = [ino |-> XibCalcIno(y.last, bit), xib |-> z] BY Zenon DEF XinoNewIno
  <1>3. r.ino = XibCalcIno(y.last, bit) /\ r.xib = z BY <1>2
  <1> HIDE DEF P, r
  <1>4. /\ XibOK(y) /\ y.last = P /\ y.buf = Page(x, P)
        /\ \A q \in Nat : Page(y, q) = Page(x, q)
    BY <1>1, XibPindexKeeps
  <1>5. Page(x, P) \in SUBSET Bits BY <1>1, PageSub
  <1> HIDE DEF y
  <1>6. bit \in Bits /\ bit \notin y.buf
    <2>1. CASE y.last = x.last /\ x.next \in Bits \ x.buf
      <3>1. y.buf = x.buf BY <2>1, <1>4 DEF Page
      <3> QED BY <2>1, <3>1
    <2>2. CASE ~(y.last = x.last /\ x.next \in Bits \ x.buf)
      <3> DEFINE S == Bits \ y.buf
      <3>1. S # {} BY <1>1, <1>4, <1>5 DEF HasRoom
      <3>2. S \in SUBSET Nat BY BitsNotEmpty
      <3>3. bit = Min(S) BY <2>2
      <3>4. S \in SUBSET Bits /\ S \cap y.buf = {} OBVIOUS
      <3> HIDE DEF S, bit
      <3> QED BY <3>1, <3>2, <3>3, <3>4, LeastNatural
    <2> QED BY <2>1, <2>2
  <1> HIDE DEF bit
  <1>7. bit \in Nat /\ bit + 1 \in Nat BY <1>6, BitsNotEmpty
  <1>8. y.buf \cup {bit} \in SUBSET Bits BY <1>4, <1>5, <1>6
  <1>9. XibOK(z) /\ \A q \in Nat : Page(z, q) = IF q = y.last THEN y.buf \cup {bit} ELSE Page(y, q)
    BY <1>4, <1>7, <1>8, SetPage
  <1> HIDE DEF z
  <1>10. r.ino \in Nat \ {0} /\ PageOf(r.ino) = P /\ BitOf(r.ino) = bit
    BY <1>1, <1>3, <1>4, <1>6, PlaceBit
  <1>11. ~BitIn(x, r.ino) BY <1>4, <1>6, <1>10 DEF BitIn
  <1>12. ASSUME NEW i \in Nat \ {0} PROVE BitIn(r.xib, i) <=> BitIn(x, i) \/ i = r.ino
    <2>1. PageOf(i) \in Nat /\ BitOf(i) \in Bits BY BitPlace
    <2>2. BitIn(r.xib, i) <=> BitOf(i) \in Page(z, PageOf(i)) BY <1>3 DEF BitIn
    <2>3. CASE PageOf(i) # P BY <2>1, <2>2, <2>3, <1>4, <1>9, <1>10 DEF BitIn
    <2>4. CASE PageOf(i) = P
      <3>1. BitIn(r.xib, i) <=> BitIn(x, i) \/ BitOf(i) = bit
        BY <2>1, <2>2, <2>4, <1>4, <1>9 DEF BitIn
      <3>2. BitOf(i) = bit <=> i = r.ino BY <2>4, <1>10, OtherPlace
      <3> QED BY <3>1, <3>2
    <2> QED BY <2>3, <2>4
  <1> QED BY <1>3, <1>9, <1>10, <1>11, <1>12 DEF r

(* au_xib_clear_bit frees one number.                                      *)
LEMMA ClearedNumber ==
  ASSUME XibOK(xib), NEW i \in Nat \ {0}
  PROVE  LET z == XibClearBit(i) IN
         /\ XibOK(z) /\ \A j \in Nat \ {0} : BitIn(z, j) <=> BitIn(xib, j) /\ j # i
  <1> DEFINE P == PageOf(i)
             y == XibPindex(xib, P)
             z == [y EXCEPT !.buf = y.buf \ {BitOf(i)}, !.next = BitOf(i)]
  <1>1. P \in Nat /\ BitOf(i) \in Bits /\ BitOf(i) \in Nat BY BitPlace, BitsNotEmpty
  <1>2. XibClearBit(i) = z BY DEF XibClearBit
  <1> HIDE DEF P
  <1>3. /\ XibOK(y) /\ y.last = P /\ y.buf = Page(xib, P)
        /\ \A q \in Nat : Page(y, q) = Page(xib, q)
    BY <1>1, XibPindexKeeps
  <1>4. y.buf \ {BitOf(i)} \in SUBSET Bits BY <1>1, <1>3, PageSub
  <1> HIDE DEF y
  <1>5. XibOK(z) /\ \A q \in Nat : Page(z, q) = IF q = y.last THEN y.buf \ {BitOf(i)} ELSE Page(y, q)
    BY <1>1, <1>3, <1>4, SetPage
  <1> HIDE DEF z
  <1>6. ASSUME NEW j \in Nat \ {0} PROVE BitIn(z, j) <=> BitIn(xib, j) /\ j # i
    <2>1. PageOf(j) \in Nat /\ BitOf(j) \in Bits BY BitPlace
    <2>2. CASE PageOf(j) # P BY <2>1, <2>2, <1>3, <1>5 DEF BitIn, P
    <2>3. CASE PageOf(j) = P
      <3>1. BitIn(z, j) <=> BitIn(xib, j) /\ BitOf(j) # BitOf(i)
        BY <2>1, <2>3, <1>3, <1>5 DEF BitIn
      <3>2. BitOf(j) = BitOf(i) <=> j = i BY <2>3, OtherPlace DEF P
      <3> QED BY <3>1, <3>2
    <2> QED BY <2>2, <2>3
  <1> QED BY <1>2, <1>5, <1>6

(* The bitmap that xib_restore makes has the numbers of the tables.        *)
LEMMA Rebuilt ==
  ASSUME TypeOK, XibTrunc
  PROVE  XibOK(xib') /\ \A i \in Ino : BitIn(xib', i) <=> \E x \in Low : xino[x] = i
  <1> DEFINE inos == {xino[x] : x \in Low} \ {0}
             pages == {PageOf(i) : i \in inos}
             bits(q) == {BitOf(i) : i \in {j \in inos : PageOf(j) = q}}
             top == Max(pages \cup {xib.last})
  <1>1. inos \in SUBSET Ino /\ \A i \in inos : i \in Nat \ {0} BY DEF TypeOK, Ino
  <1>2. xib.last \in Nat /\ xib.next \in Nat BY DEF TypeOK, XibOK, XibType
  <1>3. PICK l \in IF pages = {} THEN {xib.last} ELSE pages :
          xib' = [file |-> [q \in 1 .. top + 1 |-> bits(q - 1)], buf |-> bits(l), last |-> l, next |-> xib.next]
    BY Zenon DEF XibTrunc
  <1>4. \A i \in Ino : i \in inos <=> \E x \in Low : xino[x] = i BY DEF Ino
  <1> HIDE DEF inos
  <1>5. \A i \in inos : PageOf(i) \in Nat /\ BitOf(i) \in Bits /\ PageOf(i) <= i
    <2> SUFFICES ASSUME NEW i \in inos PROVE PageOf(i) \in Nat /\ BitOf(i) \in Bits /\ PageOf(i) <= i
      OBVIOUS
    <2>1. /\ i \in Nat \ {0} /\ PageOf(i) \in Nat /\ BitOf(i) \in Bits
          /\ 1 + PageOf(i) * PageBits + BitOf(i) = i
      BY <1>1, BitPlace DEF XibCalcIno
    <2>2. PICK p \in Nat, c \in Nat : p = PageOf(i) /\ c = BitOf(i) BY <2>1, BitsNotEmpty
    <2>3. 1 + p * PageBits + c = i BY <2>1, <2>2
    <2>4. p * PageBits >= p
      <3>1. PICK m \in Nat : PageBits = m + 1
        <4>1. PageBits - 1 \in Nat /\ PageBits = (PageBits - 1) + 1 BY BoundAssumption
        <4> QED BY <4>1
      <3>2. p * (m + 1) = p * m + p /\ p * m \in Nat OBVIOUS
      <3> QED BY <3>1, <3>2
    <2>5. p * PageBits \in Nat BY BoundAssumption
    <2>6. p <= i BY <2>1, <2>3, <2>4, <2>5
    <2> QED BY <2>1, <2>2, <2>6
  <1>6. pages \in SUBSET Nat BY <1>5
  <1>7. top \in Nat /\ xib.last <= top /\ \A p \in pages : p <= top
    <2> DEFINE S == pages \cup {xib.last}
               m == MaxIno + xib.last
    <2>1. m \in Nat /\ \A p \in S : p <= m
      <3>1. ASSUME NEW i \in inos PROVE PageOf(i) <= MaxIno
        <4>1. PICK k \in Nat : k = PageOf(i) BY <1>5
        <4>2. k <= i /\ i <= MaxIno /\ i \in Nat BY <4>1, <1>1, <1>5 DEF Ino
        <4> QED BY <4>1, <4>2, BoundAssumption
      <3>2. \A p \in pages : p <= MaxIno /\ p \in Nat BY <3>1, <1>6
      <3> HIDE DEF pages
      <3> QED BY <3>2, <1>2, BoundAssumption
    <2>2. S \in SUBSET Nat /\ S # {} BY <1>2, <1>6
    <2>3. \A p \in S : p \in pages \/ p = xib.last OBVIOUS
    <2> HIDE DEF S, m
    <2>4. Max(S) \in S /\ \A p \in S : p <= Max(S) BY <2>1, <2>2, GreatestNatural
    <2> QED BY <2>2, <2>4 DEF S
  <1>8. l \in Nat /\ l <= top BY <1>2, <1>3, <1>6, <1>7
  <1>9. \A q : bits(q) \in SUBSET Bits BY <1>5
  <1> DEFINE f == [q \in 1 .. top + 1 |-> bits(q - 1)]
  <1>10. \A q \in Nat : q \notin pages => bits(q) = {} OBVIOUS
  <1>11. \A q \in 0 .. top : f[q + 1] = bits(q)
    <2> SUFFICES ASSUME NEW q \in 0 .. top PROVE f[q + 1] = bits(q) OBVIOUS
    <2>1. q + 1 \in 1 .. top + 1 /\ (q + 1) - 1 = q BY <1>7
    <2> QED BY <2>1
  <1>12. f \in Seq(SUBSET Bits) /\ Len(f) = top + 1
    <2>1. \A q \in 1 .. top + 1 : bits(q - 1) \in SUBSET Bits BY <1>9
    <2> HIDE DEF bits, top
    <2>2. f \in [1 .. top + 1 -> SUBSET Bits] BY <2>1
    <2> QED BY <2>2, <1>7
  <1>13. ASSUME NEW i \in inos PROVE BitOf(i) \in bits(PageOf(i)) OBVIOUS
  <1>14. ASSUME NEW i \in Ino, BitOf(i) \in bits(PageOf(i)) PROVE i \in inos
    <2>1. PICK j \in inos : PageOf(j) = PageOf(i) /\ BitOf(j) = BitOf(i) BY <1>14
    <2>2. i \in Nat \ {0} /\ j \in Nat \ {0} BY <1>1 DEF Ino
    <2>3. j = i BY <2>1, <2>2, OtherPlace
    <2> QED BY <2>3
  <1>15. \A i \in inos : PageOf(i) \in pages OBVIOUS
  <1> HIDE DEF bits, top, f, pages
  <1>16. xib' = [file |-> f, buf |-> bits(l), last |-> l, next |-> xib.next] BY <1>3 DEF f
  <1>17. xib'.file = f /\ xib'.buf = bits(l) /\ xib'.last = l BY <1>16
  <1>18. XibOK(xib')
    <2>1. xib' \in XibType BY <1>2, <1>8, <1>9, <1>12, <1>16 DEF XibType
    <2>2. l < Len(f) BY <1>7, <1>8, <1>12
    <2> QED BY <2>1, <2>2, <1>17 DEF XibOK
  <1>19. \A q \in Nat : Page(xib', q) = bits(q)
    <2> SUFFICES ASSUME NEW q \in Nat PROVE Page(xib', q) = bits(q) OBVIOUS
    <2>1. CASE q = l BY <2>1, <1>17 DEF Page
    <2>2. CASE q # l /\ q <= top
      <3>1. q < Len(f) /\ q \in 0 .. top BY <2>2, <1>7, <1>12
      <3> QED BY <3>1, <2>2, <1>11, <1>17 DEF Page
    <2>3. CASE q # l /\ ~(q <= top)
      <3>1. ~(q < Len(f)) BY <2>3, <1>7, <1>12
      <3>2. q \notin pages BY <2>3, <1>7
      <3> QED BY <3>1, <3>2, <2>3, <1>10, <1>17 DEF Page
    <2> QED BY <2>1, <2>2, <2>3
  <1>20. ASSUME NEW i \in Ino PROVE BitIn(xib', i) <=> i \in inos
    <2>1. PageOf(i) \in Nat BY BitPlace DEF Ino
    <2>2. BitIn(xib', i) <=> BitOf(i) \in bits(PageOf(i)) BY <2>1, <1>19 DEF BitIn
    <2> QED BY <2>2, <1>13, <1>14
  <1> QED BY <1>4, <1>18, <1>20

-----------------------------------------------------------------------------
(* What the invariant says of tasks and of lower inodes.                   *)
LEMMA Tasks ==
  ASSUME TypeOK, NEW p \in Procs
  PROVE  /\ proc[p] = Idle \/ proc[p] \in ProcType
         /\ proc[p].pc # "idle" <=> proc[p] \in ProcType
         /\ proc[p].pc # "idle" =>
              /\ proc[p].x \in Low /\ proc[p].b \in Br /\ proc[p].ino \in 0 .. MaxIno
              /\ proc[p].kind \in {"inode", "ino", "new"}
              /\ proc[p].pc \in {"newino", "write", "iget", "set", "reval"}
  <1>1. proc[p] \in ProcType \cup {Idle} BY DEF TypeOK
  <1>2. Idle.pc = "idle" BY DEF Idle
  <1>3. \A r \in ProcType : /\ r.x \in Low /\ r.b \in Br /\ r.ino \in 0 .. MaxIno
                            /\ r.kind \in {"inode", "ino", "new"}
                            /\ r.pc \in {"newino", "write", "iget", "set", "reval"}
    BY DEF ProcType
  <1>4. \A r \in ProcType : r.pc # "idle" BY <1>3
  <1> QED BY <1>1, <1>2, <1>3, <1>4

LEMMA Held ==
  ASSUME NEW x
  PROVE  x \in HeldBy(icache, dying, proc)
           <=> \/ \E i \in Ino : x \in icache[i].at
               \/ \E e \in dying : x \in e.at
               \/ \E p \in Procs : On(p, x)
  <1> DEFINE A == UNION {icache[i].at : i \in Ino}
             B == UNION {e.at : e \in dying}
             C == {proc[p].x : p \in {q \in Procs : proc[q].pc # "idle"}}
  <1>1. x \in A <=> \E i \in Ino : x \in icache[i].at OBVIOUS
  <1>2. x \in B <=> \E e \in dying : x \in e.at OBVIOUS
  <1>3. x \in C <=> \E p \in Procs : On(p, x) BY DEF On
  <1>4. x \in HeldBy(icache, dying, proc) <=> x \in A \/ x \in B \/ x \in C BY DEF HeldBy
  <1> HIDE DEF A, B, C
  <1> QED BY <1>1, <1>2, <1>3, <1>4

(* A free lower inode is in nobody's hands.                                *)
LEMMA FreeAlone ==
  ASSUME TypeOK, LowsOK, NEW x \in Low, low[x] = Free
  PROVE  /\ \A i \in Ino : x \notin icache[i].at
         /\ \A e \in dying : x \notin e.at
         /\ \A p \in Procs : ~On(p, x)
         /\ low[x].hid = {} /\ ~Named(x) /\ ~Open(x) /\ ~Dead(x)
  <1>1. low[x].obj = 0 /\ low[x].hid = {} /\ \A b \in Br : low[x].n[b] = 0 BY DEF Free
  <1>2. x \notin HeldBy(icache, dying, proc) BY <1>1 DEF LowsOK, LowOK
  <1>3. /\ \A i \in Ino : x \notin icache[i].at
        /\ \A e \in dying : x \notin e.at
        /\ \A p \in Procs : ~On(p, x)
    BY <1>2, Held
  <1>4. ~Named(x) /\ ~Reachable(x) BY <1>1 DEF Named, Reachable, Shown
  <1> QED BY <1>1, <1>3, <1>4 DEF Open, Dead

(* With one branch per file system a lower inode has its names in one      *)
(* branch.                                                                 *)
LEMMA OneBranch ==
  ASSUME OwnFs, TypeOK, LowsOK, NEW x \in Low, NEW b \in Br, low[x].n[b] > 0
  PROVE  /\ Fs(b) = x.fs
         /\ \A c \in Br : c # b => low[x].n[c] = 0 /\ c \notin low[x].hid
         /\ Shown(x, b) <=> low[x].hid = {}
         /\ Reachable(x) <=> low[x].hid = {}
  <1>1. Fs(b) = x.fs BY DEF LowsOK, LowOK
  <1>2. \A c \in Br : low[x].n[c] > 0 => c = b BY <1>1 DEF LowsOK, LowOK, OwnFs
  <1>3. low[x].n \in [Br -> 0 .. MaxLinks] /\ low[x].hid \in SUBSET Br BY DEF TypeOK, LowType
  <1>4. \A c \in Br : c \in low[x].hid => c = b BY <1>2 DEF LowsOK, LowOK
  <1>5. \A c \in Br : c # b => low[x].n[c] = 0 BY <1>2, <1>3, BoundAssumption
  <1>6. b \notin low[x].hid <=> low[x].hid = {} BY <1>3, <1>4
  <1> QED BY <1>1, <1>2, <1>4, <1>5, <1>6 DEF Shown, Reachable

LEMMA OpenNamed ==
  ASSUME TypeOK, LowsOK, ProcsOK, NEW x \in Low, Open(x)
  PROVE  Named(x)
  <1>1. ASSUME NEW p \in Procs, On(p, x) PROVE Named(x)
    <2>1. proc[p].b \in Br /\ proc[p].x = x BY <1>1, Tasks DEF On
    <2>2. low[x].n[proc[p].b] > 0 BY <1>1, <2>1 DEF ProcsOK, ProcOK, On
    <2> QED BY <2>1, <2>2 DEF Named
  <1>2. Reachable(x) => Named(x) BY DEF Reachable, Shown, Named
  <1> QED BY <1>1, <1>2 DEF Open

LEMMA NamesCount ==
  ASSUME TypeOK, NEW x \in Low
  PROVE  /\ Names(x) \in Nat /\ (Named(x) => Names(x) > 0)
         /\ \A b \in Br : low[x].n[b] <= Names(x)
  <1> DEFINE S == {t \in Br \X (1 .. MaxLinks) : t[2] <= low[x].n[t[1]]}
  <1>1. low[x].n \in [Br -> 0 .. MaxLinks] BY DEF TypeOK, LowType
  <1>2. IsFiniteSet(Br \X (1 .. MaxLinks))
    <2>1. IsFiniteSet(1 .. MaxLinks) BY FS_Interval, BoundAssumption
    <2> QED BY <2>1, FS_Product, BrAssumption
  <1>3. IsFiniteSet(S) BY <1>2, FS_Subset
  <1>4. Cardinality(S) \in Nat /\ Names(x) = low[x].wh + Cardinality(S)
    BY <1>3, FS_CardinalityType DEF Names
  <1>8. low[x].wh \in Nat BY DEF TypeOK, LowType
  <1>9. Names(x) \in Nat /\ Cardinality(S) <= Names(x)
    <2> HIDE DEF S
    <2> QED BY <1>4, <1>8
  <1>5. S = {} <=> Cardinality(S) = 0 BY <1>3, <1>4, FS_EmptySet
  <1>6. S = {} <=> ~Named(x)
    <2>1. ASSUME NEW b \in Br, low[x].n[b] > 0 PROVE <<b, 1>> \in S
      BY <2>1, <1>1, BoundAssumption
    <2>2. ASSUME NEW t \in S PROVE t[1] \in Br /\ low[x].n[t[1]] > 0
      <3>1. t[1] \in Br /\ t[2] \in 1 .. MaxLinks /\ t[2] <= low[x].n[t[1]] OBVIOUS
      <3>2. low[x].n[t[1]] \in Nat BY <3>1, <1>1, BoundAssumption
      <3> QED BY <3>1, <3>2
    <2> QED BY <2>1, <2>2 DEF Named
  <1>7. ASSUME NEW b \in Br PROVE low[x].n[b] <= Names(x)
    <2> DEFINE m == low[x].n[b]
               T == {<<b, k>> : k \in 1 .. m}
               f == [k \in 1 .. m |-> <<b, k>>]
    <2>1. m \in 0 .. MaxLinks /\ m \in Nat BY <1>1, BoundAssumption
    <2>2. IsFiniteSet(1 .. m) /\ Cardinality(1 .. m) = m
      <3>1. 1 \in Int /\ m \in Int /\ m \in Nat BY <2>1
      <3> HIDE DEF m
      <3>2. IsFiniteSet(1 .. m) /\ Cardinality(1 .. m) = IF 1 > m THEN 0 ELSE m - 1 + 1
        BY <3>1, FS_Interval
      <3> QED BY <3>1, <3>2
    <2>3. T \subseteq S
      <3>1. \A k \in 1 .. m : <<b, k>> \in Br \X (1 .. MaxLinks) /\ k <= m BY <2>1, BoundAssumption
      <3> QED BY <3>1
    <2>4. f \in [1 .. m -> T] /\ \A k, j \in 1 .. m : f[k] = f[j] => k = j
      <3> HIDE DEF m
      <3> QED OBVIOUS
    <2>5. IsFiniteSet(T) /\ Cardinality(T) <= Cardinality(S) BY <2>3, <1>3, FS_Subset
    <2>6. Cardinality(1 .. m) <= Cardinality(T)
      <3> HIDE DEF m, T, f
      <3>1. f \in Injection(1 .. m, T) BY <2>4 DEF Injection, IsInjective
      <3> QED BY <3>1, <2>5, FS_Injection
    <2>7. Cardinality(T) \in Nat BY <2>5, FS_CardinalityType
    <2> HIDE DEF m, T, f, S
    <2>8. m <= Cardinality(S) BY <2>1, <2>2, <2>5, <2>6, <2>7, <1>4
    <2> QED BY <2>1, <2>8, <1>4, <1>9 DEF m
  <1> HIDE DEF S
  <1>10. Named(x) => Names(x) > 0 BY <1>4, <1>5, <1>6, <1>9
  <1> QED BY <1>9, <1>10, <1>7

LEMMA BusyTasks ==
  ASSUME TypeOK, NEW x \in Low, NEW b \in Br
  PROVE  /\ Cardinality(Busy(x, b)) \in Nat
         /\ \A p \in Procs : On(p, x) /\ proc[p].b = b => Cardinality(Busy(x, b)) >= 1
  <1>1. IsFiniteSet(Busy(x, b)) BY ProcsAssumption, FS_Subset DEF Busy
  <1>2. Cardinality(Busy(x, b)) \in Nat BY <1>1, FS_CardinalityType
  <1>3. Busy(x, b) # {} => Cardinality(Busy(x, b)) # 0 BY <1>1, FS_EmptySet
  <1>4. \A p \in Procs : On(p, x) /\ proc[p].b = b => p \in Busy(x, b) BY DEF On, Busy
  <1> QED BY <1>2, <1>3, <1>4

LEMMA Numbers ==
  ASSUME TypeOK, NEW x \in Low
  PROVE  xino[x] \in 0 .. MaxIno /\ 0 \in 0 .. MaxIno /\ (xino[x] # 0 => xino[x] \in Ino)
  <1>1. xino[x] \in 0 .. MaxIno BY DEF TypeOK
  <1>2. 0 \in 0 .. MaxIno BY BoundAssumption
  <1> QED BY <1>1, <1>2 DEF Ino

-----------------------------------------------------------------------------
(* The steps, as the proofs see them.                                      *)

(* A task begins, goes on, ends.                                           *)
Enter(p, x, b, k) ==
  /\ mtx[b] = "free" /\ mtx' = [mtx EXCEPT ![b] = p]
  /\ \E r \in ProcType :
       /\ proc' = [proc EXCEPT ![p] = r]
       /\ r.x = x /\ r.b = b /\ r.kind = k
       /\ \/ r.pc = "newino" /\ xino[x] = 0
          \/ r.pc = "iget" /\ xino[x] # 0 /\ r.ino = xino[x] /\ k # "ino"
GoesOn(p, pc, i) ==
  \E r \in ProcType :
    /\ proc' = [proc EXCEPT ![p] = r]
    /\ r.pc = pc /\ r.x = proc[p].x /\ r.b = proc[p].b /\ r.kind = proc[p].kind /\ r.ino = i
Ends(p) == proc' = [proc EXCEPT ![p] = Idle]

LEMMA LockEffect ==
  ASSUME TypeOK, NEW p, NEW x \in Low, NEW b \in Br, NEW k \in {"inode", "ino", "new"},
         LockAndRead(p, [pc |-> "", x |-> x, b |-> b, kind |-> k, ino |-> 0])
  PROVE  Enter(p, x, b, k) \/ (k = "ino" /\ UNCHANGED <<proc, mtx>>)
  <1> DEFINE r == [pc |-> "", x |-> x, b |-> b, kind |-> k, ino |-> 0]
             new == [r EXCEPT !.pc = "newino"]
             old == [r EXCEPT !.pc = "iget", !.ino = xino[x]]
  <1>1. r.x = x /\ r.b = b /\ r.kind = k OBVIOUS
  <1>2. LockAndRead(p, r) OBVIOUS
  <1>3. xino[x] \in 0 .. MaxIno /\ 0 \in 0 .. MaxIno BY Numbers
  <1>4. new \in ProcType /\ new.x = x /\ new.b = b /\ new.kind = k /\ new.pc = "newino"
    BY <1>3 DEF ProcType
  <1>5. old \in ProcType /\ old.x = x /\ old.b = b /\ old.kind = k /\ old.pc = "iget" /\ old.ino = xino[x]
    <2> DEFINE y == [r EXCEPT !.pc = "iget"]
    <2>1. /\ y \in [pc : {"iget"}, x : {x}, b : {b}, kind : {k}, ino : {0}]
          /\ old = [y EXCEPT !.ino = xino[x]]
      OBVIOUS
    <2> HIDE DEF y, old
    <2>2. old \in [pc : {"iget"}, x : {x}, b : {b}, kind : {k}, ino : {xino[x]}] BY <2>1
    <2> QED BY <2>2, <1>3 DEF ProcType
  <1> HIDE DEF r
  <1>6. mtx[b] = "free" BY <1>1, <1>2 DEF LockAndRead
  <1>7. CASE xino[x] # 0 /\ k = "ino" BY <1>1, <1>2, <1>7 DEF LockAndRead
  <1>8. CASE xino[x] = 0
    <2>1. proc' = [proc EXCEPT ![p] = new] /\ mtx' = [mtx EXCEPT ![b] = p]
      BY <1>1, <1>2, <1>8, Zenon DEF LockAndRead
    <2> HIDE DEF new, old
    <2> QED BY <2>1, <1>4, <1>6, <1>8 DEF Enter
  <1>9. CASE xino[x] # 0 /\ k # "ino"
    <2>1. proc' = [proc EXCEPT ![p] = old] /\ mtx' = [mtx EXCEPT ![b] = p]
      BY <1>1, <1>2, <1>9, Zenon DEF LockAndRead
    <2> HIDE DEF new, old
    <2> QED BY <2>1, <1>5, <1>6, <1>9 DEF Enter
  <1> QED BY <1>7, <1>8, <1>9

LEMMA NewInoEffect ==
  ASSUME TypeOK, NEW p \in Procs, NewIno(p)
  PROVE  LET i == XinoNewIno(xib).ino IN
         /\ proc[p].pc = "newino" /\ proc[p].pc # "idle"
         /\ i \in Ino /\ ~Taken(i) /\ XibOK(xib')
         /\ \A j \in Ino : Taken(j)' <=> Taken(j) \/ j = i
         /\ GoesOn(p, IF proc[p].kind = "ino" THEN "write" ELSE "iget", i)
         /\ UNCHANGED <<low, xino, xigen, icache, dying, mtx, gone, nobj, rare, misplaced>>
  <1> DEFINE r == XinoNewIno(xib)
             pc1 == IF proc[p].kind = "ino" THEN "write" ELSE "iget"
  <1>1. /\ r.ino \in Nat \ {0} /\ ~BitIn(xib, r.ino) /\ XibOK(r.xib)
        /\ \A i \in Nat \ {0} : BitIn(r.xib, i) <=> BitIn(xib, i) \/ i = r.ino
    BY NewNumber DEF TypeOK
  <1>2. /\ proc[p].pc = "newino" /\ r.ino <= MaxIno /\ xib' = r.xib
        /\ proc' = [proc EXCEPT ![p].pc = pc1, ![p].ino = r.ino]
        /\ UNCHANGED <<low, xino, xigen, icache, dying, mtx, gone, nobj, rare, misplaced>>
    BY DEF NewIno, counts
  <1> HIDE DEF r
  <1>3. r.ino \in Ino /\ r.ino \in 0 .. MaxIno BY <1>1, <1>2, BoundAssumption DEF Ino
  <1>4. \A j \in Ino : /\ Taken(j) <=> BitIn(xib, j)
                       /\ Taken(j)' <=> BitIn(xib', j)
                       /\ j \in Nat \ {0}
    BY DEF Taken, BitIn, Ino
  <1>5. proc[p] \in ProcType BY <1>2, Tasks
  <1>6. GoesOn(p, pc1, r.ino)
    <2> DEFINE s == [[proc[p] EXCEPT !.pc = pc1] EXCEPT !.ino = r.ino]
    <2>1. s \in ProcType /\ s.pc = pc1 /\ s.x = proc[p].x /\ s.b = proc[p].b /\ s.kind = proc[p].kind /\ s.ino = r.ino
      BY <1>3, <1>5 DEF ProcType
    <2>2. proc' = [proc EXCEPT ![p] = s]
      BY <1>2
    <2> QED BY <2>1, <2>2 DEF GoesOn
  <1> QED BY <1>1, <1>2, <1>3, <1>4, <1>6 DEF r

LEMMA Inodes ==
  ASSUME TypeOK, NEW i \in Ino
  PROVE  /\ icache[i] \in InodeType /\ i \in Nat \ {0}
         /\ icache[i].at \in SUBSET Low /\ icache[i].nlink \in Nat /\ icache[i].new \in BOOLEAN
         /\ icache[i].users \in SUBSET Procs /\ icache[i].gen \in Nat
         /\ icache[i].at # {} \/ icache[i].new \/ icache[i].users # {} \/ icache[i].nlink # 0 => Hashed(i)
  BY DEF TypeOK, InodeType, Hashed, NoInode, Ino

(* An inode with other users, and one with other links.                    *)
LEMMA OtherUsers ==
  ASSUME NEW e \in InodeType, NEW u \in SUBSET Procs
  PROVE  LET f == [e EXCEPT !.users = u] IN
         f \in InodeType /\ f.at = e.at /\ f.nlink = e.nlink /\ f.gen = e.gen /\ f.new = e.new /\ f.users = u
  BY DEF InodeType
LEMMA OtherLinks ==
  ASSUME NEW e \in InodeType, NEW n \in Nat
  PROVE  LET f == [e EXCEPT !.nlink = n] IN
         f \in InodeType /\ f.at = e.at /\ f.nlink = n /\ f.gen = e.gen /\ f.new = e.new /\ f.users = e.users
  BY DEF InodeType
LEMMA OtherLows ==
  ASSUME NEW e \in InodeType, NEW a \in SUBSET Low
  PROVE  LET f == [e EXCEPT !.at = a] IN
         f \in InodeType /\ f.at = a /\ f.nlink = e.nlink /\ f.gen = e.gen /\ f.new = e.new /\ f.users = e.users
  BY DEF InodeType

LEMMA MovesOn ==
  ASSUME TypeOK, NEW p \in Procs, proc[p].pc # "idle", NEW pc1 \in {"set", "reval"}, Goto(p, pc1)
  PROVE  GoesOn(p, pc1, proc[p].ino)
  <1> DEFINE s == [proc[p] EXCEPT !.pc = pc1]
  <1>1. proc[p] \in ProcType BY Tasks
  <1>2. s \in ProcType /\ s.pc = pc1 /\ s.x = proc[p].x /\ s.b = proc[p].b /\ s.kind = proc[p].kind /\ s.ino = proc[p].ino
    BY <1>1 DEF ProcType
  <1>3. proc' = [proc EXCEPT ![p] = s] BY DEF Goto
  <1> QED BY <1>2, <1>3 DEF GoesOn

LEMMA IgetNewEffect ==
  ASSUME TypeOK, ProcsOK, NEW p \in Procs, Iget(p), ~Hashed(proc[p].ino)
  PROVE  LET i == proc[p].ino IN
         /\ proc[p].pc = "iget" /\ i \in Ino
         /\ icache' \in [Ino -> InodeType] /\ \A j \in Ino : j # i => icache'[j] = icache[j]
         /\ icache'[i].at = {} /\ icache'[i].nlink = 0 /\ icache'[i].gen = xigen[i]
         /\ icache'[i].new /\ icache'[i].users = {p}
         /\ GoesOn(p, "set", i)
         /\ UNCHANGED <<low, xino, xib, xigen, dying, mtx, gone, nobj, rare, misplaced>>
  <1> DEFINE i == proc[p].ino
             e == [NoInode EXCEPT !.new = TRUE, !.users = {p}, !.gen = xigen[i]]
  <1>1. /\ proc[p].pc = "iget" /\ icache' = [icache EXCEPT ![i] = e] /\ Goto(p, "set")
        /\ UNCHANGED <<low, xino, xib, xigen, dying, mtx, gone, nobj, rare, misplaced>>
    BY DEF Iget, counts, XigenNew
  <1>2. i \in Ino BY <1>1 DEF ProcsOK, ProcOK
  <1>3. xigen[i] \in Nat BY <1>2 DEF TypeOK
  <1>4. e \in [at : {{}}, nlink : {0}, gen : {xigen[i]}, new : {TRUE}, users : {{p}}, obj : {0}]
    <2> DEFINE e1 == [NoInode EXCEPT !.new = TRUE]
               e2 == [e1 EXCEPT !.users = {p}]
    <2>1. e1 \in [at : {{}}, nlink : {0}, gen : {0}, new : {TRUE}, users : {{}}, obj : {0}] BY DEF NoInode
    <2>2. e2 = [e1 EXCEPT !.users = {p}] /\ e = [e2 EXCEPT !.gen = xigen[i]] OBVIOUS
    <2> HIDE DEF e1, e2, e
    <2>3. e2 \in [at : {{}}, nlink : {0}, gen : {0}, new : {TRUE}, users : {{p}}, obj : {0}] BY <2>1, <2>2
    <2> QED BY <2>2, <2>3
  <1> HIDE DEF e
  <1>5. e \in InodeType
    <2>1. e = [at |-> {}, nlink |-> 0, gen |-> xigen[i], new |-> TRUE, users |-> {p}, obj |-> 0] BY <1>4
    <2> QED BY <2>1, <1>3 DEF InodeType
  <1>6. GoesOn(p, "set", i) BY <1>1, MovesOn
  <1>7. icache \in [Ino -> InodeType] BY DEF TypeOK
  <1>8. icache'[i] = e /\ \A j \in Ino : j # i => icache'[j] = icache[j] BY <1>1, <1>2, <1>7
  <1>9. icache' \in [Ino -> InodeType] BY <1>1, <1>5, <1>7
  <1>10. icache'[i].at = {} /\ icache'[i].nlink = 0 /\ icache'[i].gen = xigen[i]
         /\ icache'[i].new /\ icache'[i].users = {p}
    BY <1>4, <1>8
  <1> QED BY <1>1, <1>2, <1>6, <1>8, <1>9, <1>10

(* An inode that is found is the one of the lower inode.                   *)
LEMMA IgetOldEffect ==
  ASSUME OwnFs, IInv, NEW p \in Procs, Iget(p), Hashed(proc[p].ino)
  PROVE  LET i == proc[p].ino IN
         /\ proc[p].pc = "iget" /\ i \in Ino /\ Plain(i) /\ proc[p].x \in icache[i].at /\ proc[p].kind # "new"
         /\ icache' = [icache EXCEPT ![i].users = @ \cup {p}]
         /\ mtx' = [mtx EXCEPT ![proc[p].b] = "free"]
         /\ GoesOn(p, "reval", i)
         /\ UNCHANGED <<low, xino, xib, xigen, dying, gone, nobj, rare, misplaced>>
  <1> DEFINE i == proc[p].ino
             x == proc[p].x
  <1>0. TypeOK /\ ProcsOK /\ LowsOK BY DEF IInv
  <1>1. /\ proc[p].pc = "iget" /\ ~icache[i].new
        /\ icache' = [icache EXCEPT ![i].users = @ \cup {p}]
        /\ UNCHANGED <<low, xino, xib, xigen, dying, gone, nobj, rare, misplaced>>
        /\ IF proc[p].kind # "new" /\ icache[i].nlink > 0
             THEN Goto(p, "reval") /\ Release(p)
             ELSE Goto(p, "unmatched") /\ UNCHANGED mtx
    BY DEF Iget, counts
  <1>2. /\ i \in Ino /\ x \in Low /\ xino[x] \in {0, i}
        /\ proc[p].kind = "new" => \A j \in Ino : x \notin icache[j].at
    BY <1>0, <1>1, Tasks DEF ProcsOK, ProcOK
  <1>3. On(p, x) /\ Open(x) BY <1>1 DEF On, Open
  <1>4. ~Fresh(p, i) BY <1>2 DEF IInv, FreshAlone
  <1>5. xino[x] = i BY <1>1, <1>2, <1>4 DEF Fresh
  <1>6. ~Dead(x) BY <1>3 DEF Dead, IInv, RemovedOut, OutOK
  <1>7. Plain(i) /\ Entry(x, i) BY <1>1, <1>5, <1>6 DEF Plain, Entry
  <1>8. x \in icache[i].at BY <1>2, <1>7 DEF IInv, EntriesAt
  <1>9. proc[p].kind # "new" /\ icache[i].nlink > 0
    <2>1. AtOK(i, x) BY <1>2, <1>8 DEF IInv, AtsOK
    <2> QED BY <2>1, <1>2, <1>3, <1>8 DEF AtOK
  <1>10. GoesOn(p, "reval", i) BY <1>0, <1>1, <1>9, MovesOn
  <1> QED BY <1>1, <1>2, <1>7, <1>8, <1>9, <1>10 DEF Release

LEMMA SetInodeEffect ==
  ASSUME TypeOK, ProcsOK, NEW p \in Procs, SetInode(p)
  PROVE  LET i == proc[p].ino  x == proc[p].x IN
         /\ proc[p].pc = "set" /\ i \in Ino /\ x \in Low /\ icache[i].new /\ Hashed(i)
         /\ icache' \in [Ino -> InodeType] /\ \A j \in Ino : j # i => icache'[j] = icache[j]
         /\ icache'[i].at = {x} /\ icache'[i].nlink = Names(x) /\ icache'[i].gen = icache[i].gen
         /\ ~icache'[i].new /\ icache'[i].users = {}
         /\ xino' = [xino EXCEPT ![x] = i]
         /\ Ends(p) /\ mtx' = [mtx EXCEPT ![proc[p].b] = "free"]
         /\ UNCHANGED <<low, xib, xigen, dying, gone, nobj, rare, misplaced>>
  <1> DEFINE i == proc[p].ino
             x == proc[p].x
             c == icache[i]
             n == Names(x)
             o == low[x].obj
             e == [c EXCEPT !.new = FALSE, !.users = {}, !.at = {x}, !.nlink = n, !.obj = o]
  <1>1. /\ proc[p].pc = "set" /\ icache' = [icache EXCEPT ![i] = e]
        /\ xino' = [xino EXCEPT ![x] = i]
        /\ Ends(p) /\ mtx' = [mtx EXCEPT ![proc[p].b] = "free"]
        /\ UNCHANGED <<low, xib, xigen, dying, gone, nobj, rare, misplaced>>
    BY DEF SetInode, Ends, Done, Release, counts
  <1>2. i \in Ino /\ icache[i].new BY <1>1 DEF ProcsOK, ProcOK
  <1>3. x \in Low BY <1>1, Tasks
  <1>4. n \in Nat BY <1>3, NamesCount
  <1>5. o \in Nat BY <1>3 DEF TypeOK, LowType
  <1>6. c \in InodeType BY <1>2, Inodes
  <1>7. Hashed(i) BY <1>2, Inodes
  <1>8. icache \in [Ino -> InodeType] BY DEF TypeOK
  <1>9. /\ e \in InodeType /\ e.at = {x} /\ e.nlink = n /\ e.gen = c.gen /\ ~e.new /\ e.users = {}
    <2> DEFINE e1 == [c EXCEPT !.new = FALSE]
               e2 == [e1 EXCEPT !.users = {}]
               e3 == [e2 EXCEPT !.at = {x}]
               e4 == [e3 EXCEPT !.nlink = n]
               e5 == [e4 EXCEPT !.obj = o]
    <2>0. e = e5 OBVIOUS
    <2> HIDE DEF c, i, x, n, o, e
    <2>1. e1 \in InodeType /\ e1.gen = c.gen /\ e1.new = FALSE BY <1>6 DEF InodeType
    <2> HIDE DEF e1
    <2>2. e2 \in InodeType /\ e2.gen = c.gen /\ e2.new = FALSE /\ e2.users = {} BY <2>1 DEF InodeType
    <2> HIDE DEF e2
    <2>3. e3 \in InodeType /\ e3.gen = c.gen /\ e3.new = FALSE /\ e3.users = {} /\ e3.at = {x}
      BY <2>2, <1>3 DEF InodeType
    <2> HIDE DEF e3
    <2>4. /\ e4 \in InodeType /\ e4.gen = c.gen /\ e4.new = FALSE /\ e4.users = {} /\ e4.at = {x}
          /\ e4.nlink = n
      BY <2>3, <1>4 DEF InodeType
    <2> HIDE DEF e4
    <2>5. /\ e5 \in InodeType /\ e5.gen = c.gen /\ e5.new = FALSE /\ e5.users = {} /\ e5.at = {x}
          /\ e5.nlink = n
      BY <2>4, <1>5 DEF InodeType
    <2> QED BY <2>0, <2>5
  <1> HIDE DEF e
  <1>10. icache'[i] = e /\ icache' \in [Ino -> InodeType] /\ \A j \in Ino : j # i => icache'[j] = icache[j]
    BY <1>1, <1>2, <1>8, <1>9
  <1> QED BY <1>1, <1>2, <1>3, <1>7, <1>9, <1>10

LEMMA UsersEffect ==
  ASSUME TypeOK, NEW i \in Ino, NEW u \in SUBSET Procs, icache' = [icache EXCEPT ![i].users = u]
  PROVE  /\ icache' \in [Ino -> InodeType] /\ \A j \in Ino : j # i => icache'[j] = icache[j]
         /\ icache'[i].at = icache[i].at /\ icache'[i].nlink = icache[i].nlink
         /\ icache'[i].gen = icache[i].gen /\ icache'[i].new = icache[i].new /\ icache'[i].users = u
  <1> DEFINE e == [icache[i] EXCEPT !.users = u]
  <1>1. icache \in [Ino -> InodeType] /\ icache[i] \in InodeType BY DEF TypeOK
  <1>2. /\ e \in InodeType /\ e.at = icache[i].at /\ e.nlink = icache[i].nlink /\ e.gen = icache[i].gen
        /\ e.new = icache[i].new /\ e.users = u
    BY <1>1, OtherUsers
  <1>3. icache' = [icache EXCEPT ![i] = e] OBVIOUS
  <1> HIDE DEF e
  <1> QED BY <1>1, <1>2, <1>3

LEMMA LinksEffect ==
  ASSUME TypeOK, NEW i \in Ino, NEW n \in Nat, icache' = [icache EXCEPT ![i].nlink = n]
  PROVE  /\ icache' \in [Ino -> InodeType] /\ \A j \in Ino : j # i => icache'[j] = icache[j]
         /\ icache'[i].at = icache[i].at /\ icache'[i].nlink = n
         /\ icache'[i].gen = icache[i].gen /\ icache'[i].new = icache[i].new
         /\ icache'[i].users = icache[i].users
  <1> DEFINE e == [icache[i] EXCEPT !.nlink = n]
  <1>1. icache \in [Ino -> InodeType] /\ icache[i] \in InodeType BY DEF TypeOK
  <1>2. /\ e \in InodeType /\ e.at = icache[i].at /\ e.nlink = n /\ e.gen = icache[i].gen
        /\ e.new = icache[i].new /\ e.users = icache[i].users
    BY <1>1, OtherLinks
  <1>3. icache' = [icache EXCEPT ![i] = e] OBVIOUS
  <1> HIDE DEF e
  <1> QED BY <1>1, <1>2, <1>3

LEMMA LowsEffect ==
  ASSUME TypeOK, NEW i \in Ino, NEW a \in SUBSET Low, icache' = [icache EXCEPT ![i].at = a]
  PROVE  /\ icache' \in [Ino -> InodeType] /\ \A j \in Ino : j # i => icache'[j] = icache[j]
         /\ icache'[i].at = a /\ icache'[i].nlink = icache[i].nlink
         /\ icache'[i].gen = icache[i].gen /\ icache'[i].new = icache[i].new
         /\ icache'[i].users = icache[i].users
  <1> DEFINE e == [icache[i] EXCEPT !.at = a]
  <1>1. icache \in [Ino -> InodeType] /\ icache[i] \in InodeType BY DEF TypeOK
  <1>2. /\ e \in InodeType /\ e.at = a /\ e.nlink = icache[i].nlink /\ e.gen = icache[i].gen
        /\ e.new = icache[i].new /\ e.users = icache[i].users
    BY <1>1, OtherLows
  <1>3. icache' = [icache EXCEPT ![i] = e] OBVIOUS
  <1> HIDE DEF e
  <1> QED BY <1>1, <1>2, <1>3

LEMMA EndsEffect ==
  ASSUME TypeOK, NEW p \in Procs, Ends(p)
  PROVE  /\ proc' \in [Procs -> ProcType \cup {Idle}] /\ proc'[p] = Idle /\ proc'[p].pc = "idle"
         /\ \A q \in Procs : q # p => proc'[q] = proc[q]
         /\ \A q \in Procs : \A x : On(q, x)' <=> On(q, x) /\ q # p
  <1>1. proc \in [Procs -> ProcType \cup {Idle}] BY DEF TypeOK
  <1>2. Idle.pc = "idle" BY DEF Idle
  <1> QED BY <1>1, <1>2 DEF Ends, On

LEMMA GoesOnEffect ==
  ASSUME TypeOK, NEW p \in Procs, proc[p].pc # "idle", NEW pc1, NEW i, GoesOn(p, pc1, i)
  PROVE  /\ proc' \in [Procs -> ProcType \cup {Idle}]
         /\ proc'[p] \in ProcType /\ proc'[p].pc = pc1 /\ proc'[p].pc # "idle"
         /\ proc'[p].x = proc[p].x /\ proc'[p].b = proc[p].b /\ proc'[p].kind = proc[p].kind /\ proc'[p].ino = i
         /\ \A q \in Procs : q # p => proc'[q] = proc[q]
         /\ \A q \in Procs : \A x : On(q, x)' <=> On(q, x)
  <1>1. proc \in [Procs -> ProcType \cup {Idle}] BY DEF TypeOK
  <1>2. PICK r \in ProcType :
          /\ proc' = [proc EXCEPT ![p] = r]
          /\ r.pc = pc1 /\ r.x = proc[p].x /\ r.b = proc[p].b /\ r.kind = proc[p].kind /\ r.ino = i
    BY DEF GoesOn
  <1>3. r.pc # "idle" BY DEF ProcType
  <1>4. proc'[p] = r BY <1>1, <1>2
  <1> QED BY <1>1, <1>2, <1>3, <1>4 DEF On

LEMMA EnterEffect ==
  ASSUME TypeOK, NEW p \in Procs, proc[p] = Idle, NEW x, NEW b, NEW k, Enter(p, x, b, k)
  PROVE  /\ mtx[b] = "free" /\ mtx' = [mtx EXCEPT ![b] = p]
         /\ proc' \in [Procs -> ProcType \cup {Idle}]
         /\ proc'[p] \in ProcType /\ proc'[p].pc # "idle"
         /\ proc'[p].x = x /\ proc'[p].b = b /\ proc'[p].kind = k
         /\ \/ proc'[p].pc = "newino" /\ xino[x] = 0
            \/ proc'[p].pc = "iget" /\ xino[x] # 0 /\ proc'[p].ino = xino[x] /\ k # "ino"
         /\ \A q \in Procs : q # p => proc'[q] = proc[q]
         /\ \A q \in Procs : \A y : On(q, y)' <=> On(q, y) \/ (q = p /\ y = x)
  <1>1. proc \in [Procs -> ProcType \cup {Idle}] BY DEF TypeOK
  <1>2. PICK r \in ProcType :
          /\ proc' = [proc EXCEPT ![p] = r]
          /\ r.x = x /\ r.b = b /\ r.kind = k
          /\ \/ r.pc = "newino" /\ xino[x] = 0
             \/ r.pc = "iget" /\ xino[x] # 0 /\ r.ino = xino[x] /\ k # "ino"
    BY DEF Enter
  <1>3. r.pc # "idle" BY DEF ProcType
  <1>4. proc'[p] = r BY <1>1, <1>2
  <1>5. ~(\E y : On(p, y)) BY DEF On, Idle
  <1> QED BY <1>1, <1>2, <1>3, <1>4, <1>5 DEF On, Enter

(* The names of the lower inodes.                                          *)
LEMMA LowTypes ==
  ASSUME TypeOK, NEW x \in Low
  PROVE  /\ low[x] \in LowType /\ low[x].obj \in Nat /\ low[x].hid \in SUBSET Br
         /\ low[x].n \in [Br -> 0 .. MaxLinks] /\ \A b \in Br : low[x].n[b] \in Nat
         /\ low \in [Low -> LowType]
  <1>1. low \in [Low -> LowType] BY DEF TypeOK
  <1>2. low[x].n \in [Br -> 0 .. MaxLinks] BY <1>1 DEF LowType
  <1>3. low[x].obj \in Nat /\ low[x].hid \in SUBSET Br BY <1>1 DEF LowType
  <1> QED BY <1>1, <1>2, <1>3, BoundAssumption

(* The one lower inode x gets obj, names n and whiteouts hid.              *)
Becomes(x, o, n, hid) ==
  /\ low' \in [Low -> LowType] /\ \A y \in Low : y # x => low'[y] = low[y]
  /\ low'[x].obj = o /\ low'[x].n = n /\ low'[x].hid = hid

FreeNames == [b \in Br |-> 0]
FirstName == [FreeNames EXCEPT ![0] = 1]
LEMMA FreeFields == Free.obj = 0 /\ Free.n = FreeNames /\ Free.hid = {} /\ Free \in LowType
  <1>1. Free = [obj |-> 0, n |-> FreeNames, wh |-> 0, hid |-> {}] BY DEF Free, FreeNames
  <1>2. FreeNames \in [Br -> 0 .. MaxLinks] BY BoundAssumption DEF FreeNames
  <1> HIDE DEF FreeNames
  <1> QED BY <1>1, <1>2 DEF LowType

LEMMA OneName == FirstName \in [Br -> 0 .. MaxLinks]
  BY BoundAssumption, BrAssumption DEF FreeNames, FirstName

LEMMA CreateEffect ==
  ASSUME TypeOK, NEW p \in Procs, NEW x \in Low, Create(p, x)
  PROVE  /\ proc[p] = Idle /\ x.fs = Fs(0) /\ low[x] = Free
         /\ Becomes(x, nobj + 1, FirstName, {}) /\ nobj' = nobj + 1
         /\ LockAndRead(p, [pc |-> "", x |-> x, b |-> 0, kind |-> "new", ino |-> 0])
         /\ UNCHANGED <<xino, xib, xigen, icache, dying, gone, rare, misplaced>>
  <1>1. /\ proc[p] = Idle /\ x.fs = Fs(0) /\ low[x] = Free /\ nobj' = nobj + 1
        /\ low' = [low EXCEPT ![x].obj = nobj', ![x].n[0] = 1]
        /\ LockAndRead(p, [pc |-> "", x |-> x, b |-> 0, kind |-> "new", ino |-> 0])
        /\ UNCHANGED <<xino, xib, xigen, icache, dying, gone, rare, misplaced>>
    BY DEF Create
  <1> DEFINE e1 == [Free EXCEPT !.obj = nobj + 1]
             e2 == [e1 EXCEPT !.n = FirstName]
  <1>2. nobj + 1 \in Nat /\ low \in [Low -> LowType] BY DEF TypeOK
  <1>3. low' = [low EXCEPT ![x] = [[low[x] EXCEPT !.obj = nobj + 1] EXCEPT !.n[0] = 1]]
    BY <1>1, Zenon
  <1>4. low' = [low EXCEPT ![x] = e2]
    <2>1. e1.n = FreeNames BY FreeFields DEF LowType
    <2>2. [low[x] EXCEPT !.obj = nobj + 1] = e1 BY <1>1
    <2> HIDE DEF e1
    <2>3. low' = [low EXCEPT ![x] = [e1 EXCEPT !.n[0] = 1]] BY <1>3, <2>2, Zenon
    <2>4. low' = [low EXCEPT ![x] = [e1 EXCEPT !.n = [e1.n EXCEPT ![0] = 1]]] BY <2>3, Zenon
    <2> QED BY <2>1, <2>4, Zenon DEF FirstName
  <1>5. e2 \in LowType /\ e2.obj = nobj + 1 /\ e2.n = FirstName /\ e2.hid = {}
    <2> DEFINE m == FirstName
    <2>1. m \in [Br -> 0 .. MaxLinks] BY OneName
    <2> HIDE DEF m
    <2>2. e1 \in LowType /\ e1.obj = nobj + 1 /\ e1.hid = {} BY <1>2, FreeFields DEF LowType
    <2> HIDE DEF e1
    <2>3. [e1 EXCEPT !.n = m] \in LowType /\ [e1 EXCEPT !.n = m].obj = nobj + 1
          /\ [e1 EXCEPT !.n = m].n = m /\ [e1 EXCEPT !.n = m].hid = {}
      BY <2>1, <2>2 DEF LowType
    <2> QED BY <2>3 DEF m
  <1> HIDE DEF e2, e1
  <1>6. Becomes(x, nobj + 1, FirstName, {}) BY <1>2, <1>4, <1>5 DEF Becomes
  <1> QED BY <1>1, <1>6

(* One name more or less, and other whiteouts.                             *)
LEMMA NameEffect ==
  ASSUME TypeOK, NEW x \in Low, NEW b \in Br, NEW k \in 0 .. MaxLinks,
         low' = [low EXCEPT ![x].n[b] = k]
  PROVE  Becomes(x, low[x].obj, [low[x].n EXCEPT ![b] = k], low[x].hid)
  <1> DEFINE m == [low[x].n EXCEPT ![b] = k]
             e == [low[x] EXCEPT !.n = m]
  <1>1. m \in [Br -> 0 .. MaxLinks] BY LowTypes
  <1>2. low' = [low EXCEPT ![x] = e] BY Zenon
  <1> HIDE DEF m
  <1>3. e \in LowType /\ e.obj = low[x].obj /\ e.n = m /\ e.hid = low[x].hid
    BY <1>1, LowTypes DEF LowType
  <1> HIDE DEF e
  <1>4. low \in [Low -> LowType] BY DEF TypeOK
  <1> QED BY <1>2, <1>3, <1>4 DEF Becomes, m

LEMMA HideEffect ==
  ASSUME TypeOK, NEW x \in Low, NEW h \in SUBSET Br, low' = [low EXCEPT ![x].hid = h]
  PROVE  Becomes(x, low[x].obj, low[x].n, h)
  <1> DEFINE e == [low[x] EXCEPT !.hid = h]
  <1>1. low' = [low EXCEPT ![x] = e] OBVIOUS
  <1>2. e \in LowType /\ e.obj = low[x].obj /\ e.n = low[x].n /\ e.hid = h
    BY LowTypes DEF LowType
  <1> HIDE DEF e
  <1>3. low \in [Low -> LowType] BY DEF TypeOK
  <1> QED BY <1>1, <1>2, <1>3 DEF Becomes

LEMMA WhiteoutEffect ==
  ASSUME TypeOK, NEW x \in Low, NEW b \in Br, NEW k \in 0 .. MaxLinks,
         low' = [low EXCEPT ![x].n[b] = k, ![x].wh = low[x].wh + 1]
  PROVE  Becomes(x, low[x].obj, [low[x].n EXCEPT ![b] = k], low[x].hid)
  <1> DEFINE m == [low[x].n EXCEPT ![b] = k]
             w == low[x].wh + 1
             e1 == [low[x] EXCEPT !.n = m]
             e == [e1 EXCEPT !.wh = w]
  <1>1. m \in [Br -> 0 .. MaxLinks] /\ w \in Nat BY LowTypes DEF LowType
  <1>2. low' = [low EXCEPT ![x] = e]
    <2>1. [low EXCEPT ![x].n[b] = k] = [low EXCEPT ![x] = e1] BY Zenon
    <2>2. low \in [Low -> LowType] BY DEF TypeOK
    <2>3. low' = [[low EXCEPT ![x] = e1] EXCEPT ![x].wh = w] BY <2>1, Zenon
    <2> HIDE DEF e1, w
    <2> QED BY <2>2, <2>3
  <1> HIDE DEF m, w
  <1>3. e1 \in LowType /\ e1.obj = low[x].obj /\ e1.n = m /\ e1.hid = low[x].hid
    BY <1>1, LowTypes DEF LowType
  <1> HIDE DEF e1
  <1>4. e \in LowType /\ e.obj = low[x].obj /\ e.n = m /\ e.hid = low[x].hid
    BY <1>1, <1>3 DEF LowType
  <1> HIDE DEF e
  <1>5. low \in [Low -> LowType] BY DEF TypeOK
  <1> QED BY <1>2, <1>4, <1>5 DEF Becomes, m

LEMMA UnlinkEffect ==
  ASSUME TypeOK, NEW i \in Ino, NEW x \in Low, NEW b \in Br, Unlink(i, x, b)
  PROVE  /\ Plain(i) /\ x \in icache[i].at /\ Shown(x, b) /\ Cardinality(Busy(x, b)) < low[x].n[b]
         /\ icache[i].nlink > 0 /\ icache[i].nlink - 1 \in Nat
         /\ icache' = [icache EXCEPT ![i].nlink = icache[i].nlink - 1]
         /\ \/ /\ b = 0 \/ low[x].n[b] > 1
               /\ Becomes(x, low[x].obj, [low[x].n EXCEPT ![b] = low[x].n[b] - 1], low[x].hid)
            \/ /\ b # 0 /\ low[x].n[b] = 1
               /\ Becomes(x, low[x].obj, low[x].n, low[x].hid \cup {b})
         /\ UNCHANGED <<xino, xib, xigen, dying, proc, mtx, gone, nobj, rare, misplaced>>
  <1>1. /\ Plain(i) /\ x \in icache[i].at /\ Shown(x, b) /\ Cardinality(Busy(x, b)) < low[x].n[b]
        /\ icache[i].nlink > 0
        /\ icache' = [icache EXCEPT ![i].nlink = icache[i].nlink - 1]
        /\ low' = IF b = 0 THEN [low EXCEPT ![x].n[b] = low[x].n[b] - 1]
                  ELSE IF low[x].n[b] > 1
                  THEN [low EXCEPT ![x].n[b] = low[x].n[b] - 1, ![x].wh = low[x].wh + 1]
                  ELSE [low EXCEPT ![x].hid = low[x].hid \cup {b}]
        /\ UNCHANGED <<xino, xib, xigen, dying, proc, mtx, gone, nobj, rare, misplaced>>
    BY DEF Unlink, Known, Plain, counts
  <1>2. icache[i].nlink - 1 \in Nat BY <1>1, Inodes
  <1>3. low[x].n[b] \in 1 .. MaxLinks BY <1>1, LowTypes DEF Shown
  <1>4. low[x].n[b] - 1 \in 0 .. MaxLinks BY <1>3, BoundAssumption
  <1>5. CASE b = 0
    <2>1. low' = [low EXCEPT ![x].n[b] = low[x].n[b] - 1] BY <1>1, <1>5
    <2>2. Becomes(x, low[x].obj, [low[x].n EXCEPT ![b] = low[x].n[b] - 1], low[x].hid)
      BY <2>1, <1>4, NameEffect
    <2> QED BY <1>1, <1>2, <1>5, <2>2
  <1>6. CASE b # 0 /\ low[x].n[b] > 1
    <2>1. low' = [low EXCEPT ![x].n[b] = low[x].n[b] - 1, ![x].wh = low[x].wh + 1]
      BY <1>1, <1>6
    <2>2. Becomes(x, low[x].obj, [low[x].n EXCEPT ![b] = low[x].n[b] - 1], low[x].hid)
      BY <2>1, <1>4, WhiteoutEffect
    <2> QED BY <1>1, <1>2, <1>6, <2>2
  <1>7. CASE b # 0 /\ ~(low[x].n[b] > 1)
    <2>1. low[x].hid \cup {b} \in SUBSET Br BY LowTypes
    <2>2. low' = [low EXCEPT ![x].hid = low[x].hid \cup {b}] BY <1>1, <1>7
    <2>3. Becomes(x, low[x].obj, low[x].n, low[x].hid \cup {b}) BY <2>1, <2>2, HideEffect
    <2>4. low[x].n[b] = 1 BY <1>3, <1>7, BoundAssumption
    <2> QED BY <1>1, <1>2, <1>7, <2>3, <2>4
  <1> QED BY <1>5, <1>6, <1>7

LEMMA LinkEffect ==
  ASSUME TypeOK, NEW i \in Ino, NEW x \in Low, Link(i, x)
  PROVE  /\ Plain(i) /\ x \in icache[i].at /\ Shown(x, 0)
         /\ icache[i].nlink > 0 /\ icache[i].nlink + 1 \in Nat
         /\ icache' = [icache EXCEPT ![i].nlink = icache[i].nlink + 1]
         /\ Becomes(x, low[x].obj, [low[x].n EXCEPT ![0] = low[x].n[0] + 1], low[x].hid)
         /\ UNCHANGED <<xino, xib, xigen, dying, proc, mtx, gone, nobj, rare, misplaced>>
  <1>1. /\ Plain(i) /\ x \in icache[i].at /\ Shown(x, 0) /\ icache[i].nlink > 0 /\ low[x].n[0] < MaxLinks
        /\ icache' = [icache EXCEPT ![i].nlink = icache[i].nlink + 1]
        /\ low' = [low EXCEPT ![x].n[0] = low[x].n[0] + 1]
        /\ UNCHANGED <<xino, xib, xigen, dying, proc, mtx, gone, nobj, rare, misplaced>>
    BY BoundAssumption DEF Link, Known, Plain, counts
  <1>2. icache[i].nlink + 1 \in Nat BY Inodes
  <1>3. low[x].n[0] + 1 \in 0 .. MaxLinks BY <1>1, LowTypes, BrAssumption, BoundAssumption
  <1>4. Becomes(x, low[x].obj, [low[x].n EXCEPT ![0] = low[x].n[0] + 1], low[x].hid)
    BY <1>1, <1>3, BrAssumption, NameEffect
  <1> QED BY <1>1, <1>2, <1>4

LEMMA DirectCreateEffect ==
  ASSUME TypeOK, NEW x \in Low, NEW b \in Br, DirectCreate(x, b)
  PROVE  /\ low[x] = Free /\ nobj' = nobj + 1
         /\ \E m \in [Br -> 0 .. MaxLinks] :
              /\ Becomes(x, nobj + 1, m, {}) /\ \A c \in Br : m[c] > 0 => Fs(c) = x.fs
         /\ UNCHANGED <<xino, xib, xigen, icache, dying, proc, mtx, gone, rare, misplaced>>
  <1> DEFINE m(n) == [c \in Br |-> IF Fs(c) = x.fs THEN (IF c = b THEN n ELSE n - 1) ELSE 0]
             e(n) == [[Free EXCEPT !.obj = nobj + 1] EXCEPT !.n = m(n)]
  <1>1. /\ low[x] = Free /\ nobj' = nobj + 1
        /\ UNCHANGED <<xino, xib, xigen, icache, dying, proc, mtx, gone, rare, misplaced>>
    BY DEF DirectCreate
  <1>2. PICK n \in 1 .. MaxLinks : low' = [low EXCEPT ![x] = e(n)]
    BY <1>1 DEF DirectCreate
  <1>3. m(n) \in [Br -> 0 .. MaxLinks] /\ \A c \in Br : m(n)[c] > 0 => Fs(c) = x.fs
    BY BoundAssumption
  <1> DEFINE f == m(n)
             g == e(n)
             h == [Free EXCEPT !.obj = nobj + 1]
  <1>4. g = [h EXCEPT !.n = f] OBVIOUS
  <1>5. low' = [low EXCEPT ![x] = g] BY <1>2
  <1>6. f \in [Br -> 0 .. MaxLinks] /\ \A c \in Br : f[c] > 0 => Fs(c) = x.fs BY <1>3
  <1>7. nobj + 1 \in Nat /\ low \in [Low -> LowType] BY DEF TypeOK
  <1> HIDE DEF m, e, f, g
  <1>8. h \in LowType /\ h.obj = nobj + 1 /\ h.hid = {} BY <1>7, FreeFields DEF LowType
  <1> HIDE DEF h
  <1>9. g \in LowType /\ g.obj = nobj + 1 /\ g.n = f /\ g.hid = {} BY <1>4, <1>6, <1>8 DEF LowType
  <1>10. Becomes(x, nobj + 1, f, {}) BY <1>5, <1>7, <1>9 DEF Becomes
  <1> QED BY <1>1, <1>6, <1>10

LEMMA UnhideEffect ==
  ASSUME TypeOK, LowsOK, NEW x \in Low, Unhide(x), ~misplaced'
  PROVE  /\ Becomes(x, low[x].obj, low[x].n, {}) /\ xino[x] = 0 /\ Named(x)
         /\ UNCHANGED <<xino, xib, xigen, icache, dying, proc, mtx, gone, nobj>>
  <1>1. /\ low[x].hid # {} /\ low' = [low EXCEPT ![x].hid = {}] /\ misplaced' = (misplaced \/ xino[x] # 0)
        /\ UNCHANGED <<xino, xib, xigen, icache, dying, proc, mtx, gone, nobj>>
    BY DEF Unhide
  <1>2. Becomes(x, low[x].obj, low[x].n, {}) BY <1>1, HideEffect
  <1>3. xino[x] = 0 /\ ~misplaced BY <1>1
  <1>4. PICK b \in Br : b \in low[x].hid BY <1>1, LowTypes
  <1>5. low[x].n[b] > 0 BY <1>4 DEF LowsOK, LowOK
  <1>6. Named(x) BY <1>5 DEF Named
  <1> QED BY <1>1, <1>2, <1>3, <1>6

LEMMA CopyupEffect ==
  ASSUME OwnFs, TypeOK, LowsOK, ProcsOK, NEW i \in Ino, NEW x \in Low, NEW y \in Low, NEW b \in Br,
         Copyup(i, x, y, b)
  PROVE  /\ b # 0 /\ Plain(i) /\ x \in icache[i].at /\ Shown(x, b) /\ low[y] = Free /\ x # y /\ y.fs = Fs(0)
         /\ \A p \in Procs : ~On(p, x)
         /\ low' \in [Low -> LowType] /\ \A z \in Low : z # x /\ z # y => low'[z] = low[z]
         /\ low'[y].obj = low[x].obj /\ low'[y].n = FirstName /\ low'[y].hid = {}
         /\ low'[x].obj = low[x].obj /\ low'[x].n = low[x].n /\ low'[x].hid = low[x].hid \cup {b}
         /\ icache' = [icache EXCEPT ![i].at = icache[i].at \cup {y}]
         /\ xino' = [xino EXCEPT ![y] = i]
         /\ UNCHANGED <<xib, xigen, dying, proc, mtx, gone, nobj, rare, misplaced>>
  <1> DEFINE ey == [Free EXCEPT !.obj = low[x].obj, !.n[0] = 1]
             ex == [low[x] EXCEPT !.hid = low[x].hid \cup {b}]
  <1>1. /\ b # 0 /\ Plain(i) /\ x \in icache[i].at /\ Shown(x, b) /\ Busy(x, b) = {}
        /\ low[y] = Free /\ y.fs = Fs(0)
        /\ low' = [low EXCEPT ![y] = ey, ![x].hid = @ \cup {b}]
        /\ icache' = [icache EXCEPT ![i].at = icache[i].at \cup {y}]
        /\ xino' = [xino EXCEPT ![y] = i]
        /\ UNCHANGED <<xib, xigen, dying, proc, mtx, gone, nobj, rare, misplaced>>
    BY DEF Copyup, Known, Plain, counts
  <1>2. low[x].n[b] > 0 BY <1>1 DEF Shown
  <1>3. x # y
    <2>1. FreeNames[b] = 0 BY DEF FreeNames
    <2> QED BY <2>1, <1>1, <1>2, FreeFields
  <1>4. \A p \in Procs : ~On(p, x)
    <2> SUFFICES ASSUME NEW p \in Procs, On(p, x) PROVE FALSE OBVIOUS
    <2>1. proc[p].pc # "idle" /\ proc[p].x = x BY DEF On
    <2>2. proc[p].b \in Br /\ low[x].n[proc[p].b] > 0 BY <2>1, Tasks DEF ProcsOK, ProcOK
    <2>3. proc[p].b = b BY <2>2, <1>2, OneBranch
    <2> QED BY <2>1, <2>3, <1>1 DEF Busy
  <1>5. ey \in LowType /\ ey.obj = low[x].obj /\ ey.n = FirstName /\ ey.hid = {}
    <2> DEFINE m == FirstName
               o == low[x].obj
               e1 == [Free EXCEPT !.obj = o]
    <2>1. m \in [Br -> 0 .. MaxLinks] BY OneName
    <2>2. o \in Nat BY LowTypes
    <2>3. ey = [e1 EXCEPT !.n[0] = 1] OBVIOUS
    <2> HIDE DEF o, ey
    <2>4. e1 \in LowType /\ e1.obj = o /\ e1.n = FreeNames /\ e1.hid = {} BY <2>2, FreeFields DEF LowType
    <2> HIDE DEF e1
    <2>5. ey = [e1 EXCEPT !.n = m]
      <3>1. ey = [e1 EXCEPT !.n = [e1.n EXCEPT ![0] = 1]] BY <2>3, Zenon
      <3> QED BY <3>1, <2>4, Zenon DEF FirstName
    <2> HIDE DEF m
    <2>6. ey \in LowType /\ ey.obj = o /\ ey.n = m /\ ey.hid = {} BY <2>1, <2>4, <2>5 DEF LowType
    <2> QED BY <2>6 DEF m, o
  <1>6. ex \in LowType /\ ex.obj = low[x].obj /\ ex.n = low[x].n /\ ex.hid = low[x].hid \cup {b}
    <2>1. low[x].hid \cup {b} \in SUBSET Br BY LowTypes
    <2> QED BY <2>1, LowTypes DEF LowType
  <1> HIDE DEF ey
  <1>7. low' = [[low EXCEPT ![y] = ey] EXCEPT ![x] = ex]
    <2> DEFINE g == [low EXCEPT ![y] = ey]
               h == low[x].hid \cup {b}
    <2>1. g[x] = low[x] BY <1>3, LowTypes
    <2>3. low' = [g EXCEPT ![x].hid = h] BY <1>1, <1>3, LowTypes
    <2> HIDE DEF g, h
    <2>4. low' = [g EXCEPT ![x] = [g[x] EXCEPT !.hid = h]] BY <2>3, Zenon
    <2> QED BY <2>1, <2>4, Zenon DEF g, h
  <1> HIDE DEF ex
  <1>8. /\ low' \in [Low -> LowType] /\ low'[x] = ex /\ low'[y] = ey
        /\ \A z \in Low : z # x /\ z # y => low'[z] = low[z]
    BY <1>3, <1>5, <1>6, <1>7, LowTypes
  <1> QED BY <1>1, <1>3, <1>4, <1>5, <1>6, <1>8

LEMMA ReapEffect ==
  ASSUME NEW l \in [Low -> LowType], NEW held
  PROVE  LET r == Reap(l, held) IN
         /\ r \in [Low -> LowType]
         /\ \A x \in Low : /\ r[x].n = l[x].n
                           /\ \/ r[x] = l[x]
                              \/ r[x] = Free /\ x \notin held /\ \A b \in Br : l[x].n[b] = 0
  <1> DEFINE r == Reap(l, held)
  <1>1. r = [x \in Low |-> IF x \notin held /\ \A b \in Br : l[x].n[b] = 0 THEN Free ELSE l[x]]
    BY DEF Reap
  <1> HIDE DEF r
  <1>2. r \in [Low -> LowType] BY <1>1, FreeFields
  <1>3. ASSUME NEW x \in Low
        PROVE  /\ r[x].n = l[x].n
               /\ \/ r[x] = l[x]
                  \/ r[x] = Free /\ x \notin held /\ \A b \in Br : l[x].n[b] = 0
    <2>1. CASE x \notin held /\ \A b \in Br : l[x].n[b] = 0
      <3>1. r[x] = Free BY <1>1, <2>1
      <3>2. l[x].n \in [Br -> 0 .. MaxLinks] BY DEF LowType
      <3>3. l[x].n = FreeNames BY <3>2, <2>1 DEF FreeNames
      <3> QED BY <3>1, <3>3, <2>1, FreeFields
    <2>2. CASE ~(x \notin held /\ \A b \in Br : l[x].n[b] = 0) BY <1>1, <2>2
    <2> QED BY <2>1, <2>2
  <1> QED BY <1>2, <1>3 DEF r

(* The lower inode of x is let go of, or stays.                            *)
Let(x) == low'[x] = Free /\ x \notin HeldBy(icache', dying', proc')

LEMMA PutEffect ==
  ASSUME TypeOK, LowsOK, NEW e \in dying, ClearEntries(e), e.step = "put"
  PROVE  /\ dying' = dying \ {e} /\ low' \in [Low -> LowType]
         /\ \A x \in Low : low'[x].n = low[x].n /\ low'[x].hid = low[x].hid /\ (low'[x] = low[x] \/ Let(x))
         /\ UNCHANGED <<xino, xib, xigen, icache, proc, mtx, gone, nobj, rare, misplaced>>
  <1>1. /\ dying' = dying \ {e} /\ low' = Reap(low, HeldBy(icache, dying', proc))
        /\ UNCHANGED <<xino, xib, xigen, icache, proc, mtx, gone, nobj, rare, misplaced>>
    BY DEF ClearEntries, counts
  <1> DEFINE held == HeldBy(icache, dying', proc)
  <1>2. held = HeldBy(icache', dying', proc') BY <1>1
  <1> HIDE DEF held
  <1>3. low \in [Low -> LowType] BY DEF TypeOK
  <1>4. low' = Reap(low, held) BY <1>1 DEF held
  <1>5. /\ low' \in [Low -> LowType]
        /\ \A x \in Low : /\ low'[x].n = low[x].n
                          /\ \/ low'[x] = low[x]
                             \/ low'[x] = Free /\ x \notin held /\ \A b \in Br : low[x].n[b] = 0
    BY <1>3, <1>4, ReapEffect
  <1>6. ASSUME NEW x \in Low PROVE low'[x].hid = low[x].hid
    <2>1. CASE low'[x] = low[x] BY <2>1
    <2>2. CASE low'[x] = Free /\ \A b \in Br : low[x].n[b] = 0
      <3>1. low[x].hid = {} BY <2>2, LowTypes DEF LowsOK, LowOK
      <3> QED BY <3>1, <2>2, FreeFields
    <2> QED BY <2>1, <2>2, <1>5
  <1>7. \A x \in Low : low'[x] = low[x] \/ Let(x) BY <1>2, <1>5 DEF Let
  <1> QED BY <1>1, <1>5, <1>6, <1>7

LEMMA DirectRemoveEffect ==
  ASSUME OwnFs, TypeOK, LowsOK, ProcsOK, NEW x \in Low, NEW b \in Br, DirectRemove(x, b)
  PROVE  /\ low[x].n[b] > 0 /\ low[x].hid = {} /\ \A p \in Procs : ~On(p, x)
         /\ low' \in [Low -> LowType]
         /\ \A y \in Low : y # x => /\ low'[y].n = low[y].n /\ low'[y].hid = low[y].hid
                                    /\ (low'[y] = low[y] \/ Let(y))
         /\ low'[x].n = [low[x].n EXCEPT ![b] = low[x].n[b] - 1] /\ low'[x].hid = {}
         /\ low'[x].obj = low[x].obj \/ Let(x)
         /\ UNCHANGED <<xino, xib, xigen, icache, dying, proc, mtx, gone, nobj, rare, misplaced>>
  <1> DEFINE k == low[x].n[b] - 1
             l == [low EXCEPT ![x].n[b] = k]
             held == HeldBy(icache, dying, proc)
             m == [low[x].n EXCEPT ![b] = k]
  <1>1. /\ low[x].n[b] > 0 /\ low[x].hid = {} /\ \A c \in Br : Busy(x, c) = {} /\ low' = Reap(l, held)
        /\ UNCHANGED <<xino, xib, xigen, icache, dying, proc, mtx, gone, nobj, rare, misplaced>>
    BY DEF DirectRemove, counts
  <1>2. held = HeldBy(icache', dying', proc') BY <1>1
  <1>3. \A p \in Procs : ~On(p, x)
    <2> SUFFICES ASSUME NEW p \in Procs, On(p, x) PROVE FALSE OBVIOUS
    <2>1. proc[p].pc # "idle" /\ proc[p].x = x BY DEF On
    <2>2. proc[p].b \in Br BY <2>1, Tasks
    <2> QED BY <2>1, <2>2, <1>1 DEF Busy
  <1>4. k \in 0 .. MaxLinks
    <2>1. low[x].n[b] \in 0 .. MaxLinks BY LowTypes
    <2> QED BY <2>1, <1>1, BoundAssumption
  <1>5. l \in [Low -> LowType] /\ (\A y \in Low : y # x => l[y] = low[y])
        /\ l[x].obj = low[x].obj /\ l[x].n = m /\ l[x].hid = low[x].hid
    <2> DEFINE e == [low[x] EXCEPT !.n = m]
    <2>1. m \in [Br -> 0 .. MaxLinks] BY <1>4, LowTypes
    <2>2. l = [low EXCEPT ![x] = e] BY Zenon
    <2> HIDE DEF m
    <2>3. e \in LowType /\ e.obj = low[x].obj /\ e.n = m /\ e.hid = low[x].hid
      BY <2>1, LowTypes DEF LowType
    <2> HIDE DEF e, l
    <2> QED BY <2>2, <2>3, LowTypes
  <1> HIDE DEF l, held, m
  <1>6. /\ low' \in [Low -> LowType]
        /\ \A y \in Low : /\ low'[y].n = l[y].n
                          /\ \/ low'[y] = l[y]
                             \/ low'[y] = Free /\ y \notin held /\ \A c \in Br : l[y].n[c] = 0
    BY <1>1, <1>5, ReapEffect
  <1>7. \A y \in Low : low'[y] = l[y] \/ Let(y) BY <1>2, <1>6 DEF Let
  <1>8. ASSUME NEW y \in Low, y # x PROVE low'[y].hid = low[y].hid
    <2>1. CASE low'[y] = l[y] BY <2>1, <1>5, <1>8
    <2>2. CASE low'[y] = Free /\ \A c \in Br : l[y].n[c] = 0
      <3>1. low[y].hid = {} BY <2>2, <1>5, <1>8, LowTypes DEF LowsOK, LowOK
      <3> QED BY <3>1, <2>2, FreeFields
    <2> QED BY <2>1, <2>2, <1>6
  <1>9. low'[x].hid = {} BY <1>1, <1>5, <1>7, FreeFields DEF Let
  <1>10. low'[x].n = m BY <1>5, <1>6
  <1>11. \A y \in Low : y # x => low'[y].n = low[y].n BY <1>5, <1>6
  <1> QED BY <1>1, <1>3, <1>5, <1>6, <1>7, <1>8, <1>9, <1>10, <1>11 DEF m

LEMMA EntryWriteEffect ==
  ASSUME TypeOK, ProcsOK, NEW p \in Procs, Write(p)
  PROVE  LET i == proc[p].ino  x == proc[p].x IN
         /\ proc[p].pc = "write" /\ i \in Ino /\ x \in Low /\ xino[x] = 0
         /\ xino' = [xino EXCEPT ![x] = i] /\ Ends(p) /\ mtx' = [mtx EXCEPT ![proc[p].b] = "free"]
         /\ UNCHANGED <<low, xib, xigen, icache, dying, gone, nobj, rare, misplaced>>
  <1>1. /\ proc[p].pc = "write" /\ xino' = [xino EXCEPT ![proc[p].x] = proc[p].ino]
        /\ Ends(p) /\ mtx' = [mtx EXCEPT ![proc[p].b] = "free"]
        /\ UNCHANGED <<low, xib, xigen, icache, dying, gone, nobj, rare, misplaced>>
    BY DEF Write, Ends, Done, Release, counts
  <1>2. proc[p].x \in Low BY <1>1, Tasks
  <1>3. proc[p].ino \in Ino /\ xino[proc[p].x] = 0 BY <1>1 DEF ProcsOK, ProcOK
  <1> QED BY <1>1, <1>2, <1>3

LEMMA NoInodeType ==
  /\ NoInode \in InodeType /\ NoInode.at = {} /\ NoInode.nlink = 0 /\ ~NoInode.new /\ NoInode.users = {}
  BY DEF NoInode, InodeType

LEMMA SetFailsEffect ==
  ASSUME TypeOK, ProcsOK, NEW p \in Procs, SetFails(p)
  PROVE  LET i == proc[p].ino  x == proc[p].x IN
         /\ proc[p].pc = "set" /\ i \in Ino /\ x \in Low /\ icache[i].new /\ Hashed(i)
         /\ icache'[i] = NoInode /\ icache' \in [Ino -> InodeType]
         /\ \A j \in Ino : j # i => icache'[j] = icache[j]
         /\ xino' = [xino EXCEPT ![x] = 0] /\ Ends(p) /\ mtx' = [mtx EXCEPT ![proc[p].b] = "free"]
         /\ UNCHANGED <<low, xib, xigen, dying, gone, nobj, misplaced>>
  <1>1. /\ proc[p].pc = "set" /\ icache' = [icache EXCEPT ![proc[p].ino] = NoInode]
        /\ xino' = [xino EXCEPT ![proc[p].x] = 0]
        /\ Ends(p) /\ mtx' = [mtx EXCEPT ![proc[p].b] = "free"]
        /\ UNCHANGED <<low, xib, xigen, dying, gone, nobj, misplaced>>
    BY DEF SetFails, Ends, Done, Release
  <1>2. proc[p].x \in Low BY <1>1, Tasks
  <1>3. proc[p].ino \in Ino /\ icache[proc[p].ino].new BY <1>1 DEF ProcsOK, ProcOK
  <1>4. Hashed(proc[p].ino) BY <1>3, Inodes
  <1>5. icache \in [Ino -> InodeType] BY DEF TypeOK
  <1>6. /\ icache' \in [Ino -> InodeType] /\ icache'[proc[p].ino] = NoInode
        /\ \A j \in Ino : j # proc[p].ino => icache'[j] = icache[j]
    BY <1>1, <1>3, <1>5, NoInodeType
  <1> QED BY <1>1, <1>2, <1>3, <1>4, <1>6

LEMMA RevalEffect ==
  ASSUME TypeOK, ProcsOK, NEW p \in Procs, RevalMatched(p)
  PROVE  LET i == proc[p].ino IN
         /\ proc[p].pc = "reval" /\ i \in Ino
         /\ icache' = [icache EXCEPT ![i].users = icache[i].users \ {p}] /\ Ends(p)
         /\ UNCHANGED <<low, xino, xib, xigen, dying, mtx, gone, nobj, rare, misplaced>>
  <1>1. /\ proc[p].pc = "reval"
        /\ icache' = [icache EXCEPT ![proc[p].ino].users = icache[proc[p].ino].users \ {p}] /\ Ends(p)
        /\ UNCHANGED <<low, xino, xib, xigen, dying, mtx, gone, nobj, rare, misplaced>>
    BY DEF RevalMatched, Ends, Done, counts
  <1>2. proc[p].ino \in Ino BY <1>1 DEF ProcsOK, ProcOK
  <1> QED BY <1>1, <1>2

(* An inode that is destroyed.                                             *)
Destroyed(e, i) ==
  /\ e.ino = i /\ e.at = icache[i].at /\ e.gen = icache[i].gen
  /\ e.unlinked <=> icache[i].nlink = 0
  /\ e.step = IF icache[i].nlink = 0 THEN "gen" ELSE "zero"

LEMMA EvictEffect ==
  ASSUME TypeOK, NEW i \in Ino, Evict(i)
  PROVE  /\ Plain(i) /\ icache[i].users = {}
         /\ icache' \in [Ino -> InodeType] /\ icache'[i] = NoInode /\ \A j \in Ino : j # i => icache'[j] = icache[j]
         /\ ~Hashed(i)'
         /\ \E e \in DyingType : Destroyed(e, i) /\ dying' = dying \cup {e}
         /\ \/ icache[i].nlink # 0 /\ gone' = gone
            \/ /\ icache[i].nlink = 0
               /\ \E o \in Nat : gone' = gone \cup {<<i, icache[i].gen, o>>}
         /\ UNCHANGED <<low, xino, xib, xigen, proc, mtx, nobj, rare, misplaced>>
  <1> DEFINE e == [ino |-> i, at |-> icache[i].at, gen |-> icache[i].gen,
                   unlinked |-> icache[i].nlink = 0,
                   step |-> IF icache[i].nlink = 0 THEN "gen" ELSE "zero"]
  <1>1. /\ Plain(i) /\ icache[i].users = {} /\ icache' = [icache EXCEPT ![i] = NoInode]
        /\ dying' = dying \cup {e}
        /\ gone' = IF icache[i].nlink = 0 THEN gone \cup {<<i, icache[i].gen, icache[i].obj>>} ELSE gone
        /\ UNCHANGED <<low, xino, xib, xigen, proc, mtx, nobj, rare, misplaced>>
    BY DEF Evict, Plain
  <1>2. icache \in [Ino -> InodeType] BY DEF TypeOK
  <1>3. /\ icache' \in [Ino -> InodeType] /\ icache'[i] = NoInode
        /\ \A j \in Ino : j # i => icache'[j] = icache[j]
    BY <1>1, <1>2, NoInodeType
  <1>4. ~Hashed(i)' BY <1>3 DEF Hashed
  <1>5. e \in DyingType /\ Destroyed(e, i)
    <2>1. icache[i].at \in SUBSET Low /\ icache[i].gen \in Nat /\ icache[i].nlink \in Nat BY Inodes
    <2> QED BY <2>1 DEF DyingType, Destroyed
  <1>6. icache[i].obj \in Nat BY <1>2 DEF InodeType
  <1> HIDE DEF e
  <1> QED BY <1>1, <1>3, <1>4, <1>5, <1>6

(* An inode that is being destroyed comes to its next step.                *)
Steps(e, s) ==
  \E f \in DyingType :
    /\ f.ino = e.ino /\ f.at = e.at /\ f.gen = e.gen /\ f.unlinked = e.unlinked /\ f.step = s
    /\ dying' = (dying \ {e}) \cup {f}

LEMMA StepEffect ==
  ASSUME TypeOK, NEW e \in dying, NEW s \in {"bit", "zero", "put"}, Step(e, s)
  PROVE  Steps(e, s)
  <1> DEFINE f == [e EXCEPT !.step = s]
  <1>1. e \in DyingType BY DEF TypeOK
  <1>2. f \in DyingType /\ f.ino = e.ino /\ f.at = e.at /\ f.gen = e.gen /\ f.unlinked = e.unlinked /\ f.step = s
    BY <1>1 DEF DyingType
  <1>3. dying' = (dying \ {e}) \cup {f} BY DEF Step
  <1> HIDE DEF f
  <1> QED BY <1>2, <1>3 DEF Steps

LEMMA DyingFields ==
  ASSUME TypeOK, NEW e \in dying
  PROVE  /\ e \in DyingType /\ e.ino \in Ino /\ e.at \in SUBSET Low /\ e.gen \in Nat /\ e.unlinked \in BOOLEAN
         /\ e.step \in {"gen", "bit", "zero", "put"}
  <1>1. e \in DyingType BY DEF TypeOK
  <1> QED BY <1>1 DEF DyingType

LEMMA XigenIncEffect ==
  ASSUME TypeOK, NEW e \in dying, XigenInc(e)
  PROVE  /\ e.step = "gen" /\ Steps(e, "bit") /\ xigen' = [xigen EXCEPT ![e.ino] = e.gen + 1]
         /\ UNCHANGED <<low, xino, xib, icache, proc, mtx, gone, nobj, rare, misplaced>>
  <1>1. e.step = "gen" BY DyingFields DEF XigenInc
  <1>2. DeleteOrder(e) = "bit" BY <1>1 DEF DeleteOrder
  <1>3. /\ Step(e, "bit") /\ xigen' = [xigen EXCEPT ![e.ino] = e.gen + 1]
        /\ UNCHANGED <<low, xino, xib, icache, proc, mtx, gone, nobj, rare, misplaced>>
    BY <1>2 DEF XigenInc, counts
  <1> QED BY <1>1, <1>3, StepEffect

LEMMA ClearBitEffect ==
  ASSUME TypeOK, NEW e \in dying, ClearBit(e)
  PROVE  /\ e.step = "bit" /\ Steps(e, "zero") /\ XibOK(xib')
         /\ \A i \in Ino : Taken(i)' <=> Taken(i) /\ i # e.ino
         /\ UNCHANGED <<low, xino, xigen, icache, proc, mtx, gone, nobj, rare, misplaced>>
  <1>1. /\ e.step = "bit" /\ Step(e, "zero") /\ xib' = XibClearBit(e.ino)
        /\ UNCHANGED <<low, xino, xigen, icache, proc, mtx, gone, nobj, rare, misplaced>>
    BY DEF ClearBit, counts
  <1>2. e.ino \in Nat \ {0} BY DyingFields DEF Ino
  <1>3. XibOK(xib') /\ \A j \in Nat \ {0} : BitIn(xib', j) <=> BitIn(xib, j) /\ j # e.ino
    BY <1>1, <1>2, ClearedNumber DEF TypeOK
  <1>4. \A j \in Ino : /\ Taken(j) <=> BitIn(xib, j)
                       /\ Taken(j)' <=> BitIn(xib', j)
                       /\ j \in Nat \ {0}
    BY DEF Taken, BitIn, Ino
  <1> QED BY <1>1, <1>3, <1>4, StepEffect

LEMMA ZeroEffect ==
  ASSUME TypeOK, NEW e \in dying, ClearEntries(e), e.step # "put"
  PROVE  /\ e.step = "zero" /\ Steps(e, "put") /\ xino' \in [Low -> 0 .. MaxIno]
         /\ \A x \in Low : \/ xino'[x] = xino[x]
                           \/ xino'[x] = 0 /\ x \in e.at /\ (e.unlinked \/ ~Named(x))
         /\ \A x \in Low : x \in e.at /\ e.unlinked => xino'[x] = 0
         /\ UNCHANGED <<low, xib, xigen, icache, proc, mtx, gone, nobj, rare, misplaced>>
  <1>1. /\ e.step = "zero" /\ Step(e, "put")
        /\ xino' = [x \in Low |-> IF x \in e.at /\ (e.unlinked \/ Names(x) = 0) THEN 0 ELSE xino[x]]
        /\ UNCHANGED <<low, xib, xigen, icache, proc, mtx, gone, nobj, rare, misplaced>>
    BY DEF ClearEntries, counts
  <1>2. \A x \in Low : Names(x) = 0 => ~Named(x) BY NamesCount
  <1>3. \A x \in Low : xino[x] \in 0 .. MaxIno /\ 0 \in 0 .. MaxIno BY Numbers
  <1>4. \A x \in Low : \/ xino'[x] = xino[x]
                       \/ xino'[x] = 0 /\ x \in e.at /\ (e.unlinked \/ ~Named(x))
    BY <1>1, <1>2
  <1>6. \A x \in Low : x \in e.at /\ e.unlinked => xino'[x] = 0 BY <1>1
  <1>5. xino' \in [Low -> 0 .. MaxIno] BY <1>1, <1>3
  <1> QED BY <1>1, <1>4, <1>5, <1>6, StepEffect

LEMMA XibTruncEffect ==
  ASSUME TypeOK, XibTrunc, ~misplaced'
  PROVE  /\ \A p \in Procs : proc[p] = Idle
         /\ \A e \in dying, i \in Ino : Ending(e, i) => \E x \in Low : xino[x] = i
         /\ XibOK(xib') /\ \A i \in Ino : Taken(i)' <=> \E x \in Low : xino[x] = i
         /\ \A i \in Ino : Hashed(i) => \E x \in Low : xino[x] = i
         /\ UNCHANGED <<low, xino, xigen, icache, dying, proc, mtx, gone, nobj>>
  <1>1. /\ \A p \in Procs : proc[p] = Idle
        /\ \A e \in dying : ~Locked(e)
        /\ misplaced' = (misplaced \/ \E i \in Ino \ ({xino[x] : x \in Low} \ {0}) :
                                        Hashed(i) \/ \E e \in dying : e.ino = i /\ e.step = "gen")
        /\ UNCHANGED <<low, xino, xigen, icache, dying, proc, mtx, gone, nobj>>
    BY DEF XibTrunc, Alone
  <1>2. XibOK(xib') /\ \A i \in Ino : BitIn(xib', i) <=> \E x \in Low : xino[x] = i BY Rebuilt
  <1>3. \A i \in Ino : Taken(i)' <=> BitIn(xib', i) BY DEF Taken, BitIn
  <1>4. \A i \in Ino : Hashed(i) => i \in {xino[x] : x \in Low} \ {0} BY <1>1
  <1>5. ASSUME NEW e \in dying, NEW i \in Ino, Ending(e, i) PROVE \E x \in Low : xino[x] = i
    <2>1. e.ino = i /\ e.step = "gen" BY <1>1, <1>5 DEF Ending, Locked
    <2>2. i \in {xino[x] : x \in Low} \ {0} BY <1>1, <2>1
    <2> QED BY <2>2
  <1> QED BY <1>1, <1>2, <1>3, <1>4, <1>5

LEMMA SetXinoEffect ==
  ASSUME TypeOK, SetXino, ~misplaced'
  PROVE  /\ \A p \in Procs : proc[p] = Idle
         /\ XibOK(xib') /\ \A i \in Ino : Taken(i)' <=> Taken(i)
         /\ UNCHANGED <<low, xino, xigen, icache, dying, proc, mtx, gone, nobj>>
  <1> DEFINE y1 == [xib EXCEPT !.last = 0]
             y2 == [y1 EXCEPT !.next = 0]
  <1>1. /\ \A p \in Procs : proc[p] = Idle
        /\ xib' = y2 /\ misplaced' = (misplaced \/ xib.last # 0)
        /\ UNCHANGED <<low, xino, xigen, icache, dying, proc, mtx, gone, nobj>>
    BY DEF SetXino, Alone
  <1>2. xib.last = 0 /\ xib \in XibType /\ 0 < Len(xib.file) BY <1>1 DEF TypeOK, XibOK
  <1>3. y1 = xib BY <1>2 DEF XibType
  <1> HIDE DEF y1
  <1>4. y2 \in XibType /\ y2.file = xib.file /\ y2.buf = xib.buf /\ y2.last = xib.last BY <1>2, <1>3 DEF XibType
  <1> HIDE DEF y2
  <1>5. XibOK(xib') BY <1>1, <1>2, <1>4 DEF XibOK
  <1>6. \A p : Page(xib', p) = Page(xib, p) BY <1>1, <1>4 DEF Page
  <1> QED BY <1>1, <1>5, <1>6 DEF Taken

-----------------------------------------------------------------------------
(* The steps that are possible: an entry that was read is the one of the   *)
(* inode that is found, so that nobody has to take another number.         *)
Starts(p, x, b, k) ==
  /\ proc[p] = Idle /\ Shown(x, b) /\ Enter(p, x, b, k)
  /\ UNCHANGED <<low, xino, xib, xigen, icache, dying, gone, nobj>>
Creates(p, x) == Create(p, x) /\ Enter(p, x, 0, "new")
IgetNew(p) == Iget(p) /\ ~Hashed(proc[p].ino)
IgetOld(p) == Iget(p) /\ Hashed(proc[p].ino)
Zero(e)    == ClearEntries(e) /\ e.step # "put"
Put(e)     == ClearEntries(e) /\ e.step = "put"

LEMMA TaskCases ==
  ASSUME OwnFs, IInv, NEW p \in Procs,
         \/ \E x \in Low, b \in Br, k \in {"inode", "ino"} : Start(p, x, b, k)
         \/ \E x \in Low : Create(p, x)
         \/ Again(p) \/ NewIno(p) \/ Write(p) \/ Iget(p) \/ SetInode(p) \/ SetFails(p)
         \/ RevalMatched(p) \/ RevalUnmatched(p) \/ Unmatched(p)
  PROVE  \/ vars' = vars
         \/ \E x \in Low, b \in Br, k \in {"inode", "ino"} : Starts(p, x, b, k)
         \/ \E x \in Low : Creates(p, x)
         \/ NewIno(p) \/ Write(p) \/ IgetNew(p) \/ IgetOld(p) \/ SetInode(p) \/ SetFails(p)
         \/ RevalMatched(p)
  <1>0. TypeOK /\ ProcsOK BY DEF IInv
  <1>1. proc[p].pc \in {"idle", "newino", "write", "iget", "set", "reval"}
    <2>1. Idle.pc = "idle" BY DEF Idle
    <2> QED BY <2>1, <1>0, Tasks
  <1>2. ~Again(p) /\ ~Unmatched(p) BY <1>1 DEF Again, Unmatched
  <1>3. ~RevalUnmatched(p)
    <2>1. proc[p].pc = "reval" => proc[p].x \in icache[proc[p].ino].at BY <1>0 DEF ProcsOK, ProcOK
    <2> QED BY <2>1 DEF RevalUnmatched
  <1>4. ASSUME NEW x \in Low, NEW b \in Br, NEW k \in {"inode", "ino"}, Start(p, x, b, k)
        PROVE  vars' = vars \/ Starts(p, x, b, k)
    <2>1. /\ proc[p] = Idle /\ Shown(x, b)
          /\ LockAndRead(p, [pc |-> "", x |-> x, b |-> b, kind |-> k, ino |-> 0])
          /\ UNCHANGED <<low, xino, xib, xigen, icache, dying, gone, nobj, rare, misplaced>>
      BY <1>4 DEF Start, counts
    <2>2. Enter(p, x, b, k) \/ (k = "ino" /\ UNCHANGED <<proc, mtx>>) BY <2>1, <1>0, LockEffect
    <2>3. Enter(p, x, b, k) => Starts(p, x, b, k) BY <2>1 DEF Starts
    <2>4. UNCHANGED <<proc, mtx>> => vars' = vars BY <2>1 DEF vars
    <2> QED BY <2>2, <2>3, <2>4
  <1>5. ASSUME NEW x \in Low, Create(p, x) PROVE Creates(p, x)
    <2>1. LockAndRead(p, [pc |-> "", x |-> x, b |-> 0, kind |-> "new", ino |-> 0]) BY <1>5 DEF Create
    <2>2. Enter(p, x, 0, "new") BY <2>1, <1>0, BrAssumption, LockEffect
    <2> QED BY <2>2, <1>5 DEF Creates
  <1>6. Iget(p) => IgetNew(p) \/ IgetOld(p) BY DEF IgetNew, IgetOld
  <1> QED BY <1>2, <1>3, <1>4, <1>5, <1>6

LEMMA NextCases ==
  ASSUME OwnFs, IInv, Next
  PROVE  \/ vars' = vars
         \/ \E p \in Procs, x \in Low, b \in Br, k \in {"inode", "ino"} : Starts(p, x, b, k)
         \/ \E p \in Procs, x \in Low : Creates(p, x)
         \/ \E p \in Procs : NewIno(p)
         \/ \E p \in Procs : Write(p)
         \/ \E p \in Procs : IgetNew(p)
         \/ \E p \in Procs : IgetOld(p)
         \/ \E p \in Procs : SetInode(p)
         \/ \E p \in Procs : SetFails(p)
         \/ \E p \in Procs : RevalMatched(p)
         \/ \E i \in Ino : Evict(i)
         \/ \E e \in dying : XigenInc(e)
         \/ \E e \in dying : ClearBit(e)
         \/ \E e \in dying : Zero(e)
         \/ \E e \in dying : Put(e)
         \/ \E i \in Ino, x \in Low, b \in Br : Unlink(i, x, b)
         \/ \E i \in Ino, x \in Low : Link(i, x)
         \/ \E i \in Ino, x \in Low, y \in Low, b \in Br : Copyup(i, x, y, b)
         \/ \E x \in Low, b \in Br : DirectCreate(x, b)
         \/ \E x \in Low, b \in Br : DirectRemove(x, b)
         \/ \E x \in Low : Unhide(x)
         \/ XibTrunc
         \/ SetXino
  <1>1. ASSUME NEW p \in Procs,
               \/ \E x \in Low, b \in Br, k \in {"inode", "ino"} : Start(p, x, b, k)
               \/ \E x \in Low : Create(p, x)
               \/ Again(p) \/ NewIno(p) \/ Write(p) \/ Iget(p) \/ SetInode(p) \/ SetFails(p)
               \/ RevalMatched(p) \/ RevalUnmatched(p) \/ Unmatched(p)
        PROVE  \/ vars' = vars
               \/ \E x \in Low, b \in Br, k \in {"inode", "ino"} : Starts(p, x, b, k)
               \/ \E x \in Low : Creates(p, x)
               \/ NewIno(p) \/ Write(p) \/ IgetNew(p) \/ IgetOld(p) \/ SetInode(p) \/ SetFails(p)
               \/ RevalMatched(p)
    BY <1>1, TaskCases
  <1>2. ASSUME NEW e \in dying, ClearEntries(e) PROVE Zero(e) \/ Put(e) BY <1>2 DEF Zero, Put
  <1> QED BY <1>1, <1>2, Zenon DEF Next

(* What every task has while it works.                                     *)
LEMMA TaskFacts ==
  ASSUME OwnFs, IInv, NEW p \in Procs, proc[p].pc # "idle"
  PROVE  /\ proc[p].x \in Low /\ proc[p].b \in Br /\ Fs(proc[p].b) = proc[p].x.fs
         /\ On(p, proc[p].x) /\ Open(proc[p].x) /\ Named(proc[p].x) /\ ~Dead(proc[p].x)
         /\ low[proc[p].x].n[proc[p].b] > 0
         /\ \A e \in dying : Removed(e) => proc[p].x \notin e.at
  <1>0. TypeOK /\ ProcsOK /\ LowsOK /\ RemovedOut BY DEF IInv
  <1>1. proc[p].x \in Low /\ proc[p].b \in Br BY <1>0, Tasks
  <1>2. Fs(proc[p].b) = proc[p].x.fs /\ low[proc[p].x].n[proc[p].b] > 0 BY <1>0 DEF ProcsOK, ProcOK
  <1>3. On(p, proc[p].x) /\ Open(proc[p].x) BY DEF On, Open
  <1>4. Named(proc[p].x) BY <1>1, <1>2 DEF Named
  <1>5. \A e \in dying : Removed(e) => proc[p].x \notin e.at BY <1>0, <1>3 DEF RemovedOut, OutOK
  <1>6. ~Dead(proc[p].x) BY <1>3, <1>5 DEF Dead
  <1> QED BY <1>1, <1>2, <1>3, <1>4, <1>5, <1>6

(* Two tasks at one lower inode: one is in reval_inode, without the mutex. *)
LEMMA Mutex ==
  ASSUME OwnFs, IInv, NEW p \in Procs, NEW q \in Procs, p # q,
         proc[p].pc # "idle", proc[q].pc # "idle", proc[p].pc # "reval", proc[q].pc # "reval"
  PROVE  proc[p].b # proc[q].b /\ proc[p].x # proc[q].x
  <1>0. ProcsOK BY DEF IInv
  <1>1. mtx[proc[p].b] = p /\ mtx[proc[q].b] = q BY <1>0 DEF ProcsOK, ProcOK
  <1>2. proc[p].b # proc[q].b BY <1>1
  <1>3. proc[p].b \in Br /\ proc[q].b \in Br /\ Fs(proc[p].b) = proc[p].x.fs /\ Fs(proc[q].b) = proc[q].x.fs
    BY TaskFacts
  <1>4. proc[p].x = proc[q].x => proc[p].b = proc[q].b BY <1>3 DEF OwnFs
  <1> QED BY <1>2, <1>4

(* A lower inode that can be reached is not out of use.                    *)
LEMMA Reached ==
  ASSUME OwnFs, IInv, NEW x \in Low, Reachable(x)
  PROVE  /\ Named(x) /\ Open(x) /\ low[x].hid = {} /\ ~Dead(x)
         /\ \A e \in dying : Removed(e) => x \notin e.at
  <1>0. TypeOK /\ LowsOK /\ RemovedOut BY DEF IInv
  <1>1. PICK b \in Br : Shown(x, b) BY DEF Reachable
  <1>2. low[x].n[b] > 0 BY <1>1 DEF Shown
  <1>3. low[x].hid = {} BY <1>0, <1>2, OneBranch
  <1>4. Named(x) /\ Open(x) BY <1>2 DEF Named, Open
  <1>5. \A e \in dying : Removed(e) => x \notin e.at BY <1>0, <1>4 DEF RemovedOut, OutOK
  <1> QED BY <1>3, <1>4, <1>5 DEF Dead

-----------------------------------------------------------------------------
(* Every step keeps the types.                                             *)
LEMMA MutexType ==
  ASSUME TypeOK, NEW b \in Br, NEW p \in Procs \cup {"free"}, mtx' = [mtx EXCEPT ![b] = p]
  PROVE  mtx' \in [Br -> Procs \cup {"free"}]
  BY DEF TypeOK
LEMMA EntryType ==
  ASSUME TypeOK, NEW x \in Low, NEW i \in 0 .. MaxIno, xino' = [xino EXCEPT ![x] = i]
  PROVE  xino' \in [Low -> 0 .. MaxIno]
  BY DEF TypeOK
LEMMA InoNumber == \A i \in Ino : i \in 0 .. MaxIno /\ i # 0
  BY BoundAssumption DEF Ino
LEMMA StepsType ==
  ASSUME TypeOK, NEW e \in dying, NEW s, Steps(e, s)
  PROVE  dying' \in SUBSET DyingType
  BY DEF TypeOK, Steps

LEMMA TypeStep ==
  ASSUME OwnFs, IInv, Next, ~misplaced'
  PROVE  TypeOK'
  <1>0. TypeOK /\ ProcsOK /\ LowsOK BY DEF IInv
  <1>00. \A i \in Ino : i \in 0 .. MaxIno BY InoNumber
  <1>1. ASSUME vars' = vars PROVE TypeOK' BY <1>0, <1>1 DEF vars, TypeOK
  <1>2. ASSUME NEW p \in Procs, NEW x0 \in Low, NEW b0 \in Br, NEW k0 \in {"inode", "ino"},
               Starts(p, x0, b0, k0)
        PROVE TypeOK'
    <2>1. /\ proc' \in [Procs -> ProcType \cup {Idle}] /\ mtx' = [mtx EXCEPT ![b0] = p]
          /\ UNCHANGED <<low, xino, xib, xigen, icache, dying, gone, nobj>>
      BY <1>0, <1>2, EnterEffect DEF Starts
    <2>2. mtx' \in [Br -> Procs \cup {"free"}] BY <1>0, <2>1, MutexType
    <2> QED BY <1>0, <2>1, <2>2 DEF TypeOK
  <1>3. ASSUME NEW p \in Procs, NEW x0 \in Low, Creates(p, x0) PROVE TypeOK'
    <2>1. Create(p, x0) /\ Enter(p, x0, 0, "new") BY <1>3 DEF Creates
    <2>2. /\ proc[p] = Idle /\ Becomes(x0, nobj + 1, FirstName, {}) /\ nobj' = nobj + 1
          /\ UNCHANGED <<xino, xib, xigen, icache, dying, gone>>
      BY <1>0, <2>1, CreateEffect
    <2>3. low' \in [Low -> LowType] BY <2>2 DEF Becomes
    <2>4. proc' \in [Procs -> ProcType \cup {Idle}] /\ mtx' = [mtx EXCEPT ![0] = p]
      BY <1>0, <2>1, <2>2, EnterEffect
    <2>5. mtx' \in [Br -> Procs \cup {"free"}] BY <1>0, <2>4, MutexType, BrAssumption
    <2> QED BY <1>0, <2>2, <2>3, <2>4, <2>5 DEF TypeOK
  <1>4. ASSUME NEW p \in Procs, NewIno(p) PROVE TypeOK'
    <2>1. /\ XibOK(xib') /\ UNCHANGED <<low, xino, xigen, icache, dying, mtx, gone, nobj>>
          /\ proc[p].pc # "idle"
          /\ GoesOn(p, IF proc[p].kind = "ino" THEN "write" ELSE "iget", XinoNewIno(xib).ino)
      BY <1>0, <1>4, NewInoEffect
    <2>2. proc' \in [Procs -> ProcType \cup {Idle}] BY <1>0, <2>1, GoesOnEffect
    <2> QED BY <1>0, <2>1, <2>2 DEF TypeOK
  <1>5. ASSUME NEW p \in Procs, Write(p) PROVE TypeOK'
    <2>1. /\ proc[p].ino \in Ino /\ proc[p].x \in Low /\ xino' = [xino EXCEPT ![proc[p].x] = proc[p].ino]
          /\ Ends(p) /\ mtx' = [mtx EXCEPT ![proc[p].b] = "free"] /\ proc[p].pc # "idle"
          /\ UNCHANGED <<low, xib, xigen, icache, dying, gone, nobj>>
      BY <1>0, <1>5, EntryWriteEffect
    <2>2. proc' \in [Procs -> ProcType \cup {Idle}] BY <1>0, <2>1, EndsEffect
    <2>3. mtx' \in [Br -> Procs \cup {"free"}] BY <1>0, <2>1, MutexType, Tasks
    <2>4. xino' \in [Low -> 0 .. MaxIno] BY <1>0, <1>00, <2>1, EntryType
    <2> QED BY <1>0, <2>1, <2>2, <2>3, <2>4 DEF TypeOK
  <1>6. ASSUME NEW p \in Procs, IgetNew(p) PROVE TypeOK'
    <2>1. /\ icache' \in [Ino -> InodeType] /\ GoesOn(p, "set", proc[p].ino) /\ proc[p].pc # "idle"
          /\ UNCHANGED <<low, xino, xib, xigen, dying, mtx, gone, nobj>>
      BY <1>0, <1>6, IgetNewEffect DEF IgetNew
    <2>2. proc' \in [Procs -> ProcType \cup {Idle}] BY <1>0, <2>1, GoesOnEffect
    <2> QED BY <1>0, <2>1, <2>2 DEF TypeOK
  <1>7. ASSUME NEW p \in Procs, IgetOld(p) PROVE TypeOK'
    <2>1. /\ proc[p].ino \in Ino /\ GoesOn(p, "reval", proc[p].ino) /\ proc[p].pc # "idle"
          /\ icache' = [icache EXCEPT ![proc[p].ino].users = @ \cup {p}]
          /\ mtx' = [mtx EXCEPT ![proc[p].b] = "free"]
          /\ UNCHANGED <<low, xino, xib, xigen, dying, gone, nobj>>
      BY <1>7, IgetOldEffect DEF IgetOld
    <2>2. proc' \in [Procs -> ProcType \cup {Idle}] BY <1>0, <2>1, GoesOnEffect
    <2>3. mtx' \in [Br -> Procs \cup {"free"}] BY <1>0, <2>1, MutexType, Tasks
    <2>4. icache[proc[p].ino].users \cup {p} \in SUBSET Procs BY <1>0, <2>1, Inodes
    <2>5. icache' \in [Ino -> InodeType] BY <1>0, <2>1, <2>4, UsersEffect
    <2> QED BY <1>0, <2>1, <2>2, <2>3, <2>5 DEF TypeOK
  <1>8. ASSUME NEW p \in Procs, SetInode(p) PROVE TypeOK'
    <2>1. /\ proc[p].ino \in Ino /\ proc[p].x \in Low /\ xino' = [xino EXCEPT ![proc[p].x] = proc[p].ino]
          /\ Ends(p) /\ mtx' = [mtx EXCEPT ![proc[p].b] = "free"] /\ proc[p].pc # "idle"
          /\ icache' \in [Ino -> InodeType]
          /\ UNCHANGED <<low, xib, xigen, dying, gone, nobj>>
      BY <1>0, <1>8, SetInodeEffect
    <2>2. proc' \in [Procs -> ProcType \cup {Idle}] BY <1>0, <2>1, EndsEffect
    <2>3. mtx' \in [Br -> Procs \cup {"free"}] BY <1>0, <2>1, MutexType, Tasks
    <2>4. xino' \in [Low -> 0 .. MaxIno] BY <1>0, <1>00, <2>1, EntryType
    <2> QED BY <1>0, <2>1, <2>2, <2>3, <2>4 DEF TypeOK
  <1>9. ASSUME NEW p \in Procs, SetFails(p) PROVE TypeOK'
    <2>1. /\ proc[p].x \in Low /\ xino' = [xino EXCEPT ![proc[p].x] = 0]
          /\ Ends(p) /\ mtx' = [mtx EXCEPT ![proc[p].b] = "free"] /\ proc[p].pc # "idle"
          /\ icache' \in [Ino -> InodeType]
          /\ UNCHANGED <<low, xib, xigen, dying, gone, nobj>>
      BY <1>0, <1>9, SetFailsEffect
    <2>2. proc' \in [Procs -> ProcType \cup {Idle}] BY <1>0, <2>1, EndsEffect
    <2>3. mtx' \in [Br -> Procs \cup {"free"}] BY <1>0, <2>1, MutexType, Tasks
    <2>4. 0 \in 0 .. MaxIno BY BoundAssumption
    <2>5. xino' \in [Low -> 0 .. MaxIno] BY <1>0, <2>1, <2>4, EntryType
    <2> QED BY <1>0, <2>1, <2>2, <2>3, <2>5 DEF TypeOK
  <1>10. ASSUME NEW p \in Procs, RevalMatched(p) PROVE TypeOK'
    <2>1. /\ proc[p].ino \in Ino /\ Ends(p)
          /\ icache' = [icache EXCEPT ![proc[p].ino].users = icache[proc[p].ino].users \ {p}]
          /\ UNCHANGED <<low, xino, xib, xigen, dying, mtx, gone, nobj>>
      BY <1>0, <1>10, RevalEffect
    <2>2. proc' \in [Procs -> ProcType \cup {Idle}] BY <1>0, <2>1, EndsEffect
    <2>3. icache[proc[p].ino].users \ {p} \in SUBSET Procs BY <1>0, <2>1, Inodes
    <2>4. icache' \in [Ino -> InodeType] BY <1>0, <2>1, <2>3, UsersEffect
    <2> QED BY <1>0, <2>1, <2>2, <2>4 DEF TypeOK
  <1>11. ASSUME NEW i0 \in Ino, Evict(i0) PROVE TypeOK'
    <2>1. /\ icache' \in [Ino -> InodeType] /\ \E e \in DyingType : dying' = dying \cup {e}
          /\ gone' = gone \/ \E o \in Nat : gone' = gone \cup {<<i0, icache[i0].gen, o>>}
          /\ UNCHANGED <<low, xino, xib, xigen, proc, mtx, nobj>>
      BY <1>0, <1>11, EvictEffect
    <2>2. icache[i0].gen \in Nat BY <1>0, Inodes
    <2>3. gone' \in SUBSET (Ino \X Nat \X Nat) BY <1>0, <2>1, <2>2 DEF TypeOK
    <2> QED BY <1>0, <2>1, <2>3 DEF TypeOK
  <1>12. ASSUME NEW e0 \in dying, XigenInc(e0) PROVE TypeOK'
    <2>1. /\ Steps(e0, "bit") /\ xigen' = [xigen EXCEPT ![e0.ino] = e0.gen + 1]
          /\ UNCHANGED <<low, xino, xib, icache, proc, mtx, gone, nobj>>
      BY <1>0, <1>12, XigenIncEffect
    <2>2. e0.gen + 1 \in Nat BY <1>0, DyingFields
    <2>3. xigen' \in [Ino -> Nat] BY <1>0, <2>1, <2>2 DEF TypeOK
    <2>4. dying' \in SUBSET DyingType BY <1>0, <2>1, StepsType
    <2> QED BY <1>0, <2>1, <2>3, <2>4 DEF TypeOK
  <1>13. ASSUME NEW e0 \in dying, ClearBit(e0) PROVE TypeOK'
    <2>1. /\ Steps(e0, "zero") /\ XibOK(xib')
          /\ UNCHANGED <<low, xino, xigen, icache, proc, mtx, gone, nobj>>
      BY <1>0, <1>13, ClearBitEffect
    <2>2. dying' \in SUBSET DyingType BY <1>0, <2>1, StepsType
    <2> QED BY <1>0, <2>1, <2>2 DEF TypeOK
  <1>14. ASSUME NEW e0 \in dying, Zero(e0) PROVE TypeOK'
    <2>1. /\ Steps(e0, "put") /\ xino' \in [Low -> 0 .. MaxIno]
          /\ UNCHANGED <<low, xib, xigen, icache, proc, mtx, gone, nobj>>
      BY <1>0, <1>14, ZeroEffect DEF Zero
    <2>2. dying' \in SUBSET DyingType BY <1>0, <2>1, StepsType
    <2> QED BY <1>0, <2>1, <2>2 DEF TypeOK
  <1>15. ASSUME NEW e0 \in dying, Put(e0) PROVE TypeOK'
    <2>1. /\ dying' = dying \ {e0} /\ low' \in [Low -> LowType]
          /\ UNCHANGED <<xino, xib, xigen, icache, proc, mtx, gone, nobj>>
      BY <1>0, <1>15, PutEffect DEF Put
    <2> QED BY <1>0, <2>1 DEF TypeOK
  <1>16. ASSUME NEW i0 \in Ino, NEW x0 \in Low, NEW b0 \in Br, Unlink(i0, x0, b0) PROVE TypeOK'
    <2>1. /\ low' \in [Low -> LowType] /\ icache[i0].nlink - 1 \in Nat
          /\ icache' = [icache EXCEPT ![i0].nlink = icache[i0].nlink - 1]
          /\ UNCHANGED <<xino, xib, xigen, dying, proc, mtx, gone, nobj>>
      BY <1>0, <1>16, UnlinkEffect DEF Becomes
    <2>2. icache' \in [Ino -> InodeType] BY <1>0, <2>1, LinksEffect
    <2> QED BY <1>0, <2>1, <2>2 DEF TypeOK
  <1>17. ASSUME NEW i0 \in Ino, NEW x0 \in Low, Link(i0, x0) PROVE TypeOK'
    <2>1. /\ low' \in [Low -> LowType] /\ icache[i0].nlink + 1 \in Nat
          /\ icache' = [icache EXCEPT ![i0].nlink = icache[i0].nlink + 1]
          /\ UNCHANGED <<xino, xib, xigen, dying, proc, mtx, gone, nobj>>
      BY <1>0, <1>17, LinkEffect DEF Becomes
    <2>2. icache' \in [Ino -> InodeType] BY <1>0, <2>1, LinksEffect
    <2> QED BY <1>0, <2>1, <2>2 DEF TypeOK
  <1>18. ASSUME NEW i0 \in Ino, NEW x0 \in Low, NEW y0 \in Low, NEW b0 \in Br,
               Copyup(i0, x0, y0, b0)
        PROVE TypeOK'
    <2>1. /\ low' \in [Low -> LowType] /\ xino' = [xino EXCEPT ![y0] = i0]
          /\ icache' = [icache EXCEPT ![i0].at = icache[i0].at \cup {y0}]
          /\ UNCHANGED <<xib, xigen, dying, proc, mtx, gone, nobj>>
      BY <1>0, <1>18, CopyupEffect
    <2>2. icache[i0].at \cup {y0} \in SUBSET Low BY <1>0, Inodes
    <2>3. icache' \in [Ino -> InodeType] BY <1>0, <2>1, <2>2, LowsEffect
    <2>4. xino' \in [Low -> 0 .. MaxIno] BY <1>0, <1>00, <2>1, EntryType
    <2> QED BY <1>0, <2>1, <2>3, <2>4 DEF TypeOK
  <1>19. ASSUME NEW x0 \in Low, NEW b0 \in Br, DirectCreate(x0, b0) PROVE TypeOK'
    <2>1. /\ low' \in [Low -> LowType] /\ nobj' = nobj + 1
          /\ UNCHANGED <<xino, xib, xigen, icache, dying, proc, mtx, gone>>
      BY <1>0, <1>19, DirectCreateEffect DEF Becomes
    <2> QED BY <1>0, <2>1 DEF TypeOK
  <1>20. ASSUME NEW x0 \in Low, NEW b0 \in Br, DirectRemove(x0, b0) PROVE TypeOK'
    <2>1. /\ low' \in [Low -> LowType]
          /\ UNCHANGED <<xino, xib, xigen, icache, dying, proc, mtx, gone, nobj>>
      BY <1>0, <1>20, DirectRemoveEffect
    <2> QED BY <1>0, <2>1 DEF TypeOK
  <1>21. ASSUME NEW x0 \in Low, Unhide(x0) PROVE TypeOK'
    <2>1. /\ low' \in [Low -> LowType]
          /\ UNCHANGED <<xino, xib, xigen, icache, dying, proc, mtx, gone, nobj>>
      BY <1>0, <1>21, UnhideEffect DEF Becomes
    <2> QED BY <1>0, <2>1 DEF TypeOK
  <1>22. ASSUME XibTrunc PROVE TypeOK'
    <2>1. /\ XibOK(xib') /\ UNCHANGED <<low, xino, xigen, icache, dying, proc, mtx, gone, nobj>>
      BY <1>0, <1>22, XibTruncEffect
    <2> QED BY <1>0, <2>1 DEF TypeOK
  <1>23. ASSUME SetXino PROVE TypeOK'
    <2>1. /\ XibOK(xib') /\ UNCHANGED <<low, xino, xigen, icache, dying, proc, mtx, gone, nobj>>
      BY <1>0, <1>23, SetXinoEffect
    <2> QED BY <1>0, <2>1 DEF TypeOK
  <1> QED
    BY <1>1, <1>2, <1>3, <1>4, <1>5, <1>6, <1>7, <1>8, <1>9, <1>10, <1>11, <1>12, <1>13, <1>14, <1>15,
       <1>16, <1>17, <1>18, <1>19, <1>20, <1>21, <1>22, <1>23, NextCases

-----------------------------------------------------------------------------
(* Where an entry, a number on its way and a new inode come from.          *)
LEMMA EntryKept ==
  ASSUME NEW x \in Low, NEW i, Entry(x, i)', xino'[x] = xino[x],
         low[x].hid # {} => low'[x].hid # {},
         \A p \in Procs : On(p, x)' => On(p, x),
         \A e \in dying : Removed(e) /\ x \in e.at => \E f \in dying' : Removed(f) /\ x \in f.at
  PROVE  Entry(x, i)
  <1>1. ~Dead(x)' /\ xino'[x] = i BY DEF Entry
  <1>2. Dead(x)' <=> \/ low'[x].hid # {} /\ \A p \in Procs : ~On(p, x)'
                     \/ \E e \in dying' : Removed(e) /\ x \in e.at
    BY DEF Dead, Removed
  <1>3. ~Dead(x) BY <1>1, <1>2 DEF Dead
  <1> QED BY <1>1, <1>3 DEF Entry

LEMMA EntryAlive ==
  ASSUME NEW x \in Low, NEW i, Entry(x, i)', xino'[x] = xino[x], ~Dead(x)
  PROVE  Entry(x, i)
  BY DEF Entry

LEMMA StillRemoved ==
  ASSUME NEW e \in dying, NEW s, s # "put", e.step # "put" \/ ~e.unlinked, Steps(e, s), NEW x
  PROVE  \A g \in dying : Removed(g) /\ x \in g.at => \E f \in dying' : Removed(f) /\ x \in f.at
  <1>1. PICK f \in DyingType : /\ f.at = e.at /\ f.unlinked = e.unlinked /\ f.step = s
                               /\ dying' = (dying \ {e}) \cup {f}
    BY DEF Steps
  <1> SUFFICES ASSUME NEW g \in dying, Removed(g), x \in g.at PROVE \E h \in dying' : Removed(h) /\ x \in h.at
    OBVIOUS
  <1>2. CASE g = e BY <1>1, <1>2 DEF Removed
  <1>3. CASE g # e BY <1>1, <1>3
  <1> QED BY <1>2, <1>3

(* A lower inode gets its entry.                                           *)
Gets(x, i) ==
  \/ \E p \in Procs : proc[p].x = x /\ proc[p].ino = i /\ (Write(p) \/ SetInode(p))
  \/ \E z \in Low, b \in Br : Copyup(i, z, x, b)

LEMMA EntryStep ==
  ASSUME OwnFs, IInv, Next, ~misplaced', NEW x \in Low, NEW i \in Ino, Entry(x, i)'
  PROVE  Entry(x, i) \/ Gets(x, i)
  <1> DEFINE G == Entry(x, i) \/ Gets(x, i)
             R == \A e \in dying : Removed(e) /\ x \in e.at => \E f \in dying' : Removed(f) /\ x \in f.at
             O == \A p \in Procs : On(p, x)' => On(p, x)
  <1>0. TypeOK /\ ProcsOK /\ LowsOK BY DEF IInv
  <1>00. xino'[x] = i /\ i # 0 BY InoNumber DEF Entry
  <1>01. dying' = dying => R OBVIOUS
  <1>02. proc' = proc => O BY DEF On
  <1>03. xino \in [Low -> 0 .. MaxIno] BY <1>0 DEF TypeOK
  <1>04. xino'[x] = xino[x] /\ (low[x].hid # {} => low'[x].hid # {}) /\ O /\ R => G BY EntryKept
  <1>05. xino'[x] = xino[x] /\ ~Dead(x) => G BY EntryAlive
  <1> HIDE DEF G, R, O
  <1>1. ASSUME vars' = vars PROVE G BY <1>1, <1>01, <1>02, <1>04 DEF vars
  <1>2. ASSUME NEW p \in Procs, NEW x0 \in Low, NEW b0 \in Br, NEW k0 \in {"inode", "ino"},
               Starts(p, x0, b0, k0)
        PROVE G
    <2>1. UNCHANGED <<low, xino, dying>> /\ Shown(x0, b0) BY <1>2 DEF Starts
    <2>2. \A q \in Procs : \A y : On(q, y)' <=> On(q, y) \/ (q = p /\ y = x0)
      BY <1>0, <1>2, EnterEffect DEF Starts
    <2>3. CASE x = x0
      <3>1. ~Dead(x) BY <2>1, <2>3, Reached DEF Reachable
      <3> QED BY <3>1, <2>1, <1>05
    <2>4. CASE x # x0
      <3>1. O BY <2>2, <2>4 DEF O
      <3> QED BY <3>1, <2>1, <1>01, <1>04
    <2> QED BY <2>3, <2>4
  <1>3. ASSUME NEW p \in Procs, NEW x0 \in Low, Creates(p, x0) PROVE G
    <2>1. /\ UNCHANGED <<xino, dying>> /\ low[x0] = Free /\ proc[p] = Idle
          /\ \A y \in Low : y # x0 => low'[y] = low[y]
      BY <1>0, <1>3, CreateEffect DEF Creates, Becomes
    <2>2. \A q \in Procs : \A y : On(q, y)' <=> On(q, y) \/ (q = p /\ y = x0)
      BY <1>0, <1>3, <2>1, EnterEffect DEF Creates
    <2>3. CASE x = x0
      <3>1. ~Dead(x) BY <1>0, <2>1, <2>3, FreeAlone
      <3> QED BY <3>1, <2>1, <1>05
    <2>4. CASE x # x0
      <3>1. O BY <2>2, <2>4 DEF O
      <3> QED BY <3>1, <2>1, <2>4, <1>01, <1>04
    <2> QED BY <2>3, <2>4
  <1>4. ASSUME NEW p \in Procs, NewIno(p) PROVE G
    <2>1. /\ UNCHANGED <<low, xino, dying>> /\ proc[p].pc # "idle"
          /\ GoesOn(p, IF proc[p].kind = "ino" THEN "write" ELSE "iget", XinoNewIno(xib).ino)
      BY <1>0, <1>4, NewInoEffect
    <2>2. O BY <1>0, <2>1, GoesOnEffect DEF O
    <2> QED BY <2>1, <2>2, <1>01, <1>04
  <1>5. ASSUME NEW p \in Procs, Write(p) PROVE G
    <2>1. UNCHANGED <<low, dying>> /\ Ends(p) /\ xino' = [xino EXCEPT ![proc[p].x] = proc[p].ino]
      BY <1>0, <1>5, EntryWriteEffect
    <2>2. O BY <1>0, <2>1, EndsEffect DEF O
    <2>3. CASE x = proc[p].x
      <3>1. proc[p].ino = i BY <2>1, <2>3, <1>00, <1>03
      <3> QED BY <3>1, <2>3, <1>5 DEF G, Gets
    <2>4. CASE x # proc[p].x
      <3>1. xino'[x] = xino[x] BY <2>1, <2>4, <1>03
      <3> QED BY <3>1, <2>1, <2>2, <1>01, <1>04
    <2> QED BY <2>3, <2>4
  <1>6. ASSUME NEW p \in Procs, IgetNew(p) PROVE G
    <2>1. UNCHANGED <<low, xino, dying>> /\ GoesOn(p, "set", proc[p].ino) /\ proc[p].pc # "idle"
      BY <1>0, <1>6, IgetNewEffect DEF IgetNew
    <2>2. O BY <1>0, <2>1, GoesOnEffect DEF O
    <2> QED BY <2>1, <2>2, <1>01, <1>04
  <1>7. ASSUME NEW p \in Procs, IgetOld(p) PROVE G
    <2>1. UNCHANGED <<low, xino, dying>> /\ GoesOn(p, "reval", proc[p].ino) /\ proc[p].pc # "idle"
      BY <1>7, IgetOldEffect DEF IgetOld
    <2>2. O BY <1>0, <2>1, GoesOnEffect DEF O
    <2> QED BY <2>1, <2>2, <1>01, <1>04
  <1>8. ASSUME NEW p \in Procs, SetInode(p) PROVE G
    <2>1. UNCHANGED <<low, dying>> /\ Ends(p) /\ xino' = [xino EXCEPT ![proc[p].x] = proc[p].ino]
      BY <1>0, <1>8, SetInodeEffect
    <2>2. O BY <1>0, <2>1, EndsEffect DEF O
    <2>3. CASE x = proc[p].x
      <3>1. proc[p].ino = i BY <2>1, <2>3, <1>00, <1>03
      <3> QED BY <3>1, <2>3, <1>8 DEF G, Gets
    <2>4. CASE x # proc[p].x
      <3>1. xino'[x] = xino[x] BY <2>1, <2>4, <1>03
      <3> QED BY <3>1, <2>1, <2>2, <1>01, <1>04
    <2> QED BY <2>3, <2>4
  <1>9. ASSUME NEW p \in Procs, SetFails(p) PROVE G
    <2>1. UNCHANGED <<low, dying>> /\ Ends(p) /\ xino' = [xino EXCEPT ![proc[p].x] = 0]
      BY <1>0, <1>9, SetFailsEffect
    <2>2. O BY <1>0, <2>1, EndsEffect DEF O
    <2>3. x # proc[p].x BY <2>1, <1>00, <1>03
    <2>4. xino'[x] = xino[x] BY <2>1, <2>3, <1>03
    <2> QED BY <2>1, <2>2, <2>4, <1>01, <1>04
  <1>10. ASSUME NEW p \in Procs, RevalMatched(p) PROVE G
    <2>1. UNCHANGED <<low, xino, dying>> /\ Ends(p) BY <1>0, <1>10, RevalEffect
    <2>2. O BY <1>0, <2>1, EndsEffect DEF O
    <2> QED BY <2>1, <2>2, <1>01, <1>04
  <1>11. ASSUME NEW i0 \in Ino, Evict(i0) PROVE G
    <2>1. UNCHANGED <<low, xino, proc>> /\ \E e \in DyingType : dying' = dying \cup {e}
      BY <1>0, <1>11, EvictEffect
    <2>2. R BY <2>1 DEF R
    <2> QED BY <2>1, <2>2, <1>02, <1>04
  <1>12. ASSUME NEW e0 \in dying, XigenInc(e0) PROVE G
    <2>1. UNCHANGED <<low, xino, proc>> /\ e0.step = "gen" /\ Steps(e0, "bit")
      BY <1>0, <1>12, XigenIncEffect
    <2>2. R BY <2>1, StillRemoved DEF R
    <2> QED BY <2>1, <2>2, <1>02, <1>04
  <1>13. ASSUME NEW e0 \in dying, ClearBit(e0) PROVE G
    <2>1. UNCHANGED <<low, xino, proc>> /\ e0.step = "bit" /\ Steps(e0, "zero")
      BY <1>0, <1>13, ClearBitEffect
    <2>2. R BY <2>1, StillRemoved DEF R
    <2> QED BY <2>1, <2>2, <1>02, <1>04
  <1>14. ASSUME NEW e0 \in dying, Zero(e0) PROVE G
    <2>1. /\ UNCHANGED <<low, proc>> /\ e0.step = "zero" /\ Steps(e0, "put")
          /\ xino'[x] = xino[x] \/ xino'[x] = 0
          /\ x \in e0.at /\ e0.unlinked => xino'[x] = 0
      BY <1>0, <1>14, ZeroEffect DEF Zero
    <2>2. xino'[x] = xino[x] /\ ~(x \in e0.at /\ e0.unlinked) BY <2>1, <1>00
    <2>3. R
      <3>1. PICK f : dying' = (dying \ {e0}) \cup {f} BY <2>1 DEF Steps
      <3> QED BY <3>1, <2>2 DEF R, Removed
    <2> QED BY <2>1, <2>2, <2>3, <1>02, <1>04
  <1>15. ASSUME NEW e0 \in dying, Put(e0) PROVE G
    <2>1. /\ UNCHANGED <<xino, proc>> /\ e0.step = "put" /\ dying' = dying \ {e0}
          /\ low'[x].hid = low[x].hid
      BY <1>0, <1>15, PutEffect DEF Put
    <2>2. R BY <2>1 DEF R, Removed
    <2> QED BY <2>1, <2>2, <1>02, <1>04
  <1>16. ASSUME NEW i0 \in Ino, NEW x0 \in Low, NEW b0 \in Br, Unlink(i0, x0, b0) PROVE G
    <2>1. UNCHANGED <<xino, proc, dying>> BY <1>0, <1>16, UnlinkEffect
    <2>2. low[x].hid # {} => low'[x].hid # {}
      <3>1. \A y \in Low : y # x0 => low'[y] = low[y] BY <1>0, <1>16, UnlinkEffect DEF Becomes
      <3>2. low'[x0].hid = low[x0].hid \/ low'[x0].hid = low[x0].hid \cup {b0}
        BY <1>0, <1>16, UnlinkEffect DEF Becomes
      <3> QED BY <3>1, <3>2
    <2> QED BY <2>1, <2>2, <1>01, <1>02, <1>04
  <1>17. ASSUME NEW i0 \in Ino, NEW x0 \in Low, Link(i0, x0) PROVE G
    <2>1. UNCHANGED <<xino, proc, dying>> BY <1>0, <1>17, LinkEffect
    <2>2. low'[x].hid = low[x].hid BY <1>0, <1>17, LinkEffect DEF Becomes
    <2> QED BY <2>1, <2>2, <1>01, <1>02, <1>04
  <1>18. ASSUME NEW i0 \in Ino, NEW x0 \in Low, NEW y0 \in Low, NEW b0 \in Br,
               Copyup(i0, x0, y0, b0)
        PROVE G
    <2>1. /\ UNCHANGED <<proc, dying>> /\ xino' = [xino EXCEPT ![y0] = i0]
          /\ low'[x0].hid = low[x0].hid \cup {b0} /\ \A z \in Low : z # x0 /\ z # y0 => low'[z] = low[z]
      BY <1>0, <1>18, CopyupEffect
    <2>2. CASE x = y0
      <3>1. i0 = i BY <2>1, <2>2, <1>00, <1>03
      <3> QED BY <3>1, <2>2, <1>18 DEF G, Gets
    <2>3. CASE x # y0
      <3>1. xino'[x] = xino[x] BY <2>1, <2>3, <1>03
      <3>2. low[x].hid # {} => low'[x].hid # {} BY <2>1, <2>3
      <3> QED BY <3>1, <3>2, <2>1, <1>01, <1>02, <1>04
    <2> QED BY <2>2, <2>3
  <1>19. ASSUME NEW x0 \in Low, NEW b0 \in Br, DirectCreate(x0, b0) PROVE G
    <2>1. /\ UNCHANGED <<xino, proc, dying>> /\ low[x0] = Free
          /\ \A y \in Low : y # x0 => low'[y] = low[y]
      BY <1>0, <1>19, DirectCreateEffect DEF Becomes
    <2>2. CASE x = x0
      <3>1. ~Dead(x) BY <1>0, <2>1, <2>2, FreeAlone
      <3> QED BY <3>1, <2>1, <1>05
    <2>3. CASE x # x0 BY <2>1, <2>3, <1>01, <1>02, <1>04
    <2> QED BY <2>2, <2>3
  <1>20. ASSUME NEW x0 \in Low, NEW b0 \in Br, DirectRemove(x0, b0) PROVE G
    <2>1. UNCHANGED <<xino, proc, dying>> /\ low'[x].hid = low[x].hid
      BY <1>0, <1>20, DirectRemoveEffect
    <2> QED BY <2>1, <1>01, <1>02, <1>04
  <1>21. ASSUME NEW x0 \in Low, Unhide(x0) PROVE G
    <2>1. /\ UNCHANGED <<xino, proc, dying>> /\ xino[x0] = 0
          /\ \A y \in Low : y # x0 => low'[y] = low[y]
      BY <1>0, <1>21, UnhideEffect DEF Becomes
    <2>2. x # x0 BY <2>1, <1>00
    <2> QED BY <2>1, <2>2, <1>01, <1>02, <1>04
  <1>22. ASSUME XibTrunc PROVE G
    <2>1. UNCHANGED <<low, xino, proc, dying>> BY <1>0, <1>22, XibTruncEffect
    <2> QED BY <2>1, <1>01, <1>02, <1>04
  <1>23. ASSUME SetXino PROVE G
    <2>1. UNCHANGED <<low, xino, proc, dying>> BY <1>0, <1>23, SetXinoEffect
    <2> QED BY <2>1, <1>01, <1>02, <1>04
  <1>24. G
    BY <1>1, <1>2, <1>3, <1>4, <1>5, <1>6, <1>7, <1>8, <1>9, <1>10, <1>11, <1>12, <1>13, <1>14, <1>15,
       <1>16, <1>17, <1>18, <1>19, <1>20, <1>21, <1>22, <1>23, NextCases
  <1> QED BY <1>24 DEF G

LEMMA FreshKept ==
  ASSUME NEW q \in Procs, NEW i, Fresh(q, i)', proc'[q] = proc[q], xino'[proc[q].x] = xino[proc[q].x]
  PROVE  Fresh(q, i)
  BY DEF Fresh

LEMMA FreshStep ==
  ASSUME OwnFs, IInv, Next, ~misplaced', NEW q \in Procs, NEW i \in Ino, Fresh(q, i)'
  PROVE  Fresh(q, i) \/ (NewIno(q) /\ i = XinoNewIno(xib).ino)
  <1> DEFINE G == Fresh(q, i) \/ (NewIno(q) /\ i = XinoNewIno(xib).ino)
  <1>0. TypeOK /\ ProcsOK /\ LowsOK BY DEF IInv
  <1>00. proc'[q].pc \in {"iget", "write"} /\ proc'[q].ino = i /\ xino'[proc'[q].x] = 0 BY DEF Fresh
  <1>01. xino \in [Low -> 0 .. MaxIno] BY <1>0 DEF TypeOK
  <1>02. proc'[q] = proc[q] /\ xino'[proc[q].x] = xino[proc[q].x] => G BY FreshKept
  <1>03. proc'[q] = proc[q] => proc[q].pc # "idle" /\ proc[q].pc # "reval" /\ proc[q].x \in Low
    BY <1>0, <1>00, Tasks
  <1> HIDE DEF G
  <1>1. ASSUME vars' = vars PROVE G BY <1>1, <1>02 DEF vars
  <1>2. ASSUME NEW p \in Procs, NEW x0 \in Low, NEW b0 \in Br, NEW k0 \in {"inode", "ino"},
               Starts(p, x0, b0, k0)
        PROVE G
    <2>1. /\ xino' = xino /\ \A r \in Procs : r # p => proc'[r] = proc[r]
          /\ proc'[p].x = x0
          /\ proc'[p].pc = "newino" \/ xino[x0] # 0
      BY <1>0, <1>2, EnterEffect DEF Starts
    <2>2. q # p BY <2>1, <1>00
    <2> QED BY <2>1, <2>2, <1>02
  <1>3. ASSUME NEW p \in Procs, NEW x0 \in Low, Creates(p, x0) PROVE G
    <2>1. xino' = xino /\ proc[p] = Idle BY <1>0, <1>3, CreateEffect DEF Creates
    <2>2. /\ \A r \in Procs : r # p => proc'[r] = proc[r]
          /\ proc'[p].x = x0
          /\ proc'[p].pc = "newino" \/ xino[x0] # 0
      BY <1>0, <1>3, <2>1, EnterEffect DEF Creates
    <2>3. q # p BY <2>1, <2>2, <1>00
    <2> QED BY <2>1, <2>2, <2>3, <1>02
  <1>4. ASSUME NEW p \in Procs, NewIno(p) PROVE G
    <2>1. /\ xino' = xino /\ proc[p].pc # "idle"
          /\ GoesOn(p, IF proc[p].kind = "ino" THEN "write" ELSE "iget", XinoNewIno(xib).ino)
      BY <1>0, <1>4, NewInoEffect
    <2>2. /\ \A r \in Procs : r # p => proc'[r] = proc[r]
          /\ proc'[p].ino = XinoNewIno(xib).ino
      BY <1>0, <2>1, GoesOnEffect
    <2>3. CASE q = p BY <2>2, <2>3, <1>4, <1>00 DEF G
    <2>4. CASE q # p BY <2>1, <2>2, <2>4, <1>02
    <2> QED BY <2>3, <2>4
  <1>5. ASSUME NEW p \in Procs, Write(p) PROVE G
    <2>1. /\ Ends(p) /\ xino' = [xino EXCEPT ![proc[p].x] = proc[p].ino] /\ proc[p].ino \in Ino
      BY <1>0, <1>5, EntryWriteEffect
    <2>2. proc'[p].pc = "idle" /\ \A r \in Procs : r # p => proc'[r] = proc[r] BY <1>0, <2>1, EndsEffect
    <2>3. proc'[q] = proc[q] BY <2>2, <1>00
    <2>4. proc[q].x # proc[p].x BY <2>1, <2>3, <1>00, <1>01, <1>03, InoNumber
    <2> QED BY <2>1, <2>3, <2>4, <1>01, <1>02, <1>03
  <1>6. ASSUME NEW p \in Procs, IgetNew(p) PROVE G
    <2>1. xino' = xino /\ GoesOn(p, "set", proc[p].ino) /\ proc[p].pc # "idle"
      BY <1>0, <1>6, IgetNewEffect DEF IgetNew
    <2>2. proc'[p].pc = "set" /\ \A r \in Procs : r # p => proc'[r] = proc[r] BY <1>0, <2>1, GoesOnEffect
    <2> QED BY <2>1, <2>2, <1>00, <1>02
  <1>7. ASSUME NEW p \in Procs, IgetOld(p) PROVE G
    <2>1. xino' = xino /\ GoesOn(p, "reval", proc[p].ino) /\ proc[p].pc # "idle"
      BY <1>7, IgetOldEffect DEF IgetOld
    <2>2. proc'[p].pc = "reval" /\ \A r \in Procs : r # p => proc'[r] = proc[r] BY <1>0, <2>1, GoesOnEffect
    <2> QED BY <2>1, <2>2, <1>00, <1>02
  <1>8. ASSUME NEW p \in Procs, SetInode(p) PROVE G
    <2>1. /\ Ends(p) /\ xino' = [xino EXCEPT ![proc[p].x] = proc[p].ino] /\ proc[p].ino \in Ino
      BY <1>0, <1>8, SetInodeEffect
    <2>2. proc'[p].pc = "idle" /\ \A r \in Procs : r # p => proc'[r] = proc[r] BY <1>0, <2>1, EndsEffect
    <2>3. proc'[q] = proc[q] BY <2>2, <1>00
    <2>4. proc[q].x # proc[p].x BY <2>1, <2>3, <1>00, <1>01, <1>03, InoNumber
    <2> QED BY <2>1, <2>3, <2>4, <1>01, <1>02, <1>03
  <1>9. ASSUME NEW p \in Procs, SetFails(p) PROVE G
    <2>1. /\ Ends(p) /\ xino' = [xino EXCEPT ![proc[p].x] = 0] /\ proc[p].pc = "set"
      BY <1>0, <1>9, SetFailsEffect
    <2>2. proc'[p].pc = "idle" /\ \A r \in Procs : r # p => proc'[r] = proc[r] BY <1>0, <2>1, EndsEffect
    <2>3. q # p /\ proc'[q] = proc[q] BY <2>2, <1>00
    <2>4. proc[q].x # proc[p].x BY <2>1, <2>3, <1>03, Mutex
    <2> QED BY <2>1, <2>3, <2>4, <1>01, <1>02, <1>03
  <1>10. ASSUME NEW p \in Procs, RevalMatched(p) PROVE G
    <2>1. xino' = xino /\ Ends(p) BY <1>0, <1>10, RevalEffect
    <2>2. proc'[p].pc = "idle" /\ \A r \in Procs : r # p => proc'[r] = proc[r] BY <1>0, <2>1, EndsEffect
    <2> QED BY <2>1, <2>2, <1>00, <1>02
  <1>11. ASSUME NEW i0 \in Ino, Evict(i0) PROVE G BY <1>0, <1>11, <1>02, EvictEffect
  <1>12. ASSUME NEW e0 \in dying, XigenInc(e0) PROVE G BY <1>0, <1>12, <1>02, XigenIncEffect
  <1>13. ASSUME NEW e0 \in dying, ClearBit(e0) PROVE G BY <1>0, <1>13, <1>02, ClearBitEffect
  <1>14. ASSUME NEW e0 \in dying, Zero(e0) PROVE G
    <2>1. /\ proc' = proc /\ e0.step = "zero"
          /\ \A x \in Low : xino'[x] = xino[x] \/ (x \in e0.at /\ (e0.unlinked \/ ~Named(x)))
      BY <1>0, <1>14, ZeroEffect DEF Zero
    <2>2. proc[q].pc # "idle" /\ proc[q].x \in Low BY <2>1, <1>03
    <2>3. Named(proc[q].x) /\ (Removed(e0) => proc[q].x \notin e0.at) BY <2>2, TaskFacts
    <2>4. xino'[proc[q].x] = xino[proc[q].x] BY <2>1, <2>2, <2>3 DEF Removed
    <2> QED BY <2>1, <2>4, <1>02
  <1>15. ASSUME NEW e0 \in dying, Put(e0) PROVE G BY <1>0, <1>15, <1>02, PutEffect DEF Put
  <1>16. ASSUME NEW i0 \in Ino, NEW x0 \in Low, NEW b0 \in Br, Unlink(i0, x0, b0)
        PROVE G BY <1>0, <1>16, <1>02, UnlinkEffect
  <1>17. ASSUME NEW i0 \in Ino, NEW x0 \in Low, Link(i0, x0)
        PROVE G BY <1>0, <1>17, <1>02, LinkEffect
  <1>18. ASSUME NEW i0 \in Ino, NEW x0 \in Low, NEW y0 \in Low, NEW b0 \in Br,
               Copyup(i0, x0, y0, b0)
        PROVE G
    <2>1. proc' = proc /\ xino' = [xino EXCEPT ![y0] = i0] BY <1>0, <1>18, CopyupEffect
    <2>2. proc[q].x # y0 BY <2>1, <1>00, <1>01, <1>03, InoNumber
    <2> QED BY <2>1, <2>2, <1>01, <1>02, <1>03
  <1>19. ASSUME NEW x0 \in Low, NEW b0 \in Br, DirectCreate(x0, b0)
        PROVE G BY <1>0, <1>19, <1>02, DirectCreateEffect
  <1>20. ASSUME NEW x0 \in Low, NEW b0 \in Br, DirectRemove(x0, b0)
        PROVE G BY <1>0, <1>20, <1>02, DirectRemoveEffect
  <1>21. ASSUME NEW x0 \in Low, Unhide(x0) PROVE G BY <1>0, <1>21, <1>02, UnhideEffect
  <1>22. ASSUME XibTrunc PROVE G BY <1>0, <1>22, <1>02, XibTruncEffect
  <1>23. ASSUME SetXino PROVE G BY <1>0, <1>23, <1>02, SetXinoEffect
  <1>24. G
    BY <1>1, <1>2, <1>3, <1>4, <1>5, <1>6, <1>7, <1>8, <1>9, <1>10, <1>11, <1>12, <1>13, <1>14, <1>15,
       <1>16, <1>17, <1>18, <1>19, <1>20, <1>21, <1>22, <1>23, NextCases
  <1> QED BY <1>24 DEF G

(* An inode that is in the cache after the step is a new one or was there. *)
Sets(i) ==
  \/ \E p \in Procs : SetInode(p) /\ proc[p].ino = i
  \/ \E x, y \in Low, b \in Br : Copyup(i, x, y, b)
Stays(i) ==
  /\ Hashed(i) /\ icache'[i].gen = icache[i].gen
  /\ \/ Sets(i) /\ ~icache'[i].new
     \/ icache'[i].new = icache[i].new /\ icache'[i].at = icache[i].at

LEMMA SameInode ==
  ASSUME NEW i \in Ino, Hashed(i)', icache'[i] = icache[i]
  PROVE  Stays(i)
  BY DEF Stays, Hashed

LEMMA InodeStep ==
  ASSUME OwnFs, IInv, Next, ~misplaced', NEW i \in Ino, Hashed(i)'
  PROVE  Stays(i) \/ \E p \in Procs : IgetNew(p) /\ proc[p].ino = i
  <1> DEFINE G == Stays(i) \/ \E p \in Procs : IgetNew(p) /\ proc[p].ino = i
  <1>0. TypeOK /\ ProcsOK /\ LowsOK BY DEF IInv
  <1>00. icache'[i] = icache[i] => G BY SameInode
  <1> HIDE DEF G
  <1>1. ASSUME vars' = vars PROVE G BY <1>1, <1>00 DEF vars
  <1>2. ASSUME NEW p \in Procs, NEW x0 \in Low, NEW b0 \in Br, NEW k0 \in {"inode", "ino"},
               Starts(p, x0, b0, k0)
        PROVE G BY <1>2, <1>00 DEF Starts
  <1>3. ASSUME NEW p \in Procs, NEW x0 \in Low, Creates(p, x0)
        PROVE G BY <1>0, <1>3, <1>00, CreateEffect DEF Creates
  <1>4. ASSUME NEW p \in Procs, NewIno(p) PROVE G BY <1>0, <1>4, <1>00, NewInoEffect
  <1>5. ASSUME NEW p \in Procs, Write(p) PROVE G BY <1>0, <1>5, <1>00, EntryWriteEffect
  <1>6. ASSUME NEW p \in Procs, IgetNew(p) PROVE G
    <2>1. CASE i = proc[p].ino BY <1>6, <2>1 DEF G
    <2>2. CASE i # proc[p].ino BY <1>0, <1>6, <2>2, <1>00, IgetNewEffect DEF IgetNew
    <2> QED BY <2>1, <2>2
  <1>7. ASSUME NEW p \in Procs, IgetOld(p) PROVE G
    <2>1. /\ proc[p].ino \in Ino /\ icache' = [icache EXCEPT ![proc[p].ino].users = @ \cup {p}]
          /\ Hashed(proc[p].ino)
      BY <1>7, IgetOldEffect DEF IgetOld
    <2>2. icache[proc[p].ino].users \cup {p} \in SUBSET Procs BY <1>0, <2>1, Inodes
    <2>3. CASE i = proc[p].ino
      <3>1. Stays(i) BY <1>0, <2>1, <2>2, <2>3, UsersEffect DEF Stays
      <3> QED BY <3>1 DEF G
    <2>4. CASE i # proc[p].ino BY <1>0, <2>1, <2>2, <2>4, <1>00, UsersEffect
    <2> QED BY <2>3, <2>4
  <1>8. ASSUME NEW p \in Procs, SetInode(p) PROVE G
    <2>1. CASE i = proc[p].ino
      <3>1. Hashed(i) /\ icache'[i].gen = icache[i].gen /\ ~icache'[i].new
        BY <1>0, <1>8, <2>1, SetInodeEffect
      <3>2. Sets(i) BY <1>8, <2>1 DEF Sets
      <3> QED BY <3>1, <3>2 DEF G, Stays
    <2>2. CASE i # proc[p].ino BY <1>0, <1>8, <2>2, <1>00, SetInodeEffect
    <2> QED BY <2>1, <2>2
  <1>9. ASSUME NEW p \in Procs, SetFails(p) PROVE G
    <2>1. icache'[proc[p].ino] = NoInode /\ \A j \in Ino : j # proc[p].ino => icache'[j] = icache[j]
      BY <1>0, <1>9, SetFailsEffect
    <2>2. i # proc[p].ino BY <2>1 DEF Hashed
    <2> QED BY <2>1, <2>2, <1>00
  <1>10. ASSUME NEW p \in Procs, RevalMatched(p) PROVE G
    <2>1. /\ proc[p].ino \in Ino /\ proc[p].pc = "reval"
          /\ icache' = [icache EXCEPT ![proc[p].ino].users = icache[proc[p].ino].users \ {p}]
      BY <1>0, <1>10, RevalEffect
    <2>2. icache[proc[p].ino].users \ {p} \in SUBSET Procs BY <1>0, <2>1, Inodes
    <2>3. CASE i = proc[p].ino
      <3>1. p \in icache[i].users BY <1>0, <2>1, <2>3 DEF ProcsOK, ProcOK
      <3>2. Hashed(i) BY <1>0, <3>1, Inodes
      <3>3. /\ icache'[i].gen = icache[i].gen /\ icache'[i].new = icache[i].new
            /\ icache'[i].at = icache[i].at
        BY <1>0, <2>1, <2>2, <2>3, UsersEffect
      <3>4. Stays(i) BY <3>2, <3>3 DEF Stays
      <3> QED BY <3>4 DEF G
    <2>4. CASE i # proc[p].ino BY <1>0, <2>1, <2>2, <2>4, <1>00, UsersEffect
    <2> QED BY <2>3, <2>4
  <1>11. ASSUME NEW i0 \in Ino, Evict(i0) PROVE G
    <2>1. icache'[i0] = NoInode /\ \A j \in Ino : j # i0 => icache'[j] = icache[j]
      BY <1>0, <1>11, EvictEffect
    <2>2. i # i0 BY <2>1 DEF Hashed
    <2> QED BY <2>1, <2>2, <1>00
  <1>12. ASSUME NEW e0 \in dying, XigenInc(e0) PROVE G BY <1>0, <1>12, <1>00, XigenIncEffect
  <1>13. ASSUME NEW e0 \in dying, ClearBit(e0) PROVE G BY <1>0, <1>13, <1>00, ClearBitEffect
  <1>14. ASSUME NEW e0 \in dying, Zero(e0) PROVE G BY <1>0, <1>14, <1>00, ZeroEffect DEF Zero
  <1>15. ASSUME NEW e0 \in dying, Put(e0) PROVE G BY <1>0, <1>15, <1>00, PutEffect DEF Put
  <1>16. ASSUME NEW i0 \in Ino, NEW x0 \in Low, NEW b0 \in Br, Unlink(i0, x0, b0) PROVE G
    <2>1. /\ Plain(i0) /\ icache[i0].nlink - 1 \in Nat
          /\ icache' = [icache EXCEPT ![i0].nlink = icache[i0].nlink - 1]
      BY <1>0, <1>16, UnlinkEffect
    <2>2. CASE i = i0
      <3>1. Stays(i) BY <1>0, <2>1, <2>2, LinksEffect DEF Stays, Plain
      <3> QED BY <3>1 DEF G
    <2>3. CASE i # i0 BY <1>0, <2>1, <2>3, <1>00, LinksEffect
    <2> QED BY <2>2, <2>3
  <1>17. ASSUME NEW i0 \in Ino, NEW x0 \in Low, Link(i0, x0) PROVE G
    <2>1. /\ Plain(i0) /\ icache[i0].nlink + 1 \in Nat
          /\ icache' = [icache EXCEPT ![i0].nlink = icache[i0].nlink + 1]
      BY <1>0, <1>17, LinkEffect
    <2>2. CASE i = i0
      <3>1. Stays(i) BY <1>0, <2>1, <2>2, LinksEffect DEF Stays, Plain
      <3> QED BY <3>1 DEF G
    <2>3. CASE i # i0 BY <1>0, <2>1, <2>3, <1>00, LinksEffect
    <2> QED BY <2>2, <2>3
  <1>18. ASSUME NEW i0 \in Ino, NEW x0 \in Low, NEW y0 \in Low, NEW b0 \in Br,
               Copyup(i0, x0, y0, b0)
        PROVE G
    <2>1. Plain(i0) /\ icache' = [icache EXCEPT ![i0].at = icache[i0].at \cup {y0}]
      BY <1>0, <1>18, CopyupEffect
    <2>2. icache[i0].at \cup {y0} \in SUBSET Low BY <1>0, Inodes
    <2>3. CASE i = i0
      <3>1. Sets(i) BY <1>18, <2>3 DEF Sets
      <3>2. Stays(i) BY <1>0, <2>1, <2>2, <2>3, <3>1, LowsEffect DEF Stays, Plain
      <3> QED BY <3>2 DEF G
    <2>4. CASE i # i0 BY <1>0, <2>1, <2>2, <2>4, <1>00, LowsEffect
    <2> QED BY <2>3, <2>4
  <1>19. ASSUME NEW x0 \in Low, NEW b0 \in Br, DirectCreate(x0, b0)
        PROVE G BY <1>0, <1>19, <1>00, DirectCreateEffect
  <1>20. ASSUME NEW x0 \in Low, NEW b0 \in Br, DirectRemove(x0, b0)
        PROVE G BY <1>0, <1>20, <1>00, DirectRemoveEffect
  <1>21. ASSUME NEW x0 \in Low, Unhide(x0) PROVE G BY <1>0, <1>21, <1>00, UnhideEffect
  <1>22. ASSUME XibTrunc PROVE G BY <1>0, <1>22, <1>00, XibTruncEffect
  <1>23. ASSUME SetXino PROVE G BY <1>0, <1>23, <1>00, SetXinoEffect
  <1>24. G
    BY <1>1, <1>2, <1>3, <1>4, <1>5, <1>6, <1>7, <1>8, <1>9, <1>10, <1>11, <1>12, <1>13, <1>14, <1>15,
       <1>16, <1>17, <1>18, <1>19, <1>20, <1>21, <1>22, <1>23, NextCases
  <1> QED BY <1>24 DEF G

(* A number that is on its way to be free, its generation, its bit.        *)
LEMMA EndingStep ==
  ASSUME OwnFs, IInv, Next, ~misplaced', NEW f \in dying', NEW i \in Ino, Ending(f, i)
  PROVE  \/ f \in dying
         \/ Evict(i) /\ Destroyed(f, i) /\ icache[i].nlink = 0
         \/ \E e \in dying : XigenInc(e) /\ e.ino = i /\ e.at = f.at /\ e.unlinked = f.unlinked /\ f.step = "bit"
  <1> DEFINE G == \/ f \in dying
                  \/ Evict(i) /\ Destroyed(f, i) /\ icache[i].nlink = 0
                  \/ \E e \in dying : /\ XigenInc(e) /\ e.ino = i /\ e.at = f.at /\ e.unlinked = f.unlinked
                                      /\ f.step = "bit"
  <1>0. TypeOK /\ ProcsOK /\ LowsOK BY DEF IInv
  <1>00. f.ino = i /\ f.step \in {"gen", "bit"} BY DEF Ending
  <1>01. dying' = dying => G OBVIOUS
  <1>02. f \in dying => G OBVIOUS
  <1> HIDE DEF G
  <1>1. ASSUME vars' = vars PROVE G BY <1>1, <1>01 DEF vars
  <1>2. ASSUME NEW p \in Procs, NEW x0 \in Low, NEW b0 \in Br, NEW k0 \in {"inode", "ino"},
               Starts(p, x0, b0, k0)
        PROVE G BY <1>2, <1>01 DEF Starts
  <1>3. ASSUME NEW p \in Procs, NEW x0 \in Low, Creates(p, x0)
        PROVE G BY <1>0, <1>3, <1>01, CreateEffect DEF Creates
  <1>4. ASSUME NEW p \in Procs, NewIno(p) PROVE G BY <1>0, <1>4, <1>01, NewInoEffect
  <1>5. ASSUME NEW p \in Procs, Write(p) PROVE G BY <1>0, <1>5, <1>01, EntryWriteEffect
  <1>6. ASSUME NEW p \in Procs, IgetNew(p) PROVE G BY <1>0, <1>6, <1>01, IgetNewEffect DEF IgetNew
  <1>7. ASSUME NEW p \in Procs, IgetOld(p) PROVE G BY <1>0, <1>7, <1>01, IgetOldEffect DEF IgetOld
  <1>8. ASSUME NEW p \in Procs, SetInode(p) PROVE G BY <1>0, <1>8, <1>01, SetInodeEffect
  <1>9. ASSUME NEW p \in Procs, SetFails(p) PROVE G BY <1>0, <1>9, <1>01, SetFailsEffect
  <1>10. ASSUME NEW p \in Procs, RevalMatched(p) PROVE G BY <1>0, <1>10, <1>01, RevalEffect
  <1>11. ASSUME NEW i0 \in Ino, Evict(i0) PROVE G
    <2>1. PICK e \in DyingType : Destroyed(e, i0) /\ dying' = dying \cup {e} BY <1>0, <1>11, EvictEffect
    <2>2. CASE f = e
      <3>1. i0 = i /\ icache[i].nlink = 0 BY <2>1, <2>2, <1>00 DEF Destroyed
      <3> QED BY <3>1, <2>1, <2>2, <1>11 DEF G
    <2>3. CASE f # e BY <2>1, <2>3, <1>02
    <2> QED BY <2>2, <2>3
  <1>12. ASSUME NEW e0 \in dying, XigenInc(e0) PROVE G
    <2>1. Steps(e0, "bit") BY <1>0, <1>12, XigenIncEffect
    <2>2. PICK g \in DyingType : /\ g.ino = e0.ino /\ g.at = e0.at /\ g.unlinked = e0.unlinked /\ g.step = "bit"
                                 /\ dying' = (dying \ {e0}) \cup {g}
      BY <2>1 DEF Steps
    <2>3. CASE f = g BY <2>2, <2>3, <1>12, <1>00 DEF G
    <2>4. CASE f # g BY <2>2, <2>4, <1>02
    <2> QED BY <2>3, <2>4
  <1>13. ASSUME NEW e0 \in dying, ClearBit(e0) PROVE G
    <2>1. Steps(e0, "zero") BY <1>0, <1>13, ClearBitEffect
    <2>2. PICK g \in DyingType : g.step = "zero" /\ dying' = (dying \ {e0}) \cup {g} BY <2>1 DEF Steps
    <2> QED BY <2>2, <1>00, <1>02
  <1>14. ASSUME NEW e0 \in dying, Zero(e0) PROVE G
    <2>1. Steps(e0, "put") BY <1>0, <1>14, ZeroEffect DEF Zero
    <2>2. PICK g \in DyingType : g.step = "put" /\ dying' = (dying \ {e0}) \cup {g} BY <2>1 DEF Steps
    <2> QED BY <2>2, <1>00, <1>02
  <1>15. ASSUME NEW e0 \in dying, Put(e0) PROVE G
    <2>1. dying' = dying \ {e0} BY <1>0, <1>15, PutEffect DEF Put
    <2> QED BY <2>1, <1>02
  <1>16. ASSUME NEW i0 \in Ino, NEW x0 \in Low, NEW b0 \in Br, Unlink(i0, x0, b0)
        PROVE G BY <1>0, <1>16, <1>01, UnlinkEffect
  <1>17. ASSUME NEW i0 \in Ino, NEW x0 \in Low, Link(i0, x0)
        PROVE G BY <1>0, <1>17, <1>01, LinkEffect
  <1>18. ASSUME NEW i0 \in Ino, NEW x0 \in Low, NEW y0 \in Low, NEW b0 \in Br,
               Copyup(i0, x0, y0, b0)
        PROVE G BY <1>0, <1>18, <1>01, CopyupEffect
  <1>19. ASSUME NEW x0 \in Low, NEW b0 \in Br, DirectCreate(x0, b0)
        PROVE G BY <1>0, <1>19, <1>01, DirectCreateEffect
  <1>20. ASSUME NEW x0 \in Low, NEW b0 \in Br, DirectRemove(x0, b0)
        PROVE G BY <1>0, <1>20, <1>01, DirectRemoveEffect
  <1>21. ASSUME NEW x0 \in Low, Unhide(x0) PROVE G BY <1>0, <1>21, <1>01, UnhideEffect
  <1>22. ASSUME XibTrunc PROVE G BY <1>0, <1>22, <1>01, XibTruncEffect
  <1>23. ASSUME SetXino PROVE G BY <1>0, <1>23, <1>01, SetXinoEffect
  <1>24. G
    BY <1>1, <1>2, <1>3, <1>4, <1>5, <1>6, <1>7, <1>8, <1>9, <1>10, <1>11, <1>12, <1>13, <1>14, <1>15,
       <1>16, <1>17, <1>18, <1>19, <1>20, <1>21, <1>22, <1>23, NextCases
  <1> QED BY <1>24 DEF G

LEMMA StepsAway ==
  ASSUME TypeOK, NEW f \in dying, f \in dying'
  PROVE  ~(XigenInc(f) \/ ClearBit(f))
  <1> SUFFICES ASSUME XigenInc(f) \/ ClearBit(f) PROVE FALSE OBVIOUS
  <1>1. PICK s \in {"bit", "zero"} : Steps(f, s) /\ f.step # s BY XigenIncEffect, ClearBitEffect
  <1>2. PICK g \in DyingType : g.step = s /\ dying' = (dying \ {f}) \cup {g} BY <1>1 DEF Steps
  <1> QED BY <1>1, <1>2

LEMMA RestStep ==
  ASSUME OwnFs, IInv, Next, ~misplaced'
  PROVE  /\ xigen' = xigen \/ \E e \in dying : XigenInc(e)
         /\ gone' = gone \/ \E i \in Ino : Evict(i)
         /\ \A e \in dying : e.step = "gen" => e \in dying' \/ XigenInc(e)
  <1> DEFINE G == /\ xigen' = xigen \/ \E e \in dying : XigenInc(e)
                  /\ gone' = gone \/ \E i \in Ino : Evict(i)
                  /\ \A e \in dying : e.step = "gen" => e \in dying' \/ XigenInc(e)
  <1>0. TypeOK /\ ProcsOK /\ LowsOK BY DEF IInv
  <1>01. xigen' = xigen /\ gone' = gone /\ dying' = dying => G OBVIOUS
  <1> HIDE DEF G
  <1>1. ASSUME vars' = vars PROVE G BY <1>1, <1>01 DEF vars
  <1>2. ASSUME NEW p \in Procs, NEW x0 \in Low, NEW b0 \in Br, NEW k0 \in {"inode", "ino"},
               Starts(p, x0, b0, k0)
        PROVE G BY <1>2, <1>01 DEF Starts
  <1>3. ASSUME NEW p \in Procs, NEW x0 \in Low, Creates(p, x0)
        PROVE G BY <1>0, <1>3, <1>01, CreateEffect DEF Creates
  <1>4. ASSUME NEW p \in Procs, NewIno(p) PROVE G BY <1>0, <1>4, <1>01, NewInoEffect
  <1>5. ASSUME NEW p \in Procs, Write(p) PROVE G BY <1>0, <1>5, <1>01, EntryWriteEffect
  <1>6. ASSUME NEW p \in Procs, IgetNew(p) PROVE G BY <1>0, <1>6, <1>01, IgetNewEffect DEF IgetNew
  <1>7. ASSUME NEW p \in Procs, IgetOld(p) PROVE G BY <1>0, <1>7, <1>01, IgetOldEffect DEF IgetOld
  <1>8. ASSUME NEW p \in Procs, SetInode(p) PROVE G BY <1>0, <1>8, <1>01, SetInodeEffect
  <1>9. ASSUME NEW p \in Procs, SetFails(p) PROVE G BY <1>0, <1>9, <1>01, SetFailsEffect
  <1>10. ASSUME NEW p \in Procs, RevalMatched(p) PROVE G BY <1>0, <1>10, <1>01, RevalEffect
  <1>11. ASSUME NEW i0 \in Ino, Evict(i0) PROVE G
    <2>1. xigen' = xigen /\ \E e \in DyingType : dying' = dying \cup {e} BY <1>0, <1>11, EvictEffect
    <2> QED BY <2>1, <1>11 DEF G
  <1>12. ASSUME NEW e0 \in dying, XigenInc(e0) PROVE G
    <2>1. gone' = gone /\ Steps(e0, "bit") BY <1>0, <1>12, XigenIncEffect
    <2> QED BY <2>1, <1>12 DEF G, Steps
  <1>13. ASSUME NEW e0 \in dying, ClearBit(e0) PROVE G
    <2>1. xigen' = xigen /\ gone' = gone /\ e0.step = "bit" /\ Steps(e0, "zero")
      BY <1>0, <1>13, ClearBitEffect
    <2> QED BY <2>1 DEF G, Steps
  <1>14. ASSUME NEW e0 \in dying, Zero(e0) PROVE G
    <2>1. xigen' = xigen /\ gone' = gone /\ e0.step = "zero" /\ Steps(e0, "put")
      BY <1>0, <1>14, ZeroEffect DEF Zero
    <2> QED BY <2>1 DEF G, Steps
  <1>15. ASSUME NEW e0 \in dying, Put(e0) PROVE G
    <2>1. xigen' = xigen /\ gone' = gone /\ e0.step = "put" /\ dying' = dying \ {e0}
      BY <1>0, <1>15, PutEffect DEF Put
    <2> QED BY <2>1 DEF G
  <1>16. ASSUME NEW i0 \in Ino, NEW x0 \in Low, NEW b0 \in Br, Unlink(i0, x0, b0)
        PROVE G BY <1>0, <1>16, <1>01, UnlinkEffect
  <1>17. ASSUME NEW i0 \in Ino, NEW x0 \in Low, Link(i0, x0)
        PROVE G BY <1>0, <1>17, <1>01, LinkEffect
  <1>18. ASSUME NEW i0 \in Ino, NEW x0 \in Low, NEW y0 \in Low, NEW b0 \in Br,
               Copyup(i0, x0, y0, b0)
        PROVE G BY <1>0, <1>18, <1>01, CopyupEffect
  <1>19. ASSUME NEW x0 \in Low, NEW b0 \in Br, DirectCreate(x0, b0)
        PROVE G BY <1>0, <1>19, <1>01, DirectCreateEffect
  <1>20. ASSUME NEW x0 \in Low, NEW b0 \in Br, DirectRemove(x0, b0)
        PROVE G BY <1>0, <1>20, <1>01, DirectRemoveEffect
  <1>21. ASSUME NEW x0 \in Low, Unhide(x0) PROVE G BY <1>0, <1>21, <1>01, UnhideEffect
  <1>22. ASSUME XibTrunc PROVE G BY <1>0, <1>22, <1>01, XibTruncEffect
  <1>23. ASSUME SetXino PROVE G BY <1>0, <1>23, <1>01, SetXinoEffect
  <1>24. G
    BY <1>1, <1>2, <1>3, <1>4, <1>5, <1>6, <1>7, <1>8, <1>9, <1>10, <1>11, <1>12, <1>13, <1>14, <1>15,
       <1>16, <1>17, <1>18, <1>19, <1>20, <1>21, <1>22, <1>23, NextCases
  <1> QED BY <1>24 DEF G

(* Nobody but the task itself moves it.                                    *)
LEMMA TaskStep ==
  ASSUME OwnFs, IInv, Next, ~misplaced', NEW q \in Procs
  PROVE  \/ proc'[q] = proc[q]
         \/ \E x \in Low, b \in Br, k \in {"inode", "ino"} : Starts(q, x, b, k)
         \/ \E x \in Low : Creates(q, x)
         \/ NewIno(q) \/ Write(q) \/ IgetNew(q) \/ IgetOld(q) \/ SetInode(q) \/ SetFails(q)
         \/ RevalMatched(q)
  <1> DEFINE G == \/ proc'[q] = proc[q]
                  \/ \E x \in Low, b \in Br, k \in {"inode", "ino"} : Starts(q, x, b, k)
                  \/ \E x \in Low : Creates(q, x)
                  \/ NewIno(q) \/ Write(q) \/ IgetNew(q) \/ IgetOld(q) \/ SetInode(q) \/ SetFails(q)
                  \/ RevalMatched(q)
  <1>0. TypeOK /\ ProcsOK /\ LowsOK BY DEF IInv
  <1>01. proc' = proc => G OBVIOUS
  <1>02. proc'[q] = proc[q] => G OBVIOUS
  <1> HIDE DEF G
  <1>1. ASSUME vars' = vars PROVE G BY <1>1, <1>01 DEF vars
  <1>2. ASSUME NEW p \in Procs, NEW x0 \in Low, NEW b0 \in Br, NEW k0 \in {"inode", "ino"},
               Starts(p, x0, b0, k0)
        PROVE G
    <2>1. CASE p = q BY <1>2, <2>1 DEF G
    <2>2. CASE p # q
      <3>1. proc'[q] = proc[q] BY <1>0, <1>2, <2>2, EnterEffect DEF Starts
      <3> QED BY <3>1, <1>02
    <2> QED BY <2>1, <2>2
  <1>3. ASSUME NEW p \in Procs, NEW x0 \in Low, Creates(p, x0) PROVE G
    <2>1. CASE p = q BY <1>3, <2>1 DEF G
    <2>2. CASE p # q
      <3>0. proc[p] = Idle BY <1>0, <1>3, CreateEffect DEF Creates
      <3>1. proc'[q] = proc[q] BY <1>0, <1>3, <2>2, <3>0, EnterEffect DEF Creates
      <3> QED BY <3>1, <1>02
    <2> QED BY <2>1, <2>2
  <1>4. ASSUME NEW p \in Procs, NewIno(p) PROVE G
    <2>1. CASE p = q BY <1>4, <2>1 DEF G
    <2>2. CASE p # q
      <3>1. proc[p].pc # "idle" /\ \E pc1, i : GoesOn(p, pc1, i) BY <1>0, <1>4, NewInoEffect
      <3>2. proc'[q] = proc[q] BY <1>0, <2>2, <3>1, GoesOnEffect
      <3> QED BY <3>2, <1>02
    <2> QED BY <2>1, <2>2
  <1>5. ASSUME NEW p \in Procs, Write(p) PROVE G
    <2>1. CASE p = q BY <1>5, <2>1 DEF G
    <2>2. CASE p # q
      <3>1. Ends(p) BY <1>0, <1>5, EntryWriteEffect
      <3>2. proc'[q] = proc[q] BY <1>0, <2>2, <3>1, EndsEffect
      <3> QED BY <3>2, <1>02
    <2> QED BY <2>1, <2>2
  <1>6. ASSUME NEW p \in Procs, IgetNew(p) PROVE G
    <2>1. CASE p = q BY <1>6, <2>1 DEF G
    <2>2. CASE p # q
      <3>1. proc[p].pc # "idle" /\ \E pc1, i : GoesOn(p, pc1, i) BY <1>0, <1>6, IgetNewEffect DEF IgetNew
      <3>2. proc'[q] = proc[q] BY <1>0, <2>2, <3>1, GoesOnEffect
      <3> QED BY <3>2, <1>02
    <2> QED BY <2>1, <2>2
  <1>7. ASSUME NEW p \in Procs, IgetOld(p) PROVE G
    <2>1. CASE p = q BY <1>7, <2>1 DEF G
    <2>2. CASE p # q
      <3>1. proc[p].pc # "idle" /\ \E pc1, i : GoesOn(p, pc1, i) BY <1>0, <1>7, IgetOldEffect DEF IgetOld
      <3>2. proc'[q] = proc[q] BY <1>0, <2>2, <3>1, GoesOnEffect
      <3> QED BY <3>2, <1>02
    <2> QED BY <2>1, <2>2
  <1>8. ASSUME NEW p \in Procs, SetInode(p) PROVE G
    <2>1. CASE p = q BY <1>8, <2>1 DEF G
    <2>2. CASE p # q
      <3>1. Ends(p) BY <1>0, <1>8, SetInodeEffect
      <3>2. proc'[q] = proc[q] BY <1>0, <2>2, <3>1, EndsEffect
      <3> QED BY <3>2, <1>02
    <2> QED BY <2>1, <2>2
  <1>9. ASSUME NEW p \in Procs, SetFails(p) PROVE G
    <2>1. CASE p = q BY <1>9, <2>1 DEF G
    <2>2. CASE p # q
      <3>1. Ends(p) BY <1>0, <1>9, SetFailsEffect
      <3>2. proc'[q] = proc[q] BY <1>0, <2>2, <3>1, EndsEffect
      <3> QED BY <3>2, <1>02
    <2> QED BY <2>1, <2>2
  <1>10. ASSUME NEW p \in Procs, RevalMatched(p) PROVE G
    <2>1. CASE p = q BY <1>10, <2>1 DEF G
    <2>2. CASE p # q
      <3>1. Ends(p) BY <1>0, <1>10, RevalEffect
      <3>2. proc'[q] = proc[q] BY <1>0, <2>2, <3>1, EndsEffect
      <3> QED BY <3>2, <1>02
    <2> QED BY <2>1, <2>2
  <1>11. ASSUME NEW i0 \in Ino, Evict(i0) PROVE G BY <1>0, <1>11, <1>01, EvictEffect
  <1>12. ASSUME NEW e0 \in dying, XigenInc(e0) PROVE G BY <1>0, <1>12, <1>01, XigenIncEffect
  <1>13. ASSUME NEW e0 \in dying, ClearBit(e0) PROVE G BY <1>0, <1>13, <1>01, ClearBitEffect
  <1>14. ASSUME NEW e0 \in dying, Zero(e0) PROVE G BY <1>0, <1>14, <1>01, ZeroEffect DEF Zero
  <1>15. ASSUME NEW e0 \in dying, Put(e0) PROVE G BY <1>0, <1>15, <1>01, PutEffect DEF Put
  <1>16. ASSUME NEW i0 \in Ino, NEW x0 \in Low, NEW b0 \in Br, Unlink(i0, x0, b0)
        PROVE G BY <1>0, <1>16, <1>01, UnlinkEffect
  <1>17. ASSUME NEW i0 \in Ino, NEW x0 \in Low, Link(i0, x0)
        PROVE G BY <1>0, <1>17, <1>01, LinkEffect
  <1>18. ASSUME NEW i0 \in Ino, NEW x0 \in Low, NEW y0 \in Low, NEW b0 \in Br,
               Copyup(i0, x0, y0, b0)
        PROVE G BY <1>0, <1>18, <1>01, CopyupEffect
  <1>19. ASSUME NEW x0 \in Low, NEW b0 \in Br, DirectCreate(x0, b0)
        PROVE G BY <1>0, <1>19, <1>01, DirectCreateEffect
  <1>20. ASSUME NEW x0 \in Low, NEW b0 \in Br, DirectRemove(x0, b0)
        PROVE G BY <1>0, <1>20, <1>01, DirectRemoveEffect
  <1>21. ASSUME NEW x0 \in Low, Unhide(x0) PROVE G BY <1>0, <1>21, <1>01, UnhideEffect
  <1>22. ASSUME XibTrunc PROVE G BY <1>0, <1>22, <1>01, XibTruncEffect
  <1>23. ASSUME SetXino PROVE G BY <1>0, <1>23, <1>01, SetXinoEffect
  <1>24. G
    BY <1>1, <1>2, <1>3, <1>4, <1>5, <1>6, <1>7, <1>8, <1>9, <1>10, <1>11, <1>12, <1>13, <1>14, <1>15,
       <1>16, <1>17, <1>18, <1>19, <1>20, <1>21, <1>22, <1>23, NextCases
  <1> QED BY <1>24 DEF G

LEMMA TakenStep ==
  ASSUME OwnFs, IInv, Next, ~misplaced', NEW i \in Ino, Taken(i)
  PROVE  \/ Taken(i)'
         \/ \E e \in dying : ClearBit(e) /\ e.ino = i
         \/ XibTrunc /\ \A x \in Low : xino[x] # i
  <1> DEFINE G == \/ Taken(i)'
                  \/ \E e \in dying : ClearBit(e) /\ e.ino = i
                  \/ XibTrunc /\ \A x \in Low : xino[x] # i
  <1>0. TypeOK /\ ProcsOK /\ LowsOK BY DEF IInv
  <1>01. xib' = xib => G BY DEF Taken
  <1>02. Taken(i)' => G OBVIOUS
  <1> HIDE DEF G
  <1>1. ASSUME vars' = vars PROVE G BY <1>1, <1>01 DEF vars
  <1>2. ASSUME NEW p \in Procs, NEW x0 \in Low, NEW b0 \in Br, NEW k0 \in {"inode", "ino"},
               Starts(p, x0, b0, k0)
        PROVE G BY <1>2, <1>01 DEF Starts
  <1>3. ASSUME NEW p \in Procs, NEW x0 \in Low, Creates(p, x0)
        PROVE G BY <1>0, <1>3, <1>01, CreateEffect DEF Creates
  <1>4. ASSUME NEW p \in Procs, NewIno(p) PROVE G BY <1>0, <1>4, <1>02, NewInoEffect
  <1>5. ASSUME NEW p \in Procs, Write(p) PROVE G BY <1>0, <1>5, <1>01, EntryWriteEffect
  <1>6. ASSUME NEW p \in Procs, IgetNew(p) PROVE G BY <1>0, <1>6, <1>01, IgetNewEffect DEF IgetNew
  <1>7. ASSUME NEW p \in Procs, IgetOld(p) PROVE G BY <1>0, <1>7, <1>01, IgetOldEffect DEF IgetOld
  <1>8. ASSUME NEW p \in Procs, SetInode(p) PROVE G BY <1>0, <1>8, <1>01, SetInodeEffect
  <1>9. ASSUME NEW p \in Procs, SetFails(p) PROVE G BY <1>0, <1>9, <1>01, SetFailsEffect
  <1>10. ASSUME NEW p \in Procs, RevalMatched(p) PROVE G BY <1>0, <1>10, <1>01, RevalEffect
  <1>11. ASSUME NEW i0 \in Ino, Evict(i0) PROVE G BY <1>0, <1>11, <1>01, EvictEffect
  <1>12. ASSUME NEW e0 \in dying, XigenInc(e0) PROVE G BY <1>0, <1>12, <1>01, XigenIncEffect
  <1>13. ASSUME NEW e0 \in dying, ClearBit(e0) PROVE G
    <2>1. CASE i = e0.ino BY <2>1, <1>13 DEF G
    <2>2. CASE i # e0.ino BY <2>2, <1>0, <1>13, <1>02, ClearBitEffect
    <2> QED BY <2>1, <2>2
  <1>14. ASSUME NEW e0 \in dying, Zero(e0) PROVE G BY <1>0, <1>14, <1>01, ZeroEffect DEF Zero
  <1>15. ASSUME NEW e0 \in dying, Put(e0) PROVE G BY <1>0, <1>15, <1>01, PutEffect DEF Put
  <1>16. ASSUME NEW i0 \in Ino, NEW x0 \in Low, NEW b0 \in Br, Unlink(i0, x0, b0)
        PROVE G BY <1>0, <1>16, <1>01, UnlinkEffect
  <1>17. ASSUME NEW i0 \in Ino, NEW x0 \in Low, Link(i0, x0)
        PROVE G BY <1>0, <1>17, <1>01, LinkEffect
  <1>18. ASSUME NEW i0 \in Ino, NEW x0 \in Low, NEW y0 \in Low, NEW b0 \in Br,
               Copyup(i0, x0, y0, b0)
        PROVE G BY <1>0, <1>18, <1>01, CopyupEffect
  <1>19. ASSUME NEW x0 \in Low, NEW b0 \in Br, DirectCreate(x0, b0)
        PROVE G BY <1>0, <1>19, <1>01, DirectCreateEffect
  <1>20. ASSUME NEW x0 \in Low, NEW b0 \in Br, DirectRemove(x0, b0)
        PROVE G BY <1>0, <1>20, <1>01, DirectRemoveEffect
  <1>21. ASSUME NEW x0 \in Low, Unhide(x0) PROVE G BY <1>0, <1>21, <1>01, UnhideEffect
  <1>22. ASSUME XibTrunc PROVE G
    <2>1. Taken(i)' <=> \E x \in Low : xino[x] = i BY <1>0, <1>22, XibTruncEffect
    <2> QED BY <2>1, <1>22 DEF G
  <1>23. ASSUME SetXino PROVE G BY <1>0, <1>23, <1>02, SetXinoEffect
  <1>24. G
    BY <1>1, <1>2, <1>3, <1>4, <1>5, <1>6, <1>7, <1>8, <1>9, <1>10, <1>11, <1>12, <1>13, <1>14, <1>15,
       <1>16, <1>17, <1>18, <1>19, <1>20, <1>21, <1>22, <1>23, NextCases
  <1> QED BY <1>24 DEF G

-----------------------------------------------------------------------------
(* A number is used in one way only, and its bit is set.                   *)
LEMMA IgetNewUse ==
  ASSUME OwnFs, IInv, NEW p \in Procs, IgetNew(p)
  PROVE  /\ ~Hashed(proc[p].ino) /\ proc'[p].pc = "set"
         /\ Fresh(p, proc[p].ino) \/ Entry(proc[p].x, proc[p].ino)
  <1>0. TypeOK /\ ProcsOK BY DEF IInv
  <1>1. /\ proc[p].pc = "iget" /\ proc[p].pc # "idle" /\ GoesOn(p, "set", proc[p].ino) /\ ~Hashed(proc[p].ino)
    BY <1>0, IgetNewEffect DEF IgetNew
  <1>2. proc'[p].pc = "set" BY <1>0, <1>1, GoesOnEffect
  <1>3. xino[proc[p].x] \in {0, proc[p].ino} BY <1>0, <1>1 DEF ProcsOK, ProcOK
  <1>4. ~Dead(proc[p].x) BY <1>1, TaskFacts
  <1>5. CASE xino[proc[p].x] = 0 BY <1>1, <1>2, <1>5 DEF Fresh
  <1>6. CASE xino[proc[p].x] = proc[p].ino BY <1>1, <1>2, <1>4, <1>6 DEF Entry
  <1> QED BY <1>3, <1>5, <1>6

LEMMA GetsUse ==
  ASSUME OwnFs, IInv, NEW x \in Low, NEW i \in Ino, Gets(x, i)
  PROVE  \/ \E p \in Procs : Write(p) /\ Fresh(p, i) /\ proc[p].x = x /\ proc'[p].pc = "idle"
         \/ \E p \in Procs : SetInode(p) /\ proc[p].x = x /\ proc[p].ino = i /\ icache[i].new /\ Hashed(i)
         \/ \E z \in Low, b \in Br : Copyup(i, z, x, b) /\ Plain(i) /\ Hashed(i)
  <1>0. TypeOK /\ ProcsOK /\ LowsOK BY DEF IInv
  <1>1. ASSUME NEW p \in Procs, proc[p].x = x, proc[p].ino = i, Write(p)
        PROVE  Fresh(p, i) /\ proc'[p].pc = "idle"
    <2>1. proc[p].pc = "write" /\ xino[proc[p].x] = 0 /\ Ends(p) BY <1>0, <1>1, EntryWriteEffect
    <2>2. proc'[p].pc = "idle" BY <1>0, <2>1, EndsEffect
    <2> QED BY <2>1, <2>2, <1>1 DEF Fresh
  <1>2. ASSUME NEW p \in Procs, proc[p].x = x, proc[p].ino = i, SetInode(p)
        PROVE  icache[i].new /\ Hashed(i)
    BY <1>0, <1>2, SetInodeEffect
  <1>3. ASSUME NEW z \in Low, NEW b \in Br, Copyup(i, z, x, b)
        PROVE  Plain(i) /\ Hashed(i)
    BY <1>0, <1>3, CopyupEffect DEF Plain
  <1> QED BY <1>1, <1>2, <1>3 DEF Gets

LEMMA UsedStep ==
  ASSUME OwnFs, IInv, Next, ~misplaced', NEW i \in Ino, Used(i)'
  PROVE  Used(i) \/ \E p \in Procs : NewIno(p) /\ i = XinoNewIno(xib).ino
  <1>0. TypeOK BY DEF IInv
  <1>1. ASSUME Hashed(i)' PROVE Used(i)
    <2>1. CASE Stays(i) BY <2>1 DEF Stays, Used
    <2>2. CASE \E p \in Procs : IgetNew(p) /\ proc[p].ino = i
      <3>1. PICK p \in Procs : IgetNew(p) /\ proc[p].ino = i BY <2>2
      <3>2. proc[p].pc # "idle" BY <1>0, <3>1, IgetNewEffect DEF IgetNew, IInv
      <3>3. proc[p].x \in Low BY <3>2, TaskFacts
      <3> QED BY <3>1, <3>3, IgetNewUse DEF Used
    <2> QED BY <1>1, <2>1, <2>2, InodeStep
  <1>2. ASSUME NEW x \in Low, Entry(x, i)' PROVE Used(i)
    <2>1. Entry(x, i) => Used(i) BY DEF Used
    <2>2. Gets(x, i) => Used(i) BY GetsUse DEF Used
    <2> QED BY <1>2, <2>1, <2>2, EntryStep
  <1>3. ASSUME NEW p \in Procs, Fresh(p, i)' PROVE Used(i) \/ (NewIno(p) /\ i = XinoNewIno(xib).ino)
    <2>1. Fresh(p, i) => Used(i) BY DEF Used
    <2> QED BY <1>3, <2>1, FreshStep
  <1>4. ASSUME NEW f \in dying', Ending(f, i) PROVE Used(i)
    <2>1. CASE f \in dying BY <1>4, <2>1 DEF Used
    <2>2. CASE Evict(i) BY <1>0, <2>2, EvictEffect DEF Plain, Used
    <2>3. ASSUME NEW e \in dying, XigenInc(e), e.ino = i PROVE Used(i)
      BY <1>0, <2>3, XigenIncEffect DEF Ending, Used
    <2> QED BY <1>4, <2>1, <2>2, <2>3, EndingStep
  <1> QED BY <1>1, <1>2, <1>3, <1>4 DEF Used

LEMMA NewInoUse ==
  ASSUME OwnFs, IInv, NEW p \in Procs, NewIno(p), NEW i \in Ino, i = XinoNewIno(xib).ino
  PROVE  ~Used(i) /\ ~Taken(i) /\ Taken(i)'
  <1>0. TypeOK /\ BitsSet BY DEF IInv
  <1>1. ~Taken(i) /\ Taken(i)' BY <1>0, NewInoEffect
  <1> QED BY <1>0, <1>1 DEF BitsSet

LEMMA EndingQuiet ==
  ASSUME OwnFs, IInv, Next, ~misplaced', NEW e \in dying, NEW i \in Ino, Ending(e, i)
  PROVE  /\ ~Hashed(i)' /\ \A x \in Low : ~Entry(x, i)'
         /\ \A p \in Procs : ~Fresh(p, i)'
         /\ \A f \in dying' : Ending(f, i) => \/ f = e
                                              \/ XigenInc(e) /\ f.step = "bit" /\ f.unlinked
  <1>0. TypeOK BY DEF IInv
  <1>1. /\ e.unlinked /\ ~Hashed(i) /\ \A x \in Low : ~Entry(x, i)
        /\ \A p \in Procs : ~Fresh(p, i)
        /\ \A f \in dying : Ending(f, i) => f = e
    BY DEF IInv, EndingAlone
  <1>2. Used(i) BY DEF Used
  <1>3. ~Hashed(i)'
    <2>1. ~Stays(i) BY <1>1 DEF Stays
    <2>2. ASSUME NEW p \in Procs, IgetNew(p), proc[p].ino = i PROVE FALSE
      <3>1. proc[p].pc # "idle" BY <1>0, <2>2, IgetNewEffect DEF IgetNew, IInv
      <3>2. proc[p].x \in Low BY <3>1, TaskFacts
      <3> QED BY <2>2, <3>2, <1>1, IgetNewUse
    <2> QED BY <2>1, <2>2, InodeStep
  <1>4. ASSUME NEW x \in Low, Entry(x, i)' PROVE FALSE
    <2>1. Gets(x, i) BY <1>1, <1>4, EntryStep
    <2> QED BY <1>1, <2>1, GetsUse
  <1>5. ASSUME NEW p \in Procs, Fresh(p, i)' PROVE FALSE
    BY <1>1, <1>2, <1>5, FreshStep, NewInoUse
  <1>6. ASSUME NEW f \in dying', Ending(f, i) PROVE f = e \/ (XigenInc(e) /\ f.step = "bit" /\ f.unlinked)
    <2>1. CASE f \in dying BY <1>1, <1>6, <2>1
    <2>2. CASE Evict(i) BY <1>0, <1>1, <2>2, EvictEffect DEF Plain
    <2>3. ASSUME NEW g \in dying, XigenInc(g), g.ino = i, g.unlinked = f.unlinked, f.step = "bit"
          PROVE  XigenInc(e) /\ f.step = "bit" /\ f.unlinked
      <3>1. Ending(g, i) BY <1>0, <2>3, XigenIncEffect DEF Ending
      <3>2. g = e BY <3>1, <1>1
      <3> QED BY <2>3, <3>2, <1>1
    <2> QED BY <1>6, <2>1, <2>2, <2>3, EndingStep
  <1> QED BY <1>3, <1>4, <1>5, <1>6

LEMMA BitsSetStep == ASSUME OwnFs, IInv, Next, ~misplaced' PROVE BitsSet'
  <1>0. TypeOK /\ BitsSet BY DEF IInv
  <1> SUFFICES ASSUME NEW i \in Ino, Used(i)' PROVE Taken(i)' BY DEF BitsSet
  <1>1. CASE ~Used(i) BY <1>1, UsedStep, NewInoUse
  <1>2. ASSUME NEW e \in dying, ClearBit(e), e.ino = i PROVE FALSE
    <2>1. e.step = "bit" BY <1>0, <1>2, ClearBitEffect
    <2>2. Ending(e, i) BY <2>1, <1>2 DEF Ending
    <2>3. PICK f \in dying' : Ending(f, i) BY <2>2, EndingQuiet DEF Used
    <2>4. ~XigenInc(e) BY <1>0, <2>1, XigenIncEffect
    <2>5. f = e BY <2>2, <2>3, <2>4, EndingQuiet
    <2> QED BY <2>5, <1>0, <1>2, StepsAway
  <1>3. ASSUME XibTrunc, \A x \in Low : xino[x] # i PROVE FALSE
    <2>1. /\ \A p \in Procs : proc[p] = Idle
          /\ \A e \in dying : ~Ending(e, i)
          /\ ~Hashed(i)
          /\ UNCHANGED <<low, xino, xigen, icache, dying, proc>>
      BY <1>0, <1>3, XibTruncEffect
    <2>2. ~Hashed(i)' BY <2>1 DEF Hashed
    <2>3. \A x \in Low : ~Entry(x, i)' BY <2>1, <1>3 DEF Entry
    <2>4. \A p \in Procs : ~Fresh(p, i)' BY <2>1 DEF Fresh, Idle
    <2>5. \A e \in dying' : ~Ending(e, i) BY <2>1
    <2> QED BY <2>2, <2>3, <2>4, <2>5 DEF Used
  <1>4. CASE Used(i)
    <2>1. Taken(i) BY <1>0, <1>4 DEF BitsSet
    <2> QED BY <2>1, <1>2, <1>3, TakenStep
  <1> QED BY <1>1, <1>4

LEMMA FreshStepAlone == ASSUME OwnFs, IInv, Next, ~misplaced' PROVE FreshAlone'
  <1>0. TypeOK /\ FreshAlone BY DEF IInv
  <1> SUFFICES ASSUME NEW q \in Procs, NEW i \in Ino, Fresh(q, i)'
               PROVE  /\ ~Hashed(i)' /\ \A x \in Low : ~Entry(x, i)'
                      /\ \A r \in Procs : Fresh(r, i)' => r = q
    BY DEF FreshAlone
  <1>1. CASE Fresh(q, i)
    <2>1. ~Hashed(i) /\ (\A x \in Low : ~Entry(x, i)) /\ \A r \in Procs : Fresh(r, i) => r = q
      BY <1>0, <1>1 DEF FreshAlone
    <2>2. Used(i) BY <1>1 DEF Used
    <2>3. proc'[q].pc \in {"iget", "write"} BY DEF Fresh
    <2>4. ~Hashed(i)'
      <3>1. ~Stays(i) BY <2>1 DEF Stays
      <3>2. ASSUME NEW p \in Procs, IgetNew(p), proc[p].ino = i PROVE FALSE
        <4>1. proc[p].pc # "idle" BY <1>0, <3>2, IgetNewEffect DEF IgetNew, IInv
        <4>2. proc[p].x \in Low BY <4>1, TaskFacts
        <4>3. Fresh(p, i) /\ proc'[p].pc = "set" BY <3>2, <4>2, <2>1, IgetNewUse
        <4> QED BY <4>3, <2>1, <2>3
      <3> QED BY <3>1, <3>2, InodeStep
    <2>5. ASSUME NEW x \in Low, Entry(x, i)' PROVE FALSE
      <3>1. Gets(x, i) BY <2>1, <2>5, EntryStep
      <3>2. PICK p \in Procs : Fresh(p, i) /\ proc'[p].pc = "idle" BY <2>1, <3>1, GetsUse
      <3> QED BY <3>2, <2>1, <2>3
    <2>6. ASSUME NEW r \in Procs, Fresh(r, i)' PROVE r = q
      BY <2>1, <2>2, <2>6, FreshStep, NewInoUse
    <2> QED BY <2>4, <2>5, <2>6
  <1>2. CASE NewIno(q) /\ i = XinoNewIno(xib).ino
    <2>1. ~Used(i) BY <1>2, NewInoUse
    <2>2. icache' = icache BY <1>0, <1>2, NewInoEffect
    <2>3. ~Hashed(i)' BY <2>1, <2>2 DEF Used, Hashed
    <2>4. ASSUME NEW x \in Low, Entry(x, i)' PROVE FALSE
      <3>1. ~Entry(x, i) BY <2>1 DEF Used
      <3>2. Gets(x, i) BY <2>4, <3>1, EntryStep
      <3> QED BY <2>1, <3>2, GetsUse DEF Used
    <2>5. ASSUME NEW r \in Procs, Fresh(r, i)', r # q PROVE FALSE
      <3>1. ~Fresh(r, i) BY <2>1 DEF Used
      <3>2. NewIno(r) BY <2>5, <3>1, FreshStep
      <3>3. /\ proc[r].pc = "newino" /\ proc[q].pc = "newino"
            /\ GoesOn(r, IF proc[r].kind = "ino" THEN "write" ELSE "iget", XinoNewIno(xib).ino)
        BY <1>0, <1>2, <3>2, NewInoEffect
      <3>4. proc'[q] = proc[q] BY <1>0, <2>5, <3>3, GoesOnEffect
      <3> QED BY <3>3, <3>4 DEF Fresh
    <2> QED BY <2>3, <2>4, <2>5
  <1> QED BY <1>1, <1>2, FreshStep

LEMMA EndingAloneStep == ASSUME OwnFs, IInv, Next, ~misplaced' PROVE EndingAlone'
  <1>0. TypeOK /\ EndingAlone /\ EntriesAt /\ GensOK BY DEF IInv
  <1> SUFFICES ASSUME NEW f \in dying', NEW i \in Ino, Ending(f, i)
               PROVE  /\ f.unlinked
                      /\ ~Hashed(i)' /\ \A x \in Low : ~Entry(x, i)'
                      /\ \A p \in Procs : ~Fresh(p, i)'
                      /\ \A g \in dying' : Ending(g, i) => g = f
                      /\ f.step = "gen" => f.gen = xigen'[i]
    BY DEF EndingAlone, Ending
  <1>1. CASE f \in dying
    <2>1. /\ f.unlinked /\ \A g \in dying : Ending(g, i) => g = f
          /\ f.step = "gen" => f.gen = xigen[i]
      BY <1>0, <1>1 DEF EndingAlone
    <2>2. ~XigenInc(f) BY <1>0, <1>1, StepsAway
    <2>3. /\ ~Hashed(i)' /\ \A x \in Low : ~Entry(x, i)'
          /\ \A p \in Procs : ~Fresh(p, i)'
          /\ \A g \in dying' : Ending(g, i) => g = f
      BY <1>1, <2>2, EndingQuiet
    <2>4. xigen'[i] = xigen[i]
      <3>1. ASSUME NEW e \in dying, XigenInc(e) PROVE xigen'[i] = xigen[i]
        <4>1. e.step = "gen" /\ xigen' = [xigen EXCEPT ![e.ino] = e.gen + 1] BY <1>0, <3>1, XigenIncEffect
        <4>2. e # f BY <3>1, <2>2
        <4>3. e.ino # i BY <2>1, <4>1, <4>2 DEF Ending
        <4> QED BY <1>0, <4>1, <4>3 DEF TypeOK
      <3> QED BY <3>1, RestStep
    <2> QED BY <2>1, <2>3, <2>4
  <1>2. CASE Evict(i) /\ Destroyed(f, i) /\ icache[i].nlink = 0
    <2>1. /\ Plain(i) /\ Hashed(i) /\ ~icache[i].new /\ ~Hashed(i)'
          /\ UNCHANGED <<low, xino, xib, xigen, proc, mtx, nobj, rare, misplaced>>
      BY <1>0, <1>2, EvictEffect DEF Plain
    <2>2. f.at = icache[i].at /\ f.gen = icache[i].gen /\ f.unlinked /\ f.step = "gen" BY <1>2 DEF Destroyed
    <2>3. \A g \in dying : ~Ending(g, i) BY <1>0, <2>1 DEF EndingAlone
    <2>4. ASSUME NEW x \in Low, Entry(x, i)' PROVE FALSE
      <3>1. xino'[x] = i /\ ~Dead(x)' BY <2>4 DEF Entry
      <3>2. x \notin f.at BY <2>2, <3>1 DEF Dead, Removed
      <3>3. ~Entry(x, i) BY <1>0, <2>1, <2>2, <3>2 DEF EntriesAt
      <3>4. Dead(x) BY <2>1, <3>1, <3>3 DEF Entry
      <3>5. PICK e \in DyingType : dying' = dying \cup {e} BY <1>0, <1>2, EvictEffect
      <3>6. (\E e1 \in dying : Removed(e1) /\ x \in e1.at) => \E e1 \in dying' : Removed(e1) /\ x \in e1.at
        BY <3>5
      <3>7. \A p \in Procs : On(p, x)' <=> On(p, x) BY <2>1 DEF On
      <3>8. Dead(x)' BY <2>1, <3>4, <3>6, <3>7 DEF Dead, Removed
      <3> QED BY <3>1, <3>8
    <2>5. ASSUME NEW p \in Procs, Fresh(p, i)' PROVE FALSE
      <3>1. Fresh(p, i) BY <2>1, <2>5 DEF Fresh
      <3> QED BY <3>1, <2>1 DEF IInv, FreshAlone
    <2>6. ASSUME NEW g \in dying', Ending(g, i) PROVE g = f
      <3>1. PICK e : dying' = dying \cup {e} BY <1>0, <1>2, EvictEffect
      <3>2. g = e /\ f = e BY <2>3, <2>6, <3>1
      <3> QED BY <3>2
    <2>7. f.gen = xigen'[i] BY <1>0, <2>1, <2>2 DEF GensOK
    <2> QED BY <2>1, <2>2, <2>4, <2>5, <2>6, <2>7
  <1>3. ASSUME NEW e \in dying, XigenInc(e), e.ino = i, e.unlinked = f.unlinked, f.step = "bit"
        PROVE  /\ f.unlinked
               /\ ~Hashed(i)' /\ \A x \in Low : ~Entry(x, i)'
               /\ \A p \in Procs : ~Fresh(p, i)'
               /\ \A g \in dying' : Ending(g, i) => g = f
               /\ f.step = "gen" => f.gen = xigen'[i]
    <2>1. e.step = "gen" /\ Steps(e, "bit") BY <1>0, <1>3, XigenIncEffect
    <2>2. Ending(e, i) BY <1>3, <2>1 DEF Ending
    <2>3. f.unlinked /\ \A g \in dying : Ending(g, i) => g = e BY <1>0, <1>3, <2>2 DEF EndingAlone
    <2>4. PICK h \in DyingType : dying' = (dying \ {e}) \cup {h} BY <2>1 DEF Steps
    <2>5. \A g \in dying' : Ending(g, i) => g = h BY <2>3, <2>4
    <2>6. f = h BY <2>5
    <2> QED BY <1>3, <2>2, <2>3, <2>5, <2>6, EndingQuiet
  <1> QED BY <1>1, <1>2, <1>3, EndingStep

(* A new inode is that of the one task that sets it.                       *)
LEMMA NewTask ==
  ASSUME OwnFs, IInv, NEW p \in Procs, NEW i \in Ino, SetInode(p), proc[p].ino = i
  PROVE  /\ proc[p].pc = "set" /\ proc[p].x \in Low /\ icache[i].new /\ Hashed(i) /\ icache[i].at = {}
         /\ icache[i].users = {p} /\ \A x \in Low : Entry(x, i) => x = proc[p].x
  <1>0. TypeOK /\ ProcsOK /\ NewsOK BY DEF IInv
  <1>1. proc[p].pc = "set" /\ proc[p].x \in Low /\ icache[i].new /\ Hashed(i) BY <1>0, SetInodeEffect
  <1>2. icache[i].users = {p} BY <1>0, <1>1 DEF ProcsOK, ProcOK
  <1>3. NewOK(i) BY <1>0, <1>1 DEF NewsOK
  <1>4. PICK q \in Procs : proc[q].pc = "set" /\ proc[q].ino = i /\ \A x \in Low : Entry(x, i) => x = proc[q].x
    BY <1>3 DEF NewOK
  <1>5. icache[i].users = {q} BY <1>0, <1>4 DEF ProcsOK, ProcOK
  <1>6. p = q BY <1>2, <1>5
  <1> QED BY <1>1, <1>2, <1>3, <1>4, <1>6 DEF NewOK

(* What copy-up starts from.                                               *)
LEMMA CopyupFrom ==
  ASSUME OwnFs, IInv, NEW i \in Ino, NEW x \in Low, NEW y \in Low, NEW b \in Br, Copyup(i, x, y, b)
  PROVE  /\ Hashed(i) /\ ~icache[i].new /\ Entry(x, i) /\ ~Entry(x, i)' /\ x # y /\ x \in icache[i].at
         /\ icache'[i].at = icache[i].at \cup {y} /\ icache'[i].nlink = icache[i].nlink
         /\ icache[i].nlink > 0 /\ low[y] = Free /\ ~Dead(y)
  <1>0. TypeOK /\ ProcsOK /\ LowsOK /\ AtsOK BY DEF IInv
  <1>1. /\ Plain(i) /\ x \in icache[i].at /\ Shown(x, b) /\ low[y] = Free /\ x # y
        /\ \A p \in Procs : ~On(p, x)
        /\ low'[x].hid = low[x].hid \cup {b} /\ UNCHANGED proc
        /\ icache' = [icache EXCEPT ![i].at = icache[i].at \cup {y}]
    BY <1>0, CopyupEffect
  <1>2. Named(x) /\ Open(x) /\ ~Dead(x) BY <1>1, Reached DEF Reachable
  <1>3. xino[x] = i /\ icache[i].nlink > 0 BY <1>0, <1>1, <1>2 DEF AtsOK, AtOK
  <1>4. ~Dead(y) BY <1>0, <1>1, FreeAlone
  <1>5. Dead(x)' BY <1>1 DEF Dead, On
  <1>6. icache[i].at \cup {y} \in SUBSET Low BY <1>0, Inodes
  <1>7. icache'[i].at = icache[i].at \cup {y} /\ icache'[i].nlink = icache[i].nlink
    BY <1>0, <1>1, <1>6, LowsEffect
  <1> QED BY <1>1, <1>2, <1>3, <1>4, <1>5, <1>7 DEF Plain, Entry

LEMMA OneEntryStep == ASSUME OwnFs, IInv, Next, ~misplaced' PROVE OneEntry'
  <1>0. TypeOK /\ OneEntry /\ FreshAlone BY DEF IInv
  <1>1. ASSUME NEW i \in Ino, NEW x \in Low, NEW y \in Low, Entry(x, i)', Entry(y, i)', Gets(x, i), x # y
        PROVE  FALSE
    <2>1. ASSUME NEW p \in Procs, Write(p), Fresh(p, i), proc[p].x = x PROVE FALSE
      <3>1. ~Hashed(i) /\ (\A z \in Low : ~Entry(z, i)) /\ \A q \in Procs : Fresh(q, i) => q = p
        BY <1>0, <2>1 DEF FreshAlone
      <3>2. Gets(y, i) BY <1>1, <3>1, EntryStep
      <3> QED BY <1>1, <2>1, <3>1, <3>2, GetsUse
    <2>2. ASSUME NEW p \in Procs, SetInode(p), proc[p].x = x, proc[p].ino = i PROVE FALSE
      <3>1. icache[i].new /\ Hashed(i) /\ icache[i].users = {p} /\ ~Entry(y, i)
        BY <1>1, <2>2, NewTask
      <3>2. Gets(y, i) BY <1>1, <3>1, EntryStep
      <3>3. \A q \in Procs : ~Fresh(q, i) BY <1>0, <3>1 DEF FreshAlone
      <3>4. PICK q \in Procs : SetInode(q) /\ proc[q].x = y /\ proc[q].ino = i
        BY <3>1, <3>2, <3>3, GetsUse DEF Plain
      <3>5. icache[i].users = {q} BY <3>4, NewTask
      <3>6. p = q BY <3>1, <3>5
      <3> QED BY <1>1, <2>2, <3>4, <3>6
    <2>3. ASSUME NEW z \in Low, NEW b \in Br, Copyup(i, z, x, b) PROVE FALSE
      <3>1. Hashed(i) /\ ~icache[i].new /\ Entry(z, i) /\ ~Entry(z, i)' BY <2>3, CopyupFrom
      <3>2. ~Entry(y, i) BY <1>0, <1>1, <3>1 DEF OneEntry
      <3>3. Gets(y, i) BY <1>1, <3>2, EntryStep
      <3>4. \A q \in Procs : ~Fresh(q, i) BY <1>0, <3>1 DEF FreshAlone
      <3>5. PICK w \in Low, c \in Br : Copyup(i, w, y, c) BY <3>1, <3>3, <3>4, GetsUse
      <3>6. ~Dead(y) BY <3>5, CopyupFrom
      <3>7. xino' = [xino EXCEPT ![x] = i] BY <2>3 DEF Copyup
      <3>8. xino'[y] = xino[y] BY <1>0, <1>1, <3>7 DEF TypeOK
      <3>9. Entry(y, i) BY <1>1, <3>6, <3>8, EntryAlive
      <3> QED BY <3>2, <3>9
    <2> QED BY <1>1, <2>1, <2>2, <2>3, GetsUse
  <1> SUFFICES ASSUME NEW i \in Ino, NEW x \in Low, NEW y \in Low, Entry(x, i)', Entry(y, i)' PROVE x = y
    BY DEF OneEntry
  <1>2. CASE Entry(x, i) /\ Entry(y, i) BY <1>0, <1>2 DEF OneEntry
  <1> QED BY <1>1, <1>2, EntryStep

-----------------------------------------------------------------------------
(* Inodes: their generation, their lower inodes; what was removed.         *)
LEMMA GensStep == ASSUME OwnFs, IInv, Next, ~misplaced' PROVE GensOK'
  <1>0. TypeOK /\ GensOK /\ EndingAlone BY DEF IInv
  <1> SUFFICES ASSUME NEW i \in Ino, Hashed(i)' PROVE icache'[i].gen = xigen'[i] BY DEF GensOK
  <1>1. CASE Stays(i)
    <2>1. Hashed(i) /\ icache'[i].gen = icache[i].gen BY <1>1 DEF Stays
    <2>2. icache'[i].gen = xigen[i] BY <1>0, <2>1 DEF GensOK
    <2>3. ASSUME NEW e \in dying, XigenInc(e) PROVE xigen'[i] = xigen[i]
      <3>1. e.step = "gen" /\ xigen' = [xigen EXCEPT ![e.ino] = e.gen + 1] BY <1>0, <2>3, XigenIncEffect
      <3>2. e.ino # i BY <1>0, <2>1, <3>1 DEF EndingAlone, Ending
      <3> QED BY <1>0, <3>1, <3>2 DEF TypeOK
    <2> QED BY <2>2, <2>3, RestStep
  <1>2. ASSUME NEW p \in Procs, IgetNew(p), proc[p].ino = i PROVE icache'[i].gen = xigen'[i]
    <2>1. icache'[i].gen = xigen[i] /\ xigen' = xigen BY <1>0, <1>2, IgetNewEffect DEF IgetNew, IInv
    <2> QED BY <2>1
  <1> QED BY <1>1, <1>2, InodeStep

LEMMA NewsStep == ASSUME OwnFs, IInv, Next, ~misplaced' PROVE NewsOK'
  <1>0. TypeOK /\ ProcsOK /\ NewsOK /\ FreshAlone /\ OneEntry BY DEF IInv
  <1> SUFFICES ASSUME NEW i \in Ino, icache'[i].new
               PROVE  /\ icache'[i].at = {}
                      /\ \E p \in Procs : /\ proc'[p].pc = "set" /\ proc'[p].ino = i
                                          /\ \A x \in Low : Entry(x, i)' => x = proc'[p].x
    BY DEF NewsOK, NewOK
  <1>1. Hashed(i)' BY DEF Hashed, NoInode
  <1>2. ASSUME NEW p \in Procs, IgetNew(p), proc[p].ino = i
        PROVE  /\ icache'[i].at = {}
               /\ proc'[p].pc = "set" /\ proc'[p].ino = i
               /\ \A x \in Low : Entry(x, i)' => x = proc'[p].x
    <2>1. /\ icache'[i].at = {} /\ GoesOn(p, "set", i) /\ proc[p].pc # "idle"
      BY <1>0, <1>2, IgetNewEffect DEF IgetNew
    <2>2. proc'[p].pc = "set" /\ proc'[p].ino = i /\ proc'[p].x = proc[p].x BY <1>0, <2>1, GoesOnEffect
    <2>3. proc[p].x \in Low BY <2>1, TaskFacts
    <2>4. ~Hashed(i) /\ (Fresh(p, i) \/ Entry(proc[p].x, i)) BY <1>2, IgetNewUse
    <2>5. \A x \in Low : Entry(x, i) => x = proc[p].x
      BY <1>0, <2>3, <2>4 DEF FreshAlone, OneEntry
    <2>6. ASSUME NEW x \in Low, Gets(x, i) PROVE FALSE
      <3>1. PICK q \in Procs : Fresh(q, i) /\ proc'[q].pc = "idle" BY <2>4, <2>6, GetsUse
      <3>2. p = q BY <1>0, <2>3, <2>4, <3>1 DEF FreshAlone
      <3> QED BY <2>2, <3>1, <3>2
    <2> QED BY <2>1, <2>2, <2>5, <2>6, EntryStep
  <1>3. CASE Stays(i)
    <2>1. Hashed(i) /\ icache[i].new /\ icache'[i].at = icache[i].at BY <1>3 DEF Stays
    <2>2. icache[i].at = {} BY <1>0, <2>1 DEF NewsOK, NewOK
    <2>3. PICK p \in Procs : /\ proc[p].pc = "set" /\ proc[p].ino = i
                             /\ \A x \in Low : Entry(x, i) => x = proc[p].x
      BY <1>0, <2>1 DEF NewsOK, NewOK
    <2>4. ~SetInode(p)
      <3>1. SetInode(p) => ~icache'[i].new BY <1>0, <2>3, SetInodeEffect
      <3> QED BY <3>1
    <2>5. ~SetFails(p)
      <3>1. SetFails(p) => icache'[i] = NoInode BY <1>0, <2>3, SetFailsEffect
      <3> QED BY <3>1 DEF NoInode
    <2>6. proc[p] # Idle BY <2>3 DEF Idle
    <2>7. ~NewIno(p) /\ ~Write(p) /\ ~IgetNew(p) /\ ~IgetOld(p) /\ ~RevalMatched(p)
      BY <2>3 DEF NewIno, Write, IgetNew, IgetOld, Iget, RevalMatched
    <2>8. \A x, b, k : ~Starts(p, x, b, k) BY <2>6 DEF Starts
    <2>9. \A x : ~Creates(p, x) BY <2>6 DEF Creates, Create
    <2>10. proc'[p] = proc[p] BY <2>4, <2>5, <2>7, <2>8, <2>9, TaskStep
    <2>11. ASSUME NEW x \in Low, Gets(x, i) PROVE FALSE
      <3>1. \A q \in Procs : ~Fresh(q, i) BY <1>0, <2>1 DEF FreshAlone
      <3>2. ASSUME NEW q \in Procs, SetInode(q), proc[q].ino = i PROVE FALSE
        BY <1>0, <3>2, SetInodeEffect
      <3> QED BY <2>1, <2>11, <3>1, <3>2, GetsUse DEF Plain
    <2> QED BY <2>1, <2>2, <2>3, <2>10, <2>11, EntryStep
  <1> QED BY <1>1, <1>2, <1>3, InodeStep

-----------------------------------------------------------------------------
(* The parts of the invariant, kept by every step.                         *)

(* An inode knows every branch on which it is entered.                     *)
LEMMA EntriesAtStep == ASSUME OwnFs, IInv, Next, ~misplaced' PROVE EntriesAt'
  <1>0. TypeOK /\ ProcsOK /\ EntriesAt /\ FreshAlone BY DEF IInv
  <1> SUFFICES ASSUME NEW i \in Ino, NEW x \in Low, Plain(i)', Entry(x, i)' PROVE x \in icache'[i].at
    BY DEF EntriesAt
  <1>1. Hashed(i)' /\ ~icache'[i].new BY DEF Plain
  <1>2. ASSUME NEW p \in Procs, IgetNew(p), proc[p].ino = i PROVE FALSE
    BY <1>0, <1>1, <1>2, IgetNewEffect DEF IgetNew
  <1>3. Stays(i) BY <1>1, <1>2, InodeStep
  <1>4. ASSUME NEW p \in Procs, SetInode(p), proc[p].ino = i PROVE x \in icache'[i].at
    <2>1. icache'[i].at = {proc[p].x} BY <1>0, <1>4, SetInodeEffect
    <2>2. CASE Entry(x, i) BY <2>1, <2>2, <1>4, NewTask
    <2>3. CASE Gets(x, i)
      <3>1. Hashed(i) /\ icache[i].new /\ icache[i].users = {p} BY <1>4, NewTask
      <3>2. \A q \in Procs : ~Fresh(q, i) BY <1>0, <3>1 DEF FreshAlone
      <3>3. PICK q \in Procs : SetInode(q) /\ proc[q].x = x /\ proc[q].ino = i
        BY <2>3, <3>1, <3>2, GetsUse DEF Plain
      <3>4. icache[i].users = {q} BY <3>3, NewTask
      <3>5. p = q BY <3>1, <3>4
      <3> QED BY <2>1, <3>3, <3>5
    <2> QED BY <2>2, <2>3, EntryStep
  <1>5. ASSUME NEW z \in Low, NEW y \in Low, NEW b \in Br, Copyup(i, z, y, b) PROVE x \in icache'[i].at
    <2>1. /\ Hashed(i) /\ ~icache[i].new /\ icache'[i].at = icache[i].at \cup {y} BY <1>5, CopyupFrom
    <2>2. CASE Entry(x, i) BY <1>0, <2>1, <2>2 DEF EntriesAt, Plain
    <2>3. CASE Gets(x, i)
      <3>1. \A q \in Procs : ~Fresh(q, i) BY <1>0, <2>1 DEF FreshAlone
      <3>2. PICK w \in Low, c \in Br : Copyup(i, w, x, c) BY <2>1, <2>3, <3>1, GetsUse
      <3>3. icache'[i].at = icache[i].at \cup {x} BY <3>2, CopyupFrom
      <3> QED BY <3>3
    <2> QED BY <2>2, <2>3, EntryStep
  <1>6. CASE ~Sets(i)
    <2>1. Plain(i) /\ icache'[i].at = icache[i].at BY <1>1, <1>3, <1>6 DEF Stays, Plain
    <2>2. Hashed(i) BY <2>1 DEF Plain
    <2>3. \A q \in Procs : ~Fresh(q, i) BY <1>0, <2>2 DEF FreshAlone
    <2>4. ~Gets(x, i)
      <3> SUFFICES ASSUME Gets(x, i) PROVE FALSE OBVIOUS
      <3> QED BY <1>6, <2>3, GetsUse DEF Sets
    <2>5. Entry(x, i) BY <2>4, EntryStep
    <2> QED BY <1>0, <2>1, <2>5 DEF EntriesAt
  <1> QED BY <1>4, <1>5, <1>6 DEF Sets

LEMMA GoneStep == ASSUME OwnFs, IInv, Next, ~misplaced' PROVE GoneOld'
  <1>0. TypeOK /\ GoneOld /\ EndingAlone BY DEF IInv
  <1> SUFFICES ASSUME NEW g \in gone'
               PROVE  \/ g[2] < xigen'[g[1]]
                      \/ \E e \in dying' : Ending(e, g[1]) /\ e.step = "gen" /\ e.gen = g[2]
    BY DEF GoneOld, Ending
  <1>1. CASE g \in gone
    <2>1. g[1] \in Ino /\ g[2] \in Nat BY <1>0, <1>1 DEF TypeOK
    <2>2. xigen[g[1]] \in Nat BY <1>0, <2>1 DEF TypeOK
    <2>3. CASE g[2] < xigen[g[1]]
      <3>1. ASSUME NEW e \in dying, XigenInc(e) PROVE g[2] < xigen'[g[1]]
        <4>1. e.step = "gen" /\ xigen' = [xigen EXCEPT ![e.ino] = e.gen + 1] BY <1>0, <3>1, XigenIncEffect
        <4>2. e.ino \in Ino /\ e.gen \in Nat BY <1>0, DyingFields
        <4>3. e.gen = xigen[e.ino] BY <1>0, <4>1, <4>2 DEF EndingAlone, Ending
        <4>4. xigen'[g[1]] = IF g[1] = e.ino THEN e.gen + 1 ELSE xigen[g[1]]
          BY <1>0, <2>1, <4>1 DEF TypeOK
        <4> QED BY <2>1, <2>2, <2>3, <4>2, <4>3, <4>4
      <3> QED BY <2>3, <3>1, RestStep
    <2>4. ASSUME NEW e \in dying, Ending(e, g[1]), e.step = "gen", e.gen = g[2]
          PROVE  \/ g[2] < xigen'[g[1]]
                 \/ \E f \in dying' : Ending(f, g[1]) /\ f.step = "gen" /\ f.gen = g[2]
      <3>1. CASE e \in dying' BY <2>4, <3>1
      <3>2. CASE XigenInc(e)
        <4>1. xigen' = [xigen EXCEPT ![e.ino] = e.gen + 1] BY <1>0, <3>2, XigenIncEffect
        <4>2. e.ino = g[1] BY <2>4 DEF Ending
        <4>3. xigen'[g[1]] = e.gen + 1 BY <1>0, <2>1, <4>1, <4>2 DEF TypeOK
        <4> QED BY <2>1, <2>4, <4>3
      <3> QED BY <2>4, <3>1, <3>2, RestStep
    <2> QED BY <1>0, <1>1, <2>3, <2>4 DEF GoneOld
  <1>2. CASE g \notin gone
    <2>1. PICK i \in Ino : Evict(i) BY <1>2, RestStep
    <2>2. PICK e \in DyingType : Destroyed(e, i) /\ dying' = dying \cup {e} BY <1>0, <2>1, EvictEffect
    <2>3. icache[i].nlink = 0 /\ \E o \in Nat : gone' = gone \cup {<<i, icache[i].gen, o>>}
      BY <1>0, <1>2, <2>1, EvictEffect
    <2>4. PICK o \in Nat : g = <<i, icache[i].gen, o>> BY <1>2, <2>3
    <2>5. g[1] = i /\ g[2] = icache[i].gen BY <2>4
    <2> QED BY <2>2, <2>3, <2>5 DEF Destroyed, Ending
  <1> QED BY <1>1, <1>2

-----------------------------------------------------------------------------
(* What a step does to a lower inode, to an entry, to the lower inodes and *)
(* the links of an inode, to an inode that is being destroyed.             *)
Keeps(x) ==
  low'[x].n = low[x].n /\ low'[x].hid = low[x].hid /\ (low'[x] = low[x] \/ Let(x))
Appears(x) ==
  \/ \E p \in Procs : Creates(p, x)
  \/ \E b \in Br : DirectCreate(x, b)
  \/ \E i \in Ino, z \in Low, b \in Br : Copyup(i, z, x, b)

LEMMA LowStep ==
  ASSUME OwnFs, IInv, Next, ~misplaced', NEW x \in Low
  PROVE  \/ Keeps(x) \/ Appears(x)
         \/ \E i \in Ino, b \in Br : Unlink(i, x, b)
         \/ \E i \in Ino : Link(i, x)
         \/ \E i \in Ino, y \in Low, b \in Br : Copyup(i, x, y, b)
         \/ \E b \in Br : DirectRemove(x, b)
         \/ Unhide(x)
  <1> DEFINE G == \/ Keeps(x) \/ Appears(x)
                  \/ \E i \in Ino, b \in Br : Unlink(i, x, b)
                  \/ \E i \in Ino : Link(i, x)
                  \/ \E i \in Ino, y \in Low, b \in Br : Copyup(i, x, y, b)
                  \/ \E b \in Br : DirectRemove(x, b)
                  \/ Unhide(x)
  <1>0. TypeOK /\ ProcsOK /\ LowsOK BY DEF IInv
  <1>01. low'[x] = low[x] => G BY DEF Keeps
  <1>02. Keeps(x) => G OBVIOUS
  <1> HIDE DEF G
  <1>1. ASSUME vars' = vars PROVE G BY <1>1, <1>01 DEF vars
  <1>2. ASSUME NEW p \in Procs, NEW x0 \in Low, NEW b0 \in Br, NEW k0 \in {"inode", "ino"},
               Starts(p, x0, b0, k0)
        PROVE G BY <1>2, <1>01 DEF Starts
  <1>3. ASSUME NEW p \in Procs, NEW x0 \in Low, Creates(p, x0) PROVE G
    <2>1. CASE x = x0 BY <2>1, <1>3 DEF G, Appears
    <2>2. CASE x # x0
      <3>1. low'[x] = low[x] BY <1>0, <1>3, <2>2, CreateEffect DEF Creates, Becomes
      <3> QED BY <3>1, <1>01
    <2> QED BY <2>1, <2>2
  <1>4. ASSUME NEW p \in Procs, NewIno(p) PROVE G BY <1>0, <1>4, <1>01, NewInoEffect
  <1>5. ASSUME NEW p \in Procs, Write(p) PROVE G BY <1>0, <1>5, <1>01, EntryWriteEffect
  <1>6. ASSUME NEW p \in Procs, IgetNew(p) PROVE G BY <1>0, <1>6, <1>01, IgetNewEffect DEF IgetNew
  <1>7. ASSUME NEW p \in Procs, IgetOld(p) PROVE G BY <1>0, <1>7, <1>01, IgetOldEffect DEF IgetOld
  <1>8. ASSUME NEW p \in Procs, SetInode(p) PROVE G BY <1>0, <1>8, <1>01, SetInodeEffect
  <1>9. ASSUME NEW p \in Procs, SetFails(p) PROVE G BY <1>0, <1>9, <1>01, SetFailsEffect
  <1>10. ASSUME NEW p \in Procs, RevalMatched(p) PROVE G BY <1>0, <1>10, <1>01, RevalEffect
  <1>11. ASSUME NEW i0 \in Ino, Evict(i0) PROVE G BY <1>0, <1>11, <1>01, EvictEffect
  <1>12. ASSUME NEW e0 \in dying, XigenInc(e0) PROVE G BY <1>0, <1>12, <1>01, XigenIncEffect
  <1>13. ASSUME NEW e0 \in dying, ClearBit(e0) PROVE G BY <1>0, <1>13, <1>01, ClearBitEffect
  <1>14. ASSUME NEW e0 \in dying, Zero(e0) PROVE G BY <1>0, <1>14, <1>01, ZeroEffect DEF Zero
  <1>15. ASSUME NEW e0 \in dying, Put(e0) PROVE G
    <2>1. Keeps(x) BY <1>0, <1>15, PutEffect DEF Put, Keeps
    <2> QED BY <2>1, <1>02
  <1>16. ASSUME NEW i0 \in Ino, NEW x0 \in Low, NEW b0 \in Br, Unlink(i0, x0, b0) PROVE G
    <2>1. CASE x = x0 BY <2>1, <1>16 DEF G
    <2>2. CASE x # x0
      <3>1. low'[x] = low[x] BY <1>0, <1>16, <2>2, UnlinkEffect DEF Becomes
      <3> QED BY <3>1, <1>01
    <2> QED BY <2>1, <2>2
  <1>17. ASSUME NEW i0 \in Ino, NEW x0 \in Low, Link(i0, x0) PROVE G
    <2>1. CASE x = x0 BY <2>1, <1>17 DEF G
    <2>2. CASE x # x0
      <3>1. low'[x] = low[x] BY <1>0, <1>17, <2>2, LinkEffect DEF Becomes
      <3> QED BY <3>1, <1>01
    <2> QED BY <2>1, <2>2
  <1>18. ASSUME NEW i0 \in Ino, NEW x0 \in Low, NEW y0 \in Low, NEW b0 \in Br,
               Copyup(i0, x0, y0, b0)
        PROVE G
    <2>1. CASE x = x0 BY <2>1, <1>18 DEF G
    <2>2. CASE x = y0 BY <2>2, <1>18 DEF G, Appears
    <2>3. CASE x # x0 /\ x # y0
      <3>1. low'[x] = low[x] BY <1>0, <1>18, <2>3, CopyupEffect
      <3> QED BY <3>1, <1>01
    <2> QED BY <2>1, <2>2, <2>3
  <1>19. ASSUME NEW x0 \in Low, NEW b0 \in Br, DirectCreate(x0, b0) PROVE G
    <2>1. CASE x = x0 BY <2>1, <1>19 DEF G, Appears
    <2>2. CASE x # x0
      <3>1. low'[x] = low[x] BY <1>0, <1>19, <2>2, DirectCreateEffect DEF Becomes
      <3> QED BY <3>1, <1>01
    <2> QED BY <2>1, <2>2
  <1>20. ASSUME NEW x0 \in Low, NEW b0 \in Br, DirectRemove(x0, b0) PROVE G
    <2>1. CASE x = x0 BY <2>1, <1>20 DEF G
    <2>2. CASE x # x0
      <3>1. Keeps(x) BY <1>0, <1>20, <2>2, DirectRemoveEffect DEF Keeps
      <3> QED BY <3>1, <1>02
    <2> QED BY <2>1, <2>2
  <1>21. ASSUME NEW x0 \in Low, Unhide(x0) PROVE G
    <2>1. CASE x = x0 BY <2>1, <1>21 DEF G
    <2>2. CASE x # x0
      <3>1. low'[x] = low[x] BY <1>0, <1>21, <2>2, UnhideEffect DEF Becomes
      <3> QED BY <3>1, <1>01
    <2> QED BY <2>1, <2>2
  <1>22. ASSUME XibTrunc PROVE G BY <1>0, <1>22, <1>01, XibTruncEffect
  <1>23. ASSUME SetXino PROVE G BY <1>0, <1>23, <1>01, SetXinoEffect
  <1>24. G
    BY <1>1, <1>2, <1>3, <1>4, <1>5, <1>6, <1>7, <1>8, <1>9, <1>10, <1>11, <1>12, <1>13, <1>14, <1>15,
       <1>16, <1>17, <1>18, <1>19, <1>20, <1>21, <1>22, <1>23, NextCases
  <1> QED BY <1>24 DEF G

LEMMA NumberStep ==
  ASSUME OwnFs, IInv, Next, ~misplaced', NEW x \in Low
  PROVE  \/ xino'[x] = xino[x]
         \/ \E p \in Procs : proc[p].x = x /\ (Write(p) \/ SetInode(p) \/ SetFails(p))
         \/ \E e \in dying : Zero(e) /\ x \in e.at /\ (e.unlinked \/ ~Named(x))
         \/ \E i \in Ino, z \in Low, b \in Br : Copyup(i, z, x, b)
  <1> DEFINE G == \/ xino'[x] = xino[x]
                  \/ \E p \in Procs : proc[p].x = x /\ (Write(p) \/ SetInode(p) \/ SetFails(p))
                  \/ \E e \in dying : Zero(e) /\ x \in e.at /\ (e.unlinked \/ ~Named(x))
                  \/ \E i \in Ino, z \in Low, b \in Br : Copyup(i, z, x, b)
  <1>0. TypeOK /\ ProcsOK /\ LowsOK BY DEF IInv
  <1>01. xino'[x] = xino[x] => G OBVIOUS
  <1>02. xino \in [Low -> 0 .. MaxIno] BY <1>0 DEF TypeOK
  <1> HIDE DEF G
  <1>1. ASSUME vars' = vars PROVE G BY <1>1, <1>01 DEF vars
  <1>2. ASSUME NEW p \in Procs, NEW x0 \in Low, NEW b0 \in Br, NEW k0 \in {"inode", "ino"},
               Starts(p, x0, b0, k0)
        PROVE G BY <1>2, <1>01 DEF Starts
  <1>3. ASSUME NEW p \in Procs, NEW x0 \in Low, Creates(p, x0)
        PROVE G BY <1>0, <1>3, <1>01, CreateEffect DEF Creates
  <1>4. ASSUME NEW p \in Procs, NewIno(p) PROVE G BY <1>0, <1>4, <1>01, NewInoEffect
  <1>5. ASSUME NEW p \in Procs, Write(p) PROVE G
    <2>1. xino' = [xino EXCEPT ![proc[p].x] = xino'[proc[p].x]] BY <1>0, <1>5, <1>02, EntryWriteEffect
    <2>2. CASE proc[p].x = x BY <2>2, <1>5 DEF G
    <2>3. CASE proc[p].x # x BY <2>1, <2>3, <1>01, <1>02
    <2> QED BY <2>2, <2>3
  <1>6. ASSUME NEW p \in Procs, IgetNew(p) PROVE G BY <1>0, <1>6, <1>01, IgetNewEffect DEF IgetNew
  <1>7. ASSUME NEW p \in Procs, IgetOld(p) PROVE G BY <1>0, <1>7, <1>01, IgetOldEffect DEF IgetOld
  <1>8. ASSUME NEW p \in Procs, SetInode(p) PROVE G
    <2>1. xino' = [xino EXCEPT ![proc[p].x] = xino'[proc[p].x]] BY <1>0, <1>8, <1>02, SetInodeEffect
    <2>2. CASE proc[p].x = x BY <2>2, <1>8 DEF G
    <2>3. CASE proc[p].x # x BY <2>1, <2>3, <1>01, <1>02
    <2> QED BY <2>2, <2>3
  <1>9. ASSUME NEW p \in Procs, SetFails(p) PROVE G
    <2>1. xino' = [xino EXCEPT ![proc[p].x] = xino'[proc[p].x]] BY <1>0, <1>9, <1>02, SetFailsEffect
    <2>2. CASE proc[p].x = x BY <2>2, <1>9 DEF G
    <2>3. CASE proc[p].x # x BY <2>1, <2>3, <1>01, <1>02
    <2> QED BY <2>2, <2>3
  <1>10. ASSUME NEW p \in Procs, RevalMatched(p) PROVE G BY <1>0, <1>10, <1>01, RevalEffect
  <1>11. ASSUME NEW i0 \in Ino, Evict(i0) PROVE G BY <1>0, <1>11, <1>01, EvictEffect
  <1>12. ASSUME NEW e0 \in dying, XigenInc(e0) PROVE G BY <1>0, <1>12, <1>01, XigenIncEffect
  <1>13. ASSUME NEW e0 \in dying, ClearBit(e0) PROVE G BY <1>0, <1>13, <1>01, ClearBitEffect
  <1>14. ASSUME NEW e0 \in dying, Zero(e0) PROVE G
    <2>1. xino'[x] = xino[x] \/ (x \in e0.at /\ (e0.unlinked \/ ~Named(x)))
      BY <1>0, <1>14, ZeroEffect DEF Zero
    <2>2. CASE x \in e0.at /\ (e0.unlinked \/ ~Named(x)) BY <2>2, <1>14 DEF G
    <2>3. CASE ~(x \in e0.at /\ (e0.unlinked \/ ~Named(x))) BY <2>1, <2>3, <1>01
    <2> QED BY <2>2, <2>3
  <1>15. ASSUME NEW e0 \in dying, Put(e0) PROVE G BY <1>0, <1>15, <1>01, PutEffect DEF Put
  <1>16. ASSUME NEW i0 \in Ino, NEW x0 \in Low, NEW b0 \in Br, Unlink(i0, x0, b0)
        PROVE G BY <1>0, <1>16, <1>01, UnlinkEffect
  <1>17. ASSUME NEW i0 \in Ino, NEW x0 \in Low, Link(i0, x0)
        PROVE G BY <1>0, <1>17, <1>01, LinkEffect
  <1>18. ASSUME NEW i0 \in Ino, NEW x0 \in Low, NEW y0 \in Low, NEW b0 \in Br,
               Copyup(i0, x0, y0, b0)
        PROVE G
    <2>1. xino' = [xino EXCEPT ![y0] = i0] BY <1>0, <1>18, CopyupEffect
    <2>2. CASE y0 = x BY <2>2, <1>18 DEF G
    <2>3. CASE y0 # x BY <2>1, <2>3, <1>01, <1>02
    <2> QED BY <2>2, <2>3
  <1>19. ASSUME NEW x0 \in Low, NEW b0 \in Br, DirectCreate(x0, b0)
        PROVE G BY <1>0, <1>19, <1>01, DirectCreateEffect
  <1>20. ASSUME NEW x0 \in Low, NEW b0 \in Br, DirectRemove(x0, b0)
        PROVE G BY <1>0, <1>20, <1>01, DirectRemoveEffect
  <1>21. ASSUME NEW x0 \in Low, Unhide(x0) PROVE G BY <1>0, <1>21, <1>01, UnhideEffect
  <1>22. ASSUME XibTrunc PROVE G BY <1>0, <1>22, <1>01, XibTruncEffect
  <1>23. ASSUME SetXino PROVE G BY <1>0, <1>23, <1>01, SetXinoEffect
  <1>24. G
    BY <1>1, <1>2, <1>3, <1>4, <1>5, <1>6, <1>7, <1>8, <1>9, <1>10, <1>11, <1>12, <1>13, <1>14, <1>15,
       <1>16, <1>17, <1>18, <1>19, <1>20, <1>21, <1>22, <1>23, NextCases
  <1> QED BY <1>24 DEF G

LEMMA LinkStep ==
  ASSUME OwnFs, IInv, Next, ~misplaced', NEW i \in Ino
  PROVE  \/ icache'[i].nlink = icache[i].nlink \/ icache'[i].at = {}
         \/ \E p \in Procs : SetInode(p) /\ proc[p].ino = i
         \/ \E x \in Low, b \in Br : Unlink(i, x, b)
         \/ \E x \in Low : Link(i, x)
  <1> DEFINE G == \/ icache'[i].nlink = icache[i].nlink \/ icache'[i].at = {}
                  \/ \E p \in Procs : SetInode(p) /\ proc[p].ino = i
                  \/ \E x \in Low, b \in Br : Unlink(i, x, b)
                  \/ \E x \in Low : Link(i, x)
  <1>0. TypeOK /\ ProcsOK /\ LowsOK BY DEF IInv
  <1>01. icache'[i] = icache[i] => G OBVIOUS
  <1>02. icache'[i].at = {} => G OBVIOUS
  <1>03. icache'[i].nlink = icache[i].nlink => G OBVIOUS
  <1> HIDE DEF G
  <1>1. ASSUME vars' = vars PROVE G BY <1>1, <1>01 DEF vars
  <1>2. ASSUME NEW p \in Procs, NEW x0 \in Low, NEW b0 \in Br, NEW k0 \in {"inode", "ino"},
               Starts(p, x0, b0, k0)
        PROVE G BY <1>2, <1>01 DEF Starts
  <1>3. ASSUME NEW p \in Procs, NEW x0 \in Low, Creates(p, x0)
        PROVE G BY <1>0, <1>3, <1>01, CreateEffect DEF Creates
  <1>4. ASSUME NEW p \in Procs, NewIno(p) PROVE G BY <1>0, <1>4, <1>01, NewInoEffect
  <1>5. ASSUME NEW p \in Procs, Write(p) PROVE G BY <1>0, <1>5, <1>01, EntryWriteEffect
  <1>6. ASSUME NEW p \in Procs, IgetNew(p) PROVE G
    <2>1. CASE i = proc[p].ino
      <3>1. icache'[i].at = {} BY <1>0, <1>6, <2>1, IgetNewEffect DEF IgetNew
      <3> QED BY <3>1, <1>02
    <2>2. CASE i # proc[p].ino
      <3>1. icache'[i] = icache[i] BY <1>0, <1>6, <2>2, IgetNewEffect DEF IgetNew
      <3> QED BY <3>1, <1>01
    <2> QED BY <2>1, <2>2
  <1>7. ASSUME NEW p \in Procs, IgetOld(p) PROVE G
    <2>1. icache' = [icache EXCEPT ![proc[p].ino].users = icache[proc[p].ino].users \cup {p}] /\ proc[p].ino \in Ino BY <1>0, <1>7, IgetOldEffect DEF IgetOld
    <2>2. icache[proc[p].ino].users \cup {p} \in SUBSET Procs BY <1>0, <2>1, Inodes
    <2>3. icache'[i].nlink = icache[i].nlink /\ icache'[i].at = icache[i].at BY <1>0, <2>1, <2>2, UsersEffect
    <2> QED BY <2>3, <1>03
  <1>8. ASSUME NEW p \in Procs, SetInode(p) PROVE G
    <2>1. CASE i = proc[p].ino BY <2>1, <1>8 DEF G
    <2>2. CASE i # proc[p].ino
      <3>1. icache'[i] = icache[i] BY <1>0, <1>8, <2>2, SetInodeEffect
      <3> QED BY <3>1, <1>01
    <2> QED BY <2>1, <2>2
  <1>9. ASSUME NEW p \in Procs, SetFails(p) PROVE G
    <2>1. CASE i = proc[p].ino
      <3>1. icache'[i].at = {} BY <1>0, <1>9, <2>1, SetFailsEffect, NoInodeType
      <3> QED BY <3>1, <1>02
    <2>2. CASE i # proc[p].ino
      <3>1. icache'[i] = icache[i] BY <1>0, <1>9, <2>2, SetFailsEffect, NoInodeType
      <3> QED BY <3>1, <1>01
    <2> QED BY <2>1, <2>2
  <1>10. ASSUME NEW p \in Procs, RevalMatched(p) PROVE G
    <2>1. icache' = [icache EXCEPT ![proc[p].ino].users = icache[proc[p].ino].users \ {p}] /\ proc[p].ino \in Ino BY <1>0, <1>10, RevalEffect
    <2>2. icache[proc[p].ino].users \ {p} \in SUBSET Procs BY <1>0, <2>1, Inodes
    <2>3. icache'[i].nlink = icache[i].nlink /\ icache'[i].at = icache[i].at BY <1>0, <2>1, <2>2, UsersEffect
    <2> QED BY <2>3, <1>03
  <1>11. ASSUME NEW i0 \in Ino, Evict(i0) PROVE G
    <2>1. CASE i = i0
      <3>1. icache'[i].at = {} BY <1>0, <1>11, <2>1, EvictEffect, NoInodeType
      <3> QED BY <3>1, <1>02
    <2>2. CASE i # i0
      <3>1. icache'[i] = icache[i] BY <1>0, <1>11, <2>2, EvictEffect, NoInodeType
      <3> QED BY <3>1, <1>01
    <2> QED BY <2>1, <2>2
  <1>12. ASSUME NEW e0 \in dying, XigenInc(e0) PROVE G BY <1>0, <1>12, <1>01, XigenIncEffect
  <1>13. ASSUME NEW e0 \in dying, ClearBit(e0) PROVE G BY <1>0, <1>13, <1>01, ClearBitEffect
  <1>14. ASSUME NEW e0 \in dying, Zero(e0) PROVE G BY <1>0, <1>14, <1>01, ZeroEffect DEF Zero
  <1>15. ASSUME NEW e0 \in dying, Put(e0) PROVE G BY <1>0, <1>15, <1>01, PutEffect DEF Put
  <1>16. ASSUME NEW i0 \in Ino, NEW x0 \in Low, NEW b0 \in Br, Unlink(i0, x0, b0) PROVE G
    <2>1. CASE i = i0 BY <2>1, <1>16 DEF G
    <2>2. CASE i # i0
      <3>1. icache' = [icache EXCEPT ![i0].nlink = icache[i0].nlink - 1] /\ icache[i0].nlink - 1 \in Nat BY <1>0, <1>16, UnlinkEffect
      <3>2. icache'[i] = icache[i] BY <1>0, <2>2, <3>1, LinksEffect
      <3> QED BY <3>2, <1>01
    <2> QED BY <2>1, <2>2
  <1>17. ASSUME NEW i0 \in Ino, NEW x0 \in Low, Link(i0, x0) PROVE G
    <2>1. CASE i = i0 BY <2>1, <1>17 DEF G
    <2>2. CASE i # i0
      <3>1. icache' = [icache EXCEPT ![i0].nlink = icache[i0].nlink + 1] /\ icache[i0].nlink + 1 \in Nat BY <1>0, <1>17, LinkEffect
      <3>2. icache'[i] = icache[i] BY <1>0, <2>2, <3>1, LinksEffect
      <3> QED BY <3>2, <1>01
    <2> QED BY <2>1, <2>2
  <1>18. ASSUME NEW i0 \in Ino, NEW x0 \in Low, NEW y0 \in Low, NEW b0 \in Br,
               Copyup(i0, x0, y0, b0)
        PROVE G
    <2>1. icache' = [icache EXCEPT ![i0].at = icache[i0].at \cup {y0}] BY <1>0, <1>18, CopyupEffect
    <2>2. icache[i0].at \cup {y0} \in SUBSET Low BY <1>0, Inodes
    <2>3. icache'[i].nlink = icache[i].nlink BY <1>0, <2>1, <2>2, LowsEffect
    <2> QED BY <2>3, <1>03
  <1>19. ASSUME NEW x0 \in Low, NEW b0 \in Br, DirectCreate(x0, b0)
        PROVE G BY <1>0, <1>19, <1>01, DirectCreateEffect
  <1>20. ASSUME NEW x0 \in Low, NEW b0 \in Br, DirectRemove(x0, b0)
        PROVE G BY <1>0, <1>20, <1>01, DirectRemoveEffect
  <1>21. ASSUME NEW x0 \in Low, Unhide(x0) PROVE G BY <1>0, <1>21, <1>01, UnhideEffect
  <1>22. ASSUME XibTrunc PROVE G BY <1>0, <1>22, <1>01, XibTruncEffect
  <1>23. ASSUME SetXino PROVE G BY <1>0, <1>23, <1>01, SetXinoEffect
  <1>24. G
    BY <1>1, <1>2, <1>3, <1>4, <1>5, <1>6, <1>7, <1>8, <1>9, <1>10, <1>11, <1>12, <1>13, <1>14, <1>15,
       <1>16, <1>17, <1>18, <1>19, <1>20, <1>21, <1>22, <1>23, NextCases
  <1> QED BY <1>24 DEF G

LEMMA DyingStep ==
  ASSUME OwnFs, IInv, Next, ~misplaced', NEW f \in dying'
  PROVE  \/ f \in dying
         \/ \E i \in Ino : Evict(i) /\ Destroyed(f, i) /\ dying' = dying \cup {f}
         \/ \E e \in dying : /\ f.at = e.at /\ f.unlinked = e.unlinked /\ e.step # "put" /\ e # f
                              /\ dying' = (dying \ {e}) \cup {f}
  <1> DEFINE G == \/ f \in dying
                  \/ \E i \in Ino : Evict(i) /\ Destroyed(f, i) /\ dying' = dying \cup {f}
                  \/ \E e \in dying : /\ f.at = e.at /\ f.unlinked = e.unlinked /\ e.step # "put" /\ e # f
                                       /\ dying' = (dying \ {e}) \cup {f}
  <1>0. TypeOK /\ ProcsOK /\ LowsOK BY DEF IInv
  <1>01. dying' = dying => G OBVIOUS
  <1>02. f \in dying => G OBVIOUS
  <1> HIDE DEF G
  <1>1. ASSUME vars' = vars PROVE G BY <1>1, <1>01 DEF vars
  <1>2. ASSUME NEW p \in Procs, NEW x0 \in Low, NEW b0 \in Br, NEW k0 \in {"inode", "ino"},
               Starts(p, x0, b0, k0)
        PROVE G BY <1>2, <1>01 DEF Starts
  <1>3. ASSUME NEW p \in Procs, NEW x0 \in Low, Creates(p, x0)
        PROVE G BY <1>0, <1>3, <1>01, CreateEffect DEF Creates
  <1>4. ASSUME NEW p \in Procs, NewIno(p) PROVE G BY <1>0, <1>4, <1>01, NewInoEffect
  <1>5. ASSUME NEW p \in Procs, Write(p) PROVE G BY <1>0, <1>5, <1>01, EntryWriteEffect
  <1>6. ASSUME NEW p \in Procs, IgetNew(p) PROVE G BY <1>0, <1>6, <1>01, IgetNewEffect DEF IgetNew
  <1>7. ASSUME NEW p \in Procs, IgetOld(p) PROVE G BY <1>0, <1>7, <1>01, IgetOldEffect DEF IgetOld
  <1>8. ASSUME NEW p \in Procs, SetInode(p) PROVE G BY <1>0, <1>8, <1>01, SetInodeEffect
  <1>9. ASSUME NEW p \in Procs, SetFails(p) PROVE G BY <1>0, <1>9, <1>01, SetFailsEffect
  <1>10. ASSUME NEW p \in Procs, RevalMatched(p) PROVE G BY <1>0, <1>10, <1>01, RevalEffect
  <1>11. ASSUME NEW i0 \in Ino, Evict(i0) PROVE G
    <2>1. PICK e \in DyingType : Destroyed(e, i0) /\ dying' = dying \cup {e} BY <1>0, <1>11, EvictEffect
    <2>2. CASE f = e BY <2>1, <2>2, <1>11 DEF G
    <2>3. CASE f # e BY <2>1, <2>3, <1>02
    <2> QED BY <2>2, <2>3
  <1>12. ASSUME NEW e0 \in dying, XigenInc(e0) PROVE G
    <2>1. Steps(e0, "bit") /\ e0.step # "bit" /\ e0.step # "put" BY <1>0, <1>12, XigenIncEffect
    <2>2. PICK g \in DyingType : /\ g.at = e0.at /\ g.unlinked = e0.unlinked /\ g.step = "bit"
                                 /\ dying' = (dying \ {e0}) \cup {g}
      BY <2>1 DEF Steps
    <2>3. CASE f = g BY <2>1, <2>2, <2>3 DEF G
    <2>4. CASE f # g BY <2>2, <2>4, <1>02
    <2> QED BY <2>3, <2>4
  <1>13. ASSUME NEW e0 \in dying, ClearBit(e0) PROVE G
    <2>1. Steps(e0, "zero") /\ e0.step # "zero" /\ e0.step # "put" BY <1>0, <1>13, ClearBitEffect
    <2>2. PICK g \in DyingType : /\ g.at = e0.at /\ g.unlinked = e0.unlinked /\ g.step = "zero"
                                 /\ dying' = (dying \ {e0}) \cup {g}
      BY <2>1 DEF Steps
    <2>3. CASE f = g BY <2>1, <2>2, <2>3 DEF G
    <2>4. CASE f # g BY <2>2, <2>4, <1>02
    <2> QED BY <2>3, <2>4
  <1>14. ASSUME NEW e0 \in dying, Zero(e0) PROVE G
    <2>1. Steps(e0, "put") /\ e0.step # "put" /\ e0.step # "put" BY <1>0, <1>14, ZeroEffect DEF Zero
    <2>2. PICK g \in DyingType : /\ g.at = e0.at /\ g.unlinked = e0.unlinked /\ g.step = "put"
                                 /\ dying' = (dying \ {e0}) \cup {g}
      BY <2>1 DEF Steps
    <2>3. CASE f = g BY <2>1, <2>2, <2>3 DEF G
    <2>4. CASE f # g BY <2>2, <2>4, <1>02
    <2> QED BY <2>3, <2>4
  <1>15. ASSUME NEW e0 \in dying, Put(e0) PROVE G
    <2>1. dying' = dying \ {e0} BY <1>0, <1>15, PutEffect DEF Put
    <2> QED BY <2>1, <1>02
  <1>16. ASSUME NEW i0 \in Ino, NEW x0 \in Low, NEW b0 \in Br, Unlink(i0, x0, b0)
        PROVE G BY <1>0, <1>16, <1>01, UnlinkEffect
  <1>17. ASSUME NEW i0 \in Ino, NEW x0 \in Low, Link(i0, x0)
        PROVE G BY <1>0, <1>17, <1>01, LinkEffect
  <1>18. ASSUME NEW i0 \in Ino, NEW x0 \in Low, NEW y0 \in Low, NEW b0 \in Br,
               Copyup(i0, x0, y0, b0)
        PROVE G BY <1>0, <1>18, <1>01, CopyupEffect
  <1>19. ASSUME NEW x0 \in Low, NEW b0 \in Br, DirectCreate(x0, b0)
        PROVE G BY <1>0, <1>19, <1>01, DirectCreateEffect
  <1>20. ASSUME NEW x0 \in Low, NEW b0 \in Br, DirectRemove(x0, b0)
        PROVE G BY <1>0, <1>20, <1>01, DirectRemoveEffect
  <1>21. ASSUME NEW x0 \in Low, Unhide(x0) PROVE G BY <1>0, <1>21, <1>01, UnhideEffect
  <1>22. ASSUME XibTrunc PROVE G BY <1>0, <1>22, <1>01, XibTruncEffect
  <1>23. ASSUME SetXino PROVE G BY <1>0, <1>23, <1>01, SetXinoEffect
  <1>24. G
    BY <1>1, <1>2, <1>3, <1>4, <1>5, <1>6, <1>7, <1>8, <1>9, <1>10, <1>11, <1>12, <1>13, <1>14, <1>15,
       <1>16, <1>17, <1>18, <1>19, <1>20, <1>21, <1>22, <1>23, NextCases
  <1> QED BY <1>24 DEF G

LEMMA AtStep ==
  ASSUME OwnFs, IInv, Next, ~misplaced', NEW i \in Ino, NEW x \in icache'[i].at
  PROVE  \/ x \in icache[i].at
         \/ \E p \in Procs : SetInode(p) /\ proc[p].ino = i /\ proc[p].x = x
         \/ \E z \in Low, b \in Br : Copyup(i, z, x, b)
  <1>0. TypeOK /\ ProcsOK /\ LowsOK BY DEF IInv
  <1>1. Hashed(i)' BY NoInodeType DEF Hashed
  <1>2. ASSUME NEW p \in Procs, IgetNew(p), proc[p].ino = i PROVE FALSE
    <2>1. icache'[i].at = {} BY <1>0, <1>2, IgetNewEffect DEF IgetNew
    <2> QED BY <2>1
  <1>3. Stays(i) BY <1>1, <1>2, InodeStep
  <1>4. ASSUME NEW p \in Procs, SetInode(p), proc[p].ino = i PROVE x = proc[p].x
    <2>1. icache'[i].at = {proc[p].x} BY <1>0, <1>4, SetInodeEffect
    <2> QED BY <2>1
  <1>5. ASSUME NEW z \in Low, NEW y \in Low, NEW b \in Br, Copyup(i, z, y, b)
        PROVE  x \in icache[i].at \/ x = y
    BY <1>5, CopyupFrom
  <1> QED BY <1>3, <1>4, <1>5 DEF Stays, Sets

(* Lower inodes with a name, open ones, held ones.                         *)
LEMMA HeldNotFree ==
  ASSUME TypeOK, LowsOK, NEW x \in Low,
         (\E i \in Ino : x \in icache[i].at) \/ (\E e \in dying : x \in e.at) \/ (\E p \in Procs : On(p, x))
  PROVE  low[x] # Free
  BY FreeAlone

LEMMA AppearsFree ==
  ASSUME OwnFs, IInv, NEW x \in Low, Appears(x)
  PROVE  low[x] = Free
  <1>0. TypeOK /\ LowsOK /\ ProcsOK BY DEF IInv
  <1>1. ASSUME NEW p \in Procs, Creates(p, x) PROVE low[x] = Free
    BY <1>0, <1>1, CreateEffect DEF Creates
  <1>2. ASSUME NEW b \in Br, DirectCreate(x, b) PROVE low[x] = Free BY <1>0, <1>2, DirectCreateEffect
  <1>3. ASSUME NEW i \in Ino, NEW z \in Low, NEW b \in Br, Copyup(i, z, x, b) PROVE low[x] = Free
    BY <1>0, <1>3, CopyupEffect
  <1>4. low[x] = Free BY <1>1, <1>2, <1>3 DEF Appears
  <1> QED BY <1>4

LEMMA NamedStep ==
  ASSUME OwnFs, IInv, Next, ~misplaced', NEW x \in Low, low[x] # Free, Named(x)'
  PROVE  Named(x)
  <1>0. TypeOK /\ LowsOK /\ ProcsOK BY DEF IInv
  <1>1. PICK b \in Br : low'[x].n[b] > 0 BY DEF Named
  <1>2. ~Appears(x) BY AppearsFree
  <1>3. Keeps(x) => Named(x) BY <1>1 DEF Keeps, Named
  <1>4. ASSUME NEW i \in Ino, NEW c \in Br, Unlink(i, x, c) PROVE Named(x)
    BY <1>0, <1>4, UnlinkEffect DEF Shown, Named
  <1>5. ASSUME NEW i \in Ino, Link(i, x) PROVE Named(x)
    BY <1>0, <1>5, LinkEffect, BrAssumption DEF Shown, Named
  <1>6. ASSUME NEW i \in Ino, NEW y \in Low, NEW c \in Br, Copyup(i, x, y, c) PROVE Named(x)
    BY <1>0, <1>6, CopyupEffect DEF Shown, Named
  <1>7. ASSUME NEW c \in Br, DirectRemove(x, c) PROVE Named(x)
    BY <1>0, <1>7, DirectRemoveEffect DEF Named
  <1>8. Unhide(x) => Named(x) BY <1>0, UnhideEffect
  <1> QED BY <1>2, <1>3, <1>4, <1>5, <1>6, <1>7, <1>8, LowStep

(* Nothing but a new file, or a whiteout that goes, can be reached anew.   *)
LEMMA ReachableStep ==
  ASSUME OwnFs, IInv, Next, ~misplaced', NEW x \in Low, low[x] # Free, Reachable(x)'
  PROVE  Reachable(x) \/ Unhide(x)
  <1>0. TypeOK /\ LowsOK /\ ProcsOK BY DEF IInv
  <1>1. PICK b \in Br : low'[x].n[b] > 0 /\ b \notin low'[x].hid BY DEF Reachable, Shown
  <1>2. ~Appears(x) BY AppearsFree
  <1>3. Keeps(x) => Reachable(x) BY <1>1 DEF Keeps, Reachable, Shown
  <1>4. ASSUME NEW i \in Ino, NEW c \in Br, Unlink(i, x, c) PROVE Reachable(x)
    BY <1>0, <1>4, UnlinkEffect DEF Reachable
  <1>5. ASSUME NEW i \in Ino, Link(i, x) PROVE Reachable(x)
    BY <1>0, <1>5, LinkEffect, BrAssumption DEF Reachable
  <1>6. ASSUME NEW i \in Ino, NEW y \in Low, NEW c \in Br, Copyup(i, x, y, c) PROVE Reachable(x)
    BY <1>0, <1>6, CopyupEffect DEF Reachable
  <1>7. ASSUME NEW c \in Br, DirectRemove(x, c) PROVE Reachable(x)
    BY <1>0, <1>7, DirectRemoveEffect DEF Reachable, Shown
  <1> QED BY <1>2, <1>3, <1>4, <1>5, <1>6, <1>7, LowStep

LEMMA OnStep ==
  ASSUME OwnFs, IInv, Next, ~misplaced', NEW x \in Low, NEW q \in Procs, On(q, x)'
  PROVE  \/ On(q, x)
         \/ Creates(q, x)
         \/ \E b \in Br, k \in {"inode", "ino"} : Starts(q, x, b, k)
  <1>0. TypeOK /\ LowsOK /\ ProcsOK BY DEF IInv
  <1>00. proc'[q].pc # "idle" /\ proc'[q].x = x BY DEF On
  <1>1. ASSUME NEW y \in Low, NEW b \in Br, NEW k \in {"inode", "ino"}, Starts(q, y, b, k) PROVE x = y
    BY <1>0, <1>00, <1>1, EnterEffect DEF Starts
  <1>2. ASSUME NEW y \in Low, Creates(q, y) PROVE x = y
    <2>1. proc[q] = Idle BY <1>0, <1>2, CreateEffect DEF Creates
    <2> QED BY <1>0, <1>00, <1>2, <2>1, EnterEffect DEF Creates
  <1>3. ASSUME NewIno(q) PROVE On(q, x)
    <2>1. proc[q].pc # "idle" /\ \E pc1, i : GoesOn(q, pc1, i) BY <1>0, <1>3, NewInoEffect
    <2> QED BY <1>0, <2>1, GoesOnEffect
  <1>4. ASSUME IgetNew(q) PROVE On(q, x)
    <2>1. proc[q].pc # "idle" /\ \E pc1, i : GoesOn(q, pc1, i) BY <1>0, <1>4, IgetNewEffect DEF IgetNew
    <2> QED BY <1>0, <2>1, GoesOnEffect
  <1>5. ASSUME IgetOld(q) PROVE On(q, x)
    <2>1. proc[q].pc # "idle" /\ \E pc1, i : GoesOn(q, pc1, i) BY <1>5, IgetOldEffect DEF IgetOld
    <2> QED BY <1>0, <2>1, GoesOnEffect
  <1>6. ASSUME Ends(q) PROVE FALSE BY <1>0, <1>00, <1>6, EndsEffect
  <1>7. ~Write(q) /\ ~SetInode(q) /\ ~SetFails(q) /\ ~RevalMatched(q)
    BY <1>0, <1>6, EntryWriteEffect, SetInodeEffect, SetFailsEffect, RevalEffect
  <1>8. proc'[q] = proc[q] => On(q, x) BY DEF On
  <1> QED BY <1>1, <1>2, <1>3, <1>4, <1>5, <1>7, <1>8, TaskStep

LEMMA OpenStep ==
  ASSUME OwnFs, IInv, Next, ~misplaced', NEW x \in Low, low[x] # Free, Open(x)'
  PROVE  Open(x) \/ (Unhide(x) /\ Named(x) /\ xino[x] = 0)
  <1>0. TypeOK /\ LowsOK /\ ProcsOK BY DEF IInv
  <1>1. ASSUME NEW q \in Procs, On(q, x)' PROVE Open(x)
    <2>1. ~Creates(q, x) BY AppearsFree DEF Appears
    <2>2. ASSUME NEW b \in Br, NEW k \in {"inode", "ino"}, Starts(q, x, b, k) PROVE Reachable(x)
      BY <2>2 DEF Starts, Reachable
    <2> QED BY <1>1, <2>1, <2>2, OnStep DEF Open
  <1>2. Unhide(x) => Named(x) /\ xino[x] = 0 BY <1>0, UnhideEffect
  <1>3. Reachable(x)' => Open(x) \/ Unhide(x) BY ReachableStep DEF Open
  <1> QED BY <1>1, <1>2, <1>3 DEF Open

(* A lower inode of an inode keeps its number.                             *)
LEMMA AtNumber ==
  ASSUME OwnFs, IInv, Next, ~misplaced', NEW i \in Ino, NEW x \in icache[i].at, Named(x)
  PROVE  xino'[x] = i
  <1>0. TypeOK /\ LowsOK /\ ProcsOK /\ AtsOK /\ NewsOK /\ RemovedOut BY DEF IInv
  <1>1. x \in Low /\ i # 0 BY <1>0, Inodes
  <1>2. xino[x] = i BY <1>0 DEF AtsOK, AtOK
  <1>3. ASSUME NEW p \in Procs, Write(p), proc[p].x = x PROVE FALSE
    BY <1>0, <1>1, <1>2, <1>3, EntryWriteEffect
  <1>4. ASSUME NEW p \in Procs, proc[p].pc = "set", proc[p].x = x PROVE proc[p].ino = i
    <2>1. xino[x] \in {0, proc[p].ino} BY <1>0, <1>4 DEF ProcsOK, ProcOK
    <2> QED BY <1>1, <1>2, <2>1
  <1>5. ASSUME NEW p \in Procs, SetInode(p), proc[p].x = x PROVE xino'[x] = i
    <2>1. proc[p].pc = "set" /\ xino' = [xino EXCEPT ![x] = proc[p].ino] BY <1>0, <1>5, SetInodeEffect
    <2>2. proc[p].ino = i BY <1>4, <1>5, <2>1
    <2> QED BY <1>0, <1>1, <2>1, <2>2 DEF TypeOK
  <1>6. ASSUME NEW p \in Procs, SetFails(p), proc[p].x = x PROVE FALSE
    <2>1. proc[p].pc = "set" /\ icache[proc[p].ino].new /\ proc[p].ino \in Ino BY <1>0, <1>6, SetFailsEffect
    <2>2. proc[p].ino = i BY <1>4, <1>6, <2>1
    <2> QED BY <1>0, <2>1, <2>2 DEF NewsOK, NewOK
  <1>7. ASSUME NEW e \in dying, Zero(e), x \in e.at, e.unlinked PROVE FALSE
    <2>1. Removed(e) BY <1>7 DEF Zero, Removed
    <2> QED BY <1>0, <1>7, <2>1 DEF RemovedOut, OutOK
  <1>8. ASSUME NEW j \in Ino, NEW z \in Low, NEW b \in Br, Copyup(j, z, x, b) PROVE FALSE
    <2>1. low[x] = Free BY <1>0, <1>1, <1>8, CopyupEffect
    <2> QED BY <1>0, <1>1, <2>1, HeldNotFree
  <1> QED BY <1>1, <1>2, <1>3, <1>5, <1>6, <1>7, <1>8, NumberStep

(* It stays that of one inode only.                                        *)
LEMMA AtAlone ==
  ASSUME OwnFs, IInv, Next, ~misplaced', NEW i \in Ino, NEW x \in icache[i].at, NEW j \in Ino, x \in icache'[j].at
  PROVE  j = i
  <1>0. TypeOK /\ LowsOK /\ ProcsOK /\ AtsOK BY DEF IInv
  <1>1. x \in Low /\ i # 0 BY <1>0, Inodes
  <1>2. x \in icache[j].at => j = i BY <1>0 DEF AtsOK, AtOK
  <1>3. ASSUME NEW p \in Procs, SetInode(p), proc[p].ino = j, proc[p].x = x PROVE j = i
    <2>1. proc[p].pc = "set" BY <1>0, <1>3, SetInodeEffect
    <2>2. xino[x] \in {0, j} BY <1>0, <1>3, <2>1 DEF ProcsOK, ProcOK
    <2>3. Named(x) BY <1>3, <2>1, TaskFacts
    <2>4. xino[x] = i BY <1>0, <2>3 DEF AtsOK, AtOK
    <2> QED BY <1>1, <2>2, <2>4
  <1>4. ASSUME NEW z \in Low, NEW b \in Br, Copyup(j, z, x, b) PROVE FALSE
    <2>1. low[x] = Free BY <1>0, <1>1, <1>4, CopyupEffect
    <2> QED BY <1>0, <1>1, <2>1, HeldNotFree
  <1> QED BY <1>2, <1>3, <1>4, AtStep

(* The links of an inode: as many as the names of each of its lower        *)
(* inodes, and some as long as one of them is open.                        *)
Enough(i, x) ==
  /\ \A b \in Br : b \notin low[x].hid => low[x].n[b] <= icache[i].nlink
  /\ Open(x) => icache[i].nlink > 0

LEMMA UnlinkEnough ==
  ASSUME OwnFs, IInv, Next, ~misplaced', NEW i \in Ino, NEW x \in icache[i].at,
         NEW y \in Low, NEW c \in Br, Unlink(i, y, c)
  PROVE  Enough(i, x)'
  <1>0. TypeOK /\ LowsOK /\ ProcsOK /\ AtsOK /\ OneEntry /\ RemovedOut BY DEF IInv
  <1>1. x \in Low BY <1>0, Inodes
  <1>2. Enough(i, x) /\ (Named(x) => xino[x] = i) BY <1>0 DEF AtsOK, AtOK, Enough
  <1>3. /\ y \in icache[i].at /\ Shown(y, c) /\ Cardinality(Busy(y, c)) < low[y].n[c]
        /\ icache[i].nlink > 0 /\ icache[i].nlink - 1 \in Nat
        /\ icache' = [icache EXCEPT ![i].nlink = icache[i].nlink - 1]
        /\ UNCHANGED proc
    BY <1>0, UnlinkEffect
  <1>4. icache'[i].nlink = icache[i].nlink - 1 BY <1>0, <1>3, LinksEffect
  <1>5. Reachable(y) /\ low[y].n[c] > 0 BY <1>3 DEF Reachable, Shown
  <1>6. /\ low[y].hid = {} /\ Named(y) /\ ~Dead(y) BY <1>5, Reached
  <1>7. \A b \in Br : b # c => low[y].n[b] = 0 BY <1>0, <1>5, OneBranch
  <1>8. low[y].n[c] \in Nat /\ low[y].n[c] <= icache[i].nlink /\ icache[i].nlink \in Nat
    BY <1>0, <1>3, <1>6, LowTypes, Inodes DEF AtsOK, AtOK
  <1>9. CASE x = y
    <2>1. CASE Becomes(y, low[y].obj, [low[y].n EXCEPT ![c] = low[y].n[c] - 1], low[y].hid)
      <3>2. \A b \in Br : low'[y].n[b] = IF b = c THEN low[y].n[c] - 1 ELSE low[y].n[b]
        BY <1>0, <2>1, LowTypes DEF Becomes
      <3>3. \A b \in Br : low'[y].n[b] <= icache'[i].nlink BY <1>4, <1>7, <1>8, <1>3, <2>1, <3>2
      <3>4. Open(y)' => icache'[i].nlink > 0
        <4>1. ASSUME NEW b \in Br, low'[y].n[b] > 0 PROVE icache'[i].nlink > 0
          BY <1>3, <1>4, <1>7, <1>8, <2>1, <3>2, <4>1
        <4>2. Reachable(y)' => icache'[i].nlink > 0 BY <4>1 DEF Reachable, Shown
        <4>3. ASSUME NEW q \in Procs, On(q, y)' PROVE icache'[i].nlink > 0
          <5>1. On(q, y) BY <1>3, <4>3 DEF On
          <5>2. proc[q].b \in Br /\ low[y].n[proc[q].b] > 0 BY <5>1, TaskFacts DEF On
          <5>3. proc[q].b = c BY <1>7, <5>2
          <5>4. Cardinality(Busy(y, c)) >= 1 /\ Cardinality(Busy(y, c)) \in Nat BY <1>0, <5>1, <5>3, BusyTasks
          <5> QED BY <1>3, <1>4, <1>8, <5>4
        <4> QED BY <4>2, <4>3 DEF Open
      <3> QED BY <1>9, <3>3, <3>4 DEF Enough
    <2>2. CASE Becomes(y, low[y].obj, low[y].n, low[y].hid \cup {c})
      <3>2. low'[y].n = low[y].n /\ low'[y].hid = {c} BY <1>6, <2>2 DEF Becomes
      <3>3. \A b \in Br : b \notin low'[y].hid => low'[y].n[b] <= icache'[i].nlink
        BY <1>3, <1>4, <1>7, <3>2
      <3>4. Open(y)' => icache'[i].nlink > 0
        <4>1. ~Reachable(y)' BY <1>7, <3>2 DEF Reachable, Shown
        <4>2. ASSUME NEW q \in Procs, On(q, y)' PROVE icache'[i].nlink > 0
          <5>1. On(q, y) BY <1>3, <4>2 DEF On
          <5>2. proc[q].b \in Br /\ low[y].n[proc[q].b] > 0 BY <5>1, TaskFacts DEF On
          <5>3. proc[q].b = c BY <1>7, <5>2
          <5>4. Cardinality(Busy(y, c)) >= 1 /\ Cardinality(Busy(y, c)) \in Nat BY <1>0, <5>1, <5>3, BusyTasks
          <5> QED BY <1>3, <1>4, <1>8, <5>4
        <4> QED BY <4>1, <4>2 DEF Open
      <3> QED BY <1>9, <3>3, <3>4 DEF Enough
    <2> QED BY <1>0, <2>1, <2>2, UnlinkEffect
  <1>10. CASE x # y
    <2>1. low'[x] = low[x]
      <3>1. \E o, n, h : Becomes(y, o, n, h) BY <1>0, UnlinkEffect
      <3> QED BY <1>1, <1>10, <3>1 DEF Becomes
    <2>2. xino[y] = i BY <1>0, <1>3, <1>6 DEF AtsOK, AtOK
    <2>3. ~Entry(x, i) BY <1>0, <1>1, <1>6, <1>10, <2>2 DEF OneEntry, Entry
    <2>4. Dead(x) \/ ~Named(x) BY <1>2, <2>3 DEF Entry
    <2>5. \A e \in dying : Removed(e) => x \notin e.at BY <1>0 DEF RemovedOut, OutOK
    <2>6. ~Open(x) /\ \A b \in Br : b \notin low[x].hid => low[x].n[b] = 0
      <3>1. CASE ~Named(x)
        <4>1. ~Open(x) BY <1>0, <1>1, <3>1, OpenNamed
        <4> QED BY <1>0, <1>1, <3>1, <4>1, LowTypes DEF Named
      <3>2. CASE Named(x)
        <4>1. low[x].hid # {} /\ \A q \in Procs : ~On(q, x) BY <2>4, <2>5, <3>2 DEF Dead
        <4>2. PICK b \in Br : low[x].n[b] > 0 BY <3>2 DEF Named
        <4>3. ~Reachable(x) /\ ~Shown(x, b) /\ \A d \in Br : d # b => low[x].n[d] = 0
          BY <1>0, <1>1, <4>1, <4>2, OneBranch
        <4> QED BY <4>1, <4>2, <4>3 DEF Open, Shown
      <3> QED BY <3>1, <3>2
    <2>7. ~Open(x)' BY <1>3, <2>1, <2>6 DEF Open, Reachable, Shown, On
    <2> QED BY <1>3, <1>4, <2>1, <2>6, <2>7 DEF Enough
  <1> QED BY <1>9, <1>10

LEMMA CopyupNames ==
  ASSUME OwnFs, IInv, NEW i \in Ino, NEW x \in Low, NEW y \in Low, NEW b \in Br, Copyup(i, x, y, b)
  PROVE  \A c \in Br : low'[y].n[c] = IF c = 0 THEN 1 ELSE 0
  <1>1. low'[y].n = FirstName
    <2>1. TypeOK /\ LowsOK /\ ProcsOK BY DEF IInv
    <2> QED BY <2>1, CopyupEffect
  <1>2. \A c \in Br : low'[y].n[c] = IF c = 0 THEN 1 ELSE FreeNames[c] BY <1>1 DEF FirstName, FreeNames
  <1> QED BY <1>2 DEF FreeNames

LEMMA LinkEnough ==
  ASSUME OwnFs, IInv, Next, ~misplaced', NEW i \in Ino, NEW x \in icache[i].at,
         NEW y \in Low, Link(i, y)
  PROVE  Enough(i, x)'
  <1>0. TypeOK /\ LowsOK /\ ProcsOK /\ AtsOK BY DEF IInv
  <1>1. x \in Low BY <1>0, Inodes
  <1>2. Enough(i, x) BY <1>0 DEF AtsOK, AtOK, Enough
  <1>3. /\ icache[i].nlink + 1 \in Nat /\ icache' = [icache EXCEPT ![i].nlink = icache[i].nlink + 1]
        /\ Becomes(y, low[y].obj, [low[y].n EXCEPT ![0] = low[y].n[0] + 1], low[y].hid)
        /\ Shown(y, 0)
    BY <1>0, LinkEffect
  <1>4. icache'[i].nlink = icache[i].nlink + 1 /\ icache[i].nlink \in Nat BY <1>0, <1>3, LinksEffect, Inodes
  <1>5. \A b \in Br : low[x].n[b] \in Nat /\ low[y].n[b] \in Nat BY <1>0, <1>1, LowTypes
  <1>6. CASE x = y
    <2>1. low'[x].hid = low[x].hid /\ \A b \in Br : low'[x].n[b] = IF b = 0 THEN low[x].n[0] + 1 ELSE low[x].n[b]
      BY <1>0, <1>1, <1>3, <1>6, LowTypes DEF Becomes
    <2> QED BY <1>2, <1>4, <1>5, <2>1, BrAssumption DEF Enough
  <1>7. CASE x # y
    <2>1. low'[x] = low[x] BY <1>1, <1>3, <1>7 DEF Becomes
    <2> QED BY <1>2, <1>4, <1>5, <2>1 DEF Enough
  <1> QED BY <1>6, <1>7

LEMMA StaysEnough ==
  ASSUME OwnFs, IInv, Next, ~misplaced', NEW i \in Ino, NEW x \in icache[i].at, x \in icache'[i].at
  PROVE  Enough(i, x)'
  <1>0. TypeOK /\ LowsOK /\ ProcsOK /\ AtsOK /\ NewsOK BY DEF IInv
  <1>1. x \in Low /\ i # 0 /\ icache[i].nlink \in Nat BY <1>0, Inodes
  <1>2. Enough(i, x) /\ (Named(x) => xino[x] = i) BY <1>0 DEF AtsOK, AtOK, Enough
  <1>3. low[x] # Free BY <1>0, <1>1, HeldNotFree
  <1>4. \A b \in Br : low[x].n[b] \in Nat BY <1>0, <1>1, LowTypes
  <1>5. ASSUME NEW p \in Procs, SetInode(p), proc[p].ino = i PROVE FALSE
    <2>1. icache[i].at = {} BY <1>5, NewTask
    <2> QED BY <2>1
  <1>6. ~Unhide(x)
    <2>1. Unhide(x) => Named(x) /\ xino[x] = 0 BY <1>0, <1>1, UnhideEffect
    <2> QED BY <1>1, <1>2, <2>1
  <1>7. ASSUME NEW j \in Ino, x \in icache[j].at PROVE j = i BY <1>0, <1>7 DEF AtsOK, AtOK
  <1>8. ASSUME NEW j \in Ino, NEW b \in Br, Unlink(j, x, b) PROVE Enough(i, x)'
    <2>1. j = i BY <1>0, <1>1, <1>7, <1>8, UnlinkEffect
    <2> QED BY <1>1, <1>8, <2>1, UnlinkEnough
  <1>9. ASSUME NEW j \in Ino, Link(j, x) PROVE Enough(i, x)'
    <2>1. j = i BY <1>0, <1>1, <1>7, <1>9, LinkEffect
    <2> QED BY <1>1, <1>9, <2>1, LinkEnough
  <1>10. CASE icache'[i].nlink = icache[i].nlink
    <2>1. Open(x)' => icache'[i].nlink > 0 BY <1>1, <1>2, <1>3, <1>6, <1>10, OpenStep DEF Enough
    <2>2. ASSUME \A b \in Br : low'[x].n[b] <= low[x].n[b] /\ low'[x].n[b] \in Nat,
                 \A b \in Br : b \in low[x].hid => b \in low'[x].hid \/ low'[x].n[b] = 0
          PROVE  Enough(i, x)'
      <3>1. ASSUME NEW b \in Br, b \notin low'[x].hid PROVE low'[x].n[b] <= icache'[i].nlink
        <4>1. CASE b \in low[x].hid BY <2>2, <3>1, <4>1, <1>1, <1>10
        <4>2. CASE b \notin low[x].hid
          <5>1. low[x].n[b] <= icache[i].nlink BY <4>2, <1>2 DEF Enough
          <5> QED BY <2>2, <5>1, <1>1, <1>4, <1>10
        <4> QED BY <4>1, <4>2
      <3> QED BY <2>1, <3>1 DEF Enough
    <2>3. Keeps(x) => Enough(i, x)' BY <2>2, <1>4 DEF Keeps
    <2>4. ~Appears(x) BY <1>1, <1>3, AppearsFree
    <2>5. ASSUME NEW j \in Ino, NEW y \in Low, NEW b \in Br, Copyup(j, x, y, b) PROVE Enough(i, x)'
      <3>1. low'[x].n = low[x].n /\ low'[x].hid = low[x].hid \cup {b} BY <1>0, <1>1, <2>5, CopyupEffect
      <3> QED BY <2>2, <3>1, <1>4
    <2>6. ASSUME NEW b \in Br, DirectRemove(x, b) PROVE Enough(i, x)'
      <3>1. /\ low[x].n[b] > 0 /\ low[x].hid = {} /\ low'[x].n = [low[x].n EXCEPT ![b] = low[x].n[b] - 1]
        BY <1>0, <1>1, <2>6, DirectRemoveEffect
      <3>2. \A d \in Br : low'[x].n[d] = IF d = b THEN low[x].n[b] - 1 ELSE low[x].n[d]
        BY <1>0, <1>1, <3>1, LowTypes
      <3> QED BY <2>2, <3>1, <3>2, <1>4
    <2> QED BY <1>1, <2>3, <2>4, <2>5, <2>6, <1>6, <1>8, <1>9, LowStep
  <1>11. ASSUME NEW y \in Low, NEW b \in Br, Unlink(i, y, b) PROVE Enough(i, x)' BY <1>11, UnlinkEnough
  <1>12. ASSUME NEW y \in Low, Link(i, y) PROVE Enough(i, x)' BY <1>12, LinkEnough
  <1> QED BY <1>5, <1>10, <1>11, <1>12, LinkStep

LEMMA AtsStep == ASSUME OwnFs, IInv, Next, ~misplaced' PROVE AtsOK'
  <1>0. TypeOK /\ LowsOK /\ ProcsOK /\ AtsOK BY DEF IInv
  <1>00. TypeOK' BY TypeStep
  <1> SUFFICES ASSUME NEW i \in Ino, NEW x \in icache'[i].at PROVE AtOK(i, x)' BY DEF AtsOK
  <1>1. x \in Low BY <1>00, NoInodeType DEF TypeOK, InodeType
  <1>2. CASE x \in icache[i].at
    <2>1. Named(x)' => xino'[x] = i BY <1>0, <1>1, <1>2, HeldNotFree, NamedStep, AtNumber
    <2>2. \A j \in Ino : x \in icache'[j].at => j = i BY <1>2, AtAlone
    <2>3. Enough(i, x)' BY <1>2, StaysEnough
    <2> QED BY <2>1, <2>2, <2>3 DEF AtOK, Enough
  <1>3. ASSUME NEW p \in Procs, SetInode(p), proc[p].ino = i, proc[p].x = x PROVE AtOK(i, x)'
    <2>1. /\ proc[p].pc = "set" /\ \A j \in Ino : j # i => icache'[j] = icache[j]
          /\ icache'[i].nlink = Names(x) /\ xino' = [xino EXCEPT ![x] = i] /\ low' = low
      BY <1>0, <1>3, SetInodeEffect
    <2>2. xino'[x] = i BY <1>0, <1>1, <2>1 DEF TypeOK
    <2>3. Named(x) BY <1>3, <2>1, TaskFacts
    <2>4. icache'[i].nlink > 0 /\ \A b \in Br : low'[x].n[b] <= icache'[i].nlink
      BY <1>0, <1>1, <2>1, <2>3, NamesCount
    <2>5. ASSUME NEW j \in Ino, x \in icache'[j].at PROVE j = i
      <3>1. CASE x \in icache[j].at BY <3>1, AtAlone
      <3>2. CASE x \notin icache[j].at BY <2>1, <2>5, <3>2
      <3> QED BY <3>1, <3>2
    <2> QED BY <2>2, <2>4, <2>5 DEF AtOK
  <1>4. ASSUME NEW z \in Low, NEW b \in Br, Copyup(i, z, x, b) PROVE AtOK(i, x)'
    <2>0. low[x] = Free /\ xino' = [xino EXCEPT ![x] = i] BY <1>0, <1>1, <1>4, CopyupEffect
    <2>00. icache' = [icache EXCEPT ![i].at = icache[i].at \cup {x}] BY <1>0, <1>1, <1>4, CopyupEffect
    <2>1. /\ low[x] = Free /\ xino' = [xino EXCEPT ![x] = i]
          /\ icache' = [icache EXCEPT ![i].at = icache[i].at \cup {x}]
      BY <2>0, <2>00
    <2>2. xino'[x] = i BY <1>0, <1>1, <2>1 DEF TypeOK
    <2>3. icache'[i].nlink > 0 /\ icache'[i].nlink \in Nat BY <1>0, <1>1, <1>4, CopyupFrom, Inodes
    <2>4. \A c \in Br : low'[x].n[c] \in 0 .. 1 BY <1>1, <1>4, CopyupNames
    <2>5. ASSUME NEW j \in Ino, x \in icache'[j].at PROVE j = i
      <3>1. x \notin icache[j].at BY <1>0, <1>1, <2>1, FreeAlone
      <3>2. j # i => icache'[j] = icache[j] BY <1>0, <2>1 DEF TypeOK
      <3> QED BY <2>5, <3>1, <3>2
    <2> QED BY <2>2, <2>3, <2>4, <2>5 DEF AtOK
  <1> QED BY <1>2, <1>3, <1>4, AtStep

-----------------------------------------------------------------------------
(* The lower inodes of a removed file.                                     *)
Apart(x) ==
  /\ ~Open(x) /\ (Named(x) => xino[x] # 0)
  /\ low[x] # Free

(* A removed file comes from the cache, or is one step further.            *)
Before(f, x) ==
  \/ f \in dying /\ Removed(f) /\ x \in f.at
  \/ \E e \in dying : /\ Removed(e) /\ x \in e.at /\ e # f
                      /\ dying' = (dying \ {e}) \cup {f}
  \/ \E i \in Ino : Evict(i) /\ x \in icache[i].at /\ icache[i].nlink = 0 /\ dying' = dying \cup {f}

LEMMA BeforeStep ==
  ASSUME OwnFs, IInv, Next, ~misplaced', NEW f \in dying', Removed(f), NEW x \in f.at
  PROVE  Before(f, x)
  <1>1. f \in dying => Before(f, x) BY DEF Before
  <1>2. ASSUME NEW i \in Ino, Evict(i), Destroyed(f, i), dying' = dying \cup {f} PROVE Before(f, x)
    <2>1. x \in icache[i].at /\ icache[i].nlink = 0 BY <1>2 DEF Destroyed, Removed
    <2> QED BY <1>2, <2>1 DEF Before
  <1>3. ASSUME NEW e \in dying, f.at = e.at, f.unlinked = e.unlinked, e.step # "put", e # f,
               dying' = (dying \ {e}) \cup {f}
        PROVE  Before(f, x)
    <2>1. Removed(e) BY <1>3 DEF Removed
    <2> QED BY <1>3, <2>1 DEF Before
  <1> QED BY <1>1, <1>2, <1>3, DyingStep

LEMMA BeforeApart ==
  ASSUME OwnFs, IInv, NEW f, NEW x \in Low, Before(f, x)
  PROVE  Apart(x)
  <1>0. TypeOK /\ LowsOK /\ RemovedOut /\ AtsOK BY DEF IInv
  <1>1. ASSUME NEW e \in dying, Removed(e), x \in e.at PROVE Apart(x)
    <2>1. low[x] # Free BY <1>0, <1>1, HeldNotFree
    <2> QED BY <1>0, <1>1, <2>1 DEF RemovedOut, OutOK, Apart
  <1>2. ASSUME NEW i \in Ino, x \in icache[i].at, icache[i].nlink = 0 PROVE Apart(x)
    <2>1. low[x] # Free BY <1>0, <1>2, HeldNotFree
    <2>2. ~Open(x) /\ (Named(x) => xino[x] = i) /\ i # 0 BY <1>0, <1>2, InoNumber DEF AtsOK, AtOK
    <2> QED BY <2>1, <2>2 DEF Apart
  <1> QED BY <1>1, <1>2 DEF Before

(* It stays out of use, and its entry is not cleared before its own turn.  *)
LEMMA ApartStep ==
  ASSUME OwnFs, IInv, Next, ~misplaced', NEW f \in dying', Removed(f),
         NEW x \in Low, x \in f.at, Before(f, x)
  PROVE  ~Open(x)' /\ (Named(x)' => xino'[x] # 0)
  <1>0. TypeOK /\ LowsOK /\ ProcsOK /\ RemovedOut BY DEF IInv
  <1>1. Apart(x) BY BeforeApart
  <1>2. ~Open(x)' BY <1>1, OpenStep DEF Apart
  <1>3. ASSUME Named(x)' PROVE xino'[x] # 0
    <2>1. Named(x) /\ xino[x] # 0 BY <1>1, <1>3, NamedStep DEF Apart
    <2>2. ASSUME NEW p \in Procs, Write(p) \/ SetInode(p) \/ SetFails(p), proc[p].x = x PROVE FALSE
      <3>1. proc[p].pc # "idle" BY <1>0, <2>2, EntryWriteEffect, SetInodeEffect, SetFailsEffect
      <3>2. Open(x) BY <2>2, <3>1, TaskFacts
      <3> QED BY <1>1, <3>2 DEF Apart
    <2>3. ASSUME NEW i \in Ino, NEW z \in Low, NEW b \in Br, Copyup(i, z, x, b) PROVE FALSE
      <3>1. low[x] = Free BY <1>0, <2>3, CopyupEffect
      <3> QED BY <1>1, <3>1 DEF Apart
    <2>4. ASSUME NEW e \in dying, Zero(e), x \in e.at, e.unlinked PROVE FALSE
      <3>1. e.step = "zero" /\ Steps(e, "put") /\ Removed(e) BY <1>0, <2>4, ZeroEffect DEF Zero, Removed
      <3>2. PICK g \in DyingType : g.step = "put" /\ dying' = (dying \ {e}) \cup {g} BY <3>1 DEF Steps
      <3>3. f # g BY <3>2 DEF Removed
      <3>4. f \in dying /\ f # e BY <3>2, <3>3
      <3> QED BY <1>0, <2>4, <3>1, <3>4 DEF RemovedOut, OutOK
    <2> QED BY <2>1, <2>2, <2>3, <2>4, NumberStep
  <1> QED BY <1>2, <1>3

LEMMA RemovedOutStep == ASSUME OwnFs, IInv, Next, ~misplaced' PROVE RemovedOut'
  <1>0. TypeOK /\ LowsOK /\ ProcsOK /\ RemovedOut /\ AtsOK BY DEF IInv
  <1>00. TypeOK' BY TypeStep
  <1> SUFFICES ASSUME NEW f \in dying', Removed(f), NEW x \in f.at PROVE OutOK(f, x)'
    BY DEF RemovedOut, Removed
  <1>1. x \in Low BY <1>00 DEF TypeOK, DyingType
  <1>2. Before(f, x) BY BeforeStep
  <1>3. ~Open(x)' /\ (Named(x)' => xino'[x] # 0) BY <1>1, <1>2, ApartStep
  <1>4. Apart(x) BY <1>1, <1>2, BeforeApart
  <1>5. ASSUME NEW i \in Ino, x \in icache'[i].at PROVE FALSE
    <2>1. ASSUME NEW p \in Procs, SetInode(p), proc[p].x = x PROVE FALSE
      <3>1. proc[p].pc # "idle" BY <1>0, <2>1, SetInodeEffect
      <3>2. Open(x) BY <2>1, <3>1, TaskFacts
      <3> QED BY <1>4, <3>2 DEF Apart
    <2>2. ASSUME NEW z \in Low, NEW b \in Br, Copyup(i, z, x, b) PROVE FALSE
      <3>1. low[x] = Free BY <1>0, <1>1, <2>2, CopyupEffect
      <3> QED BY <1>4, <3>1 DEF Apart
    <2>3. x \in icache[i].at BY <1>5, <2>1, <2>2, AtStep
    <2>4. PICK j \in Ino : Evict(j) /\ x \in icache[j].at BY <1>0, <1>2, <2>3 DEF Before, RemovedOut, OutOK
    <2>5. j = i BY <1>0, <2>3, <2>4 DEF AtsOK, AtOK
    <2>6. icache'[i].at = {} BY <1>0, <2>4, <2>5, EvictEffect, NoInodeType
    <2> QED BY <1>5, <2>6
  <1>6. ASSUME NEW g \in dying', Removed(g), x \in g.at PROVE g = f
    <2>1. Before(g, x) BY <1>6, BeforeStep
    <2>2. ASSUME NEW d \in dying, Removed(d), x \in d.at, NEW e \in dying, Removed(e), x \in e.at PROVE d = e
      BY <1>0, <2>2 DEF RemovedOut, OutOK
    <2>3. ASSUME NEW d \in dying, Removed(d), x \in d.at, NEW i \in Ino, x \in icache[i].at PROVE FALSE
      BY <1>0, <2>3 DEF RemovedOut, OutOK
    <2>4. CASE f \in dying
      <3>1. CASE g \in dying BY <1>6, <2>2, <2>4, <3>1
      <3>2. CASE g \notin dying
        <4>1. ~\E i \in Ino : x \in icache[i].at BY <2>3, <2>4
        <4>2. PICK e \in dying : Removed(e) /\ x \in e.at /\ e # g /\ dying' = (dying \ {e}) \cup {g}
          BY <2>1, <3>2, <4>1 DEF Before
        <4>3. e = f BY <2>2, <2>4, <4>2
        <4> QED BY <4>2, <4>3
      <3> QED BY <3>1, <3>2
    <2>5. CASE f \notin dying
      <3>1. CASE g \notin dying
        <4>1. dying' \subseteq dying \cup {f} BY <1>2, <2>5 DEF Before
        <4> QED BY <3>1, <4>1
      <3>2. CASE g \in dying
        <4>1. ~\E i \in Ino : x \in icache[i].at BY <1>6, <2>3, <3>2
        <4>2. PICK e \in dying : Removed(e) /\ x \in e.at /\ e # f /\ dying' = (dying \ {e}) \cup {f}
          BY <1>2, <2>5, <4>1 DEF Before
        <4>3. e = g BY <1>6, <2>2, <3>2, <4>2
        <4> QED BY <4>2, <4>3
      <3> QED BY <3>1, <3>2
    <2> QED BY <2>4, <2>5
  <1> QED BY <1>3, <1>5, <1>6 DEF OutOK, Removed

-----------------------------------------------------------------------------
(* The lower inodes that somebody holds after a step.                      *)
LEMMA HeldIn ==
  ASSUME NEW x, NEW c, NEW d, NEW r
  PROVE  x \in HeldBy(c, d, r)
           <=> \/ \E i \in Ino : x \in c[i].at
               \/ \E e \in d : x \in e.at
               \/ \E p \in Procs : r[p].pc # "idle" /\ r[p].x = x
  <1> DEFINE A == UNION {c[i].at : i \in Ino}
             B == UNION {e.at : e \in d}
             C == {r[p].x : p \in {q \in Procs : r[q].pc # "idle"}}
  <1>1. x \in A <=> \E i \in Ino : x \in c[i].at OBVIOUS
  <1>2. x \in B <=> \E e \in d : x \in e.at OBVIOUS
  <1>3. x \in C <=> \E p \in Procs : r[p].pc # "idle" /\ r[p].x = x OBVIOUS
  <1>4. x \in HeldBy(c, d, r) <=> x \in A \/ x \in B \/ x \in C BY DEF HeldBy
  <1> HIDE DEF A, B, C
  <1> QED BY <1>1, <1>2, <1>3, <1>4

LEMMA HeldStep ==
  ASSUME OwnFs, IInv, Next, ~misplaced', NEW x \in Low, x \in HeldBy(icache', dying', proc')
  PROVE  (low[x] # Free /\ low[x].obj # 0) \/ Appears(x)
  <1>0. TypeOK /\ LowsOK /\ ProcsOK BY DEF IInv
  <1>1. \/ \E i \in Ino : x \in icache'[i].at
        \/ \E e \in dying' : x \in e.at
        \/ \E p \in Procs : On(p, x)'
    <2>1. \/ \E i \in Ino : x \in icache'[i].at
          \/ \E e \in dying' : x \in e.at
          \/ \E p \in Procs : proc'[p].pc # "idle" /\ proc'[p].x = x
      BY HeldIn
    <2> QED BY <2>1 DEF On
  <1> DEFINE G == low[x] # Free /\ low[x].obj # 0
  <1>2. x \in HeldBy(icache, dying, proc) => G BY <1>0, FreeFields DEF LowsOK, LowOK
  <1>3. low[x] # Free => G BY <1>0 DEF LowsOK, LowOK
  <1> HIDE DEF G
  <1>4. ASSUME NEW i \in Ino, x \in icache'[i].at PROVE G \/ Appears(x)
    <2>1. ASSUME NEW p \in Procs, SetInode(p), proc[p].x = x PROVE G
      <3>1. proc[p].pc # "idle" BY <1>0, <2>1, SetInodeEffect
      <3>2. On(p, x) BY <2>1, <3>1 DEF On
      <3> QED BY <1>2, <3>2, Held
    <2>2. ASSUME NEW z \in Low, NEW b \in Br, Copyup(i, z, x, b) PROVE Appears(x) BY <2>2 DEF Appears
    <2>3. x \in icache[i].at => G BY <1>2, Held
    <2> QED BY <1>4, <2>1, <2>2, <2>3, AtStep
  <1>5. ASSUME NEW f \in dying', x \in f.at PROVE G
    <2>1. ASSUME NEW e \in dying, x \in e.at PROVE G BY <1>2, <2>1, Held
    <2>2. ASSUME NEW i \in Ino, x \in icache[i].at PROVE G BY <1>2, <2>2, Held
    <2> QED BY <1>5, <2>1, <2>2, DyingStep DEF Destroyed
  <1>6. ASSUME NEW p \in Procs, On(p, x)' PROVE G \/ Appears(x)
    <2>1. On(p, x) => G BY <1>2, Held
    <2>2. Creates(p, x) => Appears(x) BY DEF Appears
    <2>3. ASSUME NEW b \in Br, NEW k \in {"inode", "ino"}, Starts(p, x, b, k) PROVE G
      <3>1. low[x].n[b] > 0 BY <2>3 DEF Starts, Shown
      <3>2. low[x] # Free BY <3>1 DEF Free
      <3> QED BY <1>3, <3>2
    <2> QED BY <1>6, <2>1, <2>2, <2>3, OnStep
  <1> QED BY <1>1, <1>4, <1>5, <1>6 DEF G

LEMMA AppearsOK ==
  ASSUME OwnFs, IInv, NEW x \in Low, Appears(x)
  PROVE  /\ low'[x].obj # 0 /\ low'[x].hid = {}
         /\ \A b \in Br : low'[x].n[b] > 0 => Fs(b) = x.fs
  <1>0. TypeOK /\ LowsOK /\ ProcsOK BY DEF IInv
  <1> DEFINE G == /\ low'[x].obj # 0 /\ low'[x].hid = {}
                  /\ \A b \in Br : low'[x].n[b] > 0 => Fs(b) = x.fs
  <1>00. nobj + 1 # 0 BY <1>0 DEF TypeOK
  <1>1. ASSUME NEW p \in Procs, Creates(p, x) PROVE G
    <2>1. Becomes(x, nobj + 1, FirstName, {}) /\ x.fs = Fs(0) BY <1>0, <1>1, CreateEffect DEF Creates
    <2>2. \A b \in Br : FirstName[b] > 0 => b = 0 BY DEF FirstName, FreeNames
    <2> QED BY <1>00, <2>1, <2>2 DEF Becomes
  <1>2. ASSUME NEW b \in Br, DirectCreate(x, b) PROVE G
    <2>1. PICK m \in [Br -> 0 .. MaxLinks] : Becomes(x, nobj + 1, m, {}) /\ \A c \in Br : m[c] > 0 => Fs(c) = x.fs
      BY <1>0, <1>2, DirectCreateEffect
    <2> QED BY <1>00, <2>1 DEF Becomes
  <1>3. ASSUME NEW i \in Ino, NEW z \in Low, NEW b \in Br, Copyup(i, z, x, b) PROVE G
    <2>1. low'[x].obj = low[z].obj /\ low'[x].hid = {} /\ x.fs = Fs(0) /\ z \in icache[i].at
      BY <1>0, <1>3, CopyupEffect
    <2>2. \A c \in Br : low'[x].n[c] = IF c = 0 THEN 1 ELSE 0 BY <1>3, CopyupNames
    <2>3. z \in HeldBy(icache, dying, proc) BY <2>1, Held
    <2>4. low[z].obj # 0 BY <1>0, <2>3 DEF LowsOK, LowOK
    <2> QED BY <2>1, <2>2, <2>4
  <1> QED BY <1>1, <1>2, <1>3 DEF Appears

LEMMA LowsStep == ASSUME OwnFs, IInv, Next, ~misplaced' PROVE LowsOK'
  <1>0. TypeOK /\ LowsOK /\ ProcsOK BY DEF IInv
  <1>00. TypeOK' BY TypeStep
  <1> SUFFICES ASSUME NEW x \in Low
               PROVE  /\ \A b \in Br : low'[x].n[b] > 0 => Fs(b) = x.fs
                      /\ 0 \notin low'[x].hid /\ \A b \in low'[x].hid : low'[x].n[b] > 0
                      /\ low'[x].obj = 0 => low'[x] = Free
                      /\ x \in HeldBy(icache', dying', proc') => low'[x].obj # 0
    BY DEF LowsOK, LowOK
  <1> DEFINE G == /\ \A b \in Br : low'[x].n[b] > 0 => Fs(b) = x.fs
                  /\ 0 \notin low'[x].hid /\ \A b \in low'[x].hid : low'[x].n[b] > 0
                  /\ low'[x].obj = 0 => low'[x] = Free
                  /\ x \in HeldBy(icache', dying', proc') => low'[x].obj # 0
  <1>1. /\ \A b \in Br : low[x].n[b] > 0 => Fs(b) = x.fs
        /\ 0 \notin low[x].hid /\ \A b \in low[x].hid : low[x].n[b] > 0
        /\ low[x].obj = 0 => low[x] = Free
    BY <1>0 DEF LowsOK, LowOK
  <1>2. \A b \in Br : low[x].n[b] \in Nat BY <1>0, LowTypes
  <1>3. ASSUME NEW b \in Br, low[x].n[b] > 0 PROVE low[x].obj # 0
    <2>1. low[x] # Free BY <1>3 DEF Free
    <2> QED BY <1>1, <2>1
  <1>4. Let(x) => low'[x] = Free /\ x \notin HeldBy(icache', dying', proc') BY DEF Let
  <1>5. CASE Appears(x) BY <1>5, AppearsOK
  <1>6. CASE Keeps(x)
    <2>1. CASE Let(x) BY <1>1, <1>4, <1>6, <2>1 DEF Keeps
    <2>2. CASE low'[x] = low[x]
      <3>1. x \in HeldBy(icache', dying', proc') => low[x].obj # 0 \/ Appears(x) BY HeldStep
      <3>2. Appears(x) => low'[x].obj # 0 BY AppearsOK
      <3> QED BY <1>1, <2>2, <3>1, <3>2
    <2> QED BY <1>6, <2>1, <2>2 DEF Keeps
  <1>7. ASSUME NEW i \in Ino, NEW b \in Br, Unlink(i, x, b) PROVE G
    <2>1. low[x].n[b] > 0 /\ low[x].hid = {} /\ low[x].obj # 0
      <3>1. Shown(x, b) BY <1>0, <1>7, UnlinkEffect
      <3>2. low[x].n[b] > 0 BY <3>1 DEF Shown
      <3> QED BY <1>0, <1>3, <3>1, <3>2, OneBranch
    <2>2. CASE Becomes(x, low[x].obj, [low[x].n EXCEPT ![b] = low[x].n[b] - 1], low[x].hid)
      <3>2. /\ low'[x].obj = low[x].obj /\ low'[x].hid = {}
            /\ \A c \in Br : low'[x].n[c] = IF c = b THEN low[x].n[b] - 1 ELSE low[x].n[c]
        BY <1>0, <2>1, <2>2, LowTypes DEF Becomes
      <3> QED BY <1>1, <1>2, <2>1, <3>2
    <2>3. CASE b # 0 /\ Becomes(x, low[x].obj, low[x].n, low[x].hid \cup {b})
      <3>1. low'[x].obj = low[x].obj /\ low'[x].n = low[x].n /\ low'[x].hid = low[x].hid \cup {b}
        BY <2>3 DEF Becomes
      <3> QED BY <1>1, <2>1, <2>3, <3>1
    <2> QED BY <1>0, <1>7, <2>2, <2>3, UnlinkEffect
  <1>8. ASSUME NEW i \in Ino, Link(i, x) PROVE G
    <2>1. /\ Becomes(x, low[x].obj, [low[x].n EXCEPT ![0] = low[x].n[0] + 1], low[x].hid)
          /\ low[x].n[0] > 0
      BY <1>0, <1>8, LinkEffect DEF Shown
    <2>2. /\ low'[x].obj = low[x].obj /\ low'[x].hid = low[x].hid
          /\ \A c \in Br : low'[x].n[c] = IF c = 0 THEN low[x].n[0] + 1 ELSE low[x].n[c]
      BY <1>0, <2>1, LowTypes DEF Becomes
    <2>3. low[x].obj # 0 BY <1>3, <2>1, BrAssumption
    <2>4. low[x].hid \in SUBSET Br BY <1>0, LowTypes
    <2> QED BY <1>1, <1>2, <2>1, <2>2, <2>3, <2>4, BrAssumption
  <1>9. ASSUME NEW i \in Ino, NEW y \in Low, NEW b \in Br, Copyup(i, x, y, b) PROVE G
    <2>1. /\ low'[x].obj = low[x].obj /\ low'[x].n = low[x].n /\ low'[x].hid = low[x].hid \cup {b}
          /\ b # 0 /\ low[x].n[b] > 0
      BY <1>0, <1>9, CopyupEffect DEF Shown
    <2>2. low[x].obj # 0 BY <1>3, <2>1
    <2> QED BY <1>1, <2>1, <2>2
  <1>10. ASSUME NEW b \in Br, DirectRemove(x, b) PROVE G
    <2>1. /\ low[x].n[b] > 0 /\ low'[x].n = [low[x].n EXCEPT ![b] = low[x].n[b] - 1] /\ low'[x].hid = {}
          /\ low'[x].obj = low[x].obj \/ Let(x)
      BY <1>0, <1>10, DirectRemoveEffect
    <2>2. \A c \in Br : low'[x].n[c] = IF c = b THEN low[x].n[b] - 1 ELSE low[x].n[c]
      BY <1>0, <2>1, LowTypes
    <2>3. low[x].obj # 0 BY <1>3, <2>1
    <2> QED BY <1>1, <1>2, <1>4, <2>1, <2>2, <2>3
  <1>11. ASSUME Unhide(x) PROVE G
    <2>1. low'[x].obj = low[x].obj /\ low'[x].n = low[x].n /\ low'[x].hid = {} /\ Named(x)
      BY <1>0, <1>11, UnhideEffect DEF Becomes
    <2>2. low[x].obj # 0 BY <1>3, <2>1 DEF Named
    <2> QED BY <1>1, <2>1, <2>2
  <1> QED BY <1>5, <1>6, <1>7, <1>8, <1>9, <1>10, <1>11, LowStep

-----------------------------------------------------------------------------
(* What a step leaves to the tasks.                                        *)
LEMMA MutexStep ==
  ASSUME OwnFs, IInv, Next, ~misplaced', NEW q \in Procs, proc[q].pc \notin {"idle", "reval"}
  PROVE  mtx'[proc[q].b] = q \/ Write(q) \/ IgetOld(q) \/ SetInode(q) \/ SetFails(q)
  <1> DEFINE G == mtx'[proc[q].b] = q \/ Write(q) \/ IgetOld(q) \/ SetInode(q) \/ SetFails(q)
  <1>0. TypeOK /\ ProcsOK /\ LowsOK BY DEF IInv
  <1>01. mtx[proc[q].b] = q BY <1>0 DEF ProcsOK, ProcOK
  <1>02. q # "free" BY ProcsAssumption
  <1>03. mtx'[proc[q].b] = q => G OBVIOUS
  <1>04. UNCHANGED mtx => G BY <1>01, <1>03
  <1> HIDE DEF G
  <1>1. ASSUME vars' = vars PROVE G BY <1>1, <1>04 DEF vars
  <1>2. ASSUME NEW p \in Procs, NEW x0 \in Low, NEW b0 \in Br, NEW k0 \in {"inode", "ino"},
               Starts(p, x0, b0, k0)
        PROVE G
    <2>1. mtx[b0] = "free" /\ mtx' = [mtx EXCEPT ![b0] = p] BY <1>2 DEF Starts, Enter
    <2> QED BY <2>1, <1>01, <1>02, <1>03
  <1>3. ASSUME NEW p \in Procs, NEW x0 \in Low, Creates(p, x0) PROVE G
    <2>1. mtx[0] = "free" /\ mtx' = [mtx EXCEPT ![0] = p] BY <1>3 DEF Creates, Enter
    <2> QED BY <2>1, <1>01, <1>02, <1>03
  <1>4. ASSUME NEW p \in Procs, NewIno(p) PROVE G BY <1>0, <1>4, <1>04, NewInoEffect
  <1>5. ASSUME NEW p \in Procs, Write(p) PROVE G
    <2>1. CASE p = q BY <2>1, <1>5 DEF G
    <2>2. CASE p # q
      <3>1. proc[p].pc = "write" /\ mtx' = [mtx EXCEPT ![proc[p].b] = "free"] BY <1>0, <1>5, EntryWriteEffect
      <3>2. mtx[proc[p].b] = p BY <1>0, <3>1 DEF ProcsOK, ProcOK
      <3> QED BY <2>2, <3>1, <3>2, <1>01, <1>03
    <2> QED BY <2>1, <2>2
  <1>6. ASSUME NEW p \in Procs, IgetNew(p) PROVE G BY <1>0, <1>6, <1>04, IgetNewEffect DEF IgetNew
  <1>7. ASSUME NEW p \in Procs, IgetOld(p) PROVE G
    <2>1. CASE p = q BY <2>1, <1>7 DEF G
    <2>2. CASE p # q
      <3>1. proc[p].pc = "iget" /\ mtx' = [mtx EXCEPT ![proc[p].b] = "free"] BY <1>0, <1>7, IgetOldEffect DEF IgetOld
      <3>2. mtx[proc[p].b] = p BY <1>0, <3>1 DEF ProcsOK, ProcOK
      <3> QED BY <2>2, <3>1, <3>2, <1>01, <1>03
    <2> QED BY <2>1, <2>2
  <1>8. ASSUME NEW p \in Procs, SetInode(p) PROVE G
    <2>1. CASE p = q BY <2>1, <1>8 DEF G
    <2>2. CASE p # q
      <3>1. proc[p].pc = "set" /\ mtx' = [mtx EXCEPT ![proc[p].b] = "free"] BY <1>0, <1>8, SetInodeEffect
      <3>2. mtx[proc[p].b] = p BY <1>0, <3>1 DEF ProcsOK, ProcOK
      <3> QED BY <2>2, <3>1, <3>2, <1>01, <1>03
    <2> QED BY <2>1, <2>2
  <1>9. ASSUME NEW p \in Procs, SetFails(p) PROVE G
    <2>1. CASE p = q BY <2>1, <1>9 DEF G
    <2>2. CASE p # q
      <3>1. proc[p].pc = "set" /\ mtx' = [mtx EXCEPT ![proc[p].b] = "free"] BY <1>0, <1>9, SetFailsEffect
      <3>2. mtx[proc[p].b] = p BY <1>0, <3>1 DEF ProcsOK, ProcOK
      <3> QED BY <2>2, <3>1, <3>2, <1>01, <1>03
    <2> QED BY <2>1, <2>2
  <1>10. ASSUME NEW p \in Procs, RevalMatched(p) PROVE G BY <1>0, <1>10, <1>04, RevalEffect
  <1>11. ASSUME NEW i0 \in Ino, Evict(i0) PROVE G BY <1>0, <1>11, <1>04, EvictEffect
  <1>12. ASSUME NEW e0 \in dying, XigenInc(e0) PROVE G BY <1>0, <1>12, <1>04, XigenIncEffect
  <1>13. ASSUME NEW e0 \in dying, ClearBit(e0) PROVE G BY <1>0, <1>13, <1>04, ClearBitEffect
  <1>14. ASSUME NEW e0 \in dying, Zero(e0) PROVE G BY <1>0, <1>14, <1>04, ZeroEffect DEF Zero
  <1>15. ASSUME NEW e0 \in dying, Put(e0) PROVE G BY <1>0, <1>15, <1>04, PutEffect DEF Put
  <1>16. ASSUME NEW i0 \in Ino, NEW x0 \in Low, NEW b0 \in Br, Unlink(i0, x0, b0)
        PROVE G BY <1>0, <1>16, <1>04, UnlinkEffect
  <1>17. ASSUME NEW i0 \in Ino, NEW x0 \in Low, Link(i0, x0)
        PROVE G BY <1>0, <1>17, <1>04, LinkEffect
  <1>18. ASSUME NEW i0 \in Ino, NEW x0 \in Low, NEW y0 \in Low, NEW b0 \in Br,
               Copyup(i0, x0, y0, b0)
        PROVE G BY <1>0, <1>18, <1>04, CopyupEffect
  <1>19. ASSUME NEW x0 \in Low, NEW b0 \in Br, DirectCreate(x0, b0)
        PROVE G BY <1>0, <1>19, <1>04, DirectCreateEffect
  <1>20. ASSUME NEW x0 \in Low, NEW b0 \in Br, DirectRemove(x0, b0)
        PROVE G BY <1>0, <1>20, <1>04, DirectRemoveEffect
  <1>21. ASSUME NEW x0 \in Low, Unhide(x0) PROVE G BY <1>0, <1>21, <1>04, UnhideEffect
  <1>22. ASSUME XibTrunc PROVE G BY <1>0, <1>22, <1>04, XibTruncEffect
  <1>23. ASSUME SetXino PROVE G BY <1>0, <1>23, <1>04, SetXinoEffect
  <1>24. G
    BY <1>1, <1>2, <1>3, <1>4, <1>5, <1>6, <1>7, <1>8, <1>9, <1>10, <1>11, <1>12, <1>13, <1>14, <1>15,
       <1>16, <1>17, <1>18, <1>19, <1>20, <1>21, <1>22, <1>23, NextCases
  <1> QED BY <1>24 DEF G

(* A new inode stays that of its task, and one that is looked at keeps the *)
(* task among its users and the lower inode.                               *)
LEMMA InodeKept ==
  ASSUME OwnFs, IInv, Next, ~misplaced', NEW q \in Procs, proc[q].pc \in {"set", "reval"}
  PROVE  \/ /\ proc[q].pc = "set" => icache'[proc[q].ino].new /\ icache'[proc[q].ino].users = {q}
            /\ proc[q].pc = "reval" => proc[q].x \in icache'[proc[q].ino].at /\ q \in icache'[proc[q].ino].users
         \/ SetInode(q) \/ SetFails(q) \/ RevalMatched(q)
  <1> DEFINE i == proc[q].ino
             S == icache'[i].new /\ icache'[i].users = {q}
             R == proc[q].x \in icache'[i].at /\ q \in icache'[i].users
             G == \/ (proc[q].pc = "set" => S) /\ (proc[q].pc = "reval" => R)
                  \/ SetInode(q) \/ SetFails(q) \/ RevalMatched(q)
  <1>0. TypeOK /\ ProcsOK /\ LowsOK BY DEF IInv
  <1>01. i \in Ino BY <1>0 DEF ProcsOK, ProcOK
  <1>02. proc[q].pc = "set" => icache[i].new /\ icache[i].users = {q} BY <1>0 DEF ProcsOK, ProcOK
  <1>03. proc[q].pc = "reval" => proc[q].x \in icache[i].at /\ q \in icache[i].users
    BY <1>0 DEF ProcsOK, ProcOK
  <1>04. Hashed(i) BY <1>0, <1>01, <1>02, <1>03, Inodes
  <1>05. icache'[i] = icache[i] => G BY <1>02, <1>03
  <1>06. UNCHANGED icache => G BY <1>05
  <1>07. (proc[q].pc = "set" => S) /\ (proc[q].pc = "reval" => R) => G OBVIOUS
  <1>08. SetInode(q) \/ SetFails(q) \/ RevalMatched(q) => G OBVIOUS
  <1> HIDE DEF G, i
  <1>1. ASSUME vars' = vars PROVE G BY <1>1, <1>06 DEF vars
  <1>2. ASSUME NEW p \in Procs, NEW x0 \in Low, NEW b0 \in Br, NEW k0 \in {"inode", "ino"},
               Starts(p, x0, b0, k0)
        PROVE G BY <1>2, <1>06 DEF Starts
  <1>3. ASSUME NEW p \in Procs, NEW x0 \in Low, Creates(p, x0)
        PROVE G BY <1>0, <1>3, <1>06, CreateEffect DEF Creates
  <1>4. ASSUME NEW p \in Procs, NewIno(p) PROVE G BY <1>0, <1>4, <1>06, NewInoEffect
  <1>5. ASSUME NEW p \in Procs, Write(p) PROVE G BY <1>0, <1>5, <1>06, EntryWriteEffect
  <1>6. ASSUME NEW p \in Procs, IgetNew(p) PROVE G
    <2>1. ~Hashed(proc[p].ino) /\ \A j \in Ino : j # proc[p].ino => icache'[j] = icache[j]
      BY <1>0, <1>6, IgetNewEffect DEF IgetNew
    <2>2. proc[p].ino # i BY <2>1, <1>04
    <2> QED BY <2>1, <2>2, <1>01, <1>05
  <1>7. ASSUME NEW p \in Procs, IgetOld(p) PROVE G
    <2>1. /\ proc[p].ino \in Ino /\ Plain(proc[p].ino)
          /\ icache' = [icache EXCEPT ![proc[p].ino].users = @ \cup {p}]
      BY <1>0, <1>7, IgetOldEffect DEF IgetOld
    <2>2. PICK j \in Ino : j = proc[p].ino BY <2>1
    <2>3. PICK u \in SUBSET Procs : u = icache[j].users \cup {p} /\ icache' = [icache EXCEPT ![j].users = u]
      BY <1>0, <2>1, <2>2, Inodes
    <2>4. /\ \A k \in Ino : k # j => icache'[k] = icache[k]
          /\ icache'[j].at = icache[j].at /\ icache'[j].new = icache[j].new /\ icache'[j].users = u
      BY <1>0, <2>3, UsersEffect
    <2>5. CASE j = i
      <3>1. ~icache[i].new BY <2>1, <2>2, <2>5 DEF Plain
      <3> QED BY <2>3, <2>4, <2>5, <3>1, <1>02, <1>03, <1>07
    <2>6. CASE j # i BY <2>4, <2>6, <1>01, <1>05
    <2> QED BY <2>5, <2>6
  <1>8. ASSUME NEW p \in Procs, SetInode(p) PROVE G
    <2>1. CASE p = q BY <2>1, <1>8, <1>08
    <2>2. CASE p # q
      <3>1. proc[p].pc = "set" /\ \A j \in Ino : j # proc[p].ino => icache'[j] = icache[j]
        BY <1>0, <1>8, SetInodeEffect
      <3>2. icache[proc[p].ino].users = {p} BY <1>0, <3>1 DEF ProcsOK, ProcOK
      <3>3. proc[p].ino # i BY <2>2, <3>2, <1>02, <1>03
      <3> QED BY <3>1, <3>3, <1>01, <1>05
    <2> QED BY <2>1, <2>2
  <1>9. ASSUME NEW p \in Procs, SetFails(p) PROVE G
    <2>1. CASE p = q BY <2>1, <1>9, <1>08
    <2>2. CASE p # q
      <3>1. proc[p].pc = "set" /\ \A j \in Ino : j # proc[p].ino => icache'[j] = icache[j]
        BY <1>0, <1>9, SetFailsEffect
      <3>2. icache[proc[p].ino].users = {p} BY <1>0, <3>1 DEF ProcsOK, ProcOK
      <3>3. proc[p].ino # i BY <2>2, <3>2, <1>02, <1>03
      <3> QED BY <3>1, <3>3, <1>01, <1>05
    <2> QED BY <2>1, <2>2
  <1>10. ASSUME NEW p \in Procs, RevalMatched(p) PROVE G
    <2>0. CASE p = q BY <2>0, <1>10, <1>08
    <2>1. /\ proc[p].ino \in Ino /\ proc[p].pc = "reval"
          /\ icache' = [icache EXCEPT ![proc[p].ino].users = icache[proc[p].ino].users \ {p}]
      BY <1>0, <1>10, RevalEffect
    <2>2. PICK j \in Ino : j = proc[p].ino BY <2>1
    <2>3. PICK u \in SUBSET Procs : u = icache[j].users \ {p} /\ icache' = [icache EXCEPT ![j].users = u]
      BY <1>0, <2>1, <2>2, Inodes
    <2>4. /\ \A k \in Ino : k # j => icache'[k] = icache[k]
          /\ icache'[j].at = icache[j].at /\ icache'[j].new = icache[j].new /\ icache'[j].users = u
      BY <1>0, <2>3, UsersEffect
    <2>5. CASE p # q /\ j = i
      <3>1. p \in icache[i].users BY <1>0, <2>1, <2>2, <2>5 DEF ProcsOK, ProcOK
      <3>2. proc[q].pc # "set" BY <3>1, <2>5, <1>02
      <3> QED BY <2>3, <2>4, <2>5, <3>2, <1>02, <1>03, <1>07
    <2>6. CASE p # q /\ j # i BY <2>4, <2>6, <1>01, <1>05
    <2> QED BY <2>0, <2>5, <2>6
  <1>11. ASSUME NEW i0 \in Ino, Evict(i0) PROVE G
    <2>1. Plain(i0) /\ icache[i0].users = {} /\ \A j \in Ino : j # i0 => icache'[j] = icache[j]
      BY <1>0, <1>11, EvictEffect
    <2>2. i0 # i BY <2>1, <1>02, <1>03
    <2> QED BY <2>1, <2>2, <1>01, <1>05
  <1>12. ASSUME NEW e0 \in dying, XigenInc(e0) PROVE G BY <1>0, <1>12, <1>06, XigenIncEffect
  <1>13. ASSUME NEW e0 \in dying, ClearBit(e0) PROVE G BY <1>0, <1>13, <1>06, ClearBitEffect
  <1>14. ASSUME NEW e0 \in dying, Zero(e0) PROVE G BY <1>0, <1>14, <1>06, ZeroEffect DEF Zero
  <1>15. ASSUME NEW e0 \in dying, Put(e0) PROVE G BY <1>0, <1>15, <1>06, PutEffect DEF Put
  <1>16. ASSUME NEW i0 \in Ino, NEW x0 \in Low, NEW b0 \in Br, Unlink(i0, x0, b0) PROVE G
    <2>1. i0 \in Ino /\ icache[i0].nlink - 1 \in Nat /\ icache' = [icache EXCEPT ![i0].nlink = icache[i0].nlink - 1]
      BY <1>0, <1>16, UnlinkEffect
    <2>2. PICK n \in Nat : n = icache[i0].nlink - 1 /\ icache' = [icache EXCEPT ![i0].nlink = n] BY <2>1
    <2>3. /\ \A j \in Ino : j # i0 => icache'[j] = icache[j]
          /\ icache'[i0].at = icache[i0].at /\ icache'[i0].new = icache[i0].new
          /\ icache'[i0].users = icache[i0].users
      BY <1>0, <2>2, LinksEffect
    <2>4. icache'[i].at = icache[i].at /\ icache'[i].new = icache[i].new /\ icache'[i].users = icache[i].users
      BY <2>3, <1>01
    <2> QED BY <2>4, <1>02, <1>03, <1>07
  <1>17. ASSUME NEW i0 \in Ino, NEW x0 \in Low, Link(i0, x0) PROVE G
    <2>1. i0 \in Ino /\ icache[i0].nlink + 1 \in Nat /\ icache' = [icache EXCEPT ![i0].nlink = icache[i0].nlink + 1]
      BY <1>0, <1>17, LinkEffect
    <2>2. PICK n \in Nat : n = icache[i0].nlink + 1 /\ icache' = [icache EXCEPT ![i0].nlink = n] BY <2>1
    <2>3. /\ \A j \in Ino : j # i0 => icache'[j] = icache[j]
          /\ icache'[i0].at = icache[i0].at /\ icache'[i0].new = icache[i0].new
          /\ icache'[i0].users = icache[i0].users
      BY <1>0, <2>2, LinksEffect
    <2>4. icache'[i].at = icache[i].at /\ icache'[i].new = icache[i].new /\ icache'[i].users = icache[i].users
      BY <2>3, <1>01
    <2> QED BY <2>4, <1>02, <1>03, <1>07
  <1>18. ASSUME NEW i0 \in Ino, NEW x0 \in Low, NEW y0 \in Low, NEW b0 \in Br,
               Copyup(i0, x0, y0, b0)
        PROVE G
    <2>1. icache' = [icache EXCEPT ![i0].at = icache[i0].at \cup {y0}] BY <1>0, <1>18, CopyupEffect
    <2>2. PICK a \in SUBSET Low : a = icache[i0].at \cup {y0} /\ icache' = [icache EXCEPT ![i0].at = a]
      BY <1>0, <2>1, Inodes
    <2>3. /\ \A j \in Ino : j # i0 => icache'[j] = icache[j]
          /\ icache'[i0].at = a /\ icache'[i0].new = icache[i0].new /\ icache'[i0].users = icache[i0].users
      BY <1>0, <2>2, LowsEffect
    <2>4. /\ icache[i].at \subseteq icache'[i].at /\ icache'[i].new = icache[i].new
          /\ icache'[i].users = icache[i].users
      BY <2>2, <2>3, <1>01
    <2> QED BY <2>4, <1>02, <1>03, <1>07
  <1>19. ASSUME NEW x0 \in Low, NEW b0 \in Br, DirectCreate(x0, b0)
        PROVE G BY <1>0, <1>19, <1>06, DirectCreateEffect
  <1>20. ASSUME NEW x0 \in Low, NEW b0 \in Br, DirectRemove(x0, b0)
        PROVE G BY <1>0, <1>20, <1>06, DirectRemoveEffect
  <1>21. ASSUME NEW x0 \in Low, Unhide(x0) PROVE G BY <1>0, <1>21, <1>06, UnhideEffect
  <1>22. ASSUME XibTrunc PROVE G BY <1>0, <1>22, <1>06, XibTruncEffect
  <1>23. ASSUME SetXino PROVE G BY <1>0, <1>23, <1>06, SetXinoEffect
  <1>24. G
    BY <1>1, <1>2, <1>3, <1>4, <1>5, <1>6, <1>7, <1>8, <1>9, <1>10, <1>11, <1>12, <1>13, <1>14, <1>15,
       <1>16, <1>17, <1>18, <1>19, <1>20, <1>21, <1>22, <1>23, NextCases
  <1> QED BY <1>24 DEF G, i

(* The name that a task goes by stays.                                     *)
LEMMA NameKept ==
  ASSUME OwnFs, IInv, Next, ~misplaced', NEW q \in Procs, proc[q].pc # "idle",
         NEW x \in Low, x = proc[q].x, NEW b \in Br, b = proc[q].b
  PROVE  low'[x].n[b] > 0 /\ (b \in low'[x].hid => low'[x].n[b] > 1)
  <1> DEFINE G == low'[x].n[b] > 0 /\ (b \in low'[x].hid => low'[x].n[b] > 1)
  <1>0. TypeOK /\ LowsOK /\ ProcsOK BY DEF IInv
  <1>1. /\ low[x].n[b] > 0 /\ (b \in low[x].hid => low[x].n[b] > 1) /\ On(q, x)
        /\ 0 \notin low[x].hid
    BY <1>0 DEF ProcsOK, ProcOK, LowsOK, LowOK, On
  <1>2. low[x].n \in [Br -> 0 .. MaxLinks] /\ low[x].n[b] \in Nat /\ 0 \in Br
    BY <1>0, LowTypes, BrAssumption
  <1>3. CASE Keeps(x) BY <1>1, <1>3 DEF Keeps
  <1>4. ~Appears(x)
    <2>1. low[x] # Free BY <1>0, <1>1, HeldNotFree
    <2> QED BY <2>1, AppearsFree
  <1>5. ASSUME NEW i \in Ino, NEW c \in Br, Unlink(i, x, c) PROVE G
    <2>1. Shown(x, c) /\ Cardinality(Busy(x, c)) < low[x].n[c] BY <1>5 DEF Unlink
    <2>2. low[x].n[c] > 0 BY <2>1 DEF Shown
    <2>3. b = c BY <1>0, <1>1, <1>2, <2>2, OneBranch
    <2>4. Cardinality(Busy(x, b)) \in Nat /\ Cardinality(Busy(x, b)) >= 1 BY <1>0, <1>1, BusyTasks
    <2>5. low[x].n[b] >= 2 BY <1>2, <2>1, <2>3, <2>4
    <2>6. b \notin low[x].hid BY <2>1, <2>3 DEF Shown
    <2>7. CASE Becomes(x, low[x].obj, [low[x].n EXCEPT ![c] = low[x].n[c] - 1], low[x].hid)
      <3>1. low'[x].hid = low[x].hid /\ low'[x].n = [low[x].n EXCEPT ![c] = low[x].n[c] - 1]
        BY <2>7 DEF Becomes
      <3>2. low'[x].n[b] = low[x].n[b] - 1 BY <1>2, <2>3, <3>1
      <3> QED BY <1>2, <2>5, <2>6, <3>1, <3>2
    <2>8. ~(low[x].n[c] = 1) BY <1>2, <2>3, <2>5
    <2> QED BY <1>0, <1>5, <2>7, <2>8, UnlinkEffect
  <1>6. ASSUME NEW i \in Ino, Link(i, x) PROVE G
    <2>1. Becomes(x, low[x].obj, [low[x].n EXCEPT ![0] = low[x].n[0] + 1], low[x].hid)
      BY <1>0, <1>6, LinkEffect
    <2>2. low'[x].hid = low[x].hid /\ low'[x].n = [low[x].n EXCEPT ![0] = low[x].n[0] + 1]
      BY <2>1 DEF Becomes
    <2>3. low'[x].n[b] = IF b = 0 THEN low[x].n[0] + 1 ELSE low[x].n[b] BY <1>2, <2>2
    <2>4. low[x].n[0] \in Nat /\ low[x].n[b] \in Nat BY <1>0, <1>2, LowTypes
    <2>5. low'[x].n[b] >= low[x].n[b] BY ONLY <2>3, <2>4
    <2>6. low'[x].n[b] \in Nat BY ONLY <2>3, <2>4
    <2>7. low'[x].n[b] > 0 BY <1>1, <1>2, <2>5, <2>6
    <2>8. b \in low'[x].hid => low'[x].n[b] > 1 BY <1>1, <1>2, <2>2, <2>5, <2>6
    <2> QED BY <2>7, <2>8
  <1>7. ASSUME NEW i \in Ino, NEW y \in Low, NEW c \in Br, Copyup(i, x, y, c) PROVE G
    BY <1>0, <1>1, <1>7, CopyupEffect
  <1>8. ASSUME NEW c \in Br, DirectRemove(x, c) PROVE G BY <1>0, <1>1, <1>8, DirectRemoveEffect
  <1>9. CASE Unhide(x)
    <2>1. Becomes(x, low[x].obj, low[x].n, {}) BY <1>0, <1>9, UnhideEffect
    <2> QED BY <1>1, <2>1 DEF Becomes
  <1> QED BY <1>3, <1>4, <1>5, <1>6, <1>7, <1>8, <1>9, LowStep

(* So does the entry it has read, while it has the mutex.                  *)
LEMMA NumberKept ==
  ASSUME OwnFs, IInv, Next, ~misplaced', NEW q \in Procs, proc[q].pc \notin {"idle", "reval"},
         NEW x \in Low, x = proc[q].x
  PROVE  xino'[x] = xino[x] \/ Write(q) \/ SetInode(q) \/ SetFails(q)
  <1>0. TypeOK /\ LowsOK /\ ProcsOK BY DEF IInv
  <1>1. ASSUME NEW p \in Procs, proc[p].x = x, Write(p) \/ SetInode(p) \/ SetFails(p) PROVE p = q
    <2>1. proc[p].pc \in {"write", "set"} BY <1>1 DEF Write, SetInode, SetFails
    <2> QED BY <1>1, <2>1, Mutex
  <1>2. ASSUME NEW e \in dying, Zero(e), x \in e.at, e.unlinked \/ ~Named(x) PROVE FALSE
    <2>1. e.step = "zero" BY <1>0, <1>2, ZeroEffect DEF Zero
    <2>2. e.unlinked => Removed(e) BY <2>1 DEF Removed
    <2> QED BY <1>2, <2>2, TaskFacts
  <1>3. ASSUME NEW i \in Ino, NEW z \in Low, NEW b \in Br, Copyup(i, z, x, b) PROVE FALSE
    <2>1. low[x] = Free BY <1>0, <1>3, CopyupEffect
    <2>2. On(q, x) BY DEF On
    <2> QED BY <1>0, <2>1, <2>2, HeldNotFree
  <1> QED BY <1>1, <1>2, <1>3, NumberStep

(* A file that is created has no inode before its task makes one.          *)
LEMMA NewAlone ==
  ASSUME OwnFs, IInv, Next, ~misplaced', NEW q \in Procs, proc[q].pc # "idle", proc[q].kind = "new",
         NEW x \in Low, x = proc[q].x, NEW j \in Ino, x \in icache'[j].at
  PROVE  SetInode(q)
  <1>0. TypeOK /\ LowsOK /\ ProcsOK BY DEF IInv
  <1>1. x \notin icache[j].at /\ proc[q].pc # "reval" BY <1>0 DEF ProcsOK, ProcOK
  <1>2. ASSUME NEW p \in Procs, SetInode(p), proc[p].x = x PROVE p = q
    <2>1. proc[p].pc = "set" BY <1>2 DEF SetInode
    <2> QED BY <1>1, <1>2, <2>1, Mutex
  <1>3. ASSUME NEW z \in Low, NEW b \in Br, Copyup(j, z, x, b) PROVE FALSE
    <2>1. low[x] = Free BY <1>0, <1>3, CopyupEffect
    <2>2. On(q, x) BY DEF On
    <2> QED BY <1>0, <2>1, <2>2, HeldNotFree
  <1> QED BY <1>1, <1>2, <1>3, AtStep

(* What a task has after a step, by the part of ProcOK.                    *)
LEMMA TaskKept ==
  ASSUME OwnFs, IInv, Next, ~misplaced', NEW q \in Procs, proc[q].pc # "idle", proc'[q] = proc[q]
  PROVE  ProcOK(q)'
  <1>0. TypeOK /\ LowsOK /\ ProcsOK BY DEF IInv
  <1>1. PICK x \in Low : x = proc[q].x BY <1>0, Tasks
  <1>2. PICK b \in Br : b = proc[q].b BY <1>0, Tasks
  <1>3. /\ proc[q].pc \in {"newino", "write", "iget", "set", "reval"} /\ proc'[q] # Idle
    <2>1. Idle.pc = "idle" BY DEF Idle
    <2> QED BY <1>0, <2>1, Tasks
  <1>4. ~(Write(q) \/ IgetOld(q) \/ SetInode(q) \/ SetFails(q) \/ RevalMatched(q))
    <2>1. ASSUME Write(q) \/ SetInode(q) \/ SetFails(q) \/ RevalMatched(q) PROVE FALSE
      <3>1. Ends(q) BY <1>0, <2>1, EntryWriteEffect, SetInodeEffect, SetFailsEffect, RevalEffect
      <3> QED BY <1>0, <1>3, <3>1, EndsEffect
    <2>2. ASSUME IgetOld(q) PROVE FALSE
      <3>1. proc[q].pc = "iget" /\ GoesOn(q, "reval", proc[q].ino) BY <2>2, IgetOldEffect DEF IgetOld
      <3>2. proc'[q].pc = "reval" BY <1>0, <3>1, GoesOnEffect
      <3> QED BY <3>1, <3>2
    <2> QED BY <2>1, <2>2
  <1>5. low'[x].n[b] > 0 /\ (b \in low'[x].hid => low'[x].n[b] > 1) BY <1>1, <1>2, NameKept
  <1>6. proc[q].pc # "reval" => mtx'[b] = q BY <1>2, <1>4, MutexStep
  <1>7. proc[q].pc # "reval" => xino'[x] = xino[x] BY <1>1, <1>4, NumberKept
  <1>8. /\ proc[q].pc = "set" => icache'[proc[q].ino].new /\ icache'[proc[q].ino].users = {q}
        /\ proc[q].pc = "reval" => x \in icache'[proc[q].ino].at /\ q \in icache'[proc[q].ino].users
    BY <1>1, <1>4, InodeKept
  <1>9. proc[q].kind = "new" => proc[q].pc # "reval" /\ \A j \in Ino : x \notin icache'[j].at
    <2>1. proc[q].kind = "new" => proc[q].pc # "reval" BY <1>0 DEF ProcsOK, ProcOK
    <2> QED BY <1>1, <1>4, <2>1, NewAlone
  <1>10. /\ Fs(b) = x.fs
         /\ proc[q].pc \in {"newino", "write"} => xino[x] = 0
         /\ proc[q].pc \in {"iget", "set"} => xino[x] \in {0, proc[q].ino} /\ proc[q].kind # "ino"
         /\ proc[q].pc # "newino" => proc[q].ino \in Ino
    BY <1>0, <1>1, <1>2 DEF ProcsOK, ProcOK
  <1> QED BY <1>1, <1>2, <1>5, <1>6, <1>7, <1>8, <1>9, <1>10 DEF ProcOK

(* A task that comes.                                                      *)
LEMMA TaskEnters ==
  ASSUME OwnFs, IInv, Next, ~misplaced', NEW q \in Procs, NEW x \in Low, NEW b \in Br,
         NEW k \in {"inode", "ino", "new"}, proc[q] = Idle, Enter(q, x, b, k),
         Fs(b) = x.fs, low'[x].n[b] > 0, b \notin low'[x].hid, xino' = xino, icache' = icache,
         k = "new" => \A j \in Ino : x \notin icache[j].at
  PROVE  ProcOK(q)'
  <1>0. TypeOK /\ LowsOK /\ ProcsOK BY DEF IInv
  <1>1. /\ mtx' = [mtx EXCEPT ![b] = q]
        /\ proc'[q].pc # "idle" /\ proc'[q].x = x /\ proc'[q].b = b /\ proc'[q].kind = k
        /\ \/ proc'[q].pc = "newino" /\ xino[x] = 0
           \/ proc'[q].pc = "iget" /\ xino[x] # 0 /\ proc'[q].ino = xino[x] /\ k # "ino"
    BY <1>0, EnterEffect
  <1>2. mtx'[b] = q BY <1>0, <1>1 DEF TypeOK
  <1>3. xino[x] # 0 => xino[x] \in Ino BY <1>0, Numbers
  <1> QED BY <1>1, <1>2, <1>3 DEF ProcOK

(* A task that goes on.                                                    *)
LEMMA TaskGoesOn ==
  ASSUME OwnFs, IInv, Next, ~misplaced', NEW q \in Procs, NewIno(q) \/ IgetNew(q) \/ IgetOld(q)
  PROVE  ProcOK(q)'
  <1>0. TypeOK /\ LowsOK /\ ProcsOK BY DEF IInv
  <1>01. proc[q].pc \in {"newino", "iget"}
    BY DEF NewIno, IgetNew, IgetOld, Iget
  <1>1. PICK x \in Low : x = proc[q].x BY <1>0, <1>01, Tasks
  <1>2. PICK b \in Br : b = proc[q].b BY <1>0, <1>01, Tasks
  <1>3. low'[x].n[b] > 0 /\ (b \in low'[x].hid => low'[x].n[b] > 1) BY <1>01, <1>1, <1>2, NameKept
  <1>4. /\ Fs(b) = x.fs /\ mtx[b] = q
        /\ proc[q].pc = "newino" => xino[x] = 0
        /\ proc[q].pc = "iget" => xino[x] \in {0, proc[q].ino} /\ proc[q].kind # "ino"
        /\ proc[q].kind = "new" => \A j \in Ino : x \notin icache[j].at
    BY <1>0, <1>01, <1>1, <1>2 DEF ProcsOK, ProcOK
  <1>5. CASE NewIno(q)
    <2>1. PICK i \in Ino : i = XinoNewIno(xib).ino BY <1>0, <1>5, NewInoEffect
    <2>2. PICK c \in {"write", "iget"} : c = IF proc[q].kind = "ino" THEN "write" ELSE "iget" OBVIOUS
    <2>3. GoesOn(q, c, i) /\ UNCHANGED <<xino, icache, mtx>> /\ proc[q].pc = "newino"
      BY <1>0, <1>5, <2>1, <2>2, NewInoEffect
    <2>4. /\ proc'[q].pc = c /\ proc'[q].x = x /\ proc'[q].b = b /\ proc'[q].kind = proc[q].kind
          /\ proc'[q].ino = i
      BY <1>0, <1>1, <1>2, <2>3, GoesOnEffect
    <2> QED BY <1>3, <1>4, <2>2, <2>3, <2>4 DEF ProcOK
  <1>6. CASE IgetNew(q)
    <2>1. PICK i \in Ino : i = proc[q].ino BY <1>0, <1>6, IgetNewEffect DEF IgetNew
    <2>2. /\ GoesOn(q, "set", i) /\ UNCHANGED <<xino, mtx>> /\ proc[q].pc = "iget"
          /\ \A j \in Ino : j # i => icache'[j] = icache[j]
          /\ icache'[i].at = {} /\ icache'[i].new /\ icache'[i].users = {q}
      BY <1>0, <1>6, <2>1, IgetNewEffect DEF IgetNew
    <2>3. /\ proc'[q].pc = "set" /\ proc'[q].x = x /\ proc'[q].b = b /\ proc'[q].kind = proc[q].kind
          /\ proc'[q].ino = i
      BY <1>0, <1>1, <1>2, <2>2, GoesOnEffect
    <2>4. proc[q].kind = "new" => \A j \in Ino : x \notin icache'[j].at BY <1>4, <2>2
    <2> QED BY <1>3, <1>4, <2>1, <2>2, <2>3, <2>4 DEF ProcOK
  <1>7. CASE IgetOld(q)
    <2>1. PICK i \in Ino : i = proc[q].ino BY <1>7, IgetOldEffect DEF IgetOld
    <2>2. /\ GoesOn(q, "reval", i) /\ xino' = xino /\ proc[q].pc = "iget" /\ proc[q].kind # "new"
          /\ x \in icache[i].at /\ icache' = [icache EXCEPT ![i].users = @ \cup {q}]
      BY <1>1, <1>7, <2>1, IgetOldEffect DEF IgetOld
    <2>3. /\ proc'[q].pc = "reval" /\ proc'[q].x = x /\ proc'[q].b = b /\ proc'[q].kind = proc[q].kind
          /\ proc'[q].ino = i
      BY <1>0, <1>1, <1>2, <2>2, GoesOnEffect
    <2>4. PICK u \in SUBSET Procs : u = icache[i].users \cup {q} /\ icache' = [icache EXCEPT ![i].users = u]
      BY <1>0, <2>2, Inodes
    <2>5. icache'[i].at = icache[i].at /\ icache'[i].users = u BY <1>0, <2>4, UsersEffect
    <2> QED BY <1>3, <1>4, <2>2, <2>3, <2>4, <2>5 DEF ProcOK
  <1> QED BY <1>5, <1>6, <1>7

LEMMA ProcsStep == ASSUME OwnFs, IInv, Next, ~misplaced' PROVE ProcsOK'
  <1>0. TypeOK /\ LowsOK /\ ProcsOK BY DEF IInv
  <1> SUFFICES ASSUME NEW q \in Procs, proc'[q].pc # "idle" PROVE ProcOK(q)'
    BY DEF ProcsOK
  <1>1. CASE proc'[q] = proc[q] BY <1>1, TaskKept
  <1>2. ASSUME NEW x \in Low, NEW b \in Br, NEW k \in {"inode", "ino"}, Starts(q, x, b, k) PROVE ProcOK(q)'
    <2>1. /\ proc[q] = Idle /\ Shown(x, b) /\ Enter(q, x, b, k) /\ UNCHANGED <<low, xino, icache>>
      BY <1>2 DEF Starts
    <2>2. low[x].n[b] > 0 /\ b \notin low[x].hid BY <2>1 DEF Shown
    <2>3. Fs(b) = x.fs BY <1>0, <2>2 DEF LowsOK, LowOK
    <2>4. low'[x].n[b] > 0 /\ b \notin low'[x].hid BY <2>1, <2>2
    <2> QED BY <2>1, <2>3, <2>4, TaskEnters
  <1>3. ASSUME NEW x \in Low, Creates(q, x) PROVE ProcOK(q)'
    <2>1. /\ proc[q] = Idle /\ Enter(q, x, 0, "new") /\ Fs(0) = x.fs /\ low[x] = Free
          /\ Becomes(x, nobj + 1, FirstName, {}) /\ UNCHANGED <<xino, icache>>
      BY <1>0, <1>3, CreateEffect DEF Creates
    <2>2. FirstName[0] = 1 BY BrAssumption DEF FirstName, FreeNames
    <2>3. low'[x].n[0] > 0 /\ 0 \notin low'[x].hid /\ 0 \in Br BY <2>1, <2>2, BrAssumption DEF Becomes
    <2>4. \A j \in Ino : x \notin icache[j].at BY <1>0, <2>1, FreeAlone
    <2> QED BY <2>1, <2>3, <2>4, TaskEnters
  <1>4. ASSUME Write(q) \/ SetInode(q) \/ SetFails(q) \/ RevalMatched(q) PROVE FALSE
    <2>1. Ends(q) BY <1>0, <1>4, EntryWriteEffect, SetInodeEffect, SetFailsEffect, RevalEffect
    <2> QED BY <1>0, <2>1, EndsEffect
  <1>5. NewIno(q) \/ IgetNew(q) \/ IgetOld(q) => ProcOK(q)' BY TaskGoesOn
  <1> QED BY <1>1, <1>2, <1>3, <1>4, <1>5, TaskStep

-----------------------------------------------------------------------------
(* The inductive invariant.                                                *)
LEMMA InitIInv == Init => IInv
  <1> SUFFICES ASSUME Init PROVE IInv OBVIOUS
  <1> DEFINE x0 == [file |-> << {} >>, buf |-> {}, last |-> 0, next |-> 0]
  <1>1. /\ low = [x \in Low |-> Free] /\ xino = [x \in Low |-> 0]
        /\ xib = x0
        /\ xigen = [i \in Ino |-> 0] /\ icache = [i \in Ino |-> NoInode] /\ dying = {}
        /\ proc = [p \in Procs |-> Idle] /\ mtx = [b \in Br |-> "free"] /\ gone = {} /\ nobj = 0
    BY DEF Init
  <1>2. TypeOK
    <2>1. low \in [Low -> LowType] BY <1>1, FreeFields
    <2>2. xino \in [Low -> 0 .. MaxIno] BY <1>1, BoundAssumption
    <2>3. XibOK(xib)
      <3>1. << {} >> \in Seq(SUBSET Bits) /\ Len(<< {} >>) = 1 OBVIOUS
      <3>2. x0 \in XibType /\ x0.last = 0 /\ x0.file = << {} >> BY <3>1 DEF XibType
      <3> HIDE DEF x0
      <3> QED BY <1>1, <3>1, <3>2 DEF XibOK
    <2>4. xigen \in [Ino -> Nat] BY <1>1
    <2>5. icache \in [Ino -> InodeType] BY <1>1, NoInodeType
    <2>6. proc \in [Procs -> ProcType \cup {Idle}] BY <1>1
    <2>7. mtx \in [Br -> Procs \cup {"free"}] BY <1>1
    <2>8. dying \in SUBSET DyingType /\ gone \in SUBSET (Ino \X Nat \X Nat) /\ nobj \in Nat BY <1>1
    <2> HIDE DEF x0
    <2> QED BY <2>1, <2>2, <2>3, <2>4, <2>5, <2>6, <2>7, <2>8 DEF TypeOK
  <1> HIDE DEF x0
  <1>3. /\ \A x \in Low : low[x] = Free /\ xino[x] = 0
        /\ \A i \in Ino : ~Hashed(i) /\ icache[i].at = {} /\ ~icache[i].new
        /\ \A p \in Procs : proc[p].pc = "idle"
        /\ \A i \in Ino : i # 0
    BY <1>1, NoInodeType DEF Hashed, Idle, Ino
  <1>4. \A x \in Low : \A b \in Br : low[x].n[b] = 0 BY <1>3 DEF Free
  <1>5. LowsOK
    <2> SUFFICES ASSUME NEW x \in Low PROVE LowOK(x) BY DEF LowsOK
    <2>1. low[x] = Free /\ low[x].hid = {} BY <1>3, FreeFields
    <2>2. x \notin HeldBy(icache, dying, proc) BY <1>1, <1>3, Held DEF On
    <2> QED BY <1>4, <2>1, <2>2 DEF LowOK
  <1>6. ProcsOK BY <1>3 DEF ProcsOK
  <1>7. \A x \in Low, i \in Ino : ~Entry(x, i) BY <1>3 DEF Entry
  <1>8. \A p \in Procs : \A i \in Ino : ~Fresh(p, i) BY <1>3 DEF Fresh
  <1>9. BitsSet BY <1>1, <1>3, <1>7, <1>8 DEF BitsSet, Used
  <1>10. OneEntry /\ FreshAlone BY <1>7, <1>8 DEF OneEntry, FreshAlone
  <1>11. EndingAlone /\ RemovedOut /\ GoneOld BY <1>1 DEF EndingAlone, RemovedOut, GoneOld
  <1>12. GensOK /\ NewsOK /\ AtsOK BY <1>3 DEF GensOK, NewsOK, AtsOK
  <1>13. EntriesAt BY <1>7 DEF EntriesAt
  <1> QED BY <1>2, <1>5, <1>6, <1>9, <1>10, <1>11, <1>12, <1>13 DEF IInv

(* A bitmap that was misplaced stays so, and the step that does it writes  *)
(* no entry.                                                               *)
LEMMA MisplacedStep ==
  ASSUME Next
  PROVE  /\ misplaced => misplaced'
         /\ misplaced' => misplaced \/ xino' = xino
         /\ rare \in Nat => rare' \in Nat
  <1> DEFINE G == /\ misplaced => misplaced'
                  /\ misplaced' => misplaced \/ xino' = xino
                  /\ rare \in Nat => rare' \in Nat
  <1>1. misplaced' = misplaced /\ rare' = rare => G OBVIOUS
  <1>2. misplaced' = misplaced /\ rare' = rare + 1 => G OBVIOUS
  <1>3. xino' = xino /\ rare' = rare + 1 /\ (misplaced => misplaced') => G OBVIOUS
  <1> HIDE DEF G
  <1>4. ASSUME NEW p \in Procs,
               \/ \E x \in Low, b \in Br, k \in {"inode", "ino"} : Start(p, x, b, k)
               \/ \E x \in Low : Create(p, x)
               \/ Again(p) \/ NewIno(p) \/ Write(p) \/ Iget(p) \/ SetInode(p) \/ SetFails(p)
               \/ RevalMatched(p) \/ RevalUnmatched(p) \/ Unmatched(p)
        PROVE  G
    <2>1. ASSUME NEW x \in Low, NEW b \in Br, NEW k \in {"inode", "ino"}, Start(p, x, b, k) PROVE G
      BY <1>1, <2>1 DEF Start, counts
    <2>2. ASSUME NEW x \in Low, Create(p, x) PROVE G BY <1>1, <2>2 DEF Create
    <2>3. CASE Again(p) BY <1>1, <2>3 DEF Again, counts
    <2>4. CASE NewIno(p) BY <1>1, <2>4 DEF NewIno, counts
    <2>5. CASE Write(p) BY <1>1, <2>5 DEF Write, counts
    <2>6. CASE Iget(p) BY <1>1, <2>6 DEF Iget, counts
    <2>7. CASE SetInode(p) BY <1>1, <2>7 DEF SetInode, counts
    <2>8. CASE SetFails(p) BY <1>2, <2>8 DEF SetFails
    <2>9. CASE RevalMatched(p) BY <1>1, <2>9 DEF RevalMatched, counts
    <2>10. CASE RevalUnmatched(p) BY <1>1, <2>10 DEF RevalUnmatched, counts
    <2>11. CASE Unmatched(p) BY <1>1, <2>11 DEF Unmatched, counts
    <2> QED
      BY <1>4, <2>1, <2>2, <2>3, <2>4, <2>5, <2>6, <2>7, <2>8, <2>9, <2>10, <2>11
  <1>5. ASSUME NEW i \in Ino, Evict(i) PROVE G BY <1>1, <1>5 DEF Evict
  <1>6. ASSUME NEW e \in dying, XigenInc(e) \/ ClearBit(e) \/ ClearEntries(e) PROVE G
    BY <1>1, <1>6 DEF XigenInc, ClearBit, ClearEntries, counts
  <1>7. ASSUME NEW i \in Ino, NEW x \in Low, NEW b \in Br, Unlink(i, x, b) \/ (b = 0 /\ Link(i, x)) PROVE G
    BY <1>1, <1>7 DEF Unlink, Link, counts
  <1>8. ASSUME NEW i \in Ino, NEW x \in Low, NEW y \in Low, NEW b \in Br, Copyup(i, x, y, b) PROVE G
    BY <1>1, <1>8 DEF Copyup, counts
  <1>9. ASSUME NEW x \in Low, NEW b \in Br, DirectCreate(x, b) \/ DirectRemove(x, b) PROVE G
    BY <1>1, <1>9 DEF DirectCreate, DirectRemove, counts
  <1>10. ASSUME NEW x \in Low, Unhide(x) PROVE G
    <2>1. xino' = xino /\ rare' = rare + 1 /\ misplaced' = (misplaced \/ xino[x] # 0) BY <1>10 DEF Unhide
    <2> QED BY <1>3, <2>1
  <1>11. ASSUME XibTrunc PROVE G
    <2>1. xino' = xino /\ rare' = rare + 1 BY <1>11 DEF XibTrunc, Alone
    <2>2. misplaced => misplaced' BY <1>11 DEF XibTrunc
    <2> QED BY <1>3, <2>1, <2>2
  <1>12. ASSUME SetXino PROVE G
    <2>1. xino' = xino /\ rare' = rare + 1 /\ misplaced' = (misplaced \/ xib.last # 0)
      BY <1>12 DEF SetXino, Alone
    <2> QED BY <1>3, <2>1
  <1>13. G
    BY <1>4, <1>5, <1>6, <1>7, <1>8, <1>9, <1>10, <1>11, <1>12, Zenon DEF Next
  <1> QED BY <1>13 DEF G

LEMMA SameIInv == ASSUME IInv, vars' = vars PROVE IInv'
  <1> USE DEF vars
  <1>1. TypeOK' BY DEF IInv, TypeOK
  <1>2. LowsOK'
    <2>1. LowsOK BY DEF IInv
    <2>2. low' = low /\ HeldBy(icache, dying, proc)' = HeldBy(icache, dying, proc) BY DEF HeldBy
    <2> QED BY ONLY <2>1, <2>2 DEF LowsOK, LowOK
  <1>3. ProcsOK'
    <2>1. ProcsOK BY DEF IInv
    <2> QED BY <2>1 DEF ProcsOK, ProcOK
  <1>4. \A x \in Low : \A i \in Ino : Entry(x, i)' <=> Entry(x, i) BY DEF Entry, Dead, On
  <1>5. \A p \in Procs : \A i \in Ino : Fresh(p, i)' <=> Fresh(p, i) BY DEF Fresh
  <1>6. \A i \in Ino : Hashed(i)' <=> Hashed(i) BY DEF Hashed
  <1>7. \A i \in Ino : Taken(i)' <=> Taken(i) BY DEF Taken
  <1>8. BitsSet' BY <1>4, <1>5, <1>6, <1>7 DEF IInv, BitsSet, Used
  <1>9. OneEntry' BY <1>4 DEF IInv, OneEntry
  <1>10. FreshAlone' BY <1>4, <1>5, <1>6 DEF IInv, FreshAlone
  <1>11. EndingAlone' BY <1>4, <1>5, <1>6 DEF IInv, EndingAlone
  <1>12. GensOK' BY <1>6 DEF IInv, GensOK
  <1>13. NewsOK' BY <1>4 DEF IInv, NewsOK, NewOK
  <1>14. EntriesAt' BY <1>4, <1>6 DEF IInv, EntriesAt, Plain
  <1>15. AtsOK' BY DEF IInv, AtsOK, AtOK, Named, Open, Reachable, Shown, On
  <1>16. RemovedOut' BY DEF IInv, RemovedOut, OutOK, Named, Open, Reachable, Shown, On
  <1>17. GoneOld' BY DEF IInv, GoneOld
  <1> QED
    BY <1>1, <1>2, <1>3, <1>8, <1>9, <1>10, <1>11, <1>12, <1>13, <1>14, <1>15, <1>16, <1>17 DEF IInv

(* Until the bitmap is misplaced every step keeps the invariant.           *)
Inv == rare \in Nat /\ (misplaced \/ IInv)

LEMMA Inductive == ASSUME OwnFs PROVE Spec => []Inv
  <1>1. Init => Inv BY InitIInv DEF Init, Inv
  <1>2. ASSUME Inv, [Next]_vars PROVE Inv'
    <2>1. CASE vars' = vars
      <3>1. rare' = rare /\ misplaced' = misplaced BY <2>1 DEF vars
      <3> QED BY <1>2, <2>1, <3>1, SameIInv DEF Inv
    <2>2. CASE Next
      <3>1. rare' \in Nat /\ (misplaced => misplaced') BY <1>2, <2>2, MisplacedStep DEF Inv
      <3>2. CASE misplaced' BY <3>1, <3>2 DEF Inv
      <3>3. CASE ~misplaced'
        <4>1. IInv BY <1>2, <3>1, <3>3 DEF Inv
        <4>2. IInv'
          BY <2>2, <3>3, <4>1, TypeStep, LowsStep, ProcsStep, BitsSetStep, OneEntryStep, FreshStepAlone,
             EndingAloneStep, GensStep, NewsStep, EntriesAtStep, AtsStep, RemovedOutStep, GoneStep
             DEF IInv
        <4> QED BY <3>1, <4>2 DEF Inv
      <3> QED BY <3>2, <3>3
    <2> QED BY <1>2, <2>1, <2>2
  <1> QED BY <1>1, <1>2, PTL DEF Spec

-----------------------------------------------------------------------------
(* Two files that can be reached have two numbers, and a number in use has *)
(* its bit: what au_xino_new_ino returns was unused, over every page of    *)
(* the bitmap and however look-ups, copy-ups and evictions interleave.     *)
THEOREM NumbersDifferAlways == ASSUME OwnFs PROVE Spec => []NumbersDiffer
  <1>1. ASSUME Inv PROVE NumbersDiffer
    <2> SUFFICES ASSUME IInv
                 PROVE  /\ \A x, y \in Low : xino[x] # 0 /\ xino[x] = xino[y] /\ Reachable(x) /\ Reachable(y)
                                               => low[x].obj = low[y].obj
                        /\ \A x \in Low : Reachable(x) /\ xino[x] # 0 => Taken(xino[x])
                        /\ \A i \in Ino : (\E x \in icache[i].at : Reachable(x)) => Taken(i)
      BY <1>1 DEF Inv, NumbersDiffer
    <2>0. TypeOK /\ BitsSet /\ OneEntry BY DEF IInv
    <2>1. ASSUME NEW x \in Low, xino[x] # 0, Reachable(x) PROVE Entry(x, xino[x]) /\ xino[x] \in Ino
      BY <2>0, <2>1, Numbers, Reached DEF Entry
    <2>2. ASSUME NEW x \in Low, NEW y \in Low, xino[x] # 0, xino[x] = xino[y], Reachable(x), Reachable(y)
          PROVE  low[x].obj = low[y].obj
      <3>1. Entry(x, xino[x]) /\ Entry(y, xino[x]) /\ xino[x] \in Ino BY <2>1, <2>2
      <3>2. x = y BY <2>0, <3>1 DEF OneEntry
      <3> QED BY <3>2
    <2>3. ASSUME NEW x \in Low, xino[x] # 0, Reachable(x) PROVE Taken(xino[x])
      <3>1. Entry(x, xino[x]) /\ xino[x] \in Ino BY <2>1, <2>3
      <3> QED BY <2>0, <3>1 DEF BitsSet, Used
    <2>4. ASSUME NEW i \in Ino, icache[i].at # {} PROVE Taken(i)
      <3>1. Hashed(i) BY <2>0, <2>4, Inodes
      <3> QED BY <2>0, <3>1 DEF BitsSet, Used
    <2> QED BY <2>2, <2>3, <2>4
  <1> QED BY <1>1, Inductive, PTL

(* au_ino and a look-up agree: the entry of a lower inode that can be      *)
(* reached is the number of the aufs inode that has it.                    *)
THEOREM TableAlwaysAgrees == ASSUME OwnFs PROVE Spec => []TableAgrees
  <1>1. ASSUME Inv PROVE TableAgrees
    <2> SUFFICES ASSUME IInv, NEW i \in Ino, NEW x \in icache[i].at, Reachable(x) PROVE xino[x] = i
      BY <1>1 DEF Inv, TableAgrees
    <2>1. TypeOK /\ AtsOK BY DEF IInv
    <2>2. x \in Low BY <2>1, Inodes
    <2>3. Named(x) BY <2>2, Reached
    <2> QED BY <2>1, <2>3 DEF AtsOK, AtOK
  <1> QED BY <1>1, Inductive, PTL

(* The number of a removed file is given again with another generation     *)
(* (au_xigen_inc before au_xib_clear_bit): its handle stays stale.         *)
THEOREM HandlesStayStale == ASSUME OwnFs PROVE Spec => []HandleStale
  <1>1. ASSUME Inv PROVE HandleStale
    <2> SUFFICES ASSUME IInv, NEW i \in Ino, NEW g \in gone, Hashed(i), g[1] = i, g[2] = icache[i].gen
                 PROVE  FALSE
      BY <1>1 DEF Inv, HandleStale
    <2>1. TypeOK /\ GensOK /\ EndingAlone /\ GoneOld BY DEF IInv
    <2>2. g[2] = xigen[i] BY <2>1 DEF GensOK
    <2>3. xigen[i] \in Nat BY <2>1 DEF TypeOK
    <2>4. ~(g[2] < xigen[g[1]]) BY <2>2, <2>3
    <2>5. PICK e \in dying : Ending(e, i) BY <2>1, <2>4 DEF GoneOld
    <2> QED BY <2>1, <2>5 DEF EndingAlone
  <1> QED BY <1>1, Inductive, PTL

(* A file that can be reached keeps its number through copy-up, eviction   *)
(* and look-up, but for a set_inode that fails.                            *)
THEOREM NumbersAreStable == ASSUME OwnFs PROVE Spec => NumberStable
  <1> DEFINE A == \A x \in Low : xino[x] # 0 /\ Reachable(x) /\ low'[x].obj = low[x].obj /\ Reachable(x)'
                    => xino'[x] = xino[x] \/ misplaced \/ rare' # rare
  <1>1. ASSUME Inv, Next PROVE A
    <2> SUFFICES ASSUME NEW x \in Low, xino[x] # 0, Reachable(x), ~misplaced, rare' = rare
                 PROVE  xino'[x] = xino[x]
      OBVIOUS
    <2>0. IInv /\ rare \in Nat BY <1>1 DEF Inv
    <2>1. TypeOK /\ LowsOK /\ ProcsOK BY <2>0 DEF IInv
    <2>2. CASE misplaced' BY <1>1, <2>2, MisplacedStep
    <2>3. CASE ~misplaced'
      <3>1. ASSUME NEW p \in Procs, Write(p), proc[p].x = x PROVE FALSE BY <2>1, <3>1, EntryWriteEffect
      <3>2. ASSUME NEW p \in Procs, SetInode(p), proc[p].x = x PROVE xino'[x] = xino[x]
        <4>1. /\ proc[p].pc = "set" /\ proc[p].ino \in Ino /\ xino' = [xino EXCEPT ![x] = proc[p].ino]
          BY <2>1, <3>2, SetInodeEffect
        <4>2. xino[x] = proc[p].ino BY <2>1, <3>2, <4>1 DEF ProcsOK, ProcOK
        <4> QED BY <2>1, <4>1, <4>2 DEF TypeOK
      <3>3. ASSUME NEW p \in Procs, SetFails(p) PROVE FALSE
        <4>1. rare' = rare + 1 BY <3>3 DEF SetFails
        <4> QED BY <2>0, <4>1
      <3>4. ASSUME NEW e \in dying, Zero(e), x \in e.at, e.unlinked \/ ~Named(x) PROVE FALSE
        <4>1. e.step = "zero" BY <2>1, <3>4, ZeroEffect DEF Zero
        <4>2. e.unlinked => Removed(e) BY <4>1 DEF Removed
        <4> QED BY <2>0, <3>4, <4>2, Reached
      <3>5. ASSUME NEW i \in Ino, NEW z \in Low, NEW b \in Br, Copyup(i, z, x, b) PROVE FALSE
        <4>1. low[x] = Free BY <2>1, <3>5, CopyupEffect
        <4>2. ~Open(x) BY <2>1, <4>1, FreeAlone
        <4> QED BY <4>2 DEF Open
      <3> QED BY <1>1, <2>0, <2>3, <3>1, <3>2, <3>3, <3>4, <3>5, NumberStep
    <2> QED BY <2>2, <2>3
  <1>2. NumberStable <=> [][A]_vars BY DEF NumberStable
  <1> HIDE DEF A
  <1> QED BY <1>1, <1>2, Inductive, PTL DEF Spec
=============================================================================
