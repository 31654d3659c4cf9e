--------------------------- MODULE AufsUnionProofs ---------------------------
(***************************************************************************)
(* Proofs about AufsUnion, for any names, contents, number of read-only    *)
(* branches and failing steps: the operations keep the promise of          *)
(* UnionSpec, and disturb no other name.                                   *)
(***************************************************************************)
EXTENDS AufsUnion, DataLemmas

Stored == Data \cup {None, Dir}

(* What the read-only branches, taken by themselves, have at each name of  *)
(* a directory that is one on them.                                        *)
LowHolders(e, n) == {b \in Branch \ {0} : (Len(n) = 1 \/ e[b][Parent(n)] = Dir) /\ e[b][n] # None}
LowView(e) ==
  [n \in Path |-> IF LowHolders(e, n) = {} THEN None
                  ELSE e[CHOOSE b \in LowHolders(e, n) : \A c \in LowHolders(e, n) : b <= c][n]]

(* The union of branch 0 (entries u, whiteouts w, opaque directories o)    *)
(* with the view l of the read-only branches, told without a search.       *)
Own(u, w, n) == IF n \in w THEN IF u[n] = None THEN None ELSE Stuck ELSE u[n]
Shown(u, w, o, l, n) ==
  IF n \in w \/ u[n] # None THEN Own(u, w, n) ELSE IF Parent(n) \in o THEN None ELSE l[n]
Union(u, w, o, l) ==
  [n \in Path |-> IF Len(n) = 1 \/ Shown(u, w, o, l, Parent(n)) = Dir THEN Shown(u, w, o, l, n) ELSE None]

(* Branch 0 as the operations keep it: what is below a directory needs the *)
(* directory there, and only directories are opaque.                       *)
Disk(u, w, o) ==
  /\ u \in [Path -> Stored] /\ w \in SUBSET Path /\ o \in SUBSET Path
  /\ \A n \in Path : u[n] # None => HasDir(u, n)
  /\ \A n \in w : HasDir(u, n)
  /\ \A n \in o : u[n] = Dir

(* A view of the read-only branches.                                       *)
Lower(l) ==
  /\ l \in [Path -> Stored]
  /\ \A n \in Path : l[n] = None => \A k \in Below(n) : l[k] = None

(* A tree as a look-up can show it.                                        *)
Tree(t) == t \in [Path -> Value] /\ \A n \in Path : t[n] # None => HasDir(t, n)

(* Nothing of the read-only branches shows at n when branch 0 has no entry.*)
Covered(w, o, l, n) == n \in w \/ Parent(n) \in o \/ l[n] = None

(* What a rename on branch 0 makes of the marks.                           *)
MovedWh(w, n, m)  == (w \ (Below(n) \cup Below(m))) \cup {k \in Below(m) : Rebase(k, m, n) \in w}
MovedOpq(o, n, m) == (o \ (Under(n) \cup Under(m))) \cup {k \in Under(m) : Rebase(k, m, n) \in o}

Op    == [kind |-> a.kind, p |-> a.p, q |-> a.q, v |-> a.v]
Error == {"ok", "err", "eio"}
Low   == LowView(ent)
Shows(w, o) == Union(ent[0], w, o, Low)
Now   == Shows(wh, opq)

CpPc   == {"cpData", "cpRename", "cpUndo"}
WrPc   == {"wrStart", "wrCopyup", "wrData"}
AddPc  == {"addStart", "addLkupWh", "addEntry"}
AddLate == {"addOpq", "addUnlinkWh", "addInode", "addRevWh", "addRevOpq", "addRevEntry", "linkRevert"}
DelPc  == {"delStart", "delWh"}
DelLate == {"delEntry", "delRevWh"}
RenPc  == {"renStart", "renMayDir", "renSrcDir", "renSrc", "renWhSrc"}
RenHere == {"renLkupWh", "renWhtmp", "renLkupNeg", "renMove"}   \* the name is hidden, not moved
RenGone == {"renOpq", "renUnlinkWh"}                            \* it is moved
RenUndo == {"renRevOpq", "renRevMove", "renRevWhtmp", "renRevWhSrc"}
RenLate == RenHere \cup RenGone \cup RenUndo
Clean   == CpPc \cup WrPc \cup AddPc \cup DelPc \cup RenPc      \* nothing has changed yet
Pc      == {"idle", "end"} \cup Clean \cup AddLate \cup DelLate \cup RenLate

PcsOf(kind) ==
  {"end"} \cup CpPc \cup
  CASE kind \in {"create", "mkdir", "link"} -> AddPc \cup AddLate
    [] kind \in {"unlink", "rmdir"} -> DelPc \cup DelLate
    [] kind = "rename" -> RenPc \cup RenLate
    [] kind = "write"  -> WrPc

Aside == [ent : UNION {[Under(n) -> Stored] : n \in Path}, wh : SUBSET Path, opq : SUBSET Path]
Args  == [kind : Kinds, p : Path, q : Path, v : Data, cp : Path \cup {<<>>}, then : Pc,
          wh : BOOLEAN, dwh : BOOLEAN, opq : BOOLEAN, tmp : SUBSET Aside, err : Error]

TypeOK ==
  /\ ent \in [Branch -> [Path -> Stored]] /\ wh \in SUBSET Path /\ opq \in SUBSET Path
  /\ pc \in Pc /\ faults \in Nat /\ Tree(tree) /\ res \in {"ok", "err", "eio", "crash"}
  /\ pc # "idle" => a \in Args

(* The operation is one the VFS may call, at one of its own steps.         *)
OpOK ==
  pc # "idle" => Op \in Calls /\ MayCall(tree, Op) /\ pc \in PcsOf(a.kind) /\ a.then \in PcsOf(a.kind)

(* What an error that has happened says of the faults.                     *)
ErrOK ==
  pc # "idle" =>
    /\ a.err = "ok" => faults = 0
    /\ a.err # "ok" => faults >= 1 \/ pc = "end"
    /\ a.err = "eio" => faults >= 2
    /\ a.err = "err" /\ a.kind # "rename" => faults <= 1
    /\ pc \notin {"end", "cpUndo", "addRevWh", "addRevOpq", "addRevEntry", "linkRevert", "delRevWh"} \cup RenUndo
         => a.err = "ok"
    /\ pc \in {"cpUndo", "linkRevert", "delRevWh"} => a.err = "err"
    /\ pc \in {"addRevWh", "addRevOpq", "addRevEntry"} => a.err # "ok"
    /\ pc \in RenUndo => a.err = "err"

DiskOK == Disk(ent[0], wh, opq)

(* Nothing has changed that can be seen, and nowhere else at any time.     *)
CleanOK   == pc = "idle" \/ pc \in Clean => Now = tree
OutsideOK == pc # "idle" => \A n \in Path \ Touched(Op) : Now[n] = tree[n]

(* The directories that are on branch 0 already, and the names.            *)
UpAt(l) ==
  /\ l \in {"wrCopyup", "wrData", "delWh"} \cup DelLate => HasDir(ent[0], a.p)
  /\ l \in {"wrData", "renWhSrc"} => Upper(a.p) # None
  /\ l \in {"addLkupWh", "addEntry"} \cup AddLate => HasDir(ent[0], a.q)
  /\ l \in {"renMayDir", "renSrcDir", "renSrc", "renWhSrc"} \cup RenLate => HasDir(ent[0], a.q)
  /\ l \in {"renSrc", "renWhSrc"} \cup RenLate => HasDir(ent[0], a.p)
UpOK == pc # "idle" => UpAt(pc)

(* What the checks before the first change have made sure of: a directory  *)
(* that goes is empty, and one that is renamed has all its names on        *)
(* branch 0.                                                               *)
OwnKids == IsDirRen => \A k \in Below(a.p) : tree[k] = Own(ent[0], wh, k)
CheckedAt(l) ==
  /\ l \in {"delWh"} \cup DelLate \cup RenLate \cup {"renSrcDir", "renSrc", "renWhSrc"} => MaySucceed(tree, Op)
  /\ l \in {"renSrcDir", "renSrc", "renWhSrc"} \cup RenHere => OwnKids
CheckedOK == pc # "idle" => CheckedAt(pc)

(* During a copy-up: what it copies, and where it goes on.                 *)
CopyFor(c, l) ==
  \/ l = "wrCopyup" /\ c = Parent(a.p)
  \/ l = "wrData" /\ c = a.p
  \/ l = "addLkupWh" /\ c = Parent(a.q)
  \/ l = "delWh" /\ c = Parent(a.p) /\ MaySucceed(tree, Op)
  \/ l = "renMayDir" /\ c = Parent(a.q)
  \/ l = "renSrc" /\ c = Parent(a.p) /\ HasDir(ent[0], a.q) /\ MaySucceed(tree, Op) /\ OwnKids
  \/ l = "renWhSrc" /\ c = a.p /\ HasDir(ent[0], a.p) /\ HasDir(ent[0], a.q) /\ MaySucceed(tree, Op) /\ OwnKids
CopyOK ==
  pc \in CpPc =>
    /\ a.cp \in Path /\ tree[a.cp] \in Data \cup {Dir} /\ Upper(a.cp) = None /\ HasDir(ent[0], a.cp)
    /\ CopyFor(a.cp, a.then)

(* A name that is being made: branch 0 without it shows the tree as it     *)
(* was, and while at most one step has failed it is there, and shown only  *)
(* as it is to be.                                                         *)
NewEntry == CASE a.kind = "create" -> a.v [] a.kind = "mkdir" -> Dir [] a.kind = "link" -> tree[a.p]
OldUp  == [ent[0] EXCEPT ![a.q] = None]
OldWh  == IF a.wh THEN wh \cup {a.q} ELSE wh \ {a.q}
OldOpq == opq \ {a.q}
AddMarks ==
  /\ pc \notin {"addInode", "addRevWh"} => (a.q \in wh <=> a.wh)
  /\ pc \in {"addInode", "addRevWh"} => a.q \notin wh
  /\ a.wh /\ a.kind = "mkdir" /\ pc \in {"addUnlinkWh", "addInode", "addRevWh"} => a.q \in opq
  /\ pc \in {"addOpq", "addRevEntry"} => a.q \notin opq
  /\ a.q \in opq => a.opq
  /\ pc \in {"addRevWh", "linkRevert"} => a.wh
  /\ pc = "addOpq" => a.wh /\ a.kind = "mkdir"
AddOK ==
  /\ pc = "addEntry" => (a.wh <=> a.q \in wh)
  /\ pc \in AddLate =>
       /\ Disk(OldUp, OldWh, OldOpq) /\ Union(OldUp, OldWh, OldOpq, Low) = tree
       /\ Upper(a.q) = NewEntry
       /\ pc = "linkRevert" => a.kind = "link"
       /\ faults < 2 => AddMarks

(* A name that is being removed: without its whiteout it is there.         *)
DelOK ==
  pc \in DelLate =>
    /\ Shows(wh \ {a.p}, opq) = tree
    /\ (a.p \in wh <=> a.wh)
    /\ Covered(wh, opq, Low, a.p)
    /\ pc = "delRevWh" => a.wh

(* A name that is being renamed, before the move and after it.  The move   *)
(* can be undone unless it replaces something.                             *)
SrcHidden == (a.p \in wh <=> a.wh) /\ Covered(wh, opq, Low, a.p)
HereOK ==
  /\ SrcHidden /\ Upper(a.p) = tree[a.p]
  /\ tree[a.q] # None => a.q \notin wh
  /\ tree[a.q] = None => Upper(a.q) = None /\ Covered(wh, opq, Low, a.q)
  /\ tree[a.q] # Dir => a.tmp = {} /\ Shows(wh \ {a.p}, opq) = tree

BackOpq == MovedOpq(IF a.opq THEN opq \ {a.q} ELSE opq, a.q, a.p)
GoneOK ==
  /\ SrcHidden /\ Upper(a.p) = None /\ Upper(a.q) = tree[a.p]
  /\ \A k \in Below(a.q) : Own(ent[0], wh, k) = Moved(tree, a.p, a.q)[k]
  /\ (a.dwh <=> a.q \in wh) /\ (tree[a.q] # None => ~a.dwh)
  /\ tree[a.q] # Dir => a.tmp = {}
  /\ tree[a.q] = None /\ a.dwh =>
       Union(Moved(ent[0], a.q, a.p), MovedWh(wh, a.q, a.p) \ {a.p}, BackOpq, Low) = tree
DirShown == IsDirRen => a.q \in opq \/ \A k \in Below(a.q) : Low[k] = None
RenOK ==
  /\ pc \in RenHere => HereOK
  /\ pc \in {"renWhtmp", "renLkupNeg", "renMove"} => (a.dwh <=> a.q \in wh)
  /\ pc \in {"renWhtmp", "renLkupNeg"} => tree[a.q] = Dir
  /\ pc \in RenGone => GoneOK
  /\ pc = "renOpq" => IsDirRen /\ a.opq /\ a.q \notin opq /\ (tree[a.q] = None => a.dwh)
  /\ pc = "renUnlinkWh" => DirShown /\ (a.opq => a.q \in opq)
  /\ pc \in RenUndo /\ faults < 2 /\ tree[a.q] # Dir =>
       /\ pc \in {"renRevOpq", "renRevMove"} => GoneOK /\ tree[a.q] = None /\ a.dwh
       /\ pc = "renRevMove" /\ a.opq => a.q \notin opq
       /\ pc = "renRevOpq" => a.opq
       /\ pc \in {"renRevWhtmp", "renRevWhSrc"} =>
            (a.p \in wh <=> a.wh) /\ a.tmp = {} /\ Shows(wh \ {a.p}, opq) = tree

(* The directory put aside for the time of a rename.                       *)
WasThere(s, q) ==
  /\ s.ent \in [Under(q) -> Stored] /\ s.wh \subseteq Below(q) /\ s.opq \subseteq Under(q)
  /\ \A k \in Below(q) : s.ent[k] # None \/ k \in s.wh => s.ent[q] = Dir
  /\ \A n \in s.opq : s.ent[n] = Dir
TmpOK ==
  /\ pc \in Clean => a.tmp = {}
  /\ pc \in RenLate => \A s \in a.tmp : WasThere(s, a.q)

(* At the end.                                                             *)
EndOK ==
  pc = "end" =>
    /\ a.err = "ok" => MaySucceed(tree, Op) /\ Now = Effect(tree, Op)
    /\ a.err = "err" /\ a.kind # "rename" =>
         Now = tree \/ (a.kind = "link" /\ Now = Effect(tree, Op))
    /\ a.err = "err" /\ a.kind = "rename" /\ faults < 2 /\ tree[a.q] # Dir => Now = tree

IInv ==
  /\ TypeOK /\ OpOK /\ ErrOK /\ DiskOK /\ CleanOK /\ OutsideOK /\ UpOK /\ CheckedOK /\ CopyOK
  /\ AddOK /\ DelOK /\ RenOK /\ TmpOK /\ EndOK

-----------------------------------------------------------------------------
(* Names.                                                                  *)

(* A name of the root, and a name in a directory of it.                    *)
LEMMA TopName ==
  ASSUME NEW t \in Top
  PROVE  <<t>> \in Path /\ Len(<<t>>) = 1 /\ Parent(<<t>>) = <<>>
  BY DEF Path, Parent

(* What a name in a directory of the root is made of.                      *)
LEMMA KidName ==
  ASSUME NEW t \in Top, NEW k \in Kid
  PROVE  <<t, k>> \in Path /\ Len(<<t, k>>) = 2 /\ Parent(<<t, k>>) = <<t>>
  <1>1. <<t, k>> \in Seq(Top \cup Kid) /\ Len(<<t, k>>) = 2 OBVIOUS
  <1>2. SubSeq(<<t, k>>, 1, 1) = <<t>>
    <2>1. /\ SubSeq(<<t, k>>, 1, 1) \in Seq(Top \cup Kid) /\ Len(SubSeq(<<t, k>>, 1, 1)) = 1
          /\ SubSeq(<<t, k>>, 1, 1)[1] = t
      BY <1>1, SubSeqProperties
    <2>2. <<t>> \in Seq(Top \cup Kid) /\ Len(<<t>>) = 1 /\ <<t>>[1] = t OBVIOUS
    <2>3. \A i \in 1 .. 1 : SubSeq(<<t, k>>, 1, 1)[i] = <<t>>[i] BY <2>1, <2>2
    <2> QED BY <2>1, <2>2, <2>3, SeqEqual
  <1> QED BY <1>1, <1>2 DEF Path, Parent

(* What follows the name of the directory.                                 *)
LEMMA LastPart ==
  ASSUME NEW t \in Top, NEW k \in Kid
  PROVE  SubSeq(<<t, k>>, 2, 2) = <<k>>
  <1>1. <<t, k>> \in Seq(Top \cup Kid) /\ Len(<<t, k>>) = 2 OBVIOUS
  <1>2. /\ SubSeq(<<t, k>>, 2, 2) \in Seq(Top \cup Kid) /\ Len(SubSeq(<<t, k>>, 2, 2)) = 1
        /\ SubSeq(<<t, k>>, 2, 2)[1] = k
    BY <1>1, SubSeqProperties
  <1>3. <<k>> \in Seq(Top \cup Kid) /\ Len(<<k>>) = 1 /\ <<k>>[1] = k OBVIOUS
  <1>4. \A i \in 1 .. 1 : SubSeq(<<t, k>>, 2, 2)[i] = <<k>>[i] BY <1>2, <1>3
  <1> QED BY <1>2, <1>3, <1>4, SeqEqual

(* A name is put below another one.                                        *)
LEMMA Joined ==
  ASSUME NEW s \in Top, NEW i \in Kid, NEW j \in Kid
  PROVE  <<s>> \o <<i>> = <<s, i>> /\ <<s, j>> \o <<i>> = <<s, j, i>>
  <1> DEFINE S == Top \cup Kid
  <1>1. ASSUME NEW x \in Seq(S), NEW z \in Seq(S), Len(z) = Len(x) + 1,
               \A m \in 1 .. Len(x) : z[m] = x[m], z[Len(z)] = i
        PROVE  x \o <<i>> = z
    <2>1. <<i>> \in Seq(S) /\ Len(<<i>>) = 1 /\ <<i>>[1] = i OBVIOUS
    <2>2. Len(x) \in Nat BY LenProperties
    <2>3. /\ x \o <<i>> \in Seq(S) /\ Len(x \o <<i>>) = Len(z)
          /\ \A m \in 1 .. Len(z) : (x \o <<i>>)[m] = IF m <= Len(x) THEN x[m] ELSE <<i>>[m - Len(x)]
      BY <1>1, <2>1, ConcatProperties
    <2>4. \A m \in 1 .. Len(z) : (x \o <<i>>)[m] = z[m] BY <1>1, <2>1, <2>2, <2>3
    <2> QED BY <2>3, <2>4, SeqEqual
  <1>2. <<s>> \in Seq(S) /\ <<s, i>> \in Seq(S) /\ <<s, j>> \in Seq(S) /\ <<s, j, i>> \in Seq(S) OBVIOUS
  <1>3. <<s>> \o <<i>> = <<s, i>>
    <2> DEFINE x == <<s>>  z == <<s, i>>
    <2>1. x \in Seq(S) /\ z \in Seq(S) BY <1>2
    <2>2. Len(x) = 1 /\ Len(z) = 2 /\ z[1] = x[1] /\ z[2] = i OBVIOUS
    <2> HIDE DEF x, z, S
    <2>3. \A m \in 1 .. Len(x) : z[m] = x[m] BY <2>2
    <2>4. Len(z) = Len(x) + 1 /\ z[Len(z)] = i BY <2>2
    <2>5. x \o <<i>> = z BY <1>1, <2>1, <2>3, <2>4
    <2> QED BY <2>5 DEF x, z
  <1>4. <<s, j>> \o <<i>> = <<s, j, i>>
    <2> DEFINE x == <<s, j>>  z == <<s, j, i>>
    <2>1. x \in Seq(S) /\ z \in Seq(S) BY <1>2
    <2>2. Len(x) = 2 /\ Len(z) = 3 /\ z[1] = x[1] /\ z[2] = x[2] /\ z[3] = i OBVIOUS
    <2> HIDE DEF x, z, S
    <2>3. \A m \in 1 .. Len(x) : z[m] = x[m] BY <2>2
    <2>4. Len(z) = Len(x) + 1 /\ z[Len(z)] = i BY <2>2
    <2>5. x \o <<i>> = z BY <1>1, <2>1, <2>3, <2>4
    <2> QED BY <2>5 DEF x, z
  <1> QED BY <1>3, <1>4

(* What the names have to do with each other: all that the proofs below    *)
(* know of them.                                                           *)
LEMMA Names ==
  /\ <<>> \notin Path
  /\ \A n \in Path : Len(n) = 1 \/ Len(n) = 2
  /\ \A n \in Path : Len(n) = 1 => Parent(n) = <<>>
  /\ \A n \in Path : Len(n) = 2 => Parent(n) \in Path /\ Len(Parent(n)) = 1
  /\ \A n \in Path : \A k : k \in Below(n) <=> k \in Path /\ Len(k) = 2 /\ Parent(k) = n
  /\ \A n \in Path : \A k : k \in Under(n) <=> k = n \/ k \in Below(n)
  <1>1. <<>> \notin Path BY DEF Path
  <1>2. ASSUME NEW n \in Path
        PROVE  /\ Len(n) = 1 \/ Len(n) = 2
               /\ Len(n) = 1 => Parent(n) = <<>>
               /\ Len(n) = 2 => Parent(n) \in Path /\ Len(Parent(n)) = 1
    <2>1. CASE \E t \in Top : n = <<t>> BY <2>1, TopName
    <2>2. CASE \E t \in Top, k \in Kid : n = <<t, k>> BY <2>2, TopName, KidName
    <2> QED BY <2>1, <2>2 DEF Path
  <1>3. ASSUME NEW n \in Path, NEW k \in Path
        PROVE  (Len(k) > Len(n) /\ SubSeq(k, 1, Len(n)) = n) <=> Len(k) = 2 /\ Parent(k) = n
    <2>1. CASE Len(k) = 2
      <3>1. Parent(k) = SubSeq(k, 1, 1) BY <2>1 DEF Parent
      <3>2. Parent(k) = n => Len(n) = 1 BY <1>2, <2>1
      <3>3. Len(n) = 1 => SubSeq(k, 1, Len(n)) = Parent(k) BY <3>1, Zenon
      <3>4. Len(k) > Len(n) <=> Len(n) = 1 BY <1>2, <2>1
      <3>5. CASE Len(n) = 1 BY <2>1, <3>3, <3>4, <3>5
      <3>6. CASE Len(n) # 1 BY <3>2, <3>4, <3>6
      <3> QED BY <3>5, <3>6
    <2>2. CASE Len(k) # 2
      <3>1. ~(Len(k) > Len(n)) BY <1>2, <2>2
      <3> QED BY <2>2, <3>1, Zenon
    <2> QED BY <2>1, <2>2
  <1>4. \A n \in Path : \A k : k \in Below(n) <=> k \in Path /\ Len(k) = 2 /\ Parent(k) = n
    BY <1>3 DEF Below
  <1>5. \A n \in Path : \A k : k \in Under(n) <=> k = n \/ k \in Below(n) BY DEF Under
  <1> QED BY <1>1, <1>2, <1>4, <1>5

(* Renaming takes names to names, and back; but there is nothing three     *)
(* levels deep.                                                            *)
LEMMA Rebased ==
  ASSUME NEW p \in Path, NEW q \in Path
  PROVE  /\ Rebase(q, q, p) = p
         /\ \A k \in Below(q) : Len(p) = 1 => Rebase(k, q, p) \in Below(p) /\ Rebase(Rebase(k, q, p), p, q) = k
         /\ \A k \in Below(q) : Len(p) = 2 => Rebase(k, q, p) \notin Path
  <1>1. Rebase(q, q, p) = p
    <2>1. ASSUME NEW n \in Path PROVE n \in Seq(Top \cup Kid)
      <3>1. CASE \E t \in Top : n = <<t>> BY <3>1
      <3>2. CASE \E t \in Top, i \in Kid : n = <<t, i>> BY <3>2
      <3> QED BY <3>1, <3>2 DEF Path
    <2>2. SubSeq(q, Len(q) + 1, Len(q)) = <<>> BY <2>1, LenProperties, SubSeqEmpty
    <2>3. p \o <<>> = p BY <2>1, ConcatEmptySeq
    <2> QED BY <2>2, <2>3, Zenon DEF Rebase
  <1>2. ASSUME NEW k \in Below(q)
        PROVE  \E t \in Top, i \in Kid : q = <<t>> /\ k = <<t, i>>
    <2>1. k \in Path /\ Len(k) = 2 /\ Parent(k) = q BY Names, Zenon
    <2>2. PICK t \in Top, i \in Kid : k = <<t, i>> BY <2>1, TopName DEF Path
    <2> QED BY <2>1, <2>2, KidName
  <1>3. ASSUME NEW t \in Top, NEW s \in Top, NEW i \in Kid
        PROVE  Rebase(<<t, i>>, <<t>>, <<s>>) = <<s, i>>
    <2>1. SubSeq(<<t, i>>, 2, 2) = <<i>> /\ Len(<<t>>) = 1 /\ Len(<<t, i>>) = 2 BY LastPart
    <2>2. SubSeq(<<t, i>>, Len(<<t>>) + 1, Len(<<t, i>>)) = <<i>> BY <2>1
    <2>3. <<s>> \o <<i>> = <<s, i>> BY Joined
    <2> QED BY <2>2, <2>3, Zenon DEF Rebase
  <1>4. ASSUME NEW t \in Top, NEW s \in Top, NEW i \in Kid, NEW j \in Kid
        PROVE  Rebase(<<t, i>>, <<t>>, <<s, j>>) = <<s, j, i>>
    <2>1. SubSeq(<<t, i>>, 2, 2) = <<i>> /\ Len(<<t>>) = 1 /\ Len(<<t, i>>) = 2 BY LastPart
    <2>2. SubSeq(<<t, i>>, Len(<<t>>) + 1, Len(<<t, i>>)) = <<i>> BY <2>1
    <2>3. <<s, j>> \o <<i>> = <<s, j, i>> BY Joined
    <2> QED BY <2>2, <2>3, Zenon DEF Rebase
  <1>5. ASSUME NEW k \in Below(q), Len(p) = 1
        PROVE  Rebase(k, q, p) \in Below(p) /\ Rebase(Rebase(k, q, p), p, q) = k
    <2>1. PICK t \in Top, i \in Kid : q = <<t>> /\ k = <<t, i>> BY <1>2
    <2>2. PICK s \in Top : p = <<s>> BY <1>5, KidName DEF Path
    <2>3. Rebase(k, q, p) = <<s, i>> BY <1>3, <2>1, <2>2
    <2>4. Rebase(<<s, i>>, p, q) = k BY <1>3, <2>1, <2>2
    <2> QED BY <2>2, <2>3, <2>4, KidName, Names
  <1>6. ASSUME NEW k \in Below(q), Len(p) = 2
        PROVE  Rebase(k, q, p) \notin Path
    <2>1. PICK t \in Top, i \in Kid : q = <<t>> /\ k = <<t, i>> BY <1>2
    <2>2. PICK s \in Top, j \in Kid : p = <<s, j>> BY <1>6, TopName DEF Path
    <2>3. Rebase(k, q, p) = <<s, j, i>> BY <1>4, <2>1, <2>2
    <2>4. Len(<<s, j, i>>) = 3 OBVIOUS
    <2> QED BY <2>3, <2>4, Names
  <1> QED BY <1>1, <1>5, <1>6

-----------------------------------------------------------------------------
(* What a look-up finds, told without a search.                            *)

(* The first of some branches.                                             *)
LEMMA FirstOf ==
  ASSUME NEW F \in SUBSET Branch, F # {}
  PROVE  LET b == CHOOSE b \in F : \A c \in F : b <= c IN b \in F /\ \A c \in F : b <= c
  <1>1. F \in SUBSET Nat BY NRoAssumption DEF Branch
  <1>2. Min(F) \in F /\ \A c \in F : Min(F) <= c BY <1>1, LeastNatural
  <1> QED BY <1>2 DEF Min

(* The read-only branches have something at n exactly if one of them has.  *)
LEMMA LowShows ==
  ASSUME NEW e \in [Branch -> [Path -> Stored]], NEW n \in Path
  PROVE  LowView(e)[n] \in Stored /\ (LowView(e)[n] = None <=> LowHolders(e, n) = {})
  <1> DEFINE H == LowHolders(e, n)
             b == CHOOSE b \in H : \A c \in H : b <= c
  <1>1. H \in SUBSET Branch /\ \A c \in H : e[c][n] # None BY DEF LowHolders
  <1>2. LowView(e)[n] = IF H = {} THEN None ELSE e[b][n] BY Zenon DEF LowView
  <1>3. H # {} => b \in H BY <1>1, FirstOf, Zenon
  <1> HIDE DEF H, b
  <1>4. None \in Stored BY DEF Stored
  <1>5. \A c \in Branch : e[c][n] \in Stored OBVIOUS
  <1>6. CASE H = {} BY <1>2, <1>4, <1>6 DEF H
  <1>7. CASE H # {}
    <2>1. b \in H BY <1>3, <1>7, Zenon
    <2>2. LowView(e)[n] = e[b][n] BY <1>2, <1>7, Zenon
    <2>3. e[b][n] \in Stored /\ e[b][n] # None BY <1>1, <1>5, <2>1
    <2> QED BY <1>7, <2>2, <2>3, Zenon DEF H
  <1> QED BY <1>6, <1>7

(* What they show hangs together.                                          *)
LEMMA LowIsLower ==
  ASSUME NEW e \in [Branch -> [Path -> Stored]]
  PROVE  Lower(LowView(e))
  <1>1. LowView(e) \in [Path -> Stored] BY LowShows DEF LowView
  <1>2. ASSUME NEW n \in Path, LowView(e)[n] = None, NEW k \in Below(n)
        PROVE  LowView(e)[k] = None
    <2>1. k \in Path /\ Len(k) = 2 /\ Parent(k) = n BY Names
    <2>2. LowHolders(e, n) = {} BY <1>2, LowShows
    <2>3. Len(n) = 1 BY <2>1, Names
    <2>4. \A b \in Branch \ {0} : e[b][n] # Dir BY <2>2, <2>3 DEF LowHolders, None, Dir
    <2>5. LowHolders(e, k) = {} BY <2>1, <2>4 DEF LowHolders
    <2> QED BY <2>1, <2>5, LowShows
  <1> QED BY <1>1, <1>2 DEF Lower

(* Branch 0 has no part in it.                                             *)
LEMMA SameLow ==
  ASSUME NEW e, NEW f, \A b \in Branch \ {0} : e[b] = f[b]
  PROVE  LowView(e) = LowView(f)
  <1>1. \A n : LowHolders(e, n) = LowHolders(f, n) BY DEF LowHolders
  <1>2. ASSUME NEW n \in Path, LowHolders(f, n) # {}
        PROVE  LET b == CHOOSE b \in LowHolders(f, n) : \A c \in LowHolders(f, n) : b <= c IN e[b][n] = f[b][n]
    <2>1. LowHolders(f, n) \in SUBSET (Branch \ {0}) BY DEF LowHolders
    <2> QED BY <1>2, <2>1, FirstOf
  <1> QED BY <1>1, <1>2 DEF LowView

(* The branches alone.                                                     *)
BranchesOK == ent \in [Branch -> [Path -> Stored]] /\ wh \in SUBSET Path /\ opq \in SUBSET Path

(* A look-up on the branches S, of which the read-only ones that have n    *)
(* are those of LowHolders, or none.                                       *)
LEMMA LookupIs ==
  ASSUME BranchesOK, NEW n \in Path, NEW S \in SUBSET Branch,
         Upper(n) # None \/ n \in wh => 0 \in S,
         NEW L \in SUBSET (Branch \ {0}), Found(S, n) \ {0} = L, L = {} \/ L = LowHolders(ent, n)
  PROVE  Lookup(S, n) = IF n \in wh \/ Upper(n) # None THEN Own(ent[0], wh, n)
                        ELSE IF L = {} THEN None ELSE Low[n]
  <1>1. CASE n \in wh BY <1>1 DEF Lookup, Own, Upper
  <1> DEFINE F == Found(S, n)
             b == CHOOSE b \in F : \A c \in F : b <= c
  <1>2. F \in SUBSET Branch /\ \A c \in Branch : c \in Nat
    <2>1. F \in SUBSET Branch BY DEF Found
    <2> QED BY <2>1, NRoAssumption DEF Branch
  <1>3. F # {} => b \in F /\ \A c \in F : b <= c BY <1>2, FirstOf, Zenon
  <1>4. n \notin wh => Lookup(S, n) = IF F = {} THEN None ELSE ent[b][n] BY Zenon DEF Lookup
  <1>5. 0 \in F <=> 0 \in S /\ Upper(n) # None BY DEF Found, Upper
  <1>6. CASE n \notin wh /\ Upper(n) # None
    <2>1. 0 \in F BY <1>5, <1>6
    <2> HIDE DEF F, b
    <2>2. b = 0
      <3>1. b \in F /\ b <= 0 BY <1>3, <2>1
      <3>2. b \in Nat BY <1>2, <3>1
      <3> QED BY <3>1, <3>2
    <2> QED BY <1>4, <1>6, <2>1, <2>2 DEF Own, Upper
  <1>7. CASE n \notin wh /\ Upper(n) = None
    <2>1. F = L BY <1>5, <1>7
    <2>2. Low[n] = IF LowHolders(ent, n) = {} THEN None
                   ELSE ent[CHOOSE b1 \in LowHolders(ent, n) : \A c \in LowHolders(ent, n) : b1 <= c][n]
      BY Zenon DEF Low, LowView
    <2>3. CASE L = {}
      <3>1. Lookup(S, n) = None BY <1>4, <1>7, <2>1, <2>3
      <3> QED BY <1>7, <2>3, <3>1
    <2>4. CASE L # {} /\ L = LowHolders(ent, n)
      <3>1. Lookup(S, n) = Low[n] BY <1>4, <1>7, <2>1, <2>2, <2>4
      <3> QED BY <1>7, <2>4, <3>1
    <2> QED BY <2>3, <2>4
  <1> QED BY <1>1, <1>6, <1>7

(* The directories of the root, on branch 0 and below, that a look-up      *)
(* merges.                                                                 *)
LEMMA TopIs ==
  ASSUME BranchesOK, DiskOK, NEW n \in Path, Len(n) = 1
  PROVE  /\ ParentBranches(n) = Branch /\ Found(Branch, n) \ {0} = LowHolders(ent, n)
         /\ Lookup(Branch, n) = Shown(ent[0], wh, opq, Low, n)
  <1>1. ParentBranches(n) = Branch BY DEF ParentBranches
  <1>2. Found(Branch, n) \ {0} = LowHolders(ent, n) BY DEF Found, LowHolders
  <1>3. 0 \in Branch BY NRoAssumption DEF Branch
  <1>4. Lookup(Branch, n) = IF n \in wh \/ Upper(n) # None THEN Own(ent[0], wh, n)
                            ELSE IF LowHolders(ent, n) = {} THEN None ELSE Low[n]
    <2>1. LowHolders(ent, n) \in SUBSET (Branch \ {0}) BY DEF LowHolders
    <2> QED BY <1>2, <1>3, <2>1, LookupIs
  <1>5. Parent(n) \notin opq BY Names DEF BranchesOK
  <1>6. LowHolders(ent, n) = {} => Low[n] = None BY LowShows DEF BranchesOK, Low
  <1> QED BY <1>1, <1>2, <1>4, <1>5, <1>6 DEF Shown, Upper

(* The branches that hold a directory of the root, and its names.          *)
LEMMA KidHolders ==
  ASSUME BranchesOK, DiskOK, NEW k \in Path, Len(k) = 2
  PROVE  /\ ParentBranches(k) \in SUBSET Branch
         /\ Shown(ent[0], wh, opq, Low, Parent(k)) # Dir => ParentBranches(k) = {}
         /\ Shown(ent[0], wh, opq, Low, Parent(k)) = Dir =>
              /\ 0 \in ParentBranches(k) <=> Upper(Parent(k)) = Dir
              /\ Found(ParentBranches(k) \ {0}, k) = IF Parent(k) \in opq THEN {} ELSE LowHolders(ent, k)
  <1> DEFINE t == Parent(k)
             S == ParentBranches(k)
  <1>1. t \in Path /\ Len(t) = 1 BY Names
  <1>2. S = DirBranches(Branch, t) BY DEF ParentBranches
  <1>3. S = IF Shown(ent[0], wh, opq, Low, t) # Dir THEN {}
            ELSE {b \in Found(Branch, t) : ent[b][t] = Dir /\ (Upper(t) = Dir /\ t \in opq => b = 0)}
    BY <1>1, <1>2, TopIs DEF DirBranches
  <1>4. t \in opq => Upper(t) = Dir BY DEF DiskOK, Disk, Upper
  <1>5. \A b : b \in Found(Branch, t) /\ ent[b][t] = Dir <=> b \in Branch /\ ent[b][t] = Dir
    BY DEF Found, None, Dir
  <1>6. 0 \in Branch BY NRoAssumption DEF Branch
  <1> HIDE DEF t, S
  <1>7. S \in SUBSET Branch BY <1>3, <1>5
  <1>8. ASSUME Shown(ent[0], wh, opq, Low, t) = Dir
        PROVE  /\ 0 \in S <=> Upper(t) = Dir
               /\ Found(S \ {0}, k) = IF t \in opq THEN {} ELSE LowHolders(ent, k)
    <2>1. S = {b \in Branch : ent[b][t] = Dir /\ (t \in opq => b = 0)} BY <1>3, <1>4, <1>5, <1>8
    <2>2. 0 \in S <=> Upper(t) = Dir BY <1>6, <2>1 DEF Upper
    <2>3. S \ {0} = IF t \in opq THEN {} ELSE {b \in Branch \ {0} : ent[b][t] = Dir} BY <2>1
    <2>4. Found(S \ {0}, k) = IF t \in opq THEN {} ELSE LowHolders(ent, k)
      BY <2>3 DEF Found, LowHolders, t
    <2> QED BY <2>2, <2>4
  <1> QED BY <1>3, <1>7, <1>8 DEF t, S

(* The view of AufsUnion.                                                  *)
LEMMA ViewOf ==
  ASSUME BranchesOK, DiskOK
  PROVE  View = Now
  <1>1. ASSUME NEW n \in Path, Len(n) = 1 PROVE Lookup(ParentBranches(n), n) = Now[n]
    <2>1. Now[n] = Shown(ent[0], wh, opq, Low, n) BY <1>1, Zenon DEF Now, Shows, Union
    <2> QED BY <1>1, <2>1, TopIs
  <1>2. ASSUME NEW k \in Path, Len(k) = 2 PROVE Lookup(ParentBranches(k), k) = Now[k]
    <2> DEFINE t == Parent(k)
               S == ParentBranches(k)
               L == Found(S, k) \ {0}
    <2>1. Now[k] = IF Shown(ent[0], wh, opq, Low, t) = Dir THEN Shown(ent[0], wh, opq, Low, k) ELSE None
      BY <1>2, SMT DEF Now, Shows, Union
    <2>2. CASE Shown(ent[0], wh, opq, Low, t) # Dir
      <3>1. S = {} BY <1>2, <2>2, KidHolders
      <3>2. Found({}, k) = {} BY DEF Found
      <3>3. Lookup({}, k) = None BY <3>2, Zenon DEF Lookup
      <3> QED BY <2>1, <2>2, <3>1, <3>3, Zenon
    <2>3. CASE Shown(ent[0], wh, opq, Low, t) = Dir
      <3>1. L = Found(S \ {0}, k) BY DEF Found
      <3>2. L = IF t \in opq THEN {} ELSE LowHolders(ent, k) BY <1>2, <2>3, <3>1, KidHolders
      <3>3. Upper(k) # None \/ k \in wh => Upper(t) = Dir BY <1>2 DEF DiskOK, Disk, Upper, HasDir
      <3>4. S \in SUBSET Branch /\ (0 \in S <=> Upper(t) = Dir) BY <1>2, <2>3, KidHolders
      <3>5. L \in SUBSET (Branch \ {0}) BY <3>4 DEF Found
      <3> HIDE DEF S, L
      <3>6. Lookup(S, k) = IF k \in wh \/ Upper(k) # None THEN Own(ent[0], wh, k)
                           ELSE IF L = {} THEN None ELSE Low[k]
        <4>1. Found(S, k) \ {0} = L BY DEF L
        <4> QED BY <3>2, <3>3, <3>4, <3>5, <4>1, LookupIs
      <3>7. LowHolders(ent, k) = {} => Low[k] = None BY LowShows DEF BranchesOK, Low
      <3>8. Lookup(S, k) = Shown(ent[0], wh, opq, Low, k) BY <3>2, <3>6, <3>7 DEF Shown, Upper
      <3> QED BY <2>1, <2>3, <3>8 DEF S
    <2> QED BY <2>2, <2>3
  <1>3. \A n \in Path : Lookup(ParentBranches(n), n) = Now[n] BY <1>1, <1>2, Names
  <1>4. Now = [n \in Path |-> Now[n]] BY Zenon DEF Now, Shows, Union
  <1> QED BY <1>3, <1>4 DEF View

(* The same of any state of an operation.                                  *)
LEMMA ViewIs ==
  ASSUME TypeOK, DiskOK
  PROVE  View = Now
  BY ViewOf DEF TypeOK, BranchesOK

(* The tests of the branches below.                                        *)
LEMMA NeedWhIs ==
  ASSUME TypeOK, DiskOK, NEW n \in Path, HasDir(Now, n), ~NeedWh(n)
  PROVE  Covered(wh, opq, Low, n)
  <1>0. BranchesOK BY DEF TypeOK, BranchesOK
  <1>1. CASE Len(n) = 1
    <2>1. Found(ParentBranches(n) \ {0}, n) = LowHolders(ent, n) BY <1>1, <1>0, TopIs DEF Found
    <2> QED BY <2>1, LowShows DEF NeedWh, TypeOK, Covered, Low
  <1>2. CASE Len(n) = 2
    <2>1. Now[Parent(n)] = Dir BY <1>2 DEF HasDir
    <2>2. Shown(ent[0], wh, opq, Low, Parent(n)) = Dir
      BY <1>2, <2>1, Names DEF Now, Shows, Union, None, Dir
    <2>3. Parent(n) \in opq \/ LowHolders(ent, n) = {} BY <1>2, <2>2, <1>0, KidHolders DEF NeedWh
    <2> QED BY <2>3, LowShows DEF TypeOK, Covered, Low
  <1> QED BY <1>1, <1>2, Names

(* au_test_empty_lower: what the branches below hold in n is hidden.       *)
LEMMA EmptyLowerIs ==
  ASSUME TypeOK, DiskOK, NEW n \in Path, Now[n] = Dir, EmptyLower(n), NEW k \in Below(n)
  PROVE  Covered(wh, opq, Low, k)
  <1>0. BranchesOK BY DEF TypeOK, BranchesOK
  <1>1. k \in Path /\ Len(k) = 2 /\ Parent(k) = n /\ Len(n) = 1 BY Names
  <1>2. ParentBranches(k) = DirBranches(ParentBranches(n), n) BY <1>1, <1>0, TopIs DEF ParentBranches
  <1>3. Found(ParentBranches(k) \ {0}, k) # {} => k \in wh BY <1>2, Zenon DEF EmptyLower
  <1>4. Shown(ent[0], wh, opq, Low, n) = Dir BY <1>1 DEF Now, Shows, Union
  <1>5. k \in wh \/ n \in opq \/ LowHolders(ent, k) = {} BY <1>1, <1>3, <1>4, <1>0, KidHolders
  <1> QED BY <1>1, <1>5, LowShows DEF TypeOK, Covered, Low

(* Where no branch below has the directory n, none has a name in it.       *)
LEMMA LowDirs ==
  ASSUME TypeOK, DiskOK, NEW n \in Path, ~\E b \in ParentBranches(n) \ {0} : ent[b][n] = Dir, NEW k \in Below(n)
  PROVE  Low[k] = None
  <1>0. BranchesOK BY DEF TypeOK, BranchesOK
  <1>1. k \in Path /\ Len(k) = 2 /\ Parent(k) = n /\ Len(n) = 1 BY Names
  <1>2. LowHolders(ent, k) = {} BY <1>1, <1>0, TopIs DEF LowHolders
  <1> QED BY <1>1, <1>2, LowShows DEF TypeOK, Low

-----------------------------------------------------------------------------
(* The union of any branch 0 with any view of the branches below.          *)

(* It is a tree, and shows a name where its directory is shown.            *)
LEMMA UnionIs ==
  ASSUME NEW u, NEW w, NEW o, NEW l, Disk(u, w, o), Lower(l)
  PROVE  /\ Tree(Union(u, w, o, l))
         /\ \A n \in Path : Union(u, w, o, l)[n] = IF HasDir(Union(u, w, o, l), n) THEN Shown(u, w, o, l, n) ELSE None
  <1> DEFINE U == Union(u, w, o, l)
             Sh(n) == Shown(u, w, o, l, n)
  <1>1. \A n \in Path : U[n] = IF Len(n) = 1 \/ Sh(Parent(n)) = Dir THEN Sh(n) ELSE None BY DEF Union
  <1>2. \A n \in Path : Sh(n) \in Value BY DEF Shown, Own, Disk, Lower, Stored, Value
  <1>3. None \in Value BY DEF Value
  <1>4. U \in [Path -> Value] BY <1>2, <1>3 DEF Union
  <1> HIDE DEF U, Sh
  <1>5. \A n \in Path : HasDir(U, n) <=> Len(n) = 1 \/ Sh(Parent(n)) = Dir BY <1>1, Names DEF HasDir
  <1>6. \A n \in Path : U[n] = IF HasDir(U, n) THEN Sh(n) ELSE None BY <1>1, <1>5, Zenon
  <1> QED BY <1>4, <1>6 DEF Tree, U, Sh

(* Branch 0 is the same outside the names T.                               *)
AlikeOutside(u, w, o, u2, w2, o2, T) ==
  /\ w \in SUBSET Path /\ o \in SUBSET Path /\ w2 \in SUBSET Path /\ o2 \in SUBSET Path
  /\ \A n \in Path \ T : u2[n] = u[n] /\ (n \in w2 <=> n \in w) /\ (n \in o2 <=> n \in o)
  /\ \A n \in Path \ T : Len(n) = 2 => Parent(n) \notin T

(* What is shown outside T, whole directories, depends on what is outside. *)
LEMMA SameOutside ==
  ASSUME NEW u, NEW w, NEW o, NEW l, NEW u2, NEW w2, NEW o2, NEW T,
         AlikeOutside(u, w, o, u2, w2, o2, T)
  PROVE  \A n \in Path \ T : Union(u2, w2, o2, l)[n] = Union(u, w, o, l)[n]
  <1> USE DEF AlikeOutside
  <1>1. \A n \in Path \ T : Shown(u2, w2, o2, l, n) = Shown(u, w, o, l, n)
    <2> TAKE n \in Path \ T
    <2>1. Parent(n) \in o2 <=> Parent(n) \in o BY Names
    <2> QED BY <2>1 DEF Shown, Own
  <1>2. \A n \in Path \ T : Len(n) = 2 => Shown(u2, w2, o2, l, Parent(n)) = Shown(u, w, o, l, Parent(n))
    BY <1>1, Names
  <1> QED BY <1>1, <1>2, Names, SMT DEF Union

(* A name that is shown and on branch 0 is shown from there.               *)
LEMMA OnUpper ==
  ASSUME NEW u, NEW w, NEW o, NEW l, Disk(u, w, o), Lower(l), NEW n \in Path,
         Union(u, w, o, l)[n] \notin {None, Stuck}
  PROVE  n \notin w /\ (u[n] # None => u[n] = Union(u, w, o, l)[n])
  <1>1. Union(u, w, o, l)[n] = Shown(u, w, o, l, n) BY UnionIs
  <1> QED BY <1>1 DEF Shown, Own

(* A name that is not shown in its directory is not on branch 0, and what  *)
(* the branches below have is hidden.                                      *)
LEMMA NotShown ==
  ASSUME NEW u, NEW w, NEW o, NEW l, Disk(u, w, o), Lower(l), NEW n \in Path,
         Union(u, w, o, l)[n] = None, HasDir(Union(u, w, o, l), n)
  PROVE  u[n] = None /\ Covered(w, o, l, n)
  <1>1. Shown(u, w, o, l, n) = None BY UnionIs
  <1> QED BY <1>1 DEF Shown, Own, Covered, None, Stuck

(* A copy on branch 0 of what is shown changes nothing that is shown.      *)
LEMMA Copied ==
  ASSUME NEW u, NEW w, NEW o, NEW l, Disk(u, w, o), Lower(l), NEW c \in Path,
         u[c] = None, HasDir(u, c), Union(u, w, o, l)[c] \in Data \cup {Dir},
         NEW u2, u2 = [u EXCEPT ![c] = Union(u, w, o, l)[c]]
  PROVE  Disk(u2, w, o) /\ Union(u2, w, o, l) = Union(u, w, o, l)
  <1> DEFINE v == Union(u, w, o, l)[c]
  <1>1. v \in Stored /\ v # None /\ v # Stuck BY DataAssumption DEF Stored, None, Dir, Stuck
  <1>2. u2 \in [Path -> Stored] /\ u2[c] = v /\ \A n \in Path : n # c => u2[n] = u[n] BY <1>1 DEF Disk
  <1>3. c \notin w /\ v = Shown(u, w, o, l, c) BY <1>1, OnUpper, UnionIs
  <1>4. c \notin o BY DEF Disk, None, Dir
  <1> HIDE DEF v
  <1>5. Disk(u2, w, o)
    <2>1. \A n \in Path : u2[n] # None => HasDir(u, n) BY <1>2 DEF Disk
    <2>2. \A n \in Path : HasDir(u, n) => HasDir(u2, n) BY <1>2, Names DEF HasDir, None, Dir
    <2> QED BY <1>2, <1>4, <2>1, <2>2 DEF Disk
  <1>6. \A n \in Path : Shown(u2, w, o, l, n) = Shown(u, w, o, l, n)
    <2> TAKE n \in Path
    <2>1. CASE n = c BY <1>1, <1>2, <1>3, <2>1 DEF Shown, Own
    <2>2. CASE n # c BY <1>2, <2>2 DEF Shown, Own
    <2> QED BY <2>1, <2>2
  <1>7. \A n \in Path : Len(n) = 1 \/ Shown(u2, w, o, l, Parent(n)) = Shown(u, w, o, l, Parent(n))
    BY <1>6, Names
  <1> QED BY <1>5, <1>6, <1>7 DEF Union

(* An entry is written.                                                    *)
LEMMA Written ==
  ASSUME NEW u, NEW w, NEW o, Disk(u, w, o), NEW c \in Path, HasDir(u, c), NEW v \in Stored \ {None},
         u[c] = Dir => v = Dir, NEW u2, u2 = [u EXCEPT ![c] = v]
  PROVE  Disk(u2, w, o)
  <1>1. u2 \in [Path -> Stored] /\ u2[c] = v /\ \A n \in Path : n # c => u2[n] = u[n] BY DEF Disk
  <1>2. \A n \in Path : u2[n] # None => HasDir(u, n) BY <1>1 DEF Disk
  <1>3. \A n \in Path : HasDir(u, n) => HasDir(u2, n) BY <1>1, Names DEF HasDir
  <1> QED BY <1>1, <1>2, <1>3 DEF Disk

(* A name is removed with all that is below it.                            *)
LEMMA Discarded ==
  ASSUME NEW u, NEW w, NEW o, Disk(u, w, o), NEW c \in Path,
         NEW u2, u2 = [n \in Path |-> IF n \in Under(c) THEN None ELSE u[n]]
  PROVE  Disk(u2, w \ Below(c), o \ Under(c))
  <1>1. u2 \in [Path -> Stored] BY DEF Disk, Stored
  <1>2. ASSUME NEW n \in Path, n \notin Below(c), HasDir(u, n) PROVE HasDir(u2, n)
    <2>1. Len(n) = 2 => Parent(n) \in Path /\ Parent(n) \notin Under(c) BY <1>2, Names
    <2> QED BY <1>2, <2>1, Names DEF HasDir
  <1>3. \A n \in Path : u2[n] # None => n \notin Under(c) /\ u[n] # None OBVIOUS
  <1>4. \A n \in Path : n \notin Under(c) => n \notin Below(c) BY Names
  <1> QED BY <1>1, <1>2, <1>3, <1>4 DEF Disk


(* What a rename of p to q on branch 0 makes of the entries and the marks. *)
EntMoved(m, t, p, q) ==
  /\ m[q] = t[p]
  /\ \A k \in Below(q) : m[k] = IF Len(p) = 1 THEN t[Rebase(k, q, p)] ELSE None
  /\ \A n \in Under(p) : m[n] = None
  /\ \A n \in Path : n \notin Under(p) /\ n \notin Under(q) => m[n] = t[n]
WhMoved(m, w, p, q) ==
  /\ m \in SUBSET Path
  /\ \A n \in Path : n \notin Below(p) /\ n \notin Below(q) => (n \in m <=> n \in w)
  /\ \A n \in Below(p) : n \notin m
  /\ \A k \in Below(q) : k \in m <=> Len(p) = 1 /\ Rebase(k, q, p) \in w
OpqMoved(m, o, p, q) ==
  /\ m \in SUBSET Path
  /\ \A n \in Path : n \notin Under(p) /\ n \notin Under(q) => (n \in m <=> n \in o)
  /\ \A n \in Under(p) : n \notin m
  /\ q \in m <=> p \in o
  /\ \A k \in Below(q) : k \in m <=> Len(p) = 1 /\ Rebase(k, q, p) \in o

(* A rename on branch 0.                                                   *)
LEMMA MovedIs ==
  ASSUME NEW t, NEW p \in Path, NEW q \in Path, p \notin Under(q), q \notin Under(p)
  PROVE  EntMoved(Moved(t, p, q), t, p, q)
  <1> DEFINE M(n) == IF n \in Under(q) THEN IF Rebase(n, q, p) \in Path THEN t[Rebase(n, q, p)] ELSE None
                     ELSE IF n \in Under(p) THEN None ELSE t[n]
  <1>1. Moved(t, p, q) = [n \in Path |-> M(n)] BY Zenon DEF Moved
  <1>2. \A n \in Path : Moved(t, p, q)[n] = M(n) BY <1>1, Zenon
  <1>3. Under(p) \subseteq Path /\ Under(q) \subseteq Path /\ q \in Under(q) /\ Below(q) \subseteq Under(q) BY Names
  <1>4. \A n \in Under(p) : n \notin Under(q) BY Names
  <1>5. M(q) = t[p] BY <1>3, Rebased
  <1>6. ASSUME NEW k \in Below(q) PROVE M(k) = IF Len(p) = 1 THEN t[Rebase(k, q, p)] ELSE None
    <2>1. k \in Under(q) BY <1>3
    <2>2. CASE Len(p) = 1
      <3>1. Rebase(k, q, p) \in Path BY <2>2, Rebased, Names
      <3> QED BY <2>1, <2>2, <3>1
    <2>3. CASE Len(p) = 2
      <3>1. Rebase(k, q, p) \notin Path BY <2>3, Rebased
      <3> QED BY <2>1, <2>3, <3>1
    <2> QED BY <2>2, <2>3, Names
  <1> HIDE DEF M
  <1>7. \A n \in Under(p) : M(n) = None BY <1>4, Zenon DEF M
  <1>8. \A n \in Path : n \notin Under(p) /\ n \notin Under(q) => M(n) = t[n] BY Zenon DEF M
  <1>9. \A n : n \in Below(q) \/ n \in Under(p) \/ n = q => n \in Path BY <1>3
  <1> QED BY <1>2, <1>5, <1>6, <1>7, <1>8, <1>9, Zenon DEF EntMoved

(* The whiteouts and opaque marks go with it.                              *)
LEMMA MarksMoved ==
  ASSUME NEW w \in SUBSET Path, NEW p \in Path, NEW q \in Path, p \notin Under(q), q \notin Under(p)
  PROVE  WhMoved(MovedWh(w, p, q), w, p, q) /\ OpqMoved(MovedOpq(w, p, q), w, p, q)
  <1>1. Under(p) \subseteq Path /\ Under(q) \subseteq Path /\ q \in Under(q) /\ Below(q) \subseteq Under(q)
        /\ Below(p) \subseteq Under(p)
    BY Names
  <1>2. \A n \in Under(p) : n \notin Under(q) BY Names
  <1>3. Rebase(q, q, p) = p BY Rebased
  <1>4. \A k \in Below(q) : Len(p) = 2 => Rebase(k, q, p) \notin Path BY Rebased
  <1>5. Len(p) = 1 \/ Len(p) = 2 BY Names
  <1>6. \A n : n \in MovedWh(w, p, q) <=> (n \in w /\ n \notin Below(p) /\ n \notin Below(q))
                                            \/ (n \in Below(q) /\ Rebase(n, q, p) \in w)
    BY Zenon DEF MovedWh
  <1>7. \A n : n \in MovedOpq(w, p, q) <=> (n \in w /\ n \notin Under(p) /\ n \notin Under(q))
                                             \/ (n \in Under(q) /\ Rebase(n, q, p) \in w)
    BY Zenon DEF MovedOpq
  <1>8. \A k \in Below(q) : Rebase(k, q, p) \in w => Len(p) = 1 BY <1>4, <1>5
  <1>9. \A n \in Below(p) : n \notin Below(q) BY <1>1, <1>2
  <1>10. MovedWh(w, p, q) \in SUBSET Path /\ MovedOpq(w, p, q) \in SUBSET Path BY <1>1, <1>6, <1>7
  <1>11. \A n \in Below(p) : n \notin MovedWh(w, p, q) BY <1>6, <1>9
  <1>12. \A n \in Under(p) : n \notin MovedOpq(w, p, q) BY <1>2, <1>7
  <1>13. q \in MovedOpq(w, p, q) <=> p \in w BY <1>1, <1>3, <1>7
  <1>14. \A k \in Below(q) : k \in MovedWh(w, p, q) <=> Len(p) = 1 /\ Rebase(k, q, p) \in w BY <1>6, <1>8
  <1>15. \A k \in Below(q) : k \in MovedOpq(w, p, q) <=> Len(p) = 1 /\ Rebase(k, q, p) \in w BY <1>1, <1>7, <1>8
  <1>16. \A n \in Path : n \notin Below(p) /\ n \notin Below(q) => (n \in MovedWh(w, p, q) <=> n \in w) BY <1>6
  <1>17. \A n \in Path : n \notin Under(p) /\ n \notin Under(q) => (n \in MovedOpq(w, p, q) <=> n \in w) BY <1>7
  <1> QED BY <1>10, <1>11, <1>12, <1>13, <1>14, <1>15, <1>16, <1>17, Zenon DEF WhMoved, OpqMoved

(* It leaves branch 0 in order.                                            *)
LEMMA DiskMoved ==
  ASSUME NEW u, NEW w, NEW o, Disk(u, w, o), NEW p \in Path, NEW q \in Path,
         p \notin Under(q), q \notin Under(p), HasDir(u, q)
  PROVE  Disk(Moved(u, p, q), MovedWh(w, p, q), MovedOpq(o, p, q))
  <1> DEFINE m == Moved(u, p, q)
             mw == MovedWh(w, p, q)
             mo == MovedOpq(o, p, q)
  <1>1. w \in SUBSET Path /\ o \in SUBSET Path /\ u \in [Path -> Stored] /\ None \in Stored BY DEF Disk, Stored
  <1>2. mw \in SUBSET Path /\ mo \in SUBSET Path BY <1>1, MarksMoved DEF WhMoved, OpqMoved
  <1>10. EntMoved(m, u, p, q) BY MovedIs
  <1>11. WhMoved(mw, w, p, q) /\ OpqMoved(mo, o, p, q) BY <1>1, MarksMoved
  <1>3. m \in [Path -> Stored]
    <2>1. \A n \in Path : m[n] \in Stored
      <3> TAKE n \in Path
      <3>1. CASE n = q BY <1>1, <3>1, <1>10 DEF EntMoved, WhMoved, OpqMoved
      <3>2. CASE n \in Below(q)
        <4>1. Len(p) = 1 => Rebase(n, q, p) \in Path BY <3>2, Rebased, Names
        <4> QED BY <1>1, <3>2, <4>1, <1>10 DEF EntMoved, WhMoved, OpqMoved
      <3>3. CASE n \in Under(p) BY <1>1, <3>3, <1>10 DEF EntMoved, WhMoved, OpqMoved
      <3>4. CASE n \notin Under(p) /\ n \notin Under(q) BY <1>1, <3>4, <1>10 DEF EntMoved, WhMoved, OpqMoved
      <3> QED BY <3>1, <3>2, <3>3, <3>4, Names
    <2>2. DOMAIN m = Path /\ m = [n \in Path |-> m[n]] BY Zenon DEF Moved
    <2> QED BY <2>1, <2>2
  <1> HIDE DEF m, mw, mo
  <1>4. ASSUME NEW n \in Path, n \notin Below(p), n \notin Below(q), HasDir(u, n)
        PROVE  HasDir(m, n)
    <2>1. Len(n) = 2 => Parent(n) \in Path /\ Parent(n) \notin Under(p) /\ Parent(n) \notin Under(q) BY <1>4, Names
    <2>2. Len(n) = 2 => m[Parent(n)] = u[Parent(n)] BY <2>1, <1>10 DEF EntMoved, WhMoved, OpqMoved
    <2> QED BY <1>4, <2>2, Names DEF HasDir
  <1>5. ASSUME NEW k \in Below(q), Len(p) = 1, HasDir(u, Rebase(k, q, p))
        PROVE  HasDir(m, k)
    <2>1. Rebase(k, q, p) \in Below(p) BY <1>5, Rebased
    <2>2. u[p] = Dir BY <1>5, <2>1, Names DEF HasDir
    <2>3. m[q] = Dir BY <2>2, <1>10 DEF EntMoved, WhMoved, OpqMoved
    <2> QED BY <2>3, Names DEF HasDir
  <1>6. q \notin Below(p) /\ q \notin Below(q) BY Names
  <1>7. \A n \in Path : m[n] # None => HasDir(m, n)
    <2> SUFFICES ASSUME NEW n \in Path, m[n] # None PROVE HasDir(m, n) OBVIOUS
    <2>1. CASE n = q BY <1>4, <1>6, <2>1
    <2>2. CASE n \in Below(q)
      <3>1. Len(p) = 1 /\ u[Rebase(n, q, p)] # None BY <2>2, <1>10 DEF EntMoved, WhMoved, OpqMoved
      <3>2. Rebase(n, q, p) \in Path BY <2>2, <3>1, Rebased, Names
      <3> QED BY <1>5, <2>2, <3>1, <3>2 DEF Disk
    <2>3. CASE n \in Under(p) BY <2>3, <1>10 DEF EntMoved, WhMoved, OpqMoved
    <2>4. CASE n \notin Under(p) /\ n \notin Under(q)
      <3>1. u[n] # None BY <2>4, <1>10 DEF EntMoved, WhMoved, OpqMoved
      <3> QED BY <1>4, <2>4, <3>1, Names DEF Disk
    <2> QED BY <2>1, <2>2, <2>3, <2>4, Names
  <1>8. \A n \in mw : HasDir(m, n)
    <2> SUFFICES ASSUME NEW n \in mw PROVE HasDir(m, n) OBVIOUS
    <2>1. n \in Path BY <1>2
    <2>2. CASE n \in Below(q)
      <3>1. Len(p) = 1 /\ Rebase(n, q, p) \in w BY <1>1, <2>2, <1>11 DEF EntMoved, WhMoved, OpqMoved
      <3> QED BY <1>5, <2>2, <3>1 DEF Disk
    <2>3. CASE n \notin Below(q)
      <3>1. n \notin Below(p) /\ n \in w BY <1>1, <2>1, <2>3, <1>11 DEF EntMoved, WhMoved, OpqMoved
      <3> QED BY <1>4, <2>1, <2>3, <3>1 DEF Disk
    <2> QED BY <2>2, <2>3
  <1>9. \A n \in mo : m[n] = Dir
    <2> SUFFICES ASSUME NEW n \in mo PROVE m[n] = Dir OBVIOUS
    <2>1. n \in Path BY <1>2
    <2>2. CASE n = q BY <1>1, <2>2, <1>11, <1>10 DEF Disk, EntMoved, WhMoved, OpqMoved
    <2>3. CASE n \in Below(q)
      <3>1. Len(p) = 1 /\ Rebase(n, q, p) \in o BY <1>1, <2>3, <1>11 DEF EntMoved, WhMoved, OpqMoved
      <3> QED BY <2>3, <3>1, <1>10 DEF Disk, EntMoved, WhMoved, OpqMoved
    <2>4. CASE n \notin Under(q)
      <3>1. n \notin Under(p) /\ n \in o BY <1>1, <2>1, <2>4, <1>11 DEF EntMoved, WhMoved, OpqMoved
      <3> QED BY <2>1, <2>4, <3>1, <1>10 DEF Disk, EntMoved, WhMoved, OpqMoved
    <2> QED BY <2>2, <2>3, <2>4, <2>1, Names
  <1> QED BY <1>2, <1>3, <1>7, <1>8, <1>9 DEF Disk, m, mw, mo

(* A rename to a free name can be undone.                                  *)
LEMMA MovedBack ==
  ASSUME NEW u, NEW w, NEW o, Disk(u, w, o), NEW p \in Path, NEW q \in Path,
         p \notin Under(q), q \notin Under(p), u[q] = None, u[p] = Dir => Len(q) <= Len(p)
  PROVE  /\ Moved(Moved(u, p, q), q, p) = u
         /\ MovedWh(MovedWh(w, p, q), q, p) = w
         /\ MovedOpq(MovedOpq(o, p, q), q, p) = o
  <1> DEFINE m == Moved(u, p, q)
             mw == MovedWh(w, p, q)
             mo == MovedOpq(o, p, q)
  <1>1. w \in SUBSET Path /\ o \in SUBSET Path /\ u \in [Path -> Stored] BY DEF Disk
  <1>2. mw \in SUBSET Path /\ mo \in SUBSET Path BY <1>1, MarksMoved DEF WhMoved, OpqMoved
  <1>3. \A k \in Below(q) : u[k] = None /\ k \notin w /\ k \notin o /\ q \notin o
    BY Names DEF Disk, HasDir, None, Dir
  <1>4. ASSUME NEW k \in Below(p), Len(q) = 2 PROVE u[k] = None /\ k \notin w /\ k \notin o
    <2>1. Len(p) = 1 /\ k \in Path /\ Len(k) = 2 /\ Parent(k) = p BY Names
    <2>2. u[p] # Dir BY <1>4, <2>1
    <2> QED BY <2>1, <2>2 DEF Disk, HasDir, None, Dir
  <1>5. ASSUME NEW k \in Below(p), Len(q) = 1
        PROVE  LET r == Rebase(k, p, q) IN r \in Below(q) /\ Rebase(r, q, p) = k /\ Len(p) = 1
    BY <1>5, Rebased, Names
  <1>6. Len(q) = 1 \/ Len(q) = 2 BY Names
  <1>7. q \notin o BY DEF Disk, None, Dir
  <1>21. EntMoved(m, u, p, q) BY MovedIs
  <1>22. WhMoved(mw, w, p, q) /\ OpqMoved(mo, o, p, q) BY <1>1, MarksMoved
  <1> HIDE DEF m, mw, mo
  <1>24. EntMoved(Moved(m, q, p), m, q, p) BY MovedIs
  <1>25. WhMoved(MovedWh(mw, q, p), mw, q, p) /\ OpqMoved(MovedOpq(mo, q, p), mo, q, p) BY <1>2, MarksMoved
  <1>8. \A n \in Path : Moved(m, q, p)[n] = u[n]
    <2> TAKE n \in Path
    <2>1. CASE n = p BY <1>21, <1>24, <2>1 DEF EntMoved, WhMoved, OpqMoved
    <2>2. CASE n \in Below(p)
      <3>1. Moved(m, q, p)[n] = IF Len(q) = 1 THEN m[Rebase(n, p, q)] ELSE None BY <1>24, <2>2 DEF EntMoved, WhMoved, OpqMoved
      <3>2. CASE Len(q) = 2 BY <1>4, <2>2, <3>1, <3>2
      <3>3. CASE Len(q) = 1
        <4>1. m[Rebase(n, p, q)] = u[n] BY <1>5, <1>21, <2>2, <3>3 DEF EntMoved, WhMoved, OpqMoved
        <4> QED BY <3>1, <3>3, <4>1
      <3> QED BY <1>6, <3>2, <3>3
    <2>3. CASE n \in Under(q)
      <3>1. Moved(m, q, p)[n] = None BY <1>24, <2>3 DEF EntMoved, WhMoved, OpqMoved
      <3> QED BY <1>3, <2>3, <3>1, Names
    <2>4. CASE n \notin Under(p) /\ n \notin Under(q) BY <1>21, <1>24, <2>4 DEF EntMoved, WhMoved, OpqMoved
    <2> QED BY <2>1, <2>2, <2>3, <2>4, Names
  <1>9. Moved(m, q, p) = u
    <2>1. Moved(m, q, p) = [n \in Path |-> Moved(m, q, p)[n]] BY Zenon DEF Moved
    <2> QED BY <1>1, <1>8, <2>1
  <1>10. ASSUME NEW n \in Path PROVE n \in MovedWh(mw, q, p) <=> n \in w
    <2>1. CASE n \in Below(p)
      <3>1. n \in MovedWh(mw, q, p) <=> Len(q) = 1 /\ Rebase(n, p, q) \in mw BY <2>1, <1>25 DEF EntMoved, WhMoved, OpqMoved
      <3>2. CASE Len(q) = 2 BY <1>4, <2>1, <3>1, <3>2
      <3>3. CASE Len(q) = 1
        <4>1. Rebase(n, p, q) \in mw <=> n \in w BY <1>5, <1>22, <2>1, <3>3 DEF EntMoved, WhMoved, OpqMoved
        <4> QED BY <3>1, <3>3, <4>1
      <3> QED BY <1>6, <3>2, <3>3
    <2>2. CASE n \in Below(q) BY <1>25, <1>3, <2>2, <1>22 DEF EntMoved, WhMoved, OpqMoved
    <2>3. CASE n \notin Below(p) /\ n \notin Below(q)
      <3>1. n \in MovedWh(mw, q, p) <=> n \in mw BY <2>3, <1>25 DEF EntMoved, WhMoved, OpqMoved
      <3>2. n \in mw <=> n \in w BY <1>22, <2>3 DEF EntMoved, WhMoved, OpqMoved
      <3> QED BY <3>1, <3>2
    <2> QED BY <2>1, <2>2, <2>3
  <1>11. ASSUME NEW n \in Path PROVE n \in MovedOpq(mo, q, p) <=> n \in o
    <2>1. CASE n \in Below(p)
      <3>1. n \in MovedOpq(mo, q, p) <=> Len(q) = 1 /\ Rebase(n, p, q) \in mo BY <2>1, <1>25 DEF EntMoved, WhMoved, OpqMoved
      <3>2. CASE Len(q) = 2 BY <1>4, <2>1, <3>1, <3>2
      <3>3. CASE Len(q) = 1
        <4>1. Rebase(n, p, q) \in mo <=> n \in o BY <1>5, <1>22, <2>1, <3>3 DEF EntMoved, WhMoved, OpqMoved
        <4> QED BY <3>1, <3>3, <4>1
      <3> QED BY <1>6, <3>2, <3>3
    <2>2. CASE n = p
      <3>1. p \in MovedOpq(mo, q, p) <=> q \in mo BY <1>25 DEF EntMoved, WhMoved, OpqMoved
      <3>2. q \in mo <=> p \in o BY <1>22 DEF EntMoved, WhMoved, OpqMoved
      <3> QED BY <2>2, <3>1, <3>2
    <2>3. CASE n \in Under(q)
      <3>1. n \notin MovedOpq(mo, q, p) BY <2>3, <1>25 DEF EntMoved, WhMoved, OpqMoved
      <3> QED BY <1>3, <1>7, <2>3, <3>1, Names
    <2>4. CASE n \notin Under(p) /\ n \notin Under(q)
      <3>1. n \in MovedOpq(mo, q, p) <=> n \in mo BY <2>4, <1>25 DEF EntMoved, WhMoved, OpqMoved
      <3>2. n \in mo <=> n \in o BY <1>22, <2>4 DEF EntMoved, WhMoved, OpqMoved
      <3> QED BY <3>1, <3>2
    <2> QED BY <2>1, <2>2, <2>3, <2>4, Names
  <1>12. MovedWh(mw, q, p) \in SUBSET Path /\ MovedOpq(mo, q, p) \in SUBSET Path BY <1>25 DEF EntMoved, WhMoved, OpqMoved
  <1>13. MovedWh(mw, q, p) = w BY <1>1, <1>10, <1>12, Zenon
  <1>14. MovedOpq(mo, q, p) = o BY <1>1, <1>11, <1>12, Zenon
  <1> QED BY <1>9, <1>13, <1>14, Zenon DEF m, mw, mo

(* A new name, shown as it is to be: its directory is the same, and        *)
(* nothing comes up from the branches below it.                            *)
LEMMA Added ==
  ASSUME NEW u, NEW w, NEW o, NEW l, Disk(u, w, o), Lower(l), NEW q \in Path,
         NEW u0, NEW w0, NEW o0, Disk(u0, w0, o0), u0 = [u EXCEPT ![q] = None],
         \A n \in Path : n # q => (n \in w0 <=> n \in w) /\ (n \in o0 <=> n \in o),
         NEW t, t = Union(u0, w0, o0, l), t[q] = None, HasDir(t, q),
         u[q] # None, q \notin w, u[q] = Dir => q \in o \/ \A k \in Below(q) : l[k] = None
  PROVE  Union(u, w, o, l) = [t EXCEPT ![q] = u[q]]
  <1> DEFINE U == Union(u, w, o, l)
  <1>1. Tree(t) /\ Tree(U) BY UnionIs
  <1>2. \A n \in Path : U[n] = IF HasDir(U, n) THEN Shown(u, w, o, l, n) ELSE None BY UnionIs
  <1>3. w \in SUBSET Path /\ o \in SUBSET Path /\ w0 \in SUBSET Path /\ o0 \in SUBSET Path BY DEF Disk
  <1>4. u0[q] = None /\ \A n \in Path : n # q => u0[n] = u[n] BY DEF Disk
  <1>5. \A n \in Path \ Under(q) : U[n] = t[n]
    <2>1. \A n \in Path \ Under(q) : Len(n) = 2 => Parent(n) \notin Under(q) BY Names
    <2>2. \A n \in Path \ Under(q) : n # q BY Names
    <2>3. \A n \in Path \ Under(q) : u[n] = u0[n] /\ (n \in w <=> n \in w0) /\ (n \in o <=> n \in o0)
      BY <1>4, <2>2
    <2>4. AlikeOutside(u0, w0, o0, u, w, o, Under(q)) BY <1>3, <2>1, <2>3 DEF AlikeOutside
    <2> QED BY <2>4, SameOutside
  <1>6. U[q] = u[q]
    <2>1. Len(q) = 2 => Parent(q) \in Path \ Under(q) BY Names
    <2>2. HasDir(U, q) BY <1>5, <2>1, Names DEF HasDir
    <2> QED BY <1>2, <2>2 DEF Shown, Own
  <1>7. \A k \in Below(q) : U[k] = None /\ t[k] = None
    <2> TAKE k \in Below(q)
    <2>1. k \in Path /\ Len(k) = 2 /\ Parent(k) = q /\ k # q BY Names
    <2>2. ~HasDir(t, k) /\ ~HasDir(u0, k) BY <1>4, <2>1 DEF HasDir, None, Dir
    <2>3. t[k] = None BY <1>1, <2>1, <2>2 DEF Tree
    <2>4. u[k] = None /\ k \notin w BY <1>4, <2>1, <2>2 DEF Disk
    <2>5. u[q] = Dir => Shown(u, w, o, l, k) = None BY <2>1, <2>4 DEF Shown
    <2>6. HasDir(U, k) => u[q] = Dir BY <1>6, <2>1 DEF HasDir
    <2> QED BY <1>2, <2>1, <2>3, <2>5, <2>6
  <1> HIDE DEF U
  <1>8. \A n \in Path : U[n] = [t EXCEPT ![q] = u[q]][n] BY <1>1, <1>5, <1>6, <1>7, Names DEF Tree
  <1>9. U = [n \in Path |-> U[n]] /\ t = [n \in Path |-> t[n]] BY <1>1 DEF Tree
  <1> QED BY <1>8, <1>9 DEF U

(* A name and all below it is gone.                                        *)
LEMMA Removed ==
  ASSUME NEW u, NEW w, NEW o, NEW l, Disk(u, w, o), Lower(l), NEW p \in Path,
         Covered(w, o, l, p), NEW t, t = Union(u, w \ {p}, o, l),
         NEW u2, u2 = [n \in Path |-> IF n \in Under(p) THEN None ELSE u[n]]
  PROVE  Union(u2, w \ Below(p), o \ Under(p), l) = [n \in Path |-> IF n \in Under(p) THEN None ELSE t[n]]
  <1> DEFINE w2 == w \ Below(p)
             o2 == o \ Under(p)
             w1 == w \ {p}
             U == Union(u2, w2, o2, l)
  <1>1. Disk(u2, w2, o2) BY Discarded
  <1>2. Tree(U) /\ \A n \in Path : U[n] = IF HasDir(U, n) THEN Shown(u2, w2, o2, l, n) ELSE None
    <2> HIDE DEF w2, o2
    <2> QED BY <1>1, UnionIs
  <1>3. w1 \in SUBSET Path /\ o \in SUBSET Path /\ w2 \in SUBSET Path /\ o2 \in SUBSET Path BY DEF Disk
  <1>4. \A n \in Path \ Under(p) : U[n] = t[n]
    <2>1. \A n \in Path \ Under(p) : Len(n) = 2 => Parent(n) \notin Under(p) BY Names
    <2>2. \A n \in Path \ Under(p) : n # p /\ n \notin Below(p) BY Names
    <2>3. \A n \in Path \ Under(p) : u2[n] = u[n] /\ (n \in w2 <=> n \in w1) /\ (n \in o2 <=> n \in o)
      BY <2>2
    <2>4. AlikeOutside(u, w1, o, u2, w2, o2, Under(p)) BY <1>3, <2>1, <2>3 DEF AlikeOutside
    <2> HIDE DEF w1, w2, o2
    <2> QED BY <2>4, SameOutside DEF w1
  <1>5. U[p] = None
    <2>1. p \in Under(p) /\ p \notin Below(p) BY Names
    <2>2. Len(p) = 2 => Parent(p) \notin Under(p) BY Names
    <2>3. u2[p] = None /\ (p \in w2 <=> p \in w) BY <2>1
    <2>4. Parent(p) \in o => Parent(p) \in o2 BY <2>2, Names DEF Disk
    <2>5. Shown(u2, w2, o2, l, p) = None BY <2>3, <2>4 DEF Shown, Own, Covered
    <2> QED BY <1>2, <2>5
  <1> HIDE DEF U
  <1>6. \A k \in Below(p) : U[k] = None
    <2> TAKE k \in Below(p)
    <2>1. k \in Path /\ Len(k) = 2 /\ Parent(k) = p BY Names
    <2>2. ~HasDir(U, k) BY <1>5, <2>1 DEF HasDir, None, Dir
    <2> QED BY <1>2, <2>1, <2>2
  <1>7. \A n \in Path : U[n] = IF n \in Under(p) THEN None ELSE t[n] BY <1>4, <1>5, <1>6, Names
  <1>8. U = [n \in Path |-> U[n]] BY <1>2 DEF Tree
  <1> QED BY <1>7, <1>8 DEF U

(* If it was not on branch 0, its whiteout is all it takes.                *)
LEMMA NothingBelow ==
  ASSUME NEW u, NEW w, NEW o, Disk(u, w, o), NEW p \in Path, u[p] = None
  PROVE  /\ u = [n \in Path |-> IF n \in Under(p) THEN None ELSE u[n]]
         /\ w \ Below(p) = w /\ o \ Under(p) = o
  <1>1. \A k \in Below(p) : u[k] = None /\ k \notin w BY Names DEF Disk, HasDir, None, Dir
  <1>2. \A n \in Under(p) : u[n] = None BY <1>1, Names
  <1>3. \A n \in Under(p) : n \notin o BY <1>2 DEF Disk, None, Dir
  <1>4. u = [n \in Path |-> IF n \in Under(p) THEN None ELSE u[n]] BY <1>2 DEF Disk
  <1> QED BY <1>1, <1>3, <1>4

(* A renamed name is shown under its new name, with all that is below it.  *)
LEMMA Renamed ==
  ASSUME NEW u, NEW w, NEW o, NEW l, Disk(u, w, o), Lower(l), NEW p \in Path, NEW q \in Path,
         p \notin Under(q), q \notin Under(p), NEW t, Tree(t), HasDir(t, q),
         \A n \in Path : n \notin Under(p) /\ n \notin Under(q) => Union(u, w, o, l)[n] = t[n],
         u[p] = None, Covered(w, o, l, p), u[q] = t[p], t[p] # None, q \notin w,
         \A k \in Below(q) : Own(u, w, k) = Moved(t, p, q)[k],
         t[p] = Dir => q \in o \/ \A k \in Below(q) : l[k] = None
  PROVE  Union(u, w, o, l) = Moved(t, p, q)
  <1> DEFINE U == Union(u, w, o, l)
             m == Moved(t, p, q)
  <1>1. Tree(U) /\ \A n \in Path : U[n] = IF HasDir(U, n) THEN Shown(u, w, o, l, n) ELSE None
    BY UnionIs
  <1>2. EntMoved(m, t, p, q) BY MovedIs
  <1> HIDE DEF U, m
  <1>3. U[p] = None
    <2>1. Shown(u, w, o, l, p) = None BY DEF Shown, Own, Covered
    <2> QED BY <1>1, <2>1
  <1>4. \A k \in Below(p) : U[k] = None
    <2> TAKE k \in Below(p)
    <2>1. k \in Path /\ Len(k) = 2 /\ Parent(k) = p BY Names
    <2>2. ~HasDir(U, k) BY <1>3, <2>1 DEF HasDir, None, Dir
    <2> QED BY <1>1, <2>1, <2>2
  <1>5. U[q] = t[p]
    <2>1. Len(q) = 2 => Parent(q) \in Path /\ Parent(q) \notin Under(p) /\ Parent(q) \notin Under(q) BY Names
    <2>2. Len(q) = 2 => U[Parent(q)] = t[Parent(q)] BY <2>1 DEF U
    <2>3. HasDir(U, q) BY <2>2, Names DEF HasDir
    <2> QED BY <1>1, <2>3 DEF Shown, Own
  <1>6. \A k \in Below(q) : U[k] = m[k]
    <2> TAKE k \in Below(q)
    <2>1. k \in Path /\ Len(k) = 2 /\ Parent(k) = q BY Names
    <2>2. HasDir(U, k) <=> t[p] = Dir BY <1>5, <2>1 DEF HasDir
    <2>3. CASE t[p] = Dir
      <3>1. Own(u, w, k) = m[k] BY DEF m
      <3>2. Shown(u, w, o, l, k) = Own(u, w, k) BY <2>1, <2>3 DEF Shown, Own
      <3> QED BY <1>1, <2>1, <2>2, <2>3, <3>1, <3>2
    <2>4. CASE t[p] # Dir
      <3>1. Len(p) = 1 => t[Rebase(k, q, p)] = None
        <4> SUFFICES ASSUME Len(p) = 1 PROVE t[Rebase(k, q, p)] = None OBVIOUS
        <4>1. Rebase(k, q, p) \in Below(p) BY Rebased
        <4>2. ~HasDir(t, Rebase(k, q, p)) BY <2>4, <4>1, Names DEF HasDir
        <4> QED BY <4>1, <4>2, Names DEF Tree
      <3> QED BY <1>1, <1>2, <2>1, <2>2, <2>4, <3>1 DEF EntMoved
    <2> QED BY <2>3, <2>4
  <1>7. \A n \in Path : n \notin Under(p) /\ n \notin Under(q) => U[n] = m[n] BY <1>2 DEF EntMoved, U
  <1>8. \A n \in Path : U[n] = m[n]
    <2> TAKE n \in Path
    <2>1. CASE n \in Under(p) BY <1>2, <1>3, <1>4, <2>1, Names DEF EntMoved
    <2>2. CASE n \in Under(q) BY <1>2, <1>5, <1>6, <2>2, Names DEF EntMoved
    <2>3. CASE n \notin Under(p) /\ n \notin Under(q) BY <1>7, <2>3
    <2> QED BY <2>1, <2>2, <2>3
  <1>9. U = [n \in Path |-> U[n]] BY <1>1 DEF Tree
  <1>10. m = [n \in Path |-> m[n]] BY Zenon DEF m, Moved
  <1> QED BY <1>8, <1>9, <1>10 DEF U, m

(* A file of branch 0 is written.                                          *)
LEMMA Rewritten ==
  ASSUME NEW u, NEW w, NEW o, NEW l, Disk(u, w, o), Lower(l), NEW p \in Path, NEW t, t = Union(u, w, o, l),
         t[p] \in Data, u[p] # None, NEW v \in Data, NEW u2, u2 = [u EXCEPT ![p] = v]
  PROVE  Disk(u2, w, o) /\ Union(u2, w, o, l) = [t EXCEPT ![p] = v]
  <1> DEFINE U == Union(u2, w, o, l)
  <1>1. t[p] \notin {None, Dir, Stuck} /\ v \notin {None, Dir, Stuck} /\ v \in Stored BY DataAssumption DEF Stored
  <1>2. p \notin w /\ u[p] = t[p] BY <1>1, OnUpper
  <1>3. HasDir(u, p) BY DEF Disk
  <1>4. Disk(u2, w, o) BY <1>1, <1>2, <1>3, Written
  <1>5. /\ Tree(U) /\ \A n \in Path : U[n] = IF HasDir(U, n) THEN Shown(u2, w, o, l, n) ELSE None
    <2>1. \A x : Disk(x, w, o) => Tree(Union(x, w, o, l)) BY UnionIs
    <2>2. \A x : Disk(x, w, o) => \A n \in Path : Union(x, w, o, l)[n] =
            IF HasDir(Union(x, w, o, l), n) THEN Shown(x, w, o, l, n) ELSE None
      BY UnionIs
    <2> QED BY <1>4, <2>1, <2>2
  <1>6. /\ Tree(t) /\ \A n \in Path : t[n] = IF HasDir(t, n) THEN Shown(u, w, o, l, n) ELSE None
    BY UnionIs
  <1>7. u2[p] = v /\ \A n \in Path : n # p => u2[n] = u[n] BY DEF Disk
  <1> HIDE DEF U
  <1>8. \A n \in Path : n # p => Shown(u2, w, o, l, n) = Shown(u, w, o, l, n) BY <1>7 DEF Shown, Own
  <1>9. Shown(u2, w, o, l, p) = v /\ Shown(u, w, o, l, p) = t[p] BY <1>1, <1>2, <1>7 DEF Shown, Own
  <1>10. \A n \in Path : Len(n) = 1 => U[n] = IF n = p THEN v ELSE t[n] BY <1>5, <1>6, <1>8, <1>9 DEF HasDir
  <1>11. \A n \in Path : HasDir(U, n) <=> HasDir(t, n) BY <1>1, <1>10, Names DEF HasDir
  <1>12. HasDir(t, p) BY <1>1, <1>6 DEF Tree
  <1>13. \A n \in Path : U[n] = IF n = p THEN v ELSE t[n] BY <1>5, <1>6, <1>8, <1>9, <1>11, <1>12
  <1>14. U = [n \in Path |-> U[n]] /\ t = [n \in Path |-> t[n]] BY <1>5, <1>6 DEF Tree
  <1>15. [t EXCEPT ![p] = v] = [n \in Path |-> IF n = p THEN v ELSE t[n]] BY <1>14
  <1> QED BY <1>4, <1>13, <1>14, <1>15 DEF U

-----------------------------------------------------------------------------
(* Steps of an operation.                                                  *)

(* What a step of an operation carries on, and the disk it leaves.         *)
SameOp ==
  /\ a' \in Args /\ a'.kind = a.kind /\ a'.p = a.p /\ a'.q = a.q /\ a'.v = a.v
  /\ tree' = tree /\ res' = res /\ faults' \in Nat
NewDisk ==
  /\ ent' \in [Branch -> [Path -> Stored]] /\ (\A b \in Branch \ {0} : ent'[b] = ent[b])
  /\ Disk(ent'[0], wh', opq')

(* The call in progress.                                                   *)
LEMMA InCall ==
  ASSUME TypeOK, OpOK, pc # "idle"
  PROVE  /\ a \in Args /\ a.p \in Path /\ a.q \in Path /\ a.v \in Data
         /\ Touched(Op) = Under(a.p) \cup Under(a.q)
         /\ a.kind \notin {"link", "rename"} => a.q = a.p
         /\ a.kind \in {"link", "rename"} => a.q \notin Under(a.p) /\ a.p \notin Under(a.q)
         /\ a.kind \in {"create", "mkdir"} => tree[a.p] = None /\ HasDir(tree, a.p)
         /\ a.kind = "link" => tree[a.p] \in Data /\ tree[a.q] = None /\ HasDir(tree, a.q)
         /\ a.kind \in {"unlink", "write"} => tree[a.p] \in Data
         /\ a.kind = "rmdir" => tree[a.p] = Dir
         /\ a.kind = "rename" =>
              /\ HasDir(tree, a.q)
              /\ \/ tree[a.p] \in Data /\ tree[a.q] \in Data \cup {None}
                 \/ tree[a.p] = Dir /\ tree[a.q] \in {Dir, None} /\ Len(a.q) <= Len(a.p)
  <1>1. a \in Args BY DEF TypeOK
  <1>2. a.p \in Path /\ a.q \in Path /\ a.v \in Data /\ a.kind \in Kinds BY <1>1 DEF Args
  <1>3. Op.kind = a.kind /\ Op.p = a.p /\ Op.q = a.q /\ Op.v = a.v BY DEF Op
  <1>4. Touched(Op) = Under(a.p) \cup Under(a.q) BY <1>3 DEF Touched
  <1>5. Op \in Calls /\ MayCall(tree, Op) BY DEF OpOK
  <1>6. /\ a.kind \notin {"link", "rename"} => a.q = a.p
        /\ a.kind \in {"link", "rename"} => a.q \notin Under(a.p) /\ a.p \notin Under(a.q)
    BY <1>3, <1>5 DEF Calls
  <1> HIDE DEF Op
  <1>7. a.kind \in {"create", "mkdir"} => tree[a.p] = None /\ HasDir(tree, a.p) BY <1>3, <1>5 DEF MayCall
  <1>8. a.kind = "link" => tree[a.p] \in Data /\ tree[a.q] = None /\ HasDir(tree, a.q) BY <1>3, <1>5 DEF MayCall
  <1>9. a.kind \in {"unlink", "write"} => tree[a.p] \in Data BY <1>3, <1>5 DEF MayCall
  <1>10. a.kind = "rmdir" => tree[a.p] = Dir BY <1>3, <1>5 DEF MayCall
  <1>11. a.kind = "rename" =>
              /\ HasDir(tree, a.q)
              /\ \/ tree[a.p] \in Data /\ tree[a.q] \in Data \cup {None}
                 \/ tree[a.p] = Dir /\ tree[a.q] \in {Dir, None} /\ Len(a.q) <= Len(a.p)
    BY <1>3, <1>5 DEF MayCall
  <1> QED BY <1>1, <1>2, <1>4, <1>6, <1>7, <1>8, <1>9, <1>10, <1>11

(* What does not depend on the phase of the operation.                     *)
LEMMA Carried ==
  ASSUME IInv, pc # "idle", SameOp, NewDisk, pc' \in PcsOf(a.kind), a'.then \in PcsOf(a.kind)
  PROVE  TypeOK' /\ OpOK' /\ DiskOK' /\ Low' = Low /\ Op' = Op
  <1>1. Op' = Op BY DEF Op, SameOp
  <1>2. Low' = Low BY SameLow DEF Low, NewDisk
  <1>3. a.kind \in Kinds BY DEF IInv, TypeOK, Args
  <1>4. PcsOf(a.kind) \subseteq Pc
    BY <1>3 DEF PcsOf, Pc, Clean, CpPc, WrPc, AddPc, AddLate, DelPc, DelLate, RenPc, RenLate, RenHere, RenGone, RenUndo, Kinds
  <1>5. TypeOK' BY <1>4 DEF IInv, TypeOK, SameOp, NewDisk, Disk
  <1>6. OpOK' BY <1>1 DEF IInv, OpOK, SameOp
  <1>7. DiskOK' BY DEF DiskOK, NewDisk
  <1> QED BY <1>1, <1>2, <1>5, <1>6, <1>7

(* A step that leaves the disk alone.                                      *)
LEMMA Quiet ==
  ASSUME IInv, pc # "idle", SameOp, UNCHANGED disk, pc' \in PcsOf(a.kind), a'.then \in PcsOf(a.kind)
  PROVE  /\ TypeOK' /\ OpOK' /\ DiskOK' /\ OutsideOK' /\ Low' = Low /\ Op' = Op /\ Now' = Now
         /\ ent' = ent /\ wh' = wh /\ opq' = opq
  <1>1. ent' = ent /\ wh' = wh /\ opq' = opq BY DEF disk
  <1>2. NewDisk BY <1>1 DEF NewDisk, IInv, TypeOK, DiskOK
  <1>3. TypeOK' /\ OpOK' /\ DiskOK' /\ Low' = Low /\ Op' = Op BY <1>2, Carried
  <1>4. Now' = Now BY <1>1, <1>3 DEF Now, Shows
  <1>5. OutsideOK' BY <1>3, <1>4 DEF OutsideOK, IInv, SameOp
  <1> QED BY <1>1, <1>3, <1>4, <1>5

(* A step that changes the disk at the names of the operation only.        *)
LEMMA Inside ==
  ASSUME IInv, pc # "idle", SameOp, NewDisk, pc' \in PcsOf(a.kind), a'.then \in PcsOf(a.kind),
         \A n \in Path : n \notin Under(a.p) /\ n \notin Under(a.q) =>
           ent'[0][n] = ent[0][n] /\ (n \in wh' <=> n \in wh) /\ (n \in opq' <=> n \in opq)
  PROVE  TypeOK' /\ OpOK' /\ DiskOK' /\ OutsideOK' /\ Low' = Low /\ Op' = Op
  <1>1. TypeOK' /\ OpOK' /\ DiskOK' /\ Low' = Low /\ Op' = Op BY Carried
  <1>2. a.p \in Path /\ a.q \in Path /\ Touched(Op) = Under(a.p) \cup Under(a.q) BY InCall DEF IInv
  <1> DEFINE T == Under(a.p) \cup Under(a.q)
  <1>3. AlikeOutside(ent[0], wh, opq, ent'[0], wh', opq', T)
    <2>1. \A n \in Path \ T : Len(n) = 2 => Parent(n) \notin T BY <1>2, Names
    <2>2. /\ wh \in SUBSET Path /\ opq \in SUBSET Path /\ wh' \in SUBSET Path /\ opq' \in SUBSET Path
      BY <1>1 DEF IInv, TypeOK
    <2> QED BY <2>1, <2>2 DEF AlikeOutside
  <1>4. \A n \in Path \ T : Now'[n] = Now[n]
    <2>1. \A n \in Path \ T : Union(ent'[0], wh', opq', Low)[n] = Union(ent[0], wh, opq, Low)[n]
      <3> HIDE DEF T
      <3> QED BY <1>3, SameOutside
    <2>2. Now' = Union(ent'[0], wh', opq', Low) BY <1>1 DEF Now, Shows
    <2> QED BY <2>1, <2>2 DEF Now, Shows
  <1>5. OutsideOK' BY <1>1, <1>2, <1>4 DEF OutsideOK, IInv, SameOp
  <1> QED BY <1>1, <1>5

(* What a phase other than its own says of the next state: nothing.        *)
LEMMA OtherPhases ==
  /\ pc' \notin CpPc => CopyOK'
  /\ pc' \notin Clean \cup {"idle"} => CleanOK'
  /\ pc' \notin AddLate \cup {"addEntry"} => AddOK'
  /\ pc' \notin DelLate => DelOK'
  /\ pc' \notin RenLate => RenOK' /\ (pc' \notin Clean => TmpOK')
  /\ pc' # "end" => EndOK'
  BY DEF CopyOK, CleanOK, AddOK, DelOK, RenOK, TmpOK, EndOK, RenLate, RenHere, RenGone

(* Between operations.                                                     *)
LEMMA Idles ==
  ASSUME IInv, UNCHANGED disk, pc' = "idle", tree' = View, faults' = 0, res' \in {"ok", "err", "eio", "crash"}
  PROVE  IInv'
  <1>1. ent' = ent /\ wh' = wh /\ opq' = opq BY DEF disk
  <1>2. View = Now /\ Tree(Now)
    <2>1. TypeOK /\ DiskOK BY DEF IInv
    <2>2. Lower(Low) BY <2>1, LowIsLower DEF Low, TypeOK
    <2>3. Tree(Now) BY <2>1, <2>2, UnionIs DEF Now, Shows, DiskOK
    <2> QED BY <2>1, <2>3, ViewIs
  <1>3. TypeOK' BY <1>1, <1>2 DEF IInv, TypeOK, Pc
  <1>4. DiskOK' BY <1>1 DEF IInv, DiskOK
  <1>5. Now' = Now BY <1>1 DEF Now, Shows, Low
  <1>6. CleanOK' BY <1>2, <1>5 DEF CleanOK
  <1>7. CopyOK' /\ AddOK' /\ DelOK' /\ RenOK' /\ TmpOK' /\ EndOK'
    BY OtherPhases DEF Clean, CpPc, WrPc, AddPc, DelPc, RenPc, AddLate, DelLate, RenLate, RenHere, RenGone, RenUndo
  <1>8. OpOK' /\ ErrOK' /\ OutsideOK' /\ UpOK' /\ CheckedOK' BY DEF OpOK, ErrOK, OutsideOK, UpOK, CheckedOK
  <1> QED BY <1>3, <1>4, <1>6, <1>7, <1>8 DEF IInv

-----------------------------------------------------------------------------
(* Before the first change.                                                *)

(* An error is noted.                                                      *)
LEMMA Erring ==
  ASSUME a \in Args, NEW e \in Error, Err(e)
  PROVE  /\ a' \in Args /\ a'.err = e
         /\ a'.kind = a.kind /\ a'.p = a.p /\ a'.q = a.q /\ a'.v = a.v /\ a'.cp = a.cp /\ a'.then = a.then
         /\ a'.wh = a.wh /\ a'.dwh = a.dwh /\ a'.opq = a.opq /\ a'.tmp = a.tmp
  BY DEF Err, Args

(* Nothing has been done yet, and nothing has failed.                      *)
LEMMA InClean ==
  ASSUME IInv, pc \in Clean
  PROVE  /\ Now = tree /\ Tree(tree) /\ Lower(Low) /\ Disk(ent[0], wh, opq)
         /\ a \in Args /\ pc # "idle" /\ a.then \in PcsOf(a.kind) /\ a.tmp = {}
         /\ pc # "cpUndo" => a.err = "ok" /\ faults = 0
         /\ pc = "cpUndo" => a.err = "err" /\ faults >= 1
  <1>1. pc # "idle" BY DEF Clean, CpPc, WrPc, AddPc, DelPc, RenPc
  <1>2. Lower(Low) BY LowIsLower DEF IInv, TypeOK, Low
  <1>3. Now = tree /\ Tree(tree) /\ Disk(ent[0], wh, opq) /\ a \in Args /\ a.then \in PcsOf(a.kind) /\ a.tmp = {}
    BY <1>1 DEF IInv, CleanOK, TypeOK, DiskOK, OpOK, TmpOK
  <1>4. ErrOK BY DEF IInv
  <1>5. pc # "cpUndo" => a.err = "ok" /\ faults = 0
    BY <1>1, <1>4 DEF ErrOK, Clean, CpPc, WrPc, AddPc, DelPc, RenPc, RenUndo
  <1>6. pc = "cpUndo" => a.err = "err" /\ faults >= 1 BY <1>4 DEF ErrOK
  <1> QED BY <1>1, <1>2, <1>3, <1>5, <1>6

(* The next step is one before the first change as well.                   *)
LEMMA ToClean ==
  ASSUME IInv, pc \in Clean \cup {"idle"}, pc' \in Clean,
         TypeOK', OpOK', DiskOK', Low' = Low, Now' = tree', UpOK', CheckedOK', CopyOK',
         pc' # "cpUndo" => a'.err = "ok" /\ faults' = 0,
         pc' = "cpUndo" => a'.err = "err" /\ faults' = 1,
         a'.tmp = {}, pc' = "addEntry" => (a'.wh <=> a'.q \in wh')
  PROVE  IInv'
  <1> USE DEF Clean, CpPc, WrPc, AddPc, AddLate, DelPc, DelLate, RenPc, RenLate, RenHere, RenGone, RenUndo
  <1>1. ErrOK' BY DEF ErrOK
  <1>2. CleanOK' BY DEF CleanOK
  <1>3. OutsideOK' BY <1>2 DEF OutsideOK
  <1>4. pc' \notin AddLate \cup DelLate \cup RenLate \cup {"end"} OBVIOUS
  <1>5. AddOK' BY <1>4 DEF AddOK
  <1>6. DelOK' /\ RenOK' /\ EndOK' BY <1>4, OtherPhases
  <1>7. TmpOK' BY <1>4 DEF TmpOK
  <1> QED BY <1>1, <1>2, <1>3, <1>5, <1>6, <1>7 DEF IInv

(* An operation that fails before the first change has changed nothing.    *)
LEMMA CleanFails ==
  ASSUME IInv, pc \in Clean, UNCHANGED disk, Remember, pc' = "end", a' \in Args,
         a'.kind = a.kind, a'.p = a.p, a'.q = a.q, a'.v = a.v, a'.then = a.then,
         faults' \in Nat, a'.err \in {"err", "eio"}, a'.err = "err" => faults' <= 1 \/ a.kind = "rename", a'.err = "eio" => faults' >= 2
  PROVE  IInv'
  <1>1. Now = tree /\ pc # "idle" /\ a.then \in PcsOf(a.kind) BY InClean
  <1>2. SameOp BY DEF SameOp, Remember
  <1>3. pc' \in PcsOf(a.kind) BY DEF PcsOf
  <1>4. /\ TypeOK' /\ OpOK' /\ DiskOK' /\ OutsideOK' /\ Low' = Low /\ Op' = Op /\ Now' = Now
    BY <1>1, <1>2, <1>3, Quiet
  <1> USE DEF Clean, CpPc, WrPc, AddPc, AddLate, DelPc, DelLate, RenPc, RenLate, RenHere, RenGone, RenUndo
  <1>5. ErrOK' BY DEF ErrOK
  <1>6. CopyOK' /\ CleanOK' /\ AddOK' /\ DelOK' /\ RenOK' /\ TmpOK' BY OtherPhases
  <1>7. UpOK' /\ CheckedOK' BY DEF UpOK, UpAt, CheckedOK, CheckedAt
  <1>8. EndOK' BY <1>1, <1>2, <1>4 DEF EndOK, SameOp
  <1> QED BY <1>4, <1>5, <1>6, <1>7, <1>8 DEF IInv

(* A step that only goes on.                                               *)
LEMMA GoesOn ==
  ASSUME IInv, pc \in Clean, pc # "cpUndo", UNCHANGED disk, Remember, Works, UNCHANGED a,
         pc' \in Clean \ (CpPc \cup {"addEntry"}), pc' \in PcsOf(a.kind), UpAt(pc'), CheckedAt(pc')
  PROVE  IInv'
  <1>1. /\ Now = tree /\ pc # "idle" /\ a.then \in PcsOf(a.kind) /\ a \in Args
        /\ a.err = "ok" /\ faults = 0 /\ a.tmp = {}
    BY InClean
  <1>2. SameOp BY <1>1 DEF SameOp, Remember, Works
  <1>3. /\ TypeOK' /\ OpOK' /\ DiskOK' /\ OutsideOK' /\ Low' = Low /\ Op' = Op /\ Now' = Now
        /\ ent' = ent /\ wh' = wh /\ opq' = opq
    BY <1>1, <1>2, Quiet
  <1>4. UpOK' BY <1>2, <1>3 DEF UpOK, UpAt, Upper, SameOp
  <1>5. OwnKids' <=> OwnKids BY <1>2, <1>3 DEF OwnKids, IsDirRen, SameOp
  <1>6. CheckedOK'
    <2>1. Op' = Op /\ tree' = tree BY <1>2, <1>3 DEF SameOp
    <2> QED BY <1>5, <2>1 DEF CheckedOK, CheckedAt
  <1>7. CopyOK' BY OtherPhases
  <1>8. Now' = tree' /\ a'.err = "ok" /\ faults' = 0 /\ a'.tmp = {} BY <1>1, <1>2, <1>3 DEF SameOp, Works
  <1>9. pc' # "cpUndo" /\ pc' # "addEntry" /\ pc' \in Clean BY DEF CpPc
  <1> QED BY <1>3, <1>4, <1>6, <1>7, <1>8, <1>9, ToClean

(* A step that goes on with l, after a copy-up of n if there is need.      *)
LEMMA CopiesUp ==
  ASSUME IInv, pc \in Clean, pc # "cpUndo", UNCHANGED disk, Remember, Works, NEW n, NEW l, Copyup(n, l),
         n = <<>> \/ (n \in Path /\ tree[n] \in Data \cup {Dir} /\ HasDir(ent[0], n)),
         l \in Clean \ (CpPc \cup {"addEntry"}), l \in PcsOf(a.kind),
         n = <<>> \/ Upper(n) # None => UpAt(l) /\ CheckedAt(l), CopyFor(n, l)
  PROVE  IInv'
  <1>1. CASE n = <<>> \/ Upper(n) # None
    <2>1. pc' = l /\ UNCHANGED a BY <1>1 DEF Copyup, Goto
    <2> QED BY <1>1, <2>1, GoesOn
  <1>2. CASE n # <<>> /\ Upper(n) = None
    <2>1. pc' = "cpData" /\ a' = [a EXCEPT !.cp = n, !.then = l] BY <1>2 DEF Copyup, Goto
    <2>2. /\ Now = tree /\ pc # "idle" /\ a.then \in PcsOf(a.kind) /\ a \in Args
          /\ a.err = "ok" /\ faults = 0 /\ a.tmp = {}
      BY InClean
    <2>3. l \in Pc BY DEF Pc
    <2>4. /\ a' \in Args /\ a'.err = "ok" /\ a'.cp = n /\ a'.then = l
          /\ a'.kind = a.kind /\ a'.p = a.p /\ a'.q = a.q /\ a'.v = a.v /\ a'.tmp = {}
      BY <1>2, <2>1, <2>2, <2>3 DEF Args
    <2>5. SameOp BY <2>2, <2>4 DEF SameOp, Remember, Works
    <2>6. pc' \in PcsOf(a.kind) /\ pc' \in CpPc /\ pc' \in Clean BY <2>1 DEF PcsOf, CpPc, Clean
    <2>7. /\ TypeOK' /\ OpOK' /\ DiskOK' /\ OutsideOK' /\ Low' = Low /\ Op' = Op /\ Now' = Now
          /\ ent' = ent /\ wh' = wh /\ opq' = opq
      BY <2>2, <2>4, <2>5, <2>6, Quiet
    <2>8. OwnKids' <=> OwnKids BY <2>5, <2>7 DEF OwnKids, IsDirRen, SameOp
    <2>9. CopyFor(a.cp, a.then)'
      <3>1. Op' = Op /\ tree' = tree BY <2>5, <2>7 DEF SameOp
      <3> QED BY <2>4, <2>7, <2>8, <3>1 DEF CopyFor
    <2>10. CopyOK'
      <3>1. tree' = tree BY <2>5 DEF SameOp
      <3> QED BY <1>2, <2>4, <2>7, <2>9, <3>1 DEF CopyOK, Upper
    <2>11. UpOK' /\ CheckedOK'
      BY <2>1 DEF UpOK, UpAt, CheckedOK, CheckedAt, AddLate, DelLate, RenLate, RenHere, RenGone, RenUndo
    <2>12. Now' = tree' /\ faults' = 0 BY <2>2, <2>5, <2>7 DEF SameOp, Works
    <2>13. pc' # "cpUndo" /\ pc' # "addEntry" BY <2>1
    <2> QED BY <2>4, <2>6, <2>7, <2>10, <2>11, <2>12, <2>13, ToClean
  <1> QED BY <1>1, <1>2

(* A call begins.                                                          *)
LEMMA BeginStep ==
  ASSUME IInv, Begin
  PROVE  IInv'
  <1>1. pc = "idle" /\ faults' = 0 /\ UNCHANGED disk /\ tree' = tree /\ res' = res BY DEF Begin, At, Remember
  <1>2. PICK o \in Calls :
          /\ MayCall(tree, o)
          /\ a' = [NoOp EXCEPT !.kind = o.kind, !.p = o.p, !.q = o.q, !.v = o.v]
          /\ Goto(CASE o.kind \in {"create", "mkdir", "link"} -> "addStart"
                    [] o.kind \in {"unlink", "rmdir"} -> "delStart"
                    [] o.kind = "rename" -> "renStart"
                    [] o.kind = "write" -> "wrStart")
    BY DEF Begin
  <1>3. o \in [kind : Kinds, p : Path, q : Path, v : Data] BY DEF Calls
  <1>4. /\ a'.kind = o.kind /\ a'.p = o.p /\ a'.q = o.q /\ a'.v = o.v /\ a'.err = "ok" /\ a'.then = "end"
        /\ a' \in Args /\ a'.tmp = {}
    <2>1. a' = [kind |-> o.kind, p |-> o.p, q |-> o.q, v |-> o.v, cp |-> <<>>, then |-> "end",
                wh |-> FALSE, dwh |-> FALSE, opq |-> FALSE, tmp |-> {}, err |-> "ok"]
      BY <1>2 DEF NoOp
    <2>2. "end" \in Pc /\ "ok" \in Error BY DEF Pc, Error
    <2> QED BY <1>3, <2>1, <2>2 DEF Args
  <1>5. Op' = o BY <1>3, <1>4 DEF Op
  <1>6. ent' = ent /\ wh' = wh /\ opq' = opq BY <1>1 DEF disk
  <1>7. pc' \in {"addStart", "delStart", "renStart", "wrStart"} /\ pc' \in PcsOf(o.kind)
    <2>1. o.kind \in Kinds BY <1>3
    <2>2. CASE o.kind \in {"create", "mkdir", "link"} BY <1>2, <2>2 DEF Goto, PcsOf, AddPc
    <2>3. CASE o.kind \in {"unlink", "rmdir"} BY <1>2, <2>3 DEF Goto, PcsOf, DelPc
    <2>4. CASE o.kind = "rename" BY <1>2, <2>4 DEF Goto, PcsOf, RenPc
    <2>5. CASE o.kind = "write" BY <1>2, <2>5 DEF Goto, PcsOf, WrPc
    <2> QED BY <2>1, <2>2, <2>3, <2>4, <2>5 DEF Kinds
  <1>8. pc' \in Clean /\ pc' \notin CpPc /\ pc' # "idle" /\ pc' # "addEntry"
    BY <1>7 DEF Clean, WrPc, AddPc, DelPc, RenPc, CpPc
  <1>9. TypeOK' BY <1>1, <1>4, <1>6, <1>8 DEF IInv, TypeOK, Pc
  <1>10. OpOK'
    <2>1. "end" \in PcsOf(o.kind) BY DEF PcsOf
    <2> QED BY <1>1, <1>2, <1>4, <1>5, <1>7, <2>1 DEF OpOK
  <1>11. DiskOK' /\ Low' = Low /\ Now' = tree'
    BY <1>1, <1>6 DEF IInv, DiskOK, CleanOK, Now, Shows, Low
  <1>12. UpOK' /\ CheckedOK'
    BY <1>7 DEF UpOK, UpAt, CheckedOK, CheckedAt, AddLate, DelLate, RenLate, RenHere, RenGone, RenUndo
  <1>13. CopyOK' BY <1>8, OtherPhases
  <1> QED BY <1>1, <1>4, <1>8, <1>9, <1>10, <1>11, <1>12, <1>13, ToClean DEF CpPc

(* A copy-up.  Only its rename shows on branch 0, and that is a copy of    *)
(* what is seen already.                                                   *)
LEMMA CopyupStep ==
  ASSUME IInv, CopyupEntry
  PROVE  IInv'
  <1>1. pc \in CpPc /\ pc \in Clean /\ Remember BY DEF CopyupEntry, At, CpPc, Clean
  <1>2. /\ Now = tree /\ Tree(tree) /\ Lower(Low) /\ Disk(ent[0], wh, opq)
        /\ a \in Args /\ pc # "idle" /\ a.then \in PcsOf(a.kind) /\ a.tmp = {}
        /\ pc # "cpUndo" => a.err = "ok" /\ faults = 0
        /\ pc = "cpUndo" => a.err = "err" /\ faults >= 1
    BY <1>1, InClean
  <1>3. /\ a.cp \in Path /\ tree[a.cp] \in Data \cup {Dir} /\ Upper(a.cp) = None /\ HasDir(ent[0], a.cp)
        /\ CopyFor(a.cp, a.then)
    BY <1>1 DEF IInv, CopyOK
  <1>4. faults \in Nat BY DEF IInv, TypeOK
  <1>5. ASSUME UNCHANGED disk, pc # "cpUndo", SameOp, a'.cp = a.cp, a'.then = a.then, a'.tmp = {},
               (pc' = "cpRename" /\ a'.err = "ok" /\ faults' = 0) \/ (pc' = "cpUndo" /\ a'.err = "err" /\ faults' = 1)
        PROVE  IInv'
    <2>1. pc' \in PcsOf(a.kind) /\ pc' \in CpPc /\ pc' \in Clean /\ pc' # "addEntry"
      BY <1>5 DEF PcsOf, CpPc, Clean
    <2>2. /\ TypeOK' /\ OpOK' /\ DiskOK' /\ OutsideOK' /\ Low' = Low /\ Op' = Op /\ Now' = Now
          /\ ent' = ent /\ wh' = wh /\ opq' = opq
      BY <1>2, <1>5, <2>1, Quiet
    <2>3. OwnKids' <=> OwnKids BY <1>5, <2>2 DEF OwnKids, IsDirRen, SameOp
    <2>4. CopyFor(a.cp, a.then)'
      <3>1. Op' = Op /\ tree' = tree BY <1>5, <2>2 DEF SameOp
      <3> QED BY <1>3, <1>5, <2>2, <2>3, <3>1 DEF CopyFor, SameOp
    <2>5. CopyOK' BY <1>3, <1>5, <2>2, <2>4 DEF CopyOK, Upper, SameOp
    <2>6. UpOK' /\ CheckedOK'
      BY <1>5 DEF UpOK, UpAt, CheckedOK, CheckedAt, AddLate, DelLate, RenLate, RenHere, RenGone, RenUndo
    <2>7. Now' = tree' BY <1>2, <1>5, <2>2 DEF SameOp
    <2> QED BY <1>1, <1>5, <2>1, <2>2, <2>5, <2>6, <2>7, ToClean
  <1>6. CASE pc = "cpData" /\ UNCHANGED disk /\ Works /\ Goto("cpRename") /\ UNCHANGED a
    <2>1. SameOp BY <1>1, <1>2, <1>4, <1>6 DEF SameOp, Remember, Works
    <2> QED BY <1>2, <1>5, <1>6, <2>1 DEF Goto, Works
  <1>7. CASE pc \in {"cpData", "cpRename"} /\ UNCHANGED disk /\ Fails /\ Goto("cpUndo") /\ Err("err")
    <2>1. "err" \in Error BY DEF Error
    <2>2. /\ a' \in Args /\ a'.err = "err"
          /\ a'.kind = a.kind /\ a'.p = a.p /\ a'.q = a.q /\ a'.v = a.v /\ a'.cp = a.cp /\ a'.then = a.then
          /\ a'.tmp = {}
      BY <1>2, <1>7, <2>1, Erring
    <2>3. faults' = 1 BY <1>2, <1>7 DEF Fails
    <2>4. SameOp BY <1>1, <2>2, <2>3 DEF SameOp, Remember
    <2> QED BY <1>5, <1>7, <2>2, <2>3, <2>4 DEF Goto
  <1>8. CASE pc = "cpRename" /\ Works /\ Goto(a.then) /\ Put(a.cp, View[a.cp]) /\ UNCHANGED <<a, wh, opq>>
    <2>1. a' = a /\ wh' = wh /\ opq' = opq /\ pc' = a.then BY <1>8 DEF Goto
    <2>2. View[a.cp] = tree[a.cp] BY <1>2, ViewIs DEF IInv
    <2>3. ent' = [ent EXCEPT ![0][a.cp] = tree[a.cp]] BY <1>8, <2>2 DEF Put
    <2>4. ent \in [Branch -> [Path -> Stored]] /\ 0 \in Branch BY NRoAssumption DEF IInv, TypeOK, Branch
    <2>5. tree[a.cp] \in Stored BY <1>3 DEF Stored
    <2>6. /\ ent' \in [Branch -> [Path -> Stored]] /\ ent'[0] = [ent[0] EXCEPT ![a.cp] = tree[a.cp]]
          /\ \A b \in Branch \ {0} : ent'[b] = ent[b]
      BY <1>3, <2>3, <2>4, <2>5
    <2>7. Disk(ent'[0], wh, opq) /\ Union(ent'[0], wh, opq, Low) = Union(ent[0], wh, opq, Low)
      BY <1>2, <1>3, <2>6, Copied DEF Now, Shows, Upper
    <2>8. SameOp BY <1>1, <1>2, <1>4, <1>8 DEF SameOp, Remember, Works
    <2>9. NewDisk BY <2>1, <2>6, <2>7 DEF NewDisk
    <2>10. pc' \in PcsOf(a.kind) /\ a'.then \in PcsOf(a.kind) BY <1>2, <2>1
    <2>11. TypeOK' /\ OpOK' /\ DiskOK' /\ Low' = Low /\ Op' = Op BY <1>2, <2>8, <2>9, <2>10, Carried
    <2>12. Now' = tree' BY <1>2, <2>1, <2>7, <2>8, <2>11 DEF Now, Shows, SameOp
    <2>13. pc' \in {"wrCopyup", "wrData", "addLkupWh", "delWh", "renMayDir", "renSrc", "renWhSrc"}
      BY <1>3, <2>1 DEF CopyFor
    <2>14. pc' \in Clean /\ pc' \notin CpPc /\ pc' # "addEntry"
      BY <2>13 DEF Clean, CpPc, WrPc, AddPc, DelPc, RenPc
    <2>15. CopyOK' BY <2>14, OtherPhases
    <2>16. tree' = tree /\ a.p \in Path /\ a.q \in Path BY <1>2, <2>8 DEF SameOp, Args
    <2>17. ent'[0][a.cp] = tree[a.cp] /\ tree[a.cp] # None /\ \A n \in Path : n # a.cp => ent'[0][n] = ent[0][n]
      BY <1>3, <2>4, <2>6, DataAssumption DEF None, Dir
    <2>18. \A n \in Path : HasDir(ent[0], n) => HasDir(ent'[0], n)
      BY <1>3, <2>17, Names DEF HasDir, Upper, None, Dir
    <2>19. \A n \in Path : HasDir(tree, n) /\ a.cp = Parent(n) => HasDir(ent'[0], n)
      BY <2>17 DEF HasDir
    <2>20. OwnKids => OwnKids'
      <3> SUFFICES ASSUME OwnKids, IsDirRen, NEW k \in Below(a.p) PROVE tree[k] = Own(ent'[0], wh, k)
        BY <2>1, <2>16 DEF OwnKids, IsDirRen
      <3>1. k # a.cp
        <4>1. k \in Path /\ Len(k) = 2 /\ Parent(k) = a.p BY <2>16, Names
        <4>2. a.cp = a.p \/ a.cp = Parent(a.p) \/ a.cp = Parent(a.q) BY <1>3 DEF CopyFor
        <4>3. Len(a.cp) = 1 BY <1>3, <2>16, <4>1, <4>2, Names
        <4> QED BY <4>1, <4>3
      <3>2. k \in Path BY <2>16, Names
      <3>3. tree[k] = Own(ent[0], wh, k) BY DEF OwnKids
      <3> QED BY <2>17, <3>1, <3>2, <3>3 DEF Own
    <2>21. HasDir(tree, a.p) /\ (a.kind \in {"create", "mkdir", "link", "rename"} => HasDir(tree, a.q))
      <3>1. tree[a.p] # None => HasDir(tree, a.p) BY <1>2, <2>16 DEF Tree
      <3>2. a.kind \in Kinds BY <1>2 DEF Args
      <3> QED BY <1>2, <3>1, <3>2, InCall, DataAssumption DEF IInv, Kinds, None, Dir
    <2>23. UpOK'
      <3> SUFFICES UpAt(a.then)' BY <2>1 DEF UpOK
      <3>1. CASE a.then = "wrCopyup" BY <1>3, <2>1, <2>16, <2>19, <2>21, <3>1 DEF UpAt, CopyFor, AddLate, DelLate, RenLate, RenHere, RenGone, RenUndo
      <3>2. CASE a.then = "wrData" BY <1>3, <2>1, <2>16, <2>17, <2>18, <3>2 DEF UpAt, CopyFor, Upper, AddLate, DelLate, RenLate, RenHere, RenGone, RenUndo
      <3>3. CASE a.then = "addLkupWh"
        <4>1. a.kind \in {"create", "mkdir", "link"}
          BY <1>2, <3>3 DEF PcsOf, CpPc, WrPc, DelPc, DelLate, RenPc, RenLate, RenHere, RenGone, RenUndo, Args, Kinds
        <4> QED BY <1>3, <2>1, <2>16, <2>19, <2>21, <3>3, <4>1 DEF UpAt, CopyFor, AddLate, DelLate, RenLate, RenHere, RenGone, RenUndo
      <3>4. CASE a.then = "delWh" BY <1>3, <2>1, <2>16, <2>19, <2>21, <3>4 DEF UpAt, CopyFor, AddLate, DelLate, RenLate, RenHere, RenGone, RenUndo
      <3>5. CASE a.then \in {"renMayDir", "renSrc", "renWhSrc"}
        <4>1. a.kind = "rename"
          BY <1>2, <3>5 DEF PcsOf, CpPc, WrPc, AddPc, AddLate, DelPc, DelLate, Args, Kinds
        <4>2. CASE a.then = "renMayDir" BY <1>3, <2>1, <2>16, <2>19, <2>21, <4>1, <4>2 DEF UpAt, CopyFor, AddLate, DelLate, RenLate, RenHere, RenGone, RenUndo
        <4>3. CASE a.then = "renSrc" BY <1>3, <2>1, <2>16, <2>18, <2>19, <2>21, <4>1, <4>3 DEF UpAt, CopyFor, AddLate, DelLate, RenLate, RenHere, RenGone, RenUndo
        <4>4. CASE a.then = "renWhSrc" BY <1>3, <2>1, <2>16, <2>17, <2>18, <4>4 DEF UpAt, CopyFor, Upper, AddLate, DelLate, RenLate, RenHere, RenGone, RenUndo
        <4> QED BY <3>5, <4>2, <4>3, <4>4
      <3> QED BY <2>1, <2>13, <3>1, <3>2, <3>3, <3>4, <3>5
    <2>24. CheckedOK'
      <3>1. pc' = "delWh" => MaySucceed(tree, Op) BY <1>3, <2>1 DEF CopyFor
      <3>2. pc' \in {"renSrc", "renWhSrc"} => MaySucceed(tree, Op) /\ OwnKids BY <1>3, <2>1 DEF CopyFor
      <3> QED BY <2>11, <2>13, <2>16, <2>20, <3>1, <3>2
            DEF CheckedOK, CheckedAt, DelLate, RenLate, RenHere, RenGone, RenUndo
    <2>25. a'.err = "ok" /\ faults' = 0 /\ a'.tmp = {} BY <1>2, <1>8, <2>1 DEF Works
    <2> QED BY <1>1, <2>11, <2>12, <2>14, <2>15, <2>23, <2>24, <2>25, ToClean DEF CpPc
  <1>9. CASE pc = "cpUndo" /\ Goto("end") /\ UNCHANGED disk /\ ((Works /\ UNCHANGED a) \/ (Fails /\ Err("eio")))
    <2>1. pc' = "end" BY <1>9 DEF Goto
    <2>2. CASE Works /\ UNCHANGED a
      <3>1. faults <= 1 \/ a.kind = "rename" BY <1>2, <1>9 DEF IInv, ErrOK
      <3>2. a' = a /\ faults' = faults BY <2>2 DEF Works
      <3> QED BY <1>1, <1>2, <1>4, <1>9, <2>1, <3>1, <3>2, CleanFails
    <2>3. CASE Fails /\ Err("eio")
      <3>1. "eio" \in Error BY DEF Error
      <3>2. /\ a' \in Args /\ a'.err = "eio"
            /\ a'.kind = a.kind /\ a'.p = a.p /\ a'.q = a.q /\ a'.v = a.v /\ a'.then = a.then
        BY <1>2, <2>3, <3>1, Erring
      <3>3. faults' >= 2 /\ faults' \in Nat BY <1>2, <1>4, <1>9, <2>3 DEF Fails
      <3> QED BY <1>1, <1>9, <2>1, <3>2, <3>3, CleanFails
    <2> QED BY <1>9, <2>2, <2>3
  <1>10. \/ pc = "cpData" /\ UNCHANGED disk /\ Works /\ Goto("cpRename") /\ UNCHANGED a
         \/ pc \in {"cpData", "cpRename"} /\ UNCHANGED disk /\ Fails /\ Goto("cpUndo") /\ Err("err")
         \/ pc = "cpRename" /\ Works /\ Goto(a.then) /\ Put(a.cp, View[a.cp]) /\ UNCHANGED <<a, wh, opq>>
         \/ pc = "cpUndo" /\ Goto("end") /\ UNCHANGED disk /\ ((Works /\ UNCHANGED a) \/ (Fails /\ Err("eio")))
    BY SMT DEF CopyupEntry, At, Fails
  <1> QED BY <1>6, <1>7, <1>8, <1>9, <1>10

(* A step before the first change fails.                                   *)
LEMMA CleanErr ==
  ASSUME IInv, pc \in Clean, pc # "cpUndo", UNCHANGED disk, Remember, Goto("end"), Err("err"), Works \/ Fails
  PROVE  IInv'
  <1>1. a \in Args /\ faults = 0 BY InClean
  <1>2. "err" \in Error BY DEF Error
  <1>3. /\ a' \in Args /\ a'.err = "err"
        /\ a'.kind = a.kind /\ a'.p = a.p /\ a'.q = a.q /\ a'.v = a.v /\ a'.then = a.then
    BY <1>1, <1>2, Erring
  <1>4. faults' \in {0, 1} BY <1>1 DEF Works, Fails
  <1> QED BY <1>3, <1>4, CleanFails DEF Goto

(* The directory of a name can be copied up, or is on branch 0.            *)
LEMMA ParentReady ==
  ASSUME IInv, pc \in Clean, NEW n \in Path, HasDir(tree, n)
  PROVE  /\ \/ Parent(n) = <<>>
            \/ Parent(n) \in Path /\ tree[Parent(n)] \in Data \cup {Dir} /\ HasDir(ent[0], Parent(n))
         /\ Parent(n) = <<>> \/ Upper(Parent(n)) # None => HasDir(ent[0], n)
  <1>1. Now = tree /\ Lower(Low) /\ Disk(ent[0], wh, opq) BY InClean
  <1>2. CASE Len(n) = 1 BY <1>2, Names DEF HasDir
  <1>3. CASE Len(n) = 2
    <2>1. Parent(n) \in Path /\ Len(Parent(n)) = 1 /\ tree[Parent(n)] = Dir BY <1>3, Names DEF HasDir
    <2>2. Upper(Parent(n)) # None => Upper(Parent(n)) = Dir
      BY <1>1, <2>1, OnUpper DEF Now, Shows, Upper, None, Dir, Stuck
    <2> QED BY <2>1, <2>2, Names DEF HasDir, Upper
  <1> QED BY <1>2, <1>3, Names

(* All of a call's names, except one that is to be made, are there.        *)
LEMMA CallDirs ==
  ASSUME IInv, pc \in Clean
  PROVE  /\ a.p \in Path /\ a.q \in Path /\ HasDir(tree, a.p)
         /\ a.kind \in {"create", "mkdir", "link", "rename"} => HasDir(tree, a.q)
         /\ a.kind \in {"write", "unlink", "rmdir", "rename"} => tree[a.p] \in Data \cup {Dir}
  <1>1. pc # "idle" /\ Tree(tree) /\ a \in Args BY InClean
  <1>2. a.p \in Path /\ a.q \in Path /\ a.kind \in Kinds BY <1>1 DEF Args
  <1>3. tree[a.p] # None => HasDir(tree, a.p) BY <1>1, <1>2 DEF Tree
  <1> QED BY <1>1, <1>2, <1>3, InCall, DataAssumption DEF IInv, Kinds, None, Dir

(* The steps of a write.                                                   *)
LEMMA WriteStep ==
  ASSUME IInv, Write
  PROVE  IInv'
  <1>1. pc \in WrPc /\ pc \in Clean /\ pc # "cpUndo" /\ pc # "idle" /\ Remember
    BY DEF Write, At, WrPc, Clean
  <1>2. /\ Now = tree /\ Tree(tree) /\ Lower(Low) /\ Disk(ent[0], wh, opq)
        /\ a \in Args /\ a.then \in PcsOf(a.kind) /\ a.err = "ok" /\ faults = 0
    BY <1>1, InClean
  <1>3. a.kind = "write"
    <2>1. a.kind \in Kinds /\ pc \in PcsOf(a.kind) BY <1>1, <1>2 DEF IInv, OpOK, Args
    <2> QED BY <1>1, <2>1
          DEF PcsOf, Kinds, WrPc, CpPc, AddPc, AddLate, DelPc, DelLate, RenPc, RenLate, RenHere, RenGone, RenUndo
  <1>4. a.p \in Path /\ a.q = a.p /\ a.v \in Data /\ tree[a.p] \in Data /\ Touched(Op) = Under(a.p) /\ HasDir(tree, a.p)
    BY <1>1, <1>3, InCall, CallDirs DEF IInv
  <1> USE DEF WrPc, AddLate, DelLate, RenLate, RenHere, RenGone, RenUndo
  <1>5. CASE pc = "wrStart" /\ Works /\ UNCHANGED disk /\ Copyup(Parent(a.p), "wrCopyup")
    <2>1. "wrCopyup" \in Clean \ (CpPc \cup {"addEntry"}) /\ "wrCopyup" \in PcsOf(a.kind)
      BY <1>3 DEF Clean, CpPc, PcsOf
    <2>2. Parent(a.p) = <<>> \/ Upper(Parent(a.p)) # None => UpAt("wrCopyup")
      BY <1>1, <1>4, ParentReady DEF UpAt
    <2>3. CheckedAt("wrCopyup") BY DEF CheckedAt
    <2>4. CopyFor(Parent(a.p), "wrCopyup") BY DEF CopyFor
    <2> QED BY <1>1, <1>4, <1>5, <2>1, <2>2, <2>3, <2>4, ParentReady, CopiesUp
  <1>6. CASE pc = "wrCopyup" /\ Works /\ UNCHANGED disk /\ Copyup(a.p, "wrData")
    <2>1. "wrData" \in Clean \ (CpPc \cup {"addEntry"}) /\ "wrData" \in PcsOf(a.kind)
      BY <1>3 DEF Clean, CpPc, PcsOf
    <2>2. HasDir(ent[0], a.p) BY <1>6 DEF IInv, UpOK, UpAt
    <2>3. Upper(a.p) # None => UpAt("wrData") BY <2>2 DEF UpAt
    <2>4. CheckedAt("wrData") BY DEF CheckedAt
    <2>5. CopyFor(a.p, "wrData") BY DEF CopyFor
    <2>6. a.p # <<>> BY <1>4, Names
    <2> QED BY <1>1, <1>4, <1>6, <2>1, <2>2, <2>3, <2>4, <2>5, <2>6, CopiesUp
  <1>7. CASE pc = "wrData" /\ Goto("end") /\ Works /\ Put(a.p, a.v) /\ UNCHANGED <<a, wh, opq>>
    <2>1. a' = a /\ wh' = wh /\ opq' = opq /\ pc' = "end" /\ faults' = 0 BY <1>2, <1>7 DEF Goto, Works
    <2>2. ent \in [Branch -> [Path -> Stored]] /\ 0 \in Branch BY NRoAssumption DEF IInv, TypeOK, Branch
    <2>3. a.v \in Stored BY <1>4 DEF Stored
    <2>4. /\ ent' \in [Branch -> [Path -> Stored]] /\ ent'[0] = [ent[0] EXCEPT ![a.p] = a.v]
          /\ \A b \in Branch \ {0} : ent'[b] = ent[b]
      BY <1>4, <1>7, <2>2, <2>3 DEF Put
    <2>5. Upper(a.p) # None BY <1>7 DEF IInv, UpOK, UpAt
    <2>6. tree = Union(ent[0], wh, opq, Low) /\ ent[0][a.p] # None BY <1>2, <2>5 DEF Now, Shows, Upper
    <2>7. Disk(ent'[0], wh, opq) /\ Union(ent'[0], wh, opq, Low) = [tree EXCEPT ![a.p] = a.v]
      BY <1>2, <1>4, <2>4, <2>6, Rewritten
    <2>8. SameOp BY <1>1, <1>2, <2>1 DEF SameOp, Remember
    <2>9. NewDisk BY <2>1, <2>4, <2>7 DEF NewDisk
    <2>10. pc' \in PcsOf(a.kind) /\ a'.then \in PcsOf(a.kind) BY <1>2, <2>1 DEF PcsOf
    <2>11. \A n \in Path : n \notin Under(a.p) => ent'[0][n] = ent[0][n]
      BY <1>2, <1>4, <2>4, Names DEF Disk
    <2>12. TypeOK' /\ OpOK' /\ DiskOK' /\ OutsideOK' /\ Low' = Low /\ Op' = Op
      BY <1>1, <2>1, <2>8, <2>9, <2>10, <2>11, Inside
    <2>13. Now' = [tree EXCEPT ![a.p] = a.v] BY <2>1, <2>7, <2>12 DEF Now, Shows
    <2>14. MaySucceed(tree, Op) /\ Effect(tree, Op) = [tree EXCEPT ![a.p] = a.v]
      BY <1>3 DEF MaySucceed, Effect, Op
    <2>15. EndOK'
      <3>1. tree' = tree /\ a'.err = "ok" BY <1>2, <2>1, <2>8 DEF SameOp
      <3> QED BY <2>12, <2>13, <2>14, <3>1 DEF EndOK
    <2>16. ErrOK' BY <1>2, <2>1 DEF ErrOK
    <2>17. CopyOK' /\ CleanOK' /\ AddOK' /\ DelOK' /\ RenOK' /\ TmpOK'
      BY <2>1, OtherPhases DEF CpPc, Clean, AddPc, DelPc, RenPc
    <2>18. UpOK' /\ CheckedOK' BY <2>1 DEF UpOK, UpAt, CheckedOK, CheckedAt
    <2> QED BY <2>12, <2>15, <2>16, <2>17, <2>18 DEF IInv
  <1>8. CASE pc = "wrData" /\ Goto("end") /\ Fails /\ Err("err")
    BY <1>1, <1>8, CleanErr DEF Fails
  <1> QED BY <1>5, <1>6, <1>7, <1>8 DEF Write, At

-----------------------------------------------------------------------------
(* create, mkdir and link.                                                 *)

(* The operation that adds a name.                                         *)
LEMMA Adding ==
  ASSUME TypeOK, OpOK, pc \in AddPc \cup AddLate
  PROVE  /\ a.kind \in {"create", "mkdir", "link"} /\ pc # "idle" /\ a \in Args /\ a.then \in PcsOf(a.kind)
         /\ a.p \in Path /\ a.q \in Path /\ tree[a.q] = None /\ HasDir(tree, a.q)
         /\ NewEntry \in Data \cup {Dir} /\ NewEntry \in Stored \ {None}
         /\ NewEntry = Dir <=> a.kind = "mkdir"
         /\ MaySucceed(tree, Op) /\ Effect(tree, Op) = [tree EXCEPT ![a.q] = NewEntry]
  <1>1. pc # "idle" BY DEF AddPc, AddLate
  <1>2. a.kind \in Kinds /\ pc \in PcsOf(a.kind) BY <1>1 DEF OpOK, TypeOK, Args
  <1>3. a.kind \in {"create", "mkdir", "link"}
    BY <1>2 DEF PcsOf, Kinds, WrPc, CpPc, AddPc, AddLate, DelPc, DelLate, RenPc, RenLate, RenHere, RenGone, RenUndo
  <1>4. a \in Args /\ a.then \in PcsOf(a.kind) BY <1>1 DEF TypeOK, OpOK
  <1>5. /\ a.p \in Path /\ a.q \in Path /\ a.v \in Data /\ (a.kind # "link" => a.q = a.p)
        /\ a.kind \in {"create", "mkdir"} => tree[a.p] = None /\ HasDir(tree, a.p)
        /\ a.kind = "link" => tree[a.p] \in Data /\ tree[a.q] = None /\ HasDir(tree, a.q)
    BY <1>1, <1>3, InCall
  <1>6. tree[a.q] = None /\ HasDir(tree, a.q) BY <1>3, <1>5
  <1>7. /\ NewEntry \in Data \cup {Dir}
        /\ NewEntry = Dir <=> a.kind = "mkdir"
    BY <1>3, <1>5, DataAssumption DEF NewEntry, Dir
  <1>8. NewEntry \in Stored \ {None} BY <1>7, DataAssumption DEF Stored, None, Dir
  <1>9. Op.kind = a.kind /\ Op.p = a.p /\ Op.q = a.q /\ Op.v = a.v BY DEF Op
  <1>10. MaySucceed(tree, Op) BY <1>3, <1>9 DEF MaySucceed
  <1>11. Effect(tree, Op) = [tree EXCEPT ![a.q] = NewEntry]
    <2>1. CASE a.kind = "create" BY <1>5, <1>9, <2>1 DEF Effect, NewEntry
    <2>2. CASE a.kind = "mkdir" BY <1>5, <1>9, <2>2 DEF Effect, NewEntry
    <2>3. CASE a.kind = "link" BY <1>9, <2>3 DEF Effect, NewEntry
    <2> QED BY <1>3, <2>1, <2>2, <2>3
  <1> QED BY <1>1, <1>3, <1>4, <1>5, <1>6, <1>7, <1>8, <1>10, <1>11

(* The new name is shown once its whiteout is gone and, for a directory    *)
(* that had one, it is opaque.                                             *)
LEMMA AddShown ==
  ASSUME IInv, pc \in AddLate, a.wh /\ a.kind = "mkdir" => a.q \in opq
  PROVE  Union(ent[0], wh \ {a.q}, opq, Low) = Effect(tree, Op)
  <1>1. /\ a.q \in Path /\ tree[a.q] = None /\ HasDir(tree, a.q)
        /\ NewEntry # None /\ (NewEntry = Dir <=> a.kind = "mkdir")
        /\ Effect(tree, Op) = [tree EXCEPT ![a.q] = NewEntry]
    BY Adding DEF IInv
  <1>2. /\ Disk(OldUp, OldWh, OldOpq) /\ Union(OldUp, OldWh, OldOpq, Low) = tree
        /\ Upper(a.q) = NewEntry
    BY DEF IInv, AddOK
  <1>3. Lower(Low) BY LowIsLower DEF IInv, TypeOK, Low
  <1>4. Disk(ent[0], wh \ {a.q}, opq) BY DEF IInv, DiskOK, Disk
  <1>5. OldUp = [ent[0] EXCEPT ![a.q] = None] BY DEF OldUp
  <1>6. \A n \in Path : n # a.q => (n \in OldWh <=> n \in wh \ {a.q}) /\ (n \in OldOpq <=> n \in opq)
    BY DEF OldWh, OldOpq
  <1>7. ASSUME ent[0][a.q] = Dir PROVE a.q \in opq \/ \A k \in Below(a.q) : Low[k] = None
    <2>1. a.kind = "mkdir" BY <1>1, <1>2, <1>7 DEF Upper
    <2>2. CASE a.wh BY <2>1, <2>2
    <2>3. CASE ~a.wh
      <3>1. Covered(OldWh, OldOpq, Low, a.q) BY <1>1, <1>2, <1>3, NotShown
      <3>2. a.q \notin OldWh BY <2>3 DEF OldWh
      <3>3. CASE Low[a.q] = None BY <1>1, <1>3, <3>3 DEF Lower
      <3>4. CASE Parent(a.q) \in OldOpq
        <4>1. Parent(a.q) \in Path BY <1>2, <3>4 DEF Disk
        <4>2. Len(a.q) = 2 BY <1>1, <4>1, Names
        <4> QED BY <1>1, <4>2, Names
      <3> QED BY <3>1, <3>2, <3>3, <3>4 DEF Covered
    <2> QED BY <2>2, <2>3
  <1>8. Union(ent[0], wh \ {a.q}, opq, Low) = [tree EXCEPT ![a.q] = ent[0][a.q]]
    <2> DEFINE w == wh \ {a.q}
    <2>1. ent[0][a.q] # None /\ a.q \notin w /\ Disk(ent[0], w, opq) BY <1>1, <1>2, <1>4 DEF Upper
    <2>2. \A n \in Path : n # a.q => (n \in OldWh <=> n \in w) /\ (n \in OldOpq <=> n \in opq) BY <1>6
    <2>3. tree = Union(OldUp, OldWh, OldOpq, Low) BY <1>2
    <2> HIDE DEF w
    <2>4. Union(ent[0], w, opq, Low) = [tree EXCEPT ![a.q] = ent[0][a.q]]
      BY <1>1, <1>2, <1>3, <1>5, <1>7, <2>1, <2>2, <2>3, Added
    <2> QED BY <2>4 DEF w
  <1> QED BY <1>1, <1>2, <1>8 DEF Upper

(* A step that touches nothing but the marks of the new name.              *)
MarksOnly ==
  /\ pc \in AddLate /\ pc' \in AddLate \cup {"end"} /\ SameOp /\ a'.wh = a.wh /\ a'.then = a.then
  /\ ent' = ent /\ wh' \in SUBSET Path /\ opq' \in SUBSET Path
  /\ \A n \in Path : n # a.q => (n \in wh' <=> n \in wh) /\ (n \in opq' <=> n \in opq)
  /\ a.q \in opq' => a.q \in opq \/ a.kind = "mkdir"

(* It leaves the rest as it was.                                           *)
LEMMA AddKeeps ==
  ASSUME IInv, MarksOnly
  PROVE  /\ TypeOK' /\ OpOK' /\ DiskOK' /\ OutsideOK' /\ Low' = Low /\ Op' = Op
         /\ CleanOK' /\ UpOK' /\ CheckedOK' /\ CopyOK' /\ DelOK' /\ RenOK' /\ TmpOK'
         /\ Disk(OldUp, OldWh, OldOpq)' /\ (Union(OldUp, OldWh, OldOpq, Low) = tree)'
         /\ (Upper(a.q) = NewEntry)'
  <1> USE DEF MarksOnly
  <1>1. /\ a.kind \in {"create", "mkdir", "link"} /\ pc # "idle" /\ a \in Args /\ a.then \in PcsOf(a.kind)
        /\ a.p \in Path /\ a.q \in Path /\ (NewEntry = Dir <=> a.kind = "mkdir")
    BY Adding DEF IInv
  <1>2. /\ Disk(OldUp, OldWh, OldOpq) /\ Union(OldUp, OldWh, OldOpq, Low) = tree
        /\ Upper(a.q) = NewEntry
    BY DEF IInv, AddOK
  <1>3. HasDir(ent[0], a.q) BY <1>1 DEF IInv, UpOK, UpAt
  <1>4. Disk(ent[0], wh', opq')
    <2>1. Disk(ent[0], wh, opq) BY DEF IInv, DiskOK
    <2>2. \A n \in wh' : HasDir(ent[0], n) BY <1>3, <2>1 DEF Disk
    <2>3. \A n \in opq' : ent[0][n] = Dir BY <1>1, <1>2, <2>1 DEF Disk, Upper
    <2> QED BY <2>1, <2>2, <2>3 DEF Disk
  <1>5. NewDisk BY <1>4 DEF NewDisk, IInv, TypeOK
  <1>6. pc' \in PcsOf(a.kind) BY <1>1 DEF PcsOf, AddLate
  <1>7. a.q \in Under(a.q) BY <1>1, Names
  <1>8. TypeOK' /\ OpOK' /\ DiskOK' /\ OutsideOK' /\ Low' = Low /\ Op' = Op
    BY <1>1, <1>5, <1>6, <1>7, Inside
  <1>9. CopyOK' /\ CleanOK' /\ DelOK' /\ RenOK' /\ TmpOK'
    BY OtherPhases DEF CpPc, Clean, AddPc, DelPc, RenPc, AddLate, DelLate, RenLate, RenHere, RenGone, RenUndo, WrPc
  <1>10. UpOK' /\ CheckedOK'
    <2>1. a'.q = a.q BY DEF SameOp
    <2> QED BY <1>3, <2>1
          DEF UpOK, UpAt, CheckedOK, CheckedAt, AddLate, DelLate, RenLate, RenHere, RenGone, RenUndo
  <1>11. OldUp' = OldUp /\ OldWh' = OldWh /\ OldOpq' = OldOpq
    <2>1. a'.q = a.q /\ a'.wh = a.wh BY DEF SameOp
    <2>2. wh \in SUBSET Path /\ opq \in SUBSET Path BY DEF IInv, TypeOK
    <2>3. OldUp' = OldUp BY <2>1 DEF OldUp
    <2>4. OldWh' = OldWh BY <2>1, <2>2 DEF OldWh
    <2>5. OldOpq' = OldOpq BY <2>1, <2>2 DEF OldOpq
    <2> QED BY <2>3, <2>4, <2>5
  <1>12. NewEntry' = NewEntry BY DEF NewEntry, SameOp
  <1>13. Disk(OldUp, OldWh, OldOpq)' BY <1>2, <1>11
  <1>14. (Union(OldUp, OldWh, OldOpq, Low) = tree)' BY <1>2, <1>8, <1>11 DEF SameOp
  <1>15. (Upper(a.q) = NewEntry)' BY <1>2, <1>12 DEF Upper, SameOp
  <1> QED BY <1>8, <1>9, <1>10, <1>13, <1>14, <1>15

(* The steps up to the new entry.                                          *)
LEMMA AddStartStep ==
  ASSUME IInv, AddStart
  PROVE  IInv'
  <1>1. pc \in AddPc /\ pc \in Clean /\ pc # "cpUndo" /\ pc # "idle" /\ Remember
    BY DEF AddStart, At, AddPc, Clean
  <1>2. /\ Now = tree /\ Tree(tree) /\ Lower(Low) /\ Disk(ent[0], wh, opq)
        /\ a \in Args /\ a.then \in PcsOf(a.kind) /\ a.err = "ok" /\ faults = 0 /\ a.tmp = {}
    BY <1>1, InClean
  <1>3. a.kind \in {"create", "mkdir", "link"} /\ a.q \in Path /\ HasDir(tree, a.q)
    BY <1>1, Adding DEF IInv
  <1> USE DEF AddPc, AddLate, DelLate, RenLate, RenHere, RenGone, RenUndo
  <1>4. CASE pc = "addStart" /\ Works /\ UNCHANGED disk /\ Copyup(Parent(a.q), "addLkupWh")
    <2>1. "addLkupWh" \in Clean \ (CpPc \cup {"addEntry"}) /\ "addLkupWh" \in PcsOf(a.kind)
      BY <1>3 DEF Clean, CpPc, PcsOf
    <2>2. Parent(a.q) = <<>> \/ Upper(Parent(a.q)) # None => UpAt("addLkupWh")
      BY <1>1, <1>3, ParentReady DEF UpAt
    <2>3. CheckedAt("addLkupWh") BY DEF CheckedAt
    <2>4. CopyFor(Parent(a.q), "addLkupWh") BY DEF CopyFor
    <2> QED BY <1>1, <1>3, <1>4, <2>1, <2>2, <2>3, <2>4, ParentReady, CopiesUp
  <1>5. CASE pc = "addLkupWh" /\ UNCHANGED disk /\ Works /\ Goto("addEntry") /\ a' = [a EXCEPT !.wh = a.q \in wh]
    <2>1. /\ a' \in Args /\ a'.kind = a.kind /\ a'.p = a.p /\ a'.q = a.q /\ a'.v = a.v /\ a'.then = a.then
          /\ a'.err = "ok" /\ a'.tmp = {} /\ (a'.wh <=> a.q \in wh)
      <3>1. CASE a.q \in wh
        <4>1. (a.q \in wh) = TRUE BY <3>1
        <4>2. a' = [a EXCEPT !.wh = TRUE] BY <1>5, <4>1, Zenon
        <4> QED BY <1>2, <4>1, <4>2 DEF Args
      <3>2. CASE a.q \notin wh
        <4>1. (a.q \in wh) = FALSE BY <3>2
        <4>2. a' = [a EXCEPT !.wh = FALSE] BY <1>5, <4>1, Zenon
        <4> QED BY <1>2, <4>1, <4>2 DEF Args
      <3> QED BY <3>1, <3>2
    <2>2. SameOp BY <1>1, <1>2, <1>5, <2>1 DEF SameOp, Remember, Works
    <2>3. pc' = "addEntry" BY <1>5 DEF Goto
    <2>4. pc' \in PcsOf(a.kind) /\ pc' \in Clean /\ pc' \notin CpPc BY <1>3, <2>3 DEF PcsOf, Clean, CpPc
    <2>5. /\ TypeOK' /\ OpOK' /\ DiskOK' /\ OutsideOK' /\ Low' = Low /\ Op' = Op /\ Now' = Now
          /\ ent' = ent /\ wh' = wh /\ opq' = opq
      BY <1>1, <1>2, <1>5, <2>1, <2>2, <2>4, Quiet
    <2>6. HasDir(ent[0], a.q) BY <1>5 DEF IInv, UpOK, UpAt
    <2>7. UpOK' /\ CheckedOK' BY <2>1, <2>3, <2>5, <2>6 DEF UpOK, UpAt, CheckedOK, CheckedAt
    <2>8. CopyOK' BY <2>4, OtherPhases
    <2>9. Now' = tree' /\ faults' = 0 BY <1>2, <1>5, <2>2, <2>5 DEF SameOp, Works
    <2> QED BY <1>1, <2>1, <2>3, <2>4, <2>5, <2>7, <2>8, <2>9, ToClean DEF CpPc
  <1>6. CASE pc = "addLkupWh" /\ UNCHANGED disk /\ Fails /\ Goto("end") /\ Err("err")
    BY <1>1, <1>6, CleanErr
  <1> QED BY <1>4, <1>5, <1>6 DEF AddStart, At

(* The entry is made, or cannot be.                                        *)
LEMMA AddEntryStep ==
  ASSUME IInv, AddEntry
  PROVE  IInv'
  <1>1. pc = "addEntry" /\ pc \in AddPc /\ pc \in Clean /\ pc # "idle" /\ Remember
    BY DEF AddEntry, At, AddPc, Clean
  <1>2. /\ Now = tree /\ Tree(tree) /\ Lower(Low) /\ Disk(ent[0], wh, opq)
        /\ a \in Args /\ a.then \in PcsOf(a.kind) /\ a.err = "ok" /\ faults = 0
    BY <1>1, InClean
  <1>3. /\ a.kind \in {"create", "mkdir", "link"} /\ a.p \in Path /\ a.q \in Path
        /\ HasDir(tree, a.q) /\ tree[a.q] = None
        /\ NewEntry \in Stored \ {None} /\ (NewEntry = Dir <=> a.kind = "mkdir")
    BY <1>1, Adding DEF IInv
  <1>4. CASE Fails /\ Goto("end") /\ Err("err") BY <1>1, <1>4, CleanErr DEF Fails
  <1>5. CASE /\ Works /\ UNCHANGED <<a, wh, opq>>
             /\ Put(a.q, CASE a.kind = "create" -> a.v [] a.kind = "mkdir" -> Dir [] a.kind = "link" -> tree[a.p])
             /\ Goto(IF a.kind = "mkdir" /\ a.wh THEN "addOpq" ELSE "addUnlinkWh")
    <2>1. /\ a' = a /\ wh' = wh /\ opq' = opq /\ faults' = 0 /\ tree' = tree /\ res' = res
          /\ pc' = IF a.kind = "mkdir" /\ a.wh THEN "addOpq" ELSE "addUnlinkWh"
      BY <1>1, <1>2, <1>5 DEF Goto, Works, Remember
    <2>2. ent' = [ent EXCEPT ![0][a.q] = NewEntry] BY <1>5 DEF Put, NewEntry
    <2>3. ent \in [Branch -> [Path -> Stored]] /\ 0 \in Branch BY NRoAssumption DEF IInv, TypeOK, Branch
    <2>4. /\ ent' \in [Branch -> [Path -> Stored]] /\ ent'[0] = [ent[0] EXCEPT ![a.q] = NewEntry]
          /\ \A b \in Branch \ {0} : ent'[b] = ent[b]
      BY <1>3, <2>2, <2>3
    <2>5. ent[0][a.q] = None BY <1>2, <1>3, NotShown DEF Now, Shows
    <2>6. HasDir(ent[0], a.q) BY <1>1 DEF IInv, UpOK, UpAt
    <2>7. Disk(ent'[0], wh, opq)
      <3>1. ent[0][a.q] # Dir BY <2>5 DEF None, Dir
      <3> QED BY <1>2, <1>3, <2>4, <2>6, <3>1, Written
    <2>8. SameOp BY <1>2, <2>1 DEF SameOp
    <2>9. NewDisk BY <2>1, <2>4, <2>7 DEF NewDisk
    <2>10. pc' \in {"addOpq", "addUnlinkWh"} /\ pc' \in PcsOf(a.kind) /\ a'.then \in PcsOf(a.kind)
      BY <1>2, <1>3, <2>1 DEF PcsOf, AddLate
    <2>11. \A n \in Path : n \notin Under(a.q) => ent'[0][n] = ent[0][n]
      BY <1>2, <1>3, <2>4, Names DEF Disk
    <2>12. TypeOK' /\ OpOK' /\ DiskOK' /\ OutsideOK' /\ Low' = Low /\ Op' = Op
      BY <1>1, <2>1, <2>8, <2>9, <2>10, <2>11, Inside
    <2>13. OldUp' = ent[0] /\ OldWh' = wh /\ OldOpq' = opq
      <3>1. OldUp' = [ent'[0] EXCEPT ![a.q] = None] BY <2>1 DEF OldUp
      <3>2. OldUp' = ent[0] BY <1>2, <1>3, <2>4, <2>5, <3>1 DEF Disk
      <3>3. (a.wh <=> a.q \in wh) BY <1>1 DEF IInv, AddOK
      <3>4. OldWh' = IF a.wh THEN wh \cup {a.q} ELSE wh \ {a.q} BY <2>1 DEF OldWh
      <3>5. OldWh' = wh BY <3>3, <3>4
      <3>6. a.q \notin opq BY <1>2, <2>5 DEF Disk, None, Dir
      <3>7. OldOpq' = opq BY <2>1, <3>6 DEF OldOpq
      <3> QED BY <3>2, <3>5, <3>7
    <2>14. AddOK'
      <3>1. Disk(OldUp, OldWh, OldOpq)' BY <1>2, <2>13
      <3>2. (Union(OldUp, OldWh, OldOpq, Low) = tree)' BY <1>2, <2>1, <2>12, <2>13 DEF Now, Shows
      <3>3. (Upper(a.q) = NewEntry)'
        <4>1. NewEntry' = NewEntry BY <2>1 DEF NewEntry
        <4> QED BY <1>2, <1>3, <2>1, <2>4, <4>1 DEF Upper, Disk
      <3>4. (a.wh <=> a.q \in wh) BY <1>1 DEF IInv, AddOK
      <3>5. a.q \notin opq BY <1>2, <2>5 DEF Disk, None, Dir
      <3> QED BY <2>1, <2>10, <3>1, <3>2, <3>3, <3>4, <3>5 DEF AddOK, AddMarks
    <2>15. ErrOK' BY <1>2, <2>1, <2>10 DEF ErrOK, RenUndo
    <2>16. CopyOK' /\ CleanOK' /\ DelOK' /\ RenOK' /\ TmpOK' /\ EndOK'
      BY <2>10, OtherPhases DEF CpPc, Clean, AddPc, DelPc, RenPc, DelLate, RenLate, RenHere, RenGone, RenUndo, WrPc
    <2>17. HasDir(ent'[0], a.q) BY <1>3, <2>4, <2>7, <1>2 DEF Disk
    <2>18. UpOK' /\ CheckedOK'
      BY <2>1, <2>10, <2>17 DEF UpOK, UpAt, CheckedOK, CheckedAt, AddLate, DelLate, RenLate, RenHere, RenGone, RenUndo
    <2> QED BY <2>12, <2>14, <2>15, <2>16, <2>18 DEF IInv
  <1> QED BY <1>4, <1>5 DEF AddEntry

(* Such a step keeps the invariant if, at the end, the new name is shown.  *)
LEMMA AddOn ==
  ASSUME IInv, MarksOnly, ErrOK', pc' # "end" /\ faults' < 2 => AddMarks', pc' = "linkRevert" => a.kind = "link",
         pc' = "end" /\ a'.err # "eio" =>
           (a'.err = "ok" \/ a.kind = "link") /\ Union(ent[0], wh', opq', Low) = Effect(tree, Op)
  PROVE  IInv'
  <1>1. /\ TypeOK' /\ OpOK' /\ DiskOK' /\ OutsideOK' /\ Low' = Low /\ Op' = Op
        /\ CleanOK' /\ UpOK' /\ CheckedOK' /\ CopyOK' /\ DelOK' /\ RenOK' /\ TmpOK'
        /\ Disk(OldUp, OldWh, OldOpq)' /\ (Union(OldUp, OldWh, OldOpq, Low) = tree)'
        /\ (Upper(a.q) = NewEntry)'
    BY AddKeeps
  <1>2. a'.kind = a.kind /\ tree' = tree /\ ent' = ent /\ pc' # "addEntry" /\ (pc' \in AddLate => pc' # "end")
    BY DEF MarksOnly, SameOp, AddLate
  <1>3. AddOK' BY <1>1, <1>2 DEF AddOK
  <1>4. MaySucceed(tree, Op) /\ a.kind \in {"create", "mkdir", "link"} BY Adding DEF IInv, MarksOnly
  <1>5. Now' = Union(ent[0], wh', opq', Low) BY <1>1, <1>2 DEF Now, Shows
  <1>6. EndOK'
    <2>1. CASE pc' = "end" /\ a'.err # "eio"
      <3>1. Now' = Effect(tree, Op) /\ (a'.err = "ok" \/ a.kind = "link") BY <1>5, <2>1
      <3>2. Effect(tree, Op)' = Effect(tree, Op) /\ MaySucceed(tree, Op)' BY <1>1, <1>2, <1>4
      <3> QED BY <1>2, <1>4, <3>1, <3>2 DEF EndOK
    <2>2. CASE pc' = "end" /\ a'.err = "eio" BY <2>2 DEF EndOK
    <2>3. CASE pc' # "end" BY <2>3 DEF EndOK
    <2> QED BY <2>1, <2>2, <2>3
  <1> QED BY <1>1, <1>3, <1>6 DEF IInv

(* After the new entry has been made.                                      *)
LEMMA InAddLate ==
  ASSUME IInv, pc \in AddLate
  PROVE  /\ a \in Args /\ a.q \in Path /\ a.kind \in {"create", "mkdir", "link"} /\ faults \in Nat
         /\ wh \in SUBSET Path /\ opq \in SUBSET Path
         /\ faults < 2 => AddMarks
         /\ pc = "linkRevert" => a.kind = "link"
         /\ pc \in {"addOpq", "addUnlinkWh", "addInode"} => a.err = "ok" /\ faults = 0
         /\ pc \in {"addRevWh", "addRevOpq", "addRevEntry"} => a.err \in {"err", "eio"} /\ faults >= 1
         /\ pc = "linkRevert" => a.err = "err" /\ faults >= 1
         /\ a.err = "err" => faults <= 1
         /\ a.err = "eio" => faults >= 2
  <1>1. /\ a \in Args /\ a.q \in Path /\ a.kind \in {"create", "mkdir", "link"}
    BY Adding DEF IInv
  <1>2. faults \in Nat /\ wh \in SUBSET Path /\ opq \in SUBSET Path BY DEF IInv, TypeOK
  <1>3. a.err \in {"ok", "err", "eio"} BY <1>1 DEF Args, Error
  <1>4. pc # "idle" /\ pc # "end" BY DEF AddLate
  <1>5. ErrOK BY DEF IInv
  <1>6. /\ pc \in {"addOpq", "addUnlinkWh", "addInode"} => a.err = "ok" /\ faults = 0
        /\ pc \in {"addRevWh", "addRevOpq", "addRevEntry"} => a.err \in {"err", "eio"} /\ faults >= 1
        /\ pc = "linkRevert" => a.err = "err" /\ faults >= 1
    BY <1>3, <1>4, <1>5 DEF ErrOK, RenUndo
  <1>7. (a.err = "err" => faults <= 1) /\ (a.err = "eio" => faults >= 2) BY <1>1, <1>4, <1>5 DEF ErrOK
  <1> QED BY <1>1, <1>2, <1>6, <1>7 DEF IInv, AddOK

(* A failed step of these, before or during the undoing.                   *)
LEMMA AddErr ==
  ASSUME IInv, pc \in AddLate, Fails, Remember, NEW e \in {"err", "eio"}, Err(e),
         \/ /\ e = "err" /\ pc \in {"addOpq", "addUnlinkWh", "addInode"}
            /\ pc' \in {"linkRevert", "addRevWh", "addRevOpq", "addRevEntry"}
            /\ AddMarks' /\ (pc' = "linkRevert" => a.kind = "link")
         \/ /\ e = "eio" /\ pc \in {"addRevWh", "addRevOpq", "addRevEntry", "linkRevert"}
            /\ pc' \in {"addRevOpq", "addRevEntry", "end"}
  PROVE  IInv'
  <1>1. a \in Args /\ e \in Error BY InAddLate DEF Error
  <1>2. /\ a' \in Args /\ a'.err = e /\ a'.kind = a.kind /\ a'.p = a.p /\ a'.q = a.q /\ a'.v = a.v
        /\ a'.then = a.then /\ a'.wh = a.wh
    BY <1>1, Erring
  <1>3. ent' = ent /\ wh' = wh /\ opq' = opq /\ faults' = faults + 1 BY DEF Fails, disk
  <1>4. faults' \in Nat /\ (e = "err" => faults' = 1) /\ (e = "eio" => faults' >= 2)
    BY <1>3, InAddLate
  <1>5. SameOp BY <1>2, <1>4 DEF SameOp, Remember
  <1>6. MarksOnly
    <2>1. wh \in SUBSET Path /\ opq \in SUBSET Path BY InAddLate
    <2> QED BY <1>2, <1>3, <1>5, <2>1 DEF MarksOnly, AddLate
  <1>7. ErrOK' BY <1>2, <1>4 DEF ErrOK, RenUndo
  <1>8. faults' < 2 => AddMarks' BY <1>4
  <1>9. pc' = "linkRevert" => a.kind = "link" OBVIOUS
  <1>10. pc' = "end" => a'.err = "eio" BY <1>2
  <1> QED BY <1>6, <1>7, <1>8, <1>9, <1>10, AddOn

(* A step of these that works and goes on.                                 *)
LEMMA AddWorks ==
  ASSUME IInv, pc \in AddLate, Works, Remember, a' \in Args,
         a'.kind = a.kind, a'.p = a.p, a'.q = a.q, a'.v = a.v, a'.then = a.then, a'.wh = a.wh, a'.err = a.err,
         ent' = ent, wh' \in SUBSET Path, opq' \in SUBSET Path,
         \A n \in Path : n # a.q => (n \in wh' <=> n \in wh) /\ (n \in opq' <=> n \in opq),
         a.q \in opq' => a.q \in opq \/ a.kind = "mkdir",
         \/ pc \in {"addOpq", "addUnlinkWh"} /\ pc' \in {"addUnlinkWh", "addInode"}
         \/ pc \in {"addRevWh", "addRevOpq"} /\ pc' \in {"addRevOpq", "addRevEntry"}
         \/ /\ pc \in {"addUnlinkWh", "addInode", "linkRevert"} /\ pc' = "end"
            /\ Union(ent[0], wh', opq', Low) = Effect(tree, Op),
         pc' # "end" /\ faults < 2 => AddMarks'
  PROVE  IInv'
  <1>1. faults' = faults /\ faults' \in Nat BY InAddLate DEF Works
  <1>2. SameOp BY <1>1 DEF SameOp, Remember
  <1>3. MarksOnly BY <1>2 DEF MarksOnly, AddLate
  <1>4. ErrOK'
    <2>1. pc \in {"addOpq", "addUnlinkWh", "addInode"} => a.err = "ok" /\ faults = 0 BY InAddLate
    <2>2. pc \in {"addRevWh", "addRevOpq"} => a.err \in {"err", "eio"} /\ faults >= 1 BY InAddLate
    <2>3. pc = "linkRevert" => a.err = "err" /\ faults >= 1 BY InAddLate
    <2>4. (a.err = "err" => faults <= 1) /\ (a.err = "eio" => faults >= 2) BY InAddLate
    <2> QED BY <1>1, <2>1, <2>2, <2>3, <2>4 DEF ErrOK, RenUndo
  <1>5. pc' # "linkRevert" OBVIOUS
  <1>6. pc' = "end" => (a'.err = "ok" \/ a.kind = "link") /\ Union(ent[0], wh', opq', Low) = Effect(tree, Op)
    BY InAddLate
  <1> QED BY <1>1, <1>3, <1>4, <1>5, <1>6, AddOn

(* The opaque mark of a directory whose name had a whiteout.               *)
LEMMA AddOpqStep ==
  ASSUME IInv, AddOpq
  PROVE  IInv'
  <1>1. pc = "addOpq" /\ pc \in AddLate /\ Remember BY DEF AddOpq, At, AddLate
  <1>2. /\ a \in Args /\ a.q \in Path /\ a.err = "ok" /\ faults = 0 /\ AddMarks
        /\ wh \in SUBSET Path /\ opq \in SUBSET Path
    BY <1>1, InAddLate
  <1>3. a.wh /\ a.kind = "mkdir" /\ a.q \in wh /\ a.q \notin opq BY <1>1, <1>2 DEF AddMarks
  <1>4. CASE /\ Works /\ opq' = opq \cup {a.q} /\ a' = [a EXCEPT !.opq = TRUE]
             /\ Goto("addUnlinkWh") /\ UNCHANGED <<ent, wh>>
    <2>1. /\ a' \in Args /\ a'.kind = a.kind /\ a'.p = a.p /\ a'.q = a.q /\ a'.v = a.v /\ a'.then = a.then
          /\ a'.wh = a.wh /\ a'.err = a.err /\ a'.opq = TRUE
      BY <1>2, <1>4 DEF Args
    <2>2. pc' = "addUnlinkWh" /\ ent' = ent /\ wh' = wh BY <1>4 DEF Goto
    <2>3. AddMarks' BY <1>3, <1>4, <2>1, <2>2 DEF AddMarks
    <2>4. opq' \in SUBSET Path BY <1>2, <1>4
    <2>5. \A n \in Path : n # a.q => (n \in wh' <=> n \in wh) /\ (n \in opq' <=> n \in opq) BY <1>4, <2>2
    <2> QED BY <1>1, <1>2, <1>3, <1>4, <2>1, <2>2, <2>3, <2>4, <2>5, AddWorks
  <1>5. CASE Fails /\ Goto("addRevEntry") /\ Err("err")
    <2>1. a'.wh = a.wh /\ a'.q = a.q /\ a'.opq = a.opq BY <1>2, <1>5, Erring DEF Error
    <2>2. pc' = "addRevEntry" /\ wh' = wh /\ opq' = opq BY <1>5 DEF Goto, Fails, disk
    <2>3. AddMarks' BY <1>3, <2>1, <2>2 DEF AddMarks
    <2> QED BY <1>1, <1>5, <2>2, <2>3, AddErr
  <1> QED BY <1>4, <1>5 DEF AddOpq

(* The whiteout of the new name is removed, and it appears.                *)
LEMMA AddUnlinkWhStep ==
  ASSUME IInv, AddUnlinkWh
  PROVE  IInv'
  <1>1. pc = "addUnlinkWh" /\ pc \in AddLate /\ Remember BY DEF AddUnlinkWh, At, AddLate
  <1>2. /\ a \in Args /\ a.q \in Path /\ a.err = "ok" /\ faults = 0 /\ AddMarks
        /\ wh \in SUBSET Path /\ opq \in SUBSET Path
    BY <1>1, InAddLate
  <1>3. /\ (a.q \in wh <=> a.wh) /\ (a.wh /\ a.kind = "mkdir" => a.q \in opq) /\ (a.q \in opq => a.opq)
    BY <1>1, <1>2 DEF AddMarks
  <1>4. CASE /\ Works /\ wh' = wh \ {a.q} /\ UNCHANGED <<ent, opq, a>>
             /\ Goto(IF a.kind = "link" THEN "end" ELSE "addInode")
    <2>1. ent' = ent /\ opq' = opq /\ a' = a BY <1>4
    <2>2. pc' = IF a.kind = "link" THEN "end" ELSE "addInode" BY <1>4 DEF Goto
    <2>3. pc' # "end" => AddMarks' BY <1>3, <1>4, <2>1, <2>2 DEF AddMarks
    <2>4. wh' \in SUBSET Path BY <1>2, <1>4
    <2>5. \A n \in Path : n # a.q => (n \in wh' <=> n \in wh) /\ (n \in opq' <=> n \in opq) BY <1>4, <2>1
    <2>6. Union(ent[0], wh', opq', Low) = Effect(tree, Op) BY <1>1, <1>3, <1>4, <2>1, AddShown
    <2> QED BY <1>1, <1>2, <1>4, <2>1, <2>2, <2>3, <2>4, <2>5, <2>6, AddWorks
  <1>5. CASE /\ a.wh /\ Fails /\ Err("err")
             /\ Goto(IF a.kind = "link" THEN "linkRevert" ELSE "addRevOpq")
    <2>1. a'.wh = a.wh /\ a'.q = a.q /\ a'.opq = a.opq BY <1>2, <1>5, Erring DEF Error
    <2>2. pc' = (IF a.kind = "link" THEN "linkRevert" ELSE "addRevOpq") /\ wh' = wh /\ opq' = opq
      BY <1>5 DEF Goto, Fails, disk
    <2>3. AddMarks' BY <1>3, <1>5, <2>1, <2>2 DEF AddMarks
    <2> QED BY <1>1, <1>5, <2>2, <2>3, AddErr
  <1> QED BY <1>4, <1>5 DEF AddUnlinkWh

(* The inode of the new name.                                              *)
LEMMA AddInodeStep ==
  ASSUME IInv, AddInode
  PROVE  IInv'
  <1>1. pc = "addInode" /\ pc \in AddLate /\ Remember /\ UNCHANGED disk BY DEF AddInode, At, AddLate
  <1>2. /\ a \in Args /\ a.q \in Path /\ a.err = "ok" /\ faults = 0 /\ AddMarks
        /\ wh \in SUBSET Path /\ opq \in SUBSET Path
    BY <1>1, InAddLate
  <1>3. a.q \notin wh /\ (a.wh /\ a.kind = "mkdir" => a.q \in opq) /\ (a.q \in opq => a.opq)
    BY <1>1, <1>2 DEF AddMarks
  <1>4. ent' = ent /\ wh' = wh /\ opq' = opq BY <1>1 DEF disk
  <1>5. CASE Works /\ Goto("end") /\ UNCHANGED a
    <2>1. pc' = "end" /\ a' = a BY <1>5 DEF Goto
    <2>2. wh \ {a.q} = wh BY <1>3
    <2>3. Union(ent[0], wh', opq', Low) = Effect(tree, Op) BY <1>1, <1>3, <1>4, <2>2, AddShown
    <2>4. wh' \in SUBSET Path /\ opq' \in SUBSET Path BY <1>2, <1>4
    <2> QED BY <1>1, <1>2, <1>4, <1>5, <2>1, <2>3, <2>4, AddWorks
  <1>6. CASE Fails /\ Goto(IF a.wh THEN "addRevWh" ELSE "addRevOpq") /\ Err("err")
    <2>1. a'.wh = a.wh /\ a'.q = a.q /\ a'.opq = a.opq /\ a'.kind = a.kind BY <1>2, <1>6, Erring DEF Error
    <2>2. pc' = IF a.wh THEN "addRevWh" ELSE "addRevOpq" BY <1>6 DEF Goto
    <2>3. a.wh \in BOOLEAN BY <1>2 DEF Args
    <2>4. ~a.wh => (a.q \in wh <=> a.wh) BY <1>3, <2>3
    <2>5. AddMarks' BY <1>3, <1>4, <2>1, <2>2, <2>4 DEF AddMarks
    <2> QED BY <1>1, <1>6, <2>2, <2>5, AddErr
  <1> QED BY <1>5, <1>6 DEF AddInode

(* The undo steps of create and mkdir.                                     *)
LEMMA AddRevertStep ==
  ASSUME IInv, AddRevert
  PROVE  IInv'
  <1>1. /\ pc \in {"addRevWh", "addRevOpq", "addRevEntry"} /\ pc \in AddLate /\ pc # "idle" /\ Remember
    BY DEF AddRevert, At, AddLate
  <1>2. /\ a \in Args /\ a.q \in Path /\ a.err \in {"err", "eio"} /\ faults >= 1 /\ faults \in Nat
        /\ wh \in SUBSET Path /\ opq \in SUBSET Path /\ (faults < 2 => AddMarks)
        /\ (a.err = "err" => faults <= 1) /\ (a.err = "eio" => faults >= 2)
        /\ a.kind \in {"create", "mkdir", "link"}
    BY <1>1, InAddLate
  <1>3. CASE pc = "addRevWh" /\ Goto("addRevOpq") /\ Works /\ wh' = wh \cup {a.q} /\ UNCHANGED <<ent, opq, a>>
    <2>1. ent' = ent /\ opq' = opq /\ a' = a /\ pc' = "addRevOpq" BY <1>3 DEF Goto
    <2>2. faults < 2 => AddMarks' BY <1>2, <1>3, <2>1 DEF AddMarks
    <2>3. wh' \in SUBSET Path BY <1>2, <1>3
    <2>4. \A n \in Path : n # a.q => (n \in wh' <=> n \in wh) /\ (n \in opq' <=> n \in opq) BY <1>3, <2>1
    <2> QED BY <1>1, <1>2, <1>3, <2>1, <2>2, <2>3, <2>4, AddWorks
  <1>4. CASE pc = "addRevWh" /\ Goto("addRevOpq") /\ Fails /\ Err("eio")
    <2>1. pc' = "addRevOpq" BY <1>4 DEF Goto
    <2> QED BY <1>1, <1>4, <2>1, AddErr
  <1>5. CASE /\ pc = "addRevOpq" /\ Goto("addRevEntry") /\ Works
             /\ opq' = opq \ (IF a.opq THEN {a.q} ELSE {}) /\ UNCHANGED <<ent, wh, a>>
    <2>1. ent' = ent /\ wh' = wh /\ a' = a /\ pc' = "addRevEntry" BY <1>5 DEF Goto
    <2>2. AddMarks => a.q \notin opq' BY <1>5 DEF AddMarks
    <2>3. faults < 2 => AddMarks' BY <1>2, <1>5, <2>1, <2>2 DEF AddMarks
    <2>4. opq' \in SUBSET Path BY <1>2, <1>5
    <2>5. \A n \in Path : n # a.q => (n \in wh' <=> n \in wh) /\ (n \in opq' <=> n \in opq) BY <1>5, <2>1
    <2>6. a.q \in opq' => a.q \in opq BY <1>5
    <2> QED BY <1>1, <1>2, <1>5, <2>1, <2>3, <2>4, <2>5, <2>6, AddWorks
  <1>6. CASE pc = "addRevOpq" /\ Goto("addRevEntry") /\ Fails /\ Err("eio")
    <2>1. pc' = "addRevEntry" BY <1>6 DEF Goto
    <2> QED BY <1>1, <1>6, <2>1, AddErr
  <1>7. CASE pc = "addRevEntry" /\ Goto("end") /\ Fails /\ Err("eio")
    <2>1. pc' = "end" BY <1>7 DEF Goto
    <2> QED BY <1>1, <1>7, <2>1, AddErr
  <1>8. CASE pc = "addRevEntry" /\ Goto("end") /\ Works /\ a.q \in opq /\ Err("eio") /\ UNCHANGED disk
    <2>1. ~AddMarks BY <1>8 DEF AddMarks
    <2>2. faults >= 2 BY <1>2, <2>1
    <2>3. /\ a' \in Args /\ a'.err = "eio" /\ a'.kind = a.kind /\ a'.p = a.p /\ a'.q = a.q /\ a'.v = a.v
          /\ a'.then = a.then /\ a'.wh = a.wh
      BY <1>2, <1>8, Erring DEF Error
    <2>4. pc' = "end" /\ faults' = faults /\ ent' = ent /\ wh' = wh /\ opq' = opq
      BY <1>8 DEF Goto, Works, disk
    <2>5. SameOp BY <1>1, <1>2, <2>3, <2>4 DEF SameOp, Remember
    <2>6. MarksOnly BY <1>1, <1>2, <2>3, <2>4, <2>5 DEF MarksOnly
    <2>7. ErrOK' BY <2>2, <2>3, <2>4 DEF ErrOK, RenUndo
    <2> QED BY <2>3, <2>4, <2>6, <2>7, AddOn
  <1>9. CASE /\ pc = "addRevEntry" /\ Goto("end") /\ Works /\ a.q \notin opq /\ Put(a.q, None)
             /\ UNCHANGED <<wh, opq, a>>
    <2>1. /\ a' = a /\ wh' = wh /\ opq' = opq /\ faults' = faults /\ tree' = tree /\ res' = res /\ pc' = "end"
      BY <1>1, <1>9 DEF Goto, Works, Remember
    <2>2. ent \in [Branch -> [Path -> Stored]] /\ 0 \in Branch BY NRoAssumption DEF IInv, TypeOK, Branch
    <2>3. ent' = [ent EXCEPT ![0][a.q] = None] BY <1>9 DEF Put
    <2>4. None \in Stored BY DEF Stored
    <2>5. /\ ent' \in [Branch -> [Path -> Stored]] /\ ent'[0] = [ent[0] EXCEPT ![a.q] = None]
          /\ \A b \in Branch \ {0} : ent'[b] = ent[b]
      BY <1>2, <2>2, <2>3, <2>4
    <2>6. ent'[0] = OldUp BY <2>5 DEF OldUp
    <2>7. OldOpq = opq BY <1>9 DEF OldOpq
    <2>8. Disk(OldUp, OldWh, OldOpq) /\ Union(OldUp, OldWh, OldOpq, Low) = tree BY <1>1 DEF IInv, AddOK
    <2>9. HasDir(OldUp, a.q)
      <3>1. HasDir(ent[0], a.q) BY <1>1 DEF IInv, UpOK, UpAt
      <3> QED BY <1>2, <2>2, <3>1, Names DEF OldUp, HasDir
    <2>10. Disk(ent'[0], wh, opq)
      <3>1. \A n \in wh : HasDir(OldUp, n)
        <4>1. \A n \in wh : n # a.q => n \in OldWh BY DEF OldWh
        <4>2. \A n \in OldWh : HasDir(OldUp, n) BY <2>8 DEF Disk
        <4> QED BY <2>9, <4>1, <4>2
      <3> QED BY <1>2, <2>6, <2>7, <2>8, <3>1 DEF Disk
    <2>11. SameOp BY <1>2, <2>1 DEF SameOp
    <2>12. NewDisk BY <2>1, <2>5, <2>10 DEF NewDisk
    <2>13. pc' \in PcsOf(a.kind) /\ a'.then \in PcsOf(a.kind)
      BY <1>1, <2>1 DEF PcsOf, IInv, OpOK
    <2>14. \A n \in Path : n \notin Under(a.q) => ent'[0][n] = ent[0][n]
      BY <1>2, <2>2, <2>5, Names
    <2>15. TypeOK' /\ OpOK' /\ DiskOK' /\ OutsideOK' /\ Low' = Low /\ Op' = Op
      BY <1>1, <2>1, <2>11, <2>12, <2>13, <2>14, Inside
    <2>16. EndOK'
      <3>1. CASE a.err = "err"
        <4>1. faults < 2 BY <1>2, <3>1
        <4>2. OldWh = wh
          <5>1. a.q \in wh <=> a.wh BY <1>2, <1>9, <4>1 DEF AddMarks
          <5> QED BY <5>1 DEF OldWh
        <4>3. Now' = tree BY <2>1, <2>6, <2>7, <2>8, <2>15, <4>2 DEF Now, Shows
        <4>4. a.kind # "rename" BY <1>2
        <4> QED BY <2>1, <3>1, <4>3, <4>4 DEF EndOK
      <3>2. CASE a.err = "eio" BY <2>1, <3>2 DEF EndOK
      <3> QED BY <1>2, <3>1, <3>2
    <2>17. ErrOK' BY <1>2, <2>1 DEF ErrOK, RenUndo
    <2>18. CopyOK' /\ CleanOK' /\ AddOK' /\ DelOK' /\ RenOK' /\ TmpOK'
      BY <2>1, OtherPhases DEF CpPc, Clean, AddPc, DelPc, RenPc, WrPc, AddLate, DelLate, RenLate, RenHere, RenGone, RenUndo
    <2>19. UpOK' /\ CheckedOK'
      BY <2>1 DEF UpOK, UpAt, CheckedOK, CheckedAt, AddLate, DelLate, RenLate, RenHere, RenGone, RenUndo
    <2> QED BY <2>15, <2>16, <2>17, <2>18, <2>19 DEF IInv
  <1>10. \/ pc = "addRevWh" /\ Goto("addRevOpq") /\ Works /\ wh' = wh \cup {a.q} /\ UNCHANGED <<ent, opq, a>>
         \/ pc = "addRevWh" /\ Goto("addRevOpq") /\ Fails /\ Err("eio")
         \/ /\ pc = "addRevOpq" /\ Goto("addRevEntry") /\ Works
            /\ opq' = opq \ (IF a.opq THEN {a.q} ELSE {}) /\ UNCHANGED <<ent, wh, a>>
         \/ pc = "addRevOpq" /\ Goto("addRevEntry") /\ Fails /\ Err("eio")
         \/ pc = "addRevEntry" /\ Goto("end") /\ Fails /\ Err("eio")
         \/ pc = "addRevEntry" /\ Goto("end") /\ Works /\ a.q \in opq /\ Err("eio") /\ UNCHANGED disk
         \/ /\ pc = "addRevEntry" /\ Goto("end") /\ Works /\ a.q \notin opq /\ Put(a.q, None)
            /\ UNCHANGED <<wh, opq, a>>
    BY Zenon DEF AddRevert, At
  <1> QED BY <1>3, <1>4, <1>5, <1>6, <1>7, <1>8, <1>9, <1>10

(* The undo step of link.                                                  *)
LEMMA LinkRevertStep ==
  ASSUME IInv, LinkRevert
  PROVE  IInv'
  <1>1. pc = "linkRevert" /\ pc \in AddLate /\ Remember /\ pc' = "end" BY DEF LinkRevert, At, AddLate, Goto
  <1>2. /\ a \in Args /\ a.err = "err" /\ a.kind = "link" /\ wh \in SUBSET Path /\ opq \in SUBSET Path
    BY <1>1, InAddLate
  <1>3. CASE Works /\ wh' = wh \ {a.q} /\ UNCHANGED <<ent, opq, a>>
    <2>1. ent' = ent /\ opq' = opq /\ a' = a BY <1>3
    <2>2. wh' \in SUBSET Path /\ opq' \in SUBSET Path BY <1>2, <1>3
    <2>3. \A n \in Path : n # a.q => (n \in wh' <=> n \in wh) /\ (n \in opq' <=> n \in opq) BY <1>3
    <2>4. Union(ent[0], wh', opq', Low) = Effect(tree, Op) BY <1>1, <1>2, <1>3, AddShown
    <2> QED BY <1>1, <1>2, <1>3, <2>1, <2>2, <2>3, <2>4, AddWorks
  <1>4. CASE Fails /\ Err("eio") BY <1>1, <1>4, AddErr
  <1> QED BY <1>3, <1>4 DEF LinkRevert

-----------------------------------------------------------------------------
(* unlink and rmdir.                                                       *)

(* The operation that removes a name.                                      *)
LEMMA Deleting ==
  ASSUME TypeOK, OpOK, pc \in DelPc \cup DelLate
  PROVE  /\ a.kind \in {"unlink", "rmdir"} /\ pc # "idle" /\ a \in Args /\ a.then \in PcsOf(a.kind)
         /\ a.p \in Path /\ a.q = a.p /\ tree[a.p] \in Data \cup {Dir} /\ HasDir(tree, a.p)
         /\ MaySucceed(tree, Op) <=> (a.kind = "rmdir" => IsEmpty(tree, a.p))
         /\ Effect(tree, Op) = [n \in Path |-> IF n \in Under(a.p) THEN None ELSE tree[n]]
  <1>1. pc # "idle" BY DEF DelPc, DelLate
  <1>2. a.kind \in Kinds /\ pc \in PcsOf(a.kind) BY <1>1 DEF OpOK, TypeOK, Args
  <1>3. a.kind \in {"unlink", "rmdir"}
    BY <1>2 DEF PcsOf, Kinds, WrPc, CpPc, AddPc, AddLate, DelPc, DelLate, RenPc, RenLate, RenHere, RenGone, RenUndo
  <1>4. a \in Args /\ a.then \in PcsOf(a.kind) /\ Tree(tree) BY <1>1 DEF TypeOK, OpOK
  <1>5. /\ a.p \in Path /\ a.q = a.p
        /\ a.kind = "unlink" => tree[a.p] \in Data
        /\ a.kind = "rmdir" => tree[a.p] = Dir
    BY <1>1, <1>3, InCall
  <1>6. tree[a.p] \in Data \cup {Dir} /\ tree[a.p] # None BY <1>3, <1>5, DataAssumption DEF None, Dir
  <1>7. HasDir(tree, a.p) BY <1>4, <1>5, <1>6 DEF Tree
  <1>8. Op.kind = a.kind /\ Op.p = a.p /\ Op.q = a.q BY DEF Op
  <1>9. MaySucceed(tree, Op) <=> (a.kind = "rmdir" => IsEmpty(tree, a.p)) BY <1>3, <1>8 DEF MaySucceed
  <1>10. Effect(tree, Op) = [n \in Path |-> IF n \in Under(a.p) THEN None ELSE tree[n]]
    BY <1>3, <1>8, Zenon DEF Effect
  <1> QED BY <1>1, <1>3, <1>4, <1>5, <1>6, <1>7, <1>9, <1>10

(* The test of the directory, and the copy-up of its parent.               *)
LEMMA DelStartStep ==
  ASSUME IInv, DelStart
  PROVE  IInv'
  <1>1. pc = "delStart" /\ pc \in DelPc /\ pc \in Clean /\ pc # "cpUndo" /\ pc # "idle" /\ Remember /\ UNCHANGED disk
    BY DEF DelStart, At, DelPc, Clean
  <1>2. /\ Now = tree /\ Tree(tree) /\ Lower(Low) /\ Disk(ent[0], wh, opq) BY <1>1, InClean
  <1>3. /\ a.kind \in {"unlink", "rmdir"} /\ a.p \in Path /\ HasDir(tree, a.p)
        /\ MaySucceed(tree, Op) <=> (a.kind = "rmdir" => IsEmpty(tree, a.p))
    BY <1>1, Deleting DEF IInv
  <1> USE DEF AddLate, DelLate, RenLate, RenHere, RenGone, RenUndo
  <1>4. "delWh" \in Clean \ (CpPc \cup {"addEntry"}) /\ "delWh" \in PcsOf(a.kind)
    BY <1>3 DEF Clean, CpPc, PcsOf, DelPc
  <1>5. HasDir(ent[0], a.p) => UpAt("delWh") BY DEF UpAt
  <1>6. MaySucceed(tree, Op) => CheckedAt("delWh") BY DEF CheckedAt
  <1>7. CASE /\ a.kind = "rmdir" => IsEmpty(tree, a.p)
             /\ Works /\ Upper(a.p) = None /\ Copyup(Parent(a.p), "delWh")
    <2>1. MaySucceed(tree, Op) BY <1>3, <1>7
    <2>2. Parent(a.p) = <<>> \/ Upper(Parent(a.p)) # None => UpAt("delWh")
      BY <1>1, <1>3, <1>5, ParentReady
    <2>3. CopyFor(Parent(a.p), "delWh") BY <2>1 DEF CopyFor
    <2> QED BY <1>1, <1>3, <1>4, <1>6, <1>7, <2>1, <2>2, <2>3, ParentReady, CopiesUp
  <1>8. CASE /\ a.kind = "rmdir" => IsEmpty(tree, a.p)
             /\ Works /\ Upper(a.p) # None /\ Goto("delWh") /\ UNCHANGED a
    <2>1. MaySucceed(tree, Op) BY <1>3, <1>8
    <2>2. HasDir(ent[0], a.p) BY <1>2, <1>3, <1>8 DEF Disk, Upper
    <2> QED BY <1>1, <1>4, <1>5, <1>6, <1>8, <2>1, <2>2, GoesOn DEF Goto
  <1>9. CASE Works /\ Goto("end") /\ Err("err") BY <1>1, <1>9, CleanErr
  <1> QED BY <1>7, <1>8, <1>9 DEF DelStart

(* The whiteout, if one is needed.                                         *)
LEMMA DelWhStep ==
  ASSUME IInv, DelWh
  PROVE  IInv'
  <1>1. pc = "delWh" /\ pc \in DelPc /\ pc \in Clean /\ pc # "cpUndo" /\ pc # "idle" /\ Remember
    BY DEF DelWh, At, DelPc, Clean
  <1>2. /\ Now = tree /\ Tree(tree) /\ Lower(Low) /\ Disk(ent[0], wh, opq)
        /\ a \in Args /\ a.err = "ok" /\ faults = 0
    BY <1>1, InClean
  <1>3. /\ a.kind \in {"unlink", "rmdir"} /\ a.p \in Path /\ HasDir(tree, a.p) /\ tree[a.p] \in Data \cup {Dir}
        /\ a.then \in PcsOf(a.kind)
    BY <1>1, Deleting DEF IInv
  <1>4. CASE Fails /\ Goto("end") /\ Err("err") BY <1>1, <1>4, CleanErr DEF Fails
  <1>5. CASE /\ Works /\ UNCHANGED <<ent, opq>> /\ Goto("delEntry")
             /\ wh' = wh \cup (IF NeedWh(a.p) THEN {a.p} ELSE {})
             /\ a' = [a EXCEPT !.wh = NeedWh(a.p)]
    <2>1. ent' = ent /\ opq' = opq /\ pc' = "delEntry" /\ faults' = 0 /\ tree' = tree /\ res' = res
      BY <1>1, <1>2, <1>5 DEF Goto, Works, Remember
    <2>2. /\ a' \in Args /\ a'.kind = a.kind /\ a'.p = a.p /\ a'.q = a.q /\ a'.v = a.v /\ a'.then = a.then
          /\ a'.err = a.err /\ (a'.wh <=> NeedWh(a.p))
      <3>1. CASE NeedWh(a.p)
        <4>1. NeedWh(a.p) = TRUE BY <3>1
        <4>2. a' = [a EXCEPT !.wh = TRUE] BY <1>5, <4>1, Zenon
        <4> QED BY <1>2, <4>1, <4>2 DEF Args
      <3>2. CASE ~NeedWh(a.p)
        <4>1. NeedWh(a.p) = FALSE BY <3>2
        <4>2. a' = [a EXCEPT !.wh = FALSE] BY <1>5, <4>1, Zenon
        <4> QED BY <1>2, <4>1, <4>2 DEF Args
      <3> QED BY <3>1, <3>2
    <2>3. a.p \notin wh
      <3>1. tree[a.p] \notin {None, Stuck} BY <1>3, DataAssumption DEF None, Dir, Stuck
      <3> QED BY <1>2, <1>3, <3>1, OnUpper DEF Now, Shows
    <2>4. HasDir(ent[0], a.p) BY <1>1 DEF IInv, UpOK, UpAt
    <2>5. Disk(ent'[0], wh', opq') BY <1>2, <1>3, <1>5, <2>1, <2>4 DEF Disk
    <2>6. SameOp BY <1>2, <2>1, <2>2 DEF SameOp
    <2>7. NewDisk BY <2>1, <2>5 DEF NewDisk, IInv, TypeOK
    <2>8. pc' \in PcsOf(a.kind) /\ a'.then \in PcsOf(a.kind) BY <1>3, <2>1, <2>2 DEF PcsOf, DelLate
    <2>9. \A n \in Path : n \notin Under(a.p) => (n \in wh' <=> n \in wh) BY <1>3, <1>5, Names
    <2>10. TypeOK' /\ OpOK' /\ DiskOK' /\ OutsideOK' /\ Low' = Low /\ Op' = Op
      BY <1>1, <2>1, <2>6, <2>7, <2>8, <2>9, Inside
    <2>11. DelOK'
      <3>1. wh' \ {a.p} = wh BY <1>5, <2>3
      <3>2. Shows(wh \ {a.p}, opq)' = tree
        <4>1. Shows(wh \ {a.p}, opq)' = Union(ent[0], wh, opq, Low) BY <2>1, <2>2, <2>10, <3>1 DEF Shows
        <4> QED BY <1>2, <4>1 DEF Now, Shows
      <3>3. Covered(wh', opq, Low, a.p)
        <4>1. CASE NeedWh(a.p) BY <1>5, <4>1 DEF Covered
        <4>2. CASE ~NeedWh(a.p)
          <5>1. HasDir(Now, a.p) BY <1>2, <1>3
          <5>2. Covered(wh, opq, Low, a.p) BY <1>3, <4>2, <5>1, NeedWhIs DEF IInv
          <5> QED BY <1>5, <5>2 DEF Covered
        <4> QED BY <4>1, <4>2
      <3>4. a.p \in wh' <=> a'.wh BY <1>5, <2>2, <2>3
      <3> QED BY <2>1, <2>2, <2>10, <3>2, <3>3, <3>4 DEF DelOK
    <2>12. ErrOK' BY <1>2, <2>1, <2>2 DEF ErrOK, RenUndo
    <2>13. CopyOK' /\ CleanOK' /\ AddOK' /\ RenOK' /\ TmpOK' /\ EndOK'
      BY <2>1, OtherPhases DEF CpPc, Clean, AddPc, DelPc, RenPc, WrPc, AddLate, RenLate, RenHere, RenGone, RenUndo
    <2>14. MaySucceed(tree, Op) BY <1>1 DEF IInv, CheckedOK, CheckedAt
    <2>15. MaySucceed(tree, Op)' BY <2>1, <2>10, <2>14
    <2>16. UpOK' BY <2>1, <2>2, <2>4 DEF UpOK, UpAt, AddLate, DelLate, RenLate, RenHere, RenGone, RenUndo
    <2>17. CheckedOK' BY <2>1, <2>15 DEF CheckedOK, CheckedAt, RenLate, RenHere, RenGone, RenUndo
    <2> QED BY <2>10, <2>11, <2>12, <2>13, <2>16, <2>17 DEF IInv
  <1> QED BY <1>4, <1>5 DEF DelWh

(* What has to be shown of a last step.                                    *)
LEMMA AtEnd ==
  ASSUME TypeOK', OpOK', DiskOK', OutsideOK', EndOK', pc' = "end", a'.err = "ok" => faults' = 0,
         a'.err = "eio" => faults' >= 2, a'.err = "err" /\ a'.kind # "rename" => faults' <= 1
  PROVE  IInv'
  <1>1. ErrOK' BY DEF ErrOK, RenUndo
  <1>2. CopyOK' /\ CleanOK' /\ AddOK' /\ DelOK' /\ RenOK' /\ TmpOK'
    BY OtherPhases
       DEF CpPc, Clean, AddPc, DelPc, RenPc, WrPc, AddLate, DelLate, RenLate, RenHere, RenGone, RenUndo
  <1>3. UpOK' /\ CheckedOK'
    BY DEF UpOK, UpAt, CheckedOK, CheckedAt, AddLate, DelLate, RenLate, RenHere, RenGone, RenUndo
  <1> QED BY <1>1, <1>2, <1>3 DEF IInv

(* While a name is being removed.                                          *)
LEMMA InDelLate ==
  ASSUME IInv, pc \in DelLate
  PROVE  /\ a \in Args /\ a.p \in Path /\ a.kind \in {"unlink", "rmdir"} /\ pc # "idle" /\ faults \in Nat
         /\ a.then \in PcsOf(a.kind) /\ Lower(Low) /\ Disk(ent[0], wh, opq) /\ HasDir(ent[0], a.p)
         /\ Union(ent[0], wh \ {a.p}, opq, Low) = tree /\ Covered(wh, opq, Low, a.p)
         /\ (a.p \in wh <=> a.wh) /\ MaySucceed(tree, Op)
         /\ Effect(tree, Op) = [n \in Path |-> IF n \in Under(a.p) THEN None ELSE tree[n]]
         /\ pc = "delEntry" => a.err = "ok" /\ faults = 0
         /\ pc = "delRevWh" => a.err = "err" /\ faults = 1
  <1>1. /\ a \in Args /\ a.p \in Path /\ a.kind \in {"unlink", "rmdir"} /\ pc # "idle" /\ a.then \in PcsOf(a.kind)
        /\ Effect(tree, Op) = [n \in Path |-> IF n \in Under(a.p) THEN None ELSE tree[n]]
    BY Deleting DEF IInv
  <1>2. faults \in Nat /\ Lower(Low) BY LowIsLower DEF IInv, TypeOK, Low
  <1>3. Disk(ent[0], wh, opq) BY DEF IInv, DiskOK
  <1>4. HasDir(ent[0], a.p) BY <1>1 DEF IInv, UpOK, UpAt
  <1>5. MaySucceed(tree, Op) BY <1>1 DEF IInv, CheckedOK, CheckedAt
  <1>6. Union(ent[0], wh \ {a.p}, opq, Low) = tree /\ Covered(wh, opq, Low, a.p) /\ (a.p \in wh <=> a.wh)
    BY DEF IInv, DelOK, Shows
  <1>7. ErrOK BY DEF IInv
  <1>8. pc = "delEntry" => a.err = "ok" /\ faults = 0 BY <1>7 DEF ErrOK, RenUndo
  <1>9. pc = "delRevWh" => a.err = "err" /\ faults = 1
    <2>1. a.kind # "rename" BY <1>1
    <2>2. pc = "delRevWh" => a.err = "err" /\ faults >= 1 /\ faults <= 1 BY <1>7, <2>1 DEF ErrOK, RenUndo
    <2> QED BY <1>2, <2>2
  <1> QED BY <1>1, <1>2, <1>3, <1>4, <1>5, <1>6, <1>8, <1>9

(* The undone removal: the names are as before.                            *)
LEMMA DelUndone ==
  ASSUME IInv, pc \in DelLate, pc' = "end", SameOp, a'.then = a.then, a'.err = "err", faults' = 1,
         ent' = ent, opq' = opq, wh' = wh \ {a.p}
  PROVE  IInv'
  <1>1. /\ a.p \in Path /\ a.kind \in {"unlink", "rmdir"} /\ pc # "idle" /\ a.then \in PcsOf(a.kind)
        /\ Disk(ent[0], wh, opq) /\ Union(ent[0], wh \ {a.p}, opq, Low) = tree
    BY InDelLate
  <1>2. NewDisk BY <1>1 DEF NewDisk, Disk, IInv, TypeOK
  <1>3. pc' \in PcsOf(a.kind) /\ a'.then \in PcsOf(a.kind) BY <1>1 DEF PcsOf
  <1>4. \A n \in Path : n \notin Under(a.p) => (n \in wh' <=> n \in wh) BY <1>1, Names
  <1>5. TypeOK' /\ OpOK' /\ DiskOK' /\ OutsideOK' /\ Low' = Low /\ Op' = Op
    BY <1>1, <1>2, <1>3, <1>4, Inside
  <1>6. Now' = tree' BY <1>1, <1>5 DEF Now, Shows, SameOp
  <1>7. EndOK' BY <1>1, <1>6 DEF EndOK, SameOp
  <1> QED BY <1>5, <1>7, AtEnd

(* The entry goes; what is below a directory goes with it.                 *)
LEMMA DelEntryStep ==
  ASSUME IInv, DelEntry
  PROVE  IInv'
  <1>1. pc = "delEntry" /\ pc \in DelLate /\ Remember BY DEF DelEntry, At, DelLate
  <1>2. /\ a \in Args /\ a.p \in Path /\ a.kind \in {"unlink", "rmdir"} /\ pc # "idle"
        /\ a.then \in PcsOf(a.kind) /\ Lower(Low) /\ Disk(ent[0], wh, opq)
        /\ tree = Union(ent[0], wh \ {a.p}, opq, Low) /\ Covered(wh, opq, Low, a.p)
        /\ (a.p \in wh <=> a.wh) /\ MaySucceed(tree, Op)
        /\ Effect(tree, Op) = [n \in Path |-> IF n \in Under(a.p) THEN None ELSE tree[n]]
        /\ a.err = "ok" /\ faults = 0
    BY <1>1, InDelLate
  <1> DEFINE u2 == [n \in Path |-> IF n \in Under(a.p) THEN None ELSE ent[0][n]]
  <1>3. Union(u2, wh \ Below(a.p), opq \ Under(a.p), Low) = Effect(tree, Op) BY <1>2, Removed
  <1>4. ent \in [Branch -> [Path -> Stored]] /\ 0 \in Branch BY NRoAssumption DEF IInv, TypeOK, Branch
  <1>5. Disk(u2, wh \ Below(a.p), opq \ Under(a.p)) BY <1>2, Discarded
  <1>6. u2 \in [Path -> Stored] BY <1>5 DEF Disk
  <1>7. ASSUME Works, a' = a, pc' = "end", \A b \in Branch \ {0} : ent'[b] = ent[b], ent' \in [Branch -> [Path -> Stored]],
               ent'[0] = u2, wh' = wh \ Below(a.p), opq' = opq \ Under(a.p)
        PROVE  IInv'
    <2> HIDE DEF u2
    <2>1. SameOp /\ faults' = 0 BY <1>1, <1>2, <1>7 DEF SameOp, Remember, Works
    <2>2. NewDisk BY <1>5, <1>7 DEF NewDisk
    <2>3. pc' \in PcsOf(a.kind) /\ a'.then \in PcsOf(a.kind) BY <1>2, <1>7 DEF PcsOf
    <2>4. \A n \in Path : n \notin Under(a.p) =>
            ent'[0][n] = ent[0][n] /\ (n \in wh' <=> n \in wh) /\ (n \in opq' <=> n \in opq)
      BY <1>2, <1>7, Names DEF u2
    <2>5. TypeOK' /\ OpOK' /\ DiskOK' /\ OutsideOK' /\ Low' = Low /\ Op' = Op
      BY <1>2, <2>1, <2>2, <2>3, <2>4, Inside
    <2>6. Now' = Effect(tree, Op) BY <1>3, <1>7, <2>5 DEF Now, Shows
    <2>7. EndOK'
      <3>1. Effect(tree, Op)' = Effect(tree, Op) /\ MaySucceed(tree, Op)' BY <1>2, <2>1, <2>5 DEF SameOp
      <3> QED BY <1>2, <1>7, <2>6, <3>1 DEF EndOK
    <2> QED BY <1>2, <1>7, <2>1, <2>5, <2>7, AtEnd
  <1>8. CASE Works /\ Discard(a.p) /\ Goto("end") /\ UNCHANGED a
    <2>1. /\ ent' = [ent EXCEPT ![0] = [m \in Path |-> IF m \in Under(a.p) THEN None ELSE @[m]]]
          /\ wh' = wh \ Below(a.p) /\ opq' = opq \ Under(a.p)
      BY <1>8 DEF Discard
    <2>2. ent' = [ent EXCEPT ![0] = u2] BY <1>4, <2>1
    <2> HIDE DEF u2
    <2>3. /\ ent' \in [Branch -> [Path -> Stored]] /\ ent'[0] = u2
          /\ \A b \in Branch \ {0} : ent'[b] = ent[b]
      BY <1>4, <1>6, <2>2
    <2> QED BY <1>7, <1>8, <2>1, <2>3 DEF Goto
  <1>9. CASE Works /\ Upper(a.p) = None /\ UNCHANGED <<disk, a>> /\ Goto("end")
    <2>1. ent' = ent /\ wh' = wh /\ opq' = opq /\ a' = a BY <1>9 DEF disk
    <2>2. ent[0] = u2 /\ wh \ Below(a.p) = wh /\ opq \ Under(a.p) = opq
      BY <1>2, <1>9, NothingBelow DEF Upper
    <2> HIDE DEF u2
    <2> QED BY <1>4, <1>7, <1>9, <2>1, <2>2 DEF Goto
  <1>10. CASE Fails /\ Goto(IF a.wh THEN "delRevWh" ELSE "end") /\ Err("err")
    <2>1. /\ a' \in Args /\ a'.err = "err" /\ a'.kind = a.kind /\ a'.p = a.p /\ a'.q = a.q /\ a'.v = a.v
          /\ a'.then = a.then /\ a'.wh = a.wh
      BY <1>2, <1>10, Erring DEF Error
    <2>2. faults' = 1 /\ ent' = ent /\ wh' = wh /\ opq' = opq BY <1>2, <1>10 DEF Fails, disk
    <2>3. SameOp BY <1>1, <2>1, <2>2 DEF SameOp, Remember
    <2>4. CASE ~a.wh
      <3>1. wh' = wh \ {a.p} BY <1>2, <2>2, <2>4
      <3>2. pc' = "end" BY <1>10, <2>4 DEF Goto
      <3> QED BY <1>1, <2>1, <2>2, <2>3, <3>1, <3>2, DelUndone
    <2>5. CASE a.wh
      <3>1. pc' = "delRevWh" BY <1>10, <2>5 DEF Goto
      <3>2. pc' \in PcsOf(a.kind) /\ a'.then \in PcsOf(a.kind) BY <1>2, <2>1, <3>1 DEF PcsOf, DelLate
      <3>3. TypeOK' /\ OpOK' /\ DiskOK' /\ OutsideOK' /\ Low' = Low /\ Op' = Op
        BY <1>2, <2>2, <2>3, <3>2, Quiet DEF disk
      <3>4. DelOK'
        <4>1. Shows(wh \ {a.p}, opq)' = tree' BY <1>2, <2>1, <2>2, <2>3, <3>3 DEF Shows, SameOp
        <4> QED BY <1>2, <2>1, <2>2, <2>5, <3>1, <3>3, <4>1 DEF DelOK
      <3>5. ErrOK' BY <2>1, <2>2, <3>1 DEF ErrOK, RenUndo
      <3>6. CopyOK' /\ CleanOK' /\ AddOK' /\ RenOK' /\ TmpOK' /\ EndOK'
        BY <3>1, OtherPhases DEF CpPc, Clean, AddPc, DelPc, RenPc, WrPc, AddLate, RenLate, RenHere, RenGone, RenUndo
      <3>7. MaySucceed(tree, Op)' BY <1>2, <2>3, <3>3 DEF SameOp
      <3>8. HasDir(ent[0], a.p) BY <1>1, InDelLate
      <3>9. UpOK' BY <2>1, <2>2, <3>1, <3>8 DEF UpOK, UpAt, AddLate, DelLate, RenLate, RenHere, RenGone, RenUndo
      <3>10. CheckedOK' BY <3>1, <3>7 DEF CheckedOK, CheckedAt, RenLate, RenHere, RenGone, RenUndo
      <3> QED BY <3>3, <3>4, <3>5, <3>6, <3>9, <3>10 DEF IInv
    <2> QED BY <2>4, <2>5
  <1> QED BY <1>8, <1>9, <1>10 DEF DelEntry

(* The undo step: the whiteout goes again.                                 *)
LEMMA DelRevertStep ==
  ASSUME IInv, DelRevert
  PROVE  IInv'
  <1>1. pc = "delRevWh" /\ pc \in DelLate /\ Remember /\ pc' = "end" BY DEF DelRevert, At, DelLate, Goto
  <1>2. /\ a \in Args /\ a.err = "err" /\ faults = 1 /\ a.kind \in {"unlink", "rmdir"} /\ pc # "idle"
        /\ a.then \in PcsOf(a.kind)
    BY <1>1, InDelLate
  <1>3. CASE Works /\ wh' = wh \ {a.p} /\ UNCHANGED <<ent, opq, a>>
    <2>1. SameOp /\ faults' = 1 BY <1>1, <1>2, <1>3 DEF SameOp, Remember, Works
    <2> QED BY <1>1, <1>2, <1>3, <2>1, DelUndone
  <1>4. CASE Fails /\ Err("eio")
    <2>1. /\ a' \in Args /\ a'.err = "eio" /\ a'.kind = a.kind /\ a'.p = a.p /\ a'.q = a.q /\ a'.v = a.v
          /\ a'.then = a.then
      BY <1>2, <1>4, Erring DEF Error
    <2>2. faults' = 2 /\ UNCHANGED disk BY <1>2, <1>4 DEF Fails
    <2>3. SameOp BY <1>1, <2>1, <2>2 DEF SameOp, Remember
    <2>4. pc' \in PcsOf(a.kind) /\ a'.then \in PcsOf(a.kind) BY <1>1, <1>2, <2>1 DEF PcsOf
    <2>5. TypeOK' /\ OpOK' /\ DiskOK' /\ OutsideOK' BY <1>2, <2>2, <2>3, <2>4, Quiet
    <2>6. EndOK' BY <2>1 DEF EndOK
    <2> QED BY <1>1, <2>1, <2>2, <2>5, <2>6, AtEnd
  <1> QED BY <1>3, <1>4 DEF DelRevert

-----------------------------------------------------------------------------
(* rename.                                                                 *)

(* The operation that renames a name.                                      *)
LEMMA Renaming ==
  ASSUME TypeOK, OpOK, pc \in RenPc \cup RenLate
  PROVE  /\ a.kind = "rename" /\ pc # "idle" /\ a \in Args /\ a.then \in PcsOf(a.kind) /\ Tree(tree)
         /\ a.p \in Path /\ a.q \in Path /\ a.p \notin Under(a.q) /\ a.q \notin Under(a.p) /\ a.p # a.q
         /\ HasDir(tree, a.p) /\ HasDir(tree, a.q)
         /\ tree[a.p] \notin {None, Stuck} /\ tree[a.p] \in Data \cup {Dir}
         /\ tree[a.q] \in Data \cup {None, Dir} /\ tree[a.q] # Stuck
         /\ tree[a.q] = Dir => IsDirRen
         /\ IsDirRen => Len(a.q) <= Len(a.p) /\ tree[a.q] \in {Dir, None}
         /\ MaySucceed(tree, Op) <=> (tree[a.q] = Dir => IsEmpty(tree, a.q))
         /\ Effect(tree, Op) = Moved(tree, a.p, a.q)
  <1>1. pc # "idle" BY DEF RenPc, RenLate, RenHere, RenGone, RenUndo
  <1>2. a.kind \in Kinds /\ pc \in PcsOf(a.kind) BY <1>1 DEF OpOK, TypeOK, Args
  <1>3. a.kind = "rename"
    BY <1>2 DEF PcsOf, Kinds, WrPc, CpPc, AddPc, AddLate, DelPc, DelLate, RenPc, RenLate, RenHere, RenGone, RenUndo
  <1>4. a \in Args /\ a.then \in PcsOf(a.kind) /\ Tree(tree) BY <1>1 DEF TypeOK, OpOK
  <1>5. /\ a.p \in Path /\ a.q \in Path /\ a.q \notin Under(a.p) /\ a.p \notin Under(a.q)
        /\ HasDir(tree, a.q)
        /\ \/ tree[a.p] \in Data /\ tree[a.q] \in Data \cup {None}
           \/ tree[a.p] = Dir /\ tree[a.q] \in {Dir, None} /\ Len(a.q) <= Len(a.p)
    BY <1>1, <1>3, InCall
  <1>6. /\ tree[a.p] \notin {None, Stuck} /\ tree[a.p] \in Data \cup {Dir}
        /\ tree[a.q] \in Data \cup {None, Dir} /\ tree[a.q] # Stuck
        /\ tree[a.q] = Dir => IsDirRen
        /\ IsDirRen => Len(a.q) <= Len(a.p) /\ tree[a.q] \in {Dir, None}
    BY <1>5, DataAssumption DEF IsDirRen, None, Dir, Stuck
  <1>7. HasDir(tree, a.p) /\ a.p # a.q BY <1>4, <1>5, <1>6, Names DEF Tree
  <1>8. Op.kind = a.kind /\ Op.p = a.p /\ Op.q = a.q BY DEF Op
  <1>9. MaySucceed(tree, Op) <=> (tree[a.q] = Dir => IsEmpty(tree, a.q)) BY <1>3, <1>8 DEF MaySucceed
  <1>10. Effect(tree, Op) = Moved(tree, a.p, a.q) BY <1>3, <1>8, Zenon DEF Effect
  <1> QED BY <1>1, <1>3, <1>4, <1>5, <1>6, <1>7, <1>9, <1>10

(* A directory that may_rename_srcdir lets through has all its names on    *)
(* branch 0.                                                               *)
LEMMA SrcDirOwn ==
  ASSUME IInv, pc = "renMayDir", IsDirRen => MayRenameDir
  PROVE  MaySucceed(tree, Op) /\ OwnKids
  <1>1. pc \in Clean /\ pc \in RenPc \cup RenLate BY DEF Clean, RenPc
  <1>2. /\ Now = tree /\ Lower(Low) /\ Disk(ent[0], wh, opq) /\ TypeOK /\ DiskOK /\ OpOK
    BY <1>1, InClean DEF IInv
  <1>3. /\ a.p \in Path /\ (tree[a.q] = Dir => IsDirRen)
        /\ MaySucceed(tree, Op) <=> (tree[a.q] = Dir => IsEmpty(tree, a.q))
    BY <1>1, <1>2, Renaming
  <1>4. MaySucceed(tree, Op) BY <1>3 DEF MayRenameDir
  <1>5. ASSUME IsDirRen, NEW k \in Below(a.p) PROVE tree[k] = Own(ent[0], wh, k)
    <2>1. k \in Path /\ Len(k) = 2 /\ Parent(k) = a.p BY <1>3, Names
    <2>2. Now[a.p] = Dir BY <1>2, <1>5 DEF IsDirRen
    <2>3. tree[k] = Shown(ent[0], wh, opq, Low, k)
      <3>1. HasDir(Now, k) BY <2>1, <2>2 DEF HasDir
      <3>2. Now[k] = Shown(ent[0], wh, opq, Low, k) BY <1>2, <2>1, <3>1, UnionIs DEF Now, Shows
      <3> QED BY <1>2, <3>2
    <2>4. CASE Upper(a.p) = Dir
      <3>1. EmptyLower(a.p) BY <1>5, <2>4 DEF MayRenameDir
      <3>2. Covered(wh, opq, Low, k) BY <1>2, <1>3, <1>5, <2>2, <3>1, EmptyLowerIs
      <3> QED BY <2>3, <3>2 DEF Covered, Shown, Own
    <2>5. CASE Upper(a.p) # Dir
      <3>1. tree[k] \in {None, Stuck} BY <1>5, <2>5 DEF MayRenameDir, IsEmpty
      <3>2. ~HasDir(ent[0], k) BY <2>1, <2>5 DEF HasDir, Upper
      <3>3. ent[0][k] = None /\ k \notin wh BY <1>2, <2>1, <3>2 DEF Disk
      <3>4. Low[k] # Stuck BY <1>2, <2>1, DataAssumption DEF Lower, Stored, None, Dir, Stuck
      <3> QED BY <2>3, <3>1, <3>3, <3>4 DEF Shown, Own
    <2> QED BY <2>4, <2>5
  <1> QED BY <1>4, <1>5 DEF OwnKids

(* The tests and copy-ups that come first.                                 *)
LEMMA RenPrepareStep ==
  ASSUME IInv, RenPrepare
  PROVE  IInv'
  <1>1. /\ pc \in {"renStart", "renMayDir", "renSrcDir", "renSrc"} /\ pc \in Clean /\ pc # "cpUndo" /\ pc # "idle"
        /\ pc \in RenPc \cup RenLate /\ Remember /\ UNCHANGED disk
    BY DEF RenPrepare, At, RenPc, Clean
  <1>2. /\ Now = tree /\ Tree(tree) /\ Lower(Low) /\ Disk(ent[0], wh, opq) BY <1>1, InClean
  <1>3. /\ a.kind = "rename" /\ a.p \in Path /\ a.q \in Path /\ HasDir(tree, a.p) /\ HasDir(tree, a.q)
        /\ tree[a.p] \in Data \cup {Dir}
    BY <1>1, Renaming DEF IInv
  <1> DEFINE L == {"renMayDir", "renSrcDir", "renSrc", "renWhSrc"}
  <1>4. L \subseteq Clean \ (CpPc \cup {"addEntry"}) /\ L \subseteq PcsOf(a.kind)
    BY <1>3 DEF Clean, CpPc, PcsOf, RenPc
  <1> USE DEF AddLate, DelLate, RenLate, RenHere, RenGone, RenUndo
  <1>5. CASE pc = "renStart" /\ Works /\ Copyup(Parent(a.q), "renMayDir")
    <2>1. Parent(a.q) = <<>> \/ Upper(Parent(a.q)) # None => UpAt("renMayDir")
      BY <1>1, <1>3, ParentReady DEF UpAt
    <2>2. CheckedAt("renMayDir") BY DEF CheckedAt
    <2>3. CopyFor(Parent(a.q), "renMayDir") BY DEF CopyFor
    <2> QED BY <1>1, <1>3, <1>4, <1>5, <2>1, <2>2, <2>3, ParentReady, CopiesUp
  <1>6. CASE pc = "renMayDir" /\ Works /\ (IsDirRen => MayRenameDir) /\ Goto("renSrcDir") /\ UNCHANGED a
    <2>1. MaySucceed(tree, Op) /\ OwnKids BY <1>6, SrcDirOwn
    <2>2. CheckedAt("renSrcDir") BY <2>1 DEF CheckedAt
    <2>3. UpAt("renSrcDir") BY <1>6 DEF UpAt, UpOK, IInv
    <2> QED BY <1>1, <1>4, <1>6, <2>2, <2>3, GoesOn DEF Goto
  <1>7. CASE pc = "renMayDir" /\ Works /\ Goto("end") /\ Err("err") BY <1>1, <1>7, CleanErr
  <1>8. CASE pc = "renSrcDir" /\ Works /\ Copyup(Parent(a.p), "renSrc")
    <2>1. MaySucceed(tree, Op) /\ OwnKids BY <1>8 DEF IInv, CheckedOK, CheckedAt
    <2>2. HasDir(ent[0], a.q) BY <1>8 DEF IInv, UpOK, UpAt
    <2>3. Parent(a.p) = <<>> \/ Upper(Parent(a.p)) # None => UpAt("renSrc")
      BY <1>1, <1>3, <2>2, ParentReady DEF UpAt
    <2>4. CheckedAt("renSrc") BY <2>1 DEF CheckedAt
    <2>5. CopyFor(Parent(a.p), "renSrc") BY <2>1, <2>2 DEF CopyFor
    <2> QED BY <1>1, <1>3, <1>4, <1>8, <2>3, <2>4, <2>5, ParentReady, CopiesUp
  <1>9. CASE pc = "renSrc" /\ Works /\ Copyup(a.p, "renWhSrc")
    <2>1. MaySucceed(tree, Op) /\ OwnKids BY <1>9 DEF IInv, CheckedOK, CheckedAt
    <2>2. HasDir(ent[0], a.q) /\ HasDir(ent[0], a.p) BY <1>9 DEF IInv, UpOK, UpAt
    <2>3. a.p = <<>> \/ Upper(a.p) # None => UpAt("renWhSrc") BY <1>3, <2>2, Names DEF UpAt
    <2>4. CheckedAt("renWhSrc") BY <2>1 DEF CheckedAt
    <2>5. CopyFor(a.p, "renWhSrc") BY <2>1, <2>2 DEF CopyFor
    <2> QED BY <1>1, <1>3, <1>4, <1>9, <2>2, <2>3, <2>4, <2>5, CopiesUp
  <1> QED BY <1>5, <1>6, <1>7, <1>8, <1>9 DEF RenPrepare, At

(* A step from the hiding of the name on: what it leaves alone.            *)
RenOnly ==
  /\ pc \in RenLate \cup {"renWhSrc"} /\ pc' \in RenLate \cup {"end"} /\ SameOp /\ a'.then = a.then /\ NewDisk
  /\ \A n \in Path : n \notin Under(a.p) /\ n \notin Under(a.q) =>
       ent'[0][n] = ent[0][n] /\ (n \in wh' <=> n \in wh) /\ (n \in opq' <=> n \in opq)

(* It keeps all that does not depend on its phase.                         *)
LEMMA RenKeeps ==
  ASSUME IInv, RenOnly
  PROVE  /\ TypeOK' /\ OpOK' /\ DiskOK' /\ OutsideOK' /\ Low' = Low /\ Op' = Op
         /\ CleanOK' /\ UpOK' /\ CopyOK' /\ AddOK' /\ DelOK' /\ MaySucceed(tree, Op)'
         /\ (pc' \in RenHere => OwnKids') => CheckedOK'
  <1> USE DEF RenOnly
  <1>1. pc \in RenPc \cup RenLate BY DEF RenPc
  <1>2. /\ a.kind = "rename" /\ pc # "idle" /\ a.then \in PcsOf(a.kind) /\ a.p \in Path /\ a.q \in Path
        /\ a.p \notin Under(a.q) /\ a.q \notin Under(a.p)
    BY <1>1, Renaming DEF IInv
  <1>3. pc' \in PcsOf(a.kind) BY <1>2 DEF PcsOf
  <1>4. TypeOK' /\ OpOK' /\ DiskOK' /\ OutsideOK' /\ Low' = Low /\ Op' = Op
    BY <1>2, <1>3, Inside
  <1> USE DEF RenLate, RenHere, RenGone, RenUndo
  <1>5. CleanOK' /\ CopyOK' /\ AddOK' /\ DelOK'
    BY OtherPhases DEF CpPc, Clean, AddPc, DelPc, RenPc, WrPc, AddLate, DelLate
  <1>6. HasDir(ent[0], a.p) /\ HasDir(ent[0], a.q) BY <1>2 DEF IInv, UpOK, UpAt
  <1>7. HasDir(ent'[0], a.p) /\ HasDir(ent'[0], a.q)
    <2>1. Len(a.p) = 2 => Parent(a.p) \in Path /\ Parent(a.p) \notin Under(a.p) /\ Parent(a.p) \notin Under(a.q)
      BY <1>2, Names
    <2>2. Len(a.q) = 2 => Parent(a.q) \in Path /\ Parent(a.q) \notin Under(a.p) /\ Parent(a.q) \notin Under(a.q)
      BY <1>2, Names
    <2> QED BY <1>2, <1>6, <2>1, <2>2, Names DEF HasDir
  <1>8. UpOK' BY <1>7 DEF UpOK, UpAt, SameOp, AddLate, DelLate
  <1>9. MaySucceed(tree, Op) BY <1>2 DEF IInv, CheckedOK, CheckedAt
  <1>10. MaySucceed(tree, Op)' BY <1>4, <1>9 DEF SameOp
  <1>11. (pc' \in RenHere => OwnKids') => CheckedOK' BY <1>10 DEF CheckedOK, CheckedAt, DelLate
  <1> QED BY <1>4, <1>5, <1>8, <1>10, <1>11

(* What is left to show of such a step.                                    *)
LEMMA RenOn ==
  ASSUME IInv, RenOnly, RenOK', pc' \in RenHere => OwnKids', pc' \in RenLate => a'.tmp = a.tmp \/ TmpOK',
         pc' \in RenHere \cup RenGone => a'.err = "ok" /\ faults' = 0,
         pc' \in RenUndo => a'.err = "err" /\ faults' >= 1,
         pc' = "end" => a'.err = "err" \/ (a'.err = "ok" /\ faults' = 0),
         pc' = "end" => EndOK'
  PROVE  IInv'
  <1>1. /\ TypeOK' /\ OpOK' /\ DiskOK' /\ OutsideOK' /\ CleanOK' /\ UpOK' /\ CopyOK' /\ AddOK' /\ DelOK'
        /\ CheckedOK'
    BY RenKeeps
  <1>2. pc \in RenPc \cup RenLate BY DEF RenPc, RenOnly
  <1>3. a.kind = "rename" BY <1>2, Renaming DEF IInv
  <1>4. pc' \in RenLate \cup {"end"} /\ a'.kind = a.kind /\ a'.q = a.q BY DEF RenOnly, SameOp
  <1>5. pc' \notin Clean /\ pc' # "idle"
    BY <1>4 DEF RenLate, RenHere, RenGone, RenUndo, Clean, CpPc, WrPc, AddPc, DelPc, RenPc
  <1>6. ErrOK' BY <1>3, <1>4 DEF ErrOK, RenLate, RenHere, RenGone, RenUndo
  <1>7. TmpOK'
    <2>1. pc = "renWhSrc" => a.tmp = {} BY DEF IInv, TmpOK, Clean, RenPc
    <2>2. pc \in RenLate => \A s \in a.tmp : WasThere(s, a.q) BY DEF IInv, TmpOK
    <2>3. pc \in RenLate \cup {"renWhSrc"} BY DEF RenOnly
    <2> QED BY <1>4, <1>5, <2>1, <2>2, <2>3 DEF TmpOK
  <1>8. EndOK' BY DEF EndOK
  <1> QED BY <1>1, <1>6, <1>7, <1>8 DEF IInv

(* From the hiding of the name on.                                         *)
LEMMA InRenLate ==
  ASSUME IInv, pc \in RenLate \cup {"renWhSrc"}
  PROVE  /\ a \in Args /\ faults \in Nat /\ a.then \in PcsOf(a.kind) /\ pc # "idle" /\ a.kind = "rename"
         /\ Lower(Low) /\ Disk(ent[0], wh, opq) /\ wh \in SUBSET Path /\ opq \in SUBSET Path
         /\ ent \in [Branch -> [Path -> Stored]] /\ 0 \in Branch /\ ent[0] \in [Path -> Stored]
         /\ HasDir(ent[0], a.p) /\ HasDir(ent[0], a.q) /\ MaySucceed(tree, Op)
         /\ pc \notin RenUndo => a.err = "ok" /\ faults = 0
         /\ pc \in RenUndo => a.err = "err" /\ faults >= 1
         /\ pc \in RenHere \cup {"renWhSrc"} => OwnKids
  <1>1. pc \in RenPc \cup RenLate /\ pc # "end" BY DEF RenPc, RenLate, RenHere, RenGone, RenUndo
  <1>2. a \in Args /\ a.then \in PcsOf(a.kind) /\ pc # "idle" /\ a.kind = "rename" BY <1>1, Renaming DEF IInv
  <1>3. faults \in Nat /\ Lower(Low) /\ wh \in SUBSET Path /\ opq \in SUBSET Path /\ ent \in [Branch -> [Path -> Stored]]
    BY LowIsLower DEF IInv, TypeOK, Low
  <1>4. 0 \in Branch BY NRoAssumption DEF Branch
  <1>5. HasDir(ent[0], a.p) /\ HasDir(ent[0], a.q) BY <1>2 DEF IInv, UpOK, UpAt
  <1>6. MaySucceed(tree, Op) /\ (pc \in RenHere \cup {"renWhSrc"} => OwnKids)
    BY <1>2 DEF IInv, CheckedOK, CheckedAt
  <1>7. ErrOK BY DEF IInv
  <1>8. pc \notin RenUndo => a.err = "ok" /\ faults = 0
    BY <1>7 DEF ErrOK, RenLate, RenHere, RenGone, RenUndo
  <1>9. pc \in RenUndo => a.err = "err" /\ faults >= 1
    BY <1>1, <1>2, <1>7 DEF ErrOK
  <1>10. Disk(ent[0], wh, opq) BY DEF IInv, DiskOK
  <1>11. ent[0] \in [Path -> Stored] BY <1>3, <1>4
  <1> QED BY <1>2, <1>3, <1>4, <1>5, <1>6, <1>8, <1>9, <1>10, <1>11

(* The old name is hidden, if there is need.                               *)
LEMMA RenWhSrcStep ==
  ASSUME IInv, RenWhSrc
  PROVE  IInv'
  <1>1. /\ pc = "renWhSrc" /\ pc \in Clean /\ pc # "cpUndo" /\ pc \in RenLate \cup {"renWhSrc"}
        /\ pc \in RenPc \cup RenLate /\ pc \notin RenUndo /\ Remember
    BY DEF RenWhSrc, At, RenPc, Clean, RenUndo
  <1>2. Now = tree /\ a.tmp = {} BY <1>1, InClean
  <1>3. /\ a.p \in Path /\ a.q \in Path /\ a.p # a.q /\ a.p \notin Under(a.q) /\ a.q \notin Under(a.p)
        /\ HasDir(tree, a.p) /\ HasDir(tree, a.q)
        /\ tree[a.p] \notin {None, Stuck} /\ tree[a.q] # Stuck
    BY <1>1, Renaming DEF IInv
  <1>4. /\ a \in Args /\ a.then \in PcsOf(a.kind) /\ Lower(Low) /\ Disk(ent[0], wh, opq) /\ a.err = "ok" /\ faults = 0
        /\ HasDir(ent[0], a.p) /\ OwnKids /\ ent \in [Branch -> [Path -> Stored]]
    BY <1>1, InRenLate
  <1>5. CASE Fails /\ Goto("end") /\ Err("err") BY <1>1, <1>5, CleanErr DEF Fails
  <1>6. CASE /\ Works /\ UNCHANGED <<ent, opq>> /\ Goto("renLkupWh")
             /\ wh' = wh \cup (IF NeedWh(a.p) THEN {a.p} ELSE {})
             /\ a' = [a EXCEPT !.wh = NeedWh(a.p)]
    <2>1. ent' = ent /\ opq' = opq /\ pc' = "renLkupWh" /\ faults' = 0 /\ tree' = tree /\ res' = res
      BY <1>1, <1>4, <1>6 DEF Goto, Works, Remember
    <2>2. /\ a' \in Args /\ a'.kind = a.kind /\ a'.p = a.p /\ a'.q = a.q /\ a'.v = a.v /\ a'.then = a.then
          /\ a'.err = a.err /\ a'.tmp = a.tmp /\ (a'.wh <=> NeedWh(a.p))
      <3>1. CASE NeedWh(a.p)
        <4>1. NeedWh(a.p) = TRUE BY <3>1
        <4>2. a' = [a EXCEPT !.wh = TRUE] BY <1>6, <4>1, Zenon
        <4> QED BY <1>4, <4>1, <4>2 DEF Args
      <3>2. CASE ~NeedWh(a.p)
        <4>1. NeedWh(a.p) = FALSE BY <3>2
        <4>2. a' = [a EXCEPT !.wh = FALSE] BY <1>6, <4>1, Zenon
        <4> QED BY <1>4, <4>1, <4>2 DEF Args
      <3> QED BY <3>1, <3>2
    <2>3. SameOp BY <1>4, <2>1, <2>2 DEF SameOp
    <2>4. Disk(ent'[0], wh', opq') BY <1>3, <1>4, <1>6, <2>1 DEF Disk
    <2>5. NewDisk BY <1>4, <2>1, <2>4 DEF NewDisk
    <2>6. \A n \in Path : n \notin Under(a.p) => (n \in wh' <=> n \in wh) BY <1>3, <1>6, Names
    <2>7. RenOnly BY <1>1, <2>1, <2>2, <2>3, <2>5, <2>6 DEF RenOnly, RenLate, RenHere
    <2>8. Low' = Low BY <2>7, RenKeeps
    <2>9. a.p \notin wh /\ Upper(a.p) = tree[a.p]
      <3>1. Upper(a.p) # None BY <1>1 DEF IInv, UpOK, UpAt
      <3>2. Union(ent[0], wh, opq, Low) = tree BY <1>2 DEF Now, Shows
      <3> QED BY <1>3, <1>4, <3>1, <3>2, OnUpper DEF Upper
    <2>10. SrcHidden'
      <3>1. a.p \in wh' <=> a'.wh BY <1>6, <2>2, <2>9
      <3>2. Covered(wh', opq, Low, a.p)
        <4>1. CASE NeedWh(a.p) BY <1>6, <4>1 DEF Covered
        <4>2. CASE ~NeedWh(a.p)
          <5>1. HasDir(Now, a.p) BY <1>2, <1>3
          <5>2. Covered(wh, opq, Low, a.p) BY <1>3, <4>2, <5>1, NeedWhIs DEF IInv
          <5> QED BY <1>6, <5>2 DEF Covered
        <4> QED BY <4>1, <4>2
      <3> QED BY <2>1, <2>2, <2>8, <3>1, <3>2 DEF SrcHidden
    <2>11. tree[a.q] # None => a.q \notin wh'
      <3>1. Union(ent[0], wh, opq, Low) = tree BY <1>2 DEF Now, Shows
      <3>2. tree[a.q] # None => a.q \notin wh BY <1>3, <1>4, <3>1, OnUpper
      <3> QED BY <1>3, <1>6, <3>2
    <2>12. tree[a.q] = None => Upper(a.q) = None /\ Covered(wh', opq, Low, a.q)
      <3>1. Union(ent[0], wh, opq, Low) = tree BY <1>2 DEF Now, Shows
      <3>2. tree[a.q] = None => ent[0][a.q] = None /\ Covered(wh, opq, Low, a.q) BY <1>3, <1>4, <3>1, NotShown
      <3> QED BY <1>6, <3>2 DEF Covered, Upper
    <2>13. Shows(wh \ {a.p}, opq)' = tree
      <3>1. wh' \ {a.p} = wh BY <1>6, <2>9
      <3>2. Shows(wh \ {a.p}, opq)' = Union(ent[0], wh, opq, Low) BY <2>1, <2>2, <2>8, <3>1 DEF Shows
      <3> QED BY <1>2, <3>2 DEF Now, Shows
    <2>14. HereOK'
      <3>1. Upper(a.p)' = tree'[a'.p] BY <2>1, <2>2, <2>9 DEF Upper
      <3>2. (tree[a.q] = None)' => Upper(a.q)' = None /\ Covered(wh, opq, Low, a.q)'
        BY <2>1, <2>2, <2>8, <2>12 DEF Upper
      <3> QED BY <1>2, <2>1, <2>2, <2>10, <2>11, <2>13, <3>1, <3>2 DEF HereOK
    <2>15. RenOK' BY <2>1, <2>14 DEF RenOK, RenHere, RenGone, RenUndo
    <2>16. OwnKids'
      <3>1. \A k \in Below(a.p) : k \in wh' <=> k \in wh BY <1>3, <1>6, Names
      <3> QED BY <1>4, <2>1, <2>2, <3>1 DEF OwnKids, IsDirRen, Own
    <2>17. pc' \notin RenUndo /\ pc' # "end" BY <2>1 DEF RenUndo
    <2> QED BY <1>4, <2>1, <2>2, <2>7, <2>15, <2>16, <2>17, RenOn
  <1> QED BY <1>5, <1>6 DEF RenWhSrc

(* A step before the move that goes on with the names as they are.         *)
LEMMA RenHereOn ==
  ASSUME IInv, pc \in RenHere, UNCHANGED disk, Remember, Works, a' \in Args,
         a'.kind = a.kind, a'.p = a.p, a'.q = a.q, a'.v = a.v, a'.then = a.then, a'.wh = a.wh,
         a'.tmp = a.tmp, a'.err = a.err, pc' \in {"renWhtmp", "renMove"}, a'.dwh <=> a.q \in wh,
         pc' = "renWhtmp" => tree[a.q] = Dir
  PROVE  IInv'
  <1>1. pc \in RenLate \cup {"renWhSrc"} /\ pc \notin RenUndo /\ pc' \in RenHere
    BY DEF RenLate, RenHere, RenUndo
  <1>2. ent' = ent /\ wh' = wh /\ opq' = opq /\ faults' = faults /\ tree' = tree /\ res' = res
    BY DEF disk, Works, Remember
  <1>3. /\ ent \in [Branch -> [Path -> Stored]] /\ Disk(ent[0], wh, opq) /\ a.err = "ok" /\ faults = 0 /\ OwnKids
    BY <1>1, InRenLate
  <1>4. SameOp BY <1>2, <1>3 DEF SameOp
  <1>5. NewDisk BY <1>2, <1>3 DEF NewDisk
  <1>6. RenOnly BY <1>1, <1>2, <1>4, <1>5 DEF RenOnly, RenLate
  <1>7. Low' = Low BY <1>6, RenKeeps
  <1>8. HereOK BY DEF IInv, RenOK
  <1>9. HereOK'
    <2>1. SrcHidden' BY <1>2, <1>7, <1>8 DEF HereOK, SrcHidden
    <2>2. Shows(wh \ {a.p}, opq)' = Shows(wh \ {a.p}, opq) BY <1>2, <1>7 DEF Shows
    <2>3. Upper(a.p)' = Upper(a.p) /\ Upper(a.q)' = Upper(a.q) BY <1>2 DEF Upper
    <2> QED BY <1>2, <1>7, <1>8, <2>1, <2>2, <2>3 DEF HereOK
  <1>10. RenOK' BY <1>2, <1>9 DEF RenOK, RenHere, RenGone, RenUndo
  <1>11. OwnKids' BY <1>2, <1>3 DEF OwnKids, IsDirRen
  <1>12. pc' \notin RenUndo /\ pc' # "end" BY DEF RenUndo
  <1> QED BY <1>1, <1>2, <1>3, <1>6, <1>10, <1>11, <1>12, RenOn

(* A step before the move that fails.                                      *)
LEMMA RenHereErr ==
  ASSUME IInv, pc \in RenHere, Remember, Fails, Err("err"), pc' \in {"renRevWhtmp", "renRevWhSrc"}
  PROVE  IInv'
  <1>1. pc \in RenLate \cup {"renWhSrc"} /\ pc \notin RenUndo BY DEF RenLate, RenHere, RenUndo
  <1>2. /\ ent \in [Branch -> [Path -> Stored]] /\ Disk(ent[0], wh, opq) /\ faults = 0 /\ a \in Args
    BY <1>1, InRenLate
  <1>3. ent' = ent /\ wh' = wh /\ opq' = opq /\ faults' = 1 /\ tree' = tree /\ res' = res
    BY <1>2 DEF disk, Fails, Remember
  <1>4. /\ a' \in Args /\ a'.err = "err" /\ a'.kind = a.kind /\ a'.p = a.p /\ a'.q = a.q /\ a'.v = a.v
        /\ a'.then = a.then /\ a'.wh = a.wh /\ a'.tmp = a.tmp
    BY <1>2, Erring DEF Error
  <1>5. SameOp BY <1>3, <1>4 DEF SameOp
  <1>6. NewDisk BY <1>2, <1>3 DEF NewDisk
  <1>7. RenOnly BY <1>1, <1>3, <1>4, <1>5, <1>6 DEF RenOnly, RenLate, RenUndo
  <1>8. Low' = Low BY <1>7, RenKeeps
  <1>9. HereOK BY DEF IInv, RenOK
  <1>10. RenOK'
    <2>1. Shows(wh \ {a.p}, opq)' = Shows(wh \ {a.p}, opq) BY <1>3, <1>4, <1>8 DEF Shows
    <2> QED BY <1>3, <1>4, <1>9, <2>1 DEF RenOK, HereOK, SrcHidden, RenHere, RenGone, RenUndo
  <1>11. pc' \notin RenHere \cup RenGone /\ pc' # "end" BY DEF RenHere, RenGone
  <1> QED BY <1>3, <1>4, <1>7, <1>10, <1>11, RenOn

(* The whiteout of the new name is looked up.                              *)
LEMMA RenLkupWhStep ==
  ASSUME IInv, RenLkupWh
  PROVE  IInv'
  <1>1. pc = "renLkupWh" /\ pc \in RenHere /\ Remember /\ UNCHANGED disk BY DEF RenLkupWh, At, RenHere
  <1>2. a \in Args BY <1>1, InRenLate DEF RenLate
  <1>3. CASE Works /\ a' = [a EXCEPT !.dwh = a.q \in wh] /\ Goto(IF DstDirUp THEN "renWhtmp" ELSE "renMove")
    <2>1. /\ a' \in Args /\ a'.kind = a.kind /\ a'.p = a.p /\ a'.q = a.q /\ a'.v = a.v /\ a'.then = a.then
          /\ a'.wh = a.wh /\ a'.tmp = a.tmp /\ a'.err = a.err /\ (a'.dwh <=> a.q \in wh)
      <3>1. CASE a.q \in wh
        <4>1. (a.q \in wh) = TRUE BY <3>1
        <4>2. a' = [a EXCEPT !.dwh = TRUE] BY <1>3, <4>1, Zenon
        <4> QED BY <1>2, <4>1, <4>2 DEF Args
      <3>2. CASE a.q \notin wh
        <4>1. (a.q \in wh) = FALSE BY <3>2
        <4>2. a' = [a EXCEPT !.dwh = FALSE] BY <1>3, <4>1, Zenon
        <4> QED BY <1>2, <4>1, <4>2 DEF Args
      <3> QED BY <3>1, <3>2
    <2>2. pc' \in {"renWhtmp", "renMove"} /\ (pc' = "renWhtmp" => tree[a.q] = Dir)
      BY <1>3 DEF Goto, DstDirUp
    <2> QED BY <1>1, <1>3, <2>1, <2>2, RenHereOn
  <1>4. CASE Fails /\ Goto("renRevWhSrc") /\ Err("err") BY <1>1, <1>4, RenHereErr DEF Goto
  <1> QED BY <1>3, <1>4 DEF RenLkupWh

(* The directory that is replaced is put aside.                            *)
LEMMA RenWhtmpStep ==
  ASSUME IInv, RenWhtmp
  PROVE  IInv'
  <1>1. pc \in {"renWhtmp", "renLkupNeg"} /\ pc \in RenHere /\ Remember BY DEF RenWhtmp, At, RenHere
  <1>2. pc \in RenLate \cup {"renWhSrc"} /\ pc \notin RenUndo /\ pc \in RenPc \cup RenLate
    BY <1>1 DEF RenLate, RenUndo
  <1>3. /\ a \in Args /\ ent \in [Branch -> [Path -> Stored]] /\ 0 \in Branch /\ ent[0] \in [Path -> Stored]
        /\ Disk(ent[0], wh, opq) /\ a.err = "ok" /\ faults = 0 /\ OwnKids
        /\ wh \in SUBSET Path /\ opq \in SUBSET Path
    BY <1>1, <1>2, InRenLate
  <1>4. /\ a.p \in Path /\ a.q \in Path /\ a.p # a.q /\ a.p \notin Under(a.q) /\ a.q \notin Under(a.p)
    BY <1>2, Renaming DEF IInv
  <1>5. HereOK /\ tree[a.q] = Dir /\ (a.dwh <=> a.q \in wh) BY <1>1 DEF IInv, RenOK
  <1>6. CASE pc = "renLkupNeg" /\ UNCHANGED disk /\ Works /\ Goto("renMove") /\ UNCHANGED a
    BY <1>1, <1>3, <1>5, <1>6, RenHereOn DEF Goto
  <1>7. CASE pc = "renLkupNeg" /\ Fails /\ Goto("renRevWhtmp") /\ Err("err")
    BY <1>1, <1>7, RenHereErr DEF Goto
  <1>8. CASE pc = "renWhtmp" /\ Fails /\ Goto("renRevWhSrc") /\ Err("err")
    BY <1>1, <1>8, RenHereErr DEF Goto
  <1> DEFINE s == [ent |-> [m \in Under(a.q) |-> Upper(m)], wh |-> wh \cap Below(a.q), opq |-> opq \cap Under(a.q)]
  <1>9. CASE pc = "renWhtmp" /\ Works /\ Discard(a.q) /\ Goto("renLkupNeg") /\ a' = [a EXCEPT !.tmp = {s}]
    <2>1. Under(a.q) \subseteq Path /\ Below(a.q) \subseteq Under(a.q) /\ a.q \in Under(a.q) BY <1>4, Names
    <2>2. WasThere(s, a.q)
      <3>1. s.ent \in [Under(a.q) -> Stored] BY <1>3, <2>1 DEF Upper
      <3>2. \A n \in Under(a.q) : s.ent[n] = ent[0][n] BY DEF Upper
      <3>3. s.wh \subseteq Below(a.q) /\ s.wh \subseteq wh /\ s.opq \subseteq Under(a.q) /\ s.opq \subseteq opq OBVIOUS
      <3> HIDE DEF s
      <3>4. \A k \in Below(a.q) : s.ent[k] # None \/ k \in s.wh => s.ent[a.q] = Dir
        <4> SUFFICES ASSUME NEW k \in Below(a.q), s.ent[k] # None \/ k \in s.wh PROVE s.ent[a.q] = Dir OBVIOUS
        <4>1. k \in Path /\ Len(k) = 2 /\ Parent(k) = a.q BY <1>4, Names
        <4>2. ent[0][k] # None \/ k \in wh BY <2>1, <3>2, <3>3
        <4>3. HasDir(ent[0], k) BY <1>3, <4>1, <4>2 DEF Disk
        <4> QED BY <2>1, <3>2, <4>1, <4>3 DEF HasDir
      <3>5. \A n \in s.opq : s.ent[n] = Dir BY <1>3, <3>2, <3>3 DEF Disk
      <3> QED BY <3>1, <3>3, <3>4, <3>5 DEF WasThere
    <2>3. s \in Aside
      <3>1. s.ent \in [Under(a.q) -> Stored] BY <2>2 DEF WasThere
      <3>2. s.ent \in UNION {[Under(n) -> Stored] : n \in Path} BY <1>4, <3>1
      <3> QED BY <1>3, <3>2 DEF Aside
    <2> HIDE DEF s
    <2>4. /\ a' \in Args /\ a'.kind = a.kind /\ a'.p = a.p /\ a'.q = a.q /\ a'.v = a.v /\ a'.then = a.then
          /\ a'.wh = a.wh /\ a'.dwh = a.dwh /\ a'.tmp = {s} /\ a'.err = a.err
      BY <1>3, <1>9, <2>3 DEF Args
    <2> DEFINE u2 == [n \in Path |-> IF n \in Under(a.q) THEN None ELSE ent[0][n]]
    <2>5. /\ ent' = [ent EXCEPT ![0] = [m \in Path |-> IF m \in Under(a.q) THEN None ELSE @[m]]]
          /\ wh' = wh \ Below(a.q) /\ opq' = opq \ Under(a.q)
      BY <1>9 DEF Discard
    <2>6. ent' = [ent EXCEPT ![0] = u2] BY <1>3, <2>5
    <2>7. Disk(u2, wh \ Below(a.q), opq \ Under(a.q)) BY <1>3, <1>4, Discarded
    <2>8. \A n \in Path : n \notin Under(a.q) => u2[n] = ent[0][n] OBVIOUS
    <2> HIDE DEF u2
    <2>9. u2 \in [Path -> Stored] BY <2>7 DEF Disk
    <2>10. /\ ent' \in [Branch -> [Path -> Stored]] /\ ent'[0] = u2 /\ \A b \in Branch \ {0} : ent'[b] = ent[b]
      BY <1>3, <2>6, <2>9
    <2>11. faults' = 0 /\ tree' = tree /\ res' = res /\ pc' = "renLkupNeg"
      BY <1>1, <1>3, <1>9 DEF Works, Remember, Goto
    <2>12. SameOp BY <2>4, <2>11 DEF SameOp
    <2>13. NewDisk BY <2>5, <2>7, <2>10 DEF NewDisk
    <2>14. RenOnly BY <1>2, <2>1, <2>4, <2>5, <2>8, <2>10, <2>11, <2>12, <2>13 DEF RenOnly, RenLate, RenHere
    <2>15. Low' = Low BY <2>14, RenKeeps
    <2>16. a.p \notin Below(a.q) BY <1>4, Names
    <2>17. SrcHidden'
      <3>1. a.p \in wh' <=> a.p \in wh BY <2>5, <2>16
      <3>2. Parent(a.p) \in opq => Parent(a.p) \in opq'
        <4>1. Parent(a.p) \in opq => Len(a.p) = 2 BY <1>3, <1>4, Names
        <4>2. Len(a.p) = 2 => Parent(a.p) \notin Under(a.q) BY <1>4, Names
        <4> QED BY <2>5, <4>1, <4>2
      <3> QED BY <1>5, <2>4, <2>15, <3>1, <3>2 DEF HereOK, SrcHidden, Covered
    <2>18. a.q \notin Below(a.q) BY <1>4, Names
    <2>19. HereOK'
      <3>1. ent'[0][a.p] = ent[0][a.p] BY <1>4, <2>8, <2>10
      <3>2. a.q \notin wh' BY <1>5, <2>5, <2>18, DataAssumption DEF HereOK, None, Dir
      <3> QED BY <1>5, <2>4, <2>11, <2>17, <3>1, <3>2 DEF HereOK, Upper, None, Dir
    <2>20. RenOK' BY <1>5, <2>4, <2>5, <2>11, <2>18, <2>19 DEF RenOK, RenHere, RenGone, RenUndo
    <2>21. OwnKids'
      <3>1. \A k \in Below(a.p) : k \in Path /\ k \notin Under(a.q) /\ k \notin Below(a.q) BY <1>4, Names
      <3>2. \A k \in Below(a.p) : Own(ent'[0], wh', k) = Own(ent[0], wh, k) BY <2>5, <2>8, <2>10, <3>1 DEF Own
      <3> QED BY <1>3, <2>4, <2>11, <3>2 DEF OwnKids, IsDirRen
    <2>22. TmpOK' BY <2>2, <2>4, <2>11 DEF TmpOK, Clean, CpPc, WrPc, AddPc, DelPc, RenPc
    <2>23. pc' \notin RenUndo /\ pc' # "end" BY <2>11 DEF RenUndo
    <2> QED BY <1>3, <2>4, <2>11, <2>14, <2>20, <2>21, <2>22, <2>23, RenOn
  <1> QED BY <1>1, <1>6, <1>7, <1>8, <1>9 DEF RenWhtmp, At

(* After the move it can be told what of the names is where.               *)
LEMMA MoveDone ==
  ASSUME IInv, pc = "renMove", MoveUpper(a.p, a.q), SameOp, a'.tmp = a.tmp, a'.wh = a.wh, a'.dwh = a.dwh,
         a'.opq => IsDirRen /\ a.p \notin opq, Low' = Low
  PROVE  GoneOK' /\ (a.p \notin opq => a.q \notin opq') /\ (a.p \in opq => a.q \in opq')
  <1>1. pc \in RenHere /\ pc \in RenLate \cup {"renWhSrc"} /\ pc \in RenPc \cup RenLate
    BY DEF RenHere, RenLate
  <1>2. /\ ent \in [Branch -> [Path -> Stored]] /\ 0 \in Branch /\ ent[0] \in [Path -> Stored]
        /\ Disk(ent[0], wh, opq) /\ OwnKids /\ wh \in SUBSET Path /\ opq \in SUBSET Path
    BY <1>1, InRenLate
  <1>3. /\ a.p \in Path /\ a.q \in Path /\ a.p # a.q /\ a.p \notin Under(a.q) /\ a.q \notin Under(a.p) /\ Tree(tree)
        /\ (IsDirRen => Len(a.q) <= Len(a.p)) /\ tree[a.p] \notin {None, Stuck}
    BY <1>1, Renaming DEF IInv
  <1>4. HereOK /\ (a.dwh <=> a.q \in wh) BY DEF IInv, RenOK, RenHere
  <1> DEFINE u2 == Moved(ent[0], a.p, a.q)
             w2 == MovedWh(wh, a.p, a.q)
             o2 == MovedOpq(opq, a.p, a.q)
  <1>5. ent'[0] = u2 /\ wh' = w2 /\ opq' = o2
    BY <1>2 DEF MoveUpper, MovedWh, MovedOpq
  <1>6. EntMoved(u2, ent[0], a.p, a.q) /\ WhMoved(w2, wh, a.p, a.q) /\ OpqMoved(o2, opq, a.p, a.q)
    BY <1>2, <1>3, MovedIs, MarksMoved
  <1> DEFINE M == Moved(tree, a.p, a.q)
  <1>7. EntMoved(M, tree, a.p, a.q) BY <1>3, MovedIs
  <1>8. IF ent[0][a.q] = None
        THEN /\ Moved(u2, a.q, a.p) = ent[0] /\ MovedWh(w2, a.q, a.p) = wh /\ MovedOpq(o2, a.q, a.p) = opq
        ELSE TRUE
    <2>1. ent[0][a.p] = Dir => Len(a.q) <= Len(a.p) BY <1>3, <1>4 DEF HereOK, Upper, IsDirRen
    <2> QED BY <1>2, <1>3, <2>1, MovedBack
  <1> HIDE DEF u2, w2, o2, M
  <1>9. a'.p = a.p /\ a'.q = a.q /\ tree' = tree BY DEF SameOp
  <1>10. SrcHidden'
    <2>1. a.p \notin Below(a.p) /\ a.p \notin Below(a.q) BY <1>3, Names
    <2>2. a.p \in w2 <=> a.p \in wh BY <1>3, <1>6, <2>1 DEF WhMoved
    <2>3. Parent(a.p) \in opq => Parent(a.p) \in o2
      <3>1. Parent(a.p) \in opq => Parent(a.p) \in Path /\ Len(a.p) = 2 BY <1>2, <1>3, Names
      <3>2. Len(a.p) = 2 => Parent(a.p) \notin Under(a.p) /\ Parent(a.p) \notin Under(a.q) BY <1>3, Names
      <3> QED BY <1>6, <3>1, <3>2 DEF OpqMoved
    <2> QED BY <1>4, <1>5, <1>9, <2>2, <2>3 DEF HereOK, SrcHidden, Covered
  <1>11. ent'[0][a.p] = None /\ ent'[0][a.q] = tree[a.p]
    <2>1. a.p \in Under(a.p) BY <1>3, Names
    <2> QED BY <1>4, <1>5, <1>6, <2>1 DEF EntMoved, HereOK, Upper
  <1>12. \A k \in Below(a.q) : Own(u2, w2, k) = M[k]
    <2> TAKE k \in Below(a.q)
    <2>1. CASE Len(a.p) = 1
      <3> DEFINE j == Rebase(k, a.q, a.p)
      <3>1. j \in Below(a.p) BY <1>3, <2>1, Rebased
      <3>2. u2[k] = ent[0][j] /\ (k \in w2 <=> j \in wh) /\ M[k] = tree[j]
        BY <1>6, <1>7, <2>1 DEF EntMoved, WhMoved
      <3> HIDE DEF j
      <3>3. j \in Path /\ Len(j) = 2 /\ Parent(j) = a.p BY <1>3, <3>1, Names
      <3>4. Own(ent[0], wh, j) = tree[j]
        <4>1. CASE IsDirRen BY <1>2, <3>1, <4>1 DEF OwnKids
        <4>2. CASE ~IsDirRen
          <5>1. ~HasDir(tree, j) /\ ~HasDir(ent[0], j)
            BY <1>4, <3>3, <4>2 DEF HasDir, IsDirRen, HereOK, Upper
          <5> QED BY <1>2, <1>3, <3>3, <5>1 DEF Tree, Disk, Own
        <4> QED BY <4>1, <4>2
      <3> QED BY <3>2, <3>4 DEF Own
    <2>2. CASE Len(a.p) = 2 BY <1>6, <1>7, <2>2 DEF EntMoved, WhMoved, Own
    <2> QED BY <1>3, <2>1, <2>2, Names
  <1>13. a.q \in w2 <=> a.q \in wh
    <2>1. a.q \notin Below(a.p) /\ a.q \notin Below(a.q) BY <1>3, Names
    <2> QED BY <1>3, <1>6, <2>1 DEF WhMoved
  <1>14. a.q \in o2 <=> a.p \in opq BY <1>6 DEF OpqMoved
  <1>15. tree[a.q] = None =>
           Union(Moved(u2, a.q, a.p), MovedWh(w2, a.q, a.p) \ {a.p}, BackOpq', Low) = tree
    <2> SUFFICES ASSUME tree[a.q] = None
                 PROVE  Union(Moved(u2, a.q, a.p), MovedWh(w2, a.q, a.p) \ {a.p}, BackOpq', Low) = tree
      OBVIOUS
    <2>1. ent[0][a.q] = None /\ Shows(wh \ {a.p}, opq) = tree BY <1>4 DEF HereOK, Upper, None, Dir
    <2>2. BackOpq' = opq
      <3>1. BackOpq' = MovedOpq(IF a'.opq THEN o2 \ {a.q} ELSE o2, a.q, a.p) BY <1>5, <1>9 DEF BackOpq
      <3>2. a'.opq => o2 \ {a.q} = o2 BY <1>14
      <3>3. BackOpq' = MovedOpq(o2, a.q, a.p) BY <3>1, <3>2
      <3> QED BY <1>8, <2>1, <3>3
    <2> QED BY <1>8, <2>1, <2>2 DEF Shows
  <1>16. GoneOK'
    <2>1. (Upper(a.p) = None)' /\ (Upper(a.q) = tree[a.p])' BY <1>9, <1>11 DEF Upper
    <2>2. (\A k \in Below(a.q) : Own(ent[0], wh, k) = Moved(tree, a.p, a.q)[k])'
      BY <1>5, <1>9, <1>12 DEF M
    <2>3. (a.dwh <=> a.q \in wh)' BY <1>4, <1>5, <1>9, <1>13
    <2>4. (tree[a.q] # None => ~a.dwh)' BY <1>4, <1>9 DEF HereOK
    <2>5. (tree[a.q] # Dir => a.tmp = {})' BY <1>4, <1>9 DEF HereOK
    <2>6. (tree[a.q] = None /\ a.dwh =>
             Union(Moved(ent[0], a.q, a.p), MovedWh(wh, a.q, a.p) \ {a.p}, BackOpq, Low) = tree)'
      BY <1>5, <1>9, <1>15
    <2> QED BY <1>10, <2>1, <2>2, <2>3, <2>4, <2>5, <2>6 DEF GoneOK
  <1> QED BY <1>5, <1>14, <1>16

(* A name that has been moved without being made opaque shows nothing that *)
(* was not there.                                                          *)
LEMMA NoNeedOpq ==
  ASSUME IInv, pc = "renMove", IsDirRen, ~DirOpq, a.p \notin opq, NEW k \in Below(a.q)
  PROVE  Low[k] = None
  <1>1. pc \in RenHere /\ pc \in RenPc \cup RenLate /\ pc \in RenLate \cup {"renWhSrc"} BY DEF RenHere, RenLate
  <1>2. a.p \in Path /\ a.q \in Path /\ tree[a.q] \in {Dir, None} BY <1>1, Renaming DEF IInv
  <1>3. HereOK /\ (a.dwh <=> a.q \in wh) BY DEF IInv, RenOK, RenHere
  <1>4. Lower(Low) /\ opq \in SUBSET Path BY <1>1, InRenLate
  <1>5. ~a.dwh BY DEF DirOpq
  <1>6. CASE tree[a.q] = Dir
    <2>1. ~\E b \in ParentBranches(a.q) \ {0} : ent[b][a.q] = Dir BY <1>6 DEF DirOpq
    <2> QED BY <1>2, <2>1, LowDirs DEF IInv
  <1>7. CASE tree[a.q] = None
    <2>1. a.q \notin wh /\ Covered(wh, opq, Low, a.q) BY <1>3, <1>5, <1>7 DEF HereOK
    <2>2. k \in Path /\ Len(k) = 2 /\ Parent(k) = a.q /\ Len(a.q) = 1 BY <1>2, Names
    <2>3. Parent(a.q) \notin opq BY <1>2, <1>4, <2>2, Names
    <2>4. Low[a.q] = None BY <2>1, <2>3 DEF Covered
    <2> QED BY <1>2, <1>4, <2>4 DEF Lower
  <1> QED BY <1>2, <1>6, <1>7

(* The move.                                                               *)
LEMMA RenMoveStep ==
  ASSUME IInv, RenMove
  PROVE  IInv'
  <1>1. pc = "renMove" /\ pc \in RenHere /\ Remember BY DEF RenMove, At, RenHere
  <1>2. pc \in RenLate \cup {"renWhSrc"} /\ pc \notin RenUndo /\ pc \in RenPc \cup RenLate
    BY <1>1 DEF RenLate, RenUndo
  <1>3. /\ a \in Args /\ ent \in [Branch -> [Path -> Stored]] /\ 0 \in Branch /\ ent[0] \in [Path -> Stored]
        /\ Disk(ent[0], wh, opq) /\ a.err = "ok" /\ faults = 0 /\ HasDir(ent[0], a.q)
        /\ wh \in SUBSET Path /\ opq \in SUBSET Path
    BY <1>2, InRenLate
  <1>4. a.p \in Path /\ a.q \in Path /\ a.p \notin Under(a.q) /\ a.q \notin Under(a.p)
    BY <1>2, Renaming DEF IInv
  <1>5. CASE Fails /\ Goto("renRevWhtmp") /\ Err("err") BY <1>1, <1>5, RenHereErr DEF Goto
  <1>6. CASE /\ Works /\ MoveUpper(a.p, a.q) /\ a' = [a EXCEPT !.opq = DirOpq]
             /\ Goto(IF DirOpq THEN "renOpq" ELSE "renUnlinkWh")
    <2>1. /\ a' \in Args /\ a'.kind = a.kind /\ a'.p = a.p /\ a'.q = a.q /\ a'.v = a.v /\ a'.then = a.then
          /\ a'.wh = a.wh /\ a'.dwh = a.dwh /\ a'.tmp = a.tmp /\ a'.err = a.err /\ (a'.opq <=> DirOpq)
      <3>1. CASE DirOpq
        <4>1. DirOpq = TRUE BY <3>1
        <4>2. a' = [a EXCEPT !.opq = TRUE] BY <1>6, <4>1, Zenon
        <4> QED BY <1>3, <4>1, <4>2 DEF Args
      <3>2. CASE ~DirOpq
        <4>1. DirOpq = FALSE BY <3>2
        <4>2. a' = [a EXCEPT !.opq = FALSE] BY <1>6, <4>1, Zenon
        <4> QED BY <1>3, <4>1, <4>2 DEF Args
      <3> QED BY <3>1, <3>2
    <2>2. faults' = 0 /\ tree' = tree /\ res' = res /\ pc' = IF DirOpq THEN "renOpq" ELSE "renUnlinkWh"
      BY <1>1, <1>3, <1>6 DEF Works, Remember, Goto
    <2>3. SameOp BY <2>1, <2>2 DEF SameOp
    <2>4. ent' = [ent EXCEPT ![0] = Moved(ent[0], a.p, a.q)] /\ wh' = MovedWh(wh, a.p, a.q) /\ opq' = MovedOpq(opq, a.p, a.q)
      BY <1>3, <1>6 DEF MoveUpper, MovedWh, MovedOpq
    <2>5. Disk(Moved(ent[0], a.p, a.q), MovedWh(wh, a.p, a.q), MovedOpq(opq, a.p, a.q))
      BY <1>3, <1>4, DiskMoved
    <2>6. Moved(ent[0], a.p, a.q) \in [Path -> Stored] BY <2>5 DEF Disk
    <2>7. /\ ent' \in [Branch -> [Path -> Stored]] /\ ent'[0] = Moved(ent[0], a.p, a.q)
          /\ \A b \in Branch \ {0} : ent'[b] = ent[b]
      BY <1>3, <2>4, <2>6
    <2>8. NewDisk BY <2>4, <2>5, <2>7 DEF NewDisk
    <2>9. \A n \in Path : n \notin Under(a.p) /\ n \notin Under(a.q) =>
            ent'[0][n] = ent[0][n] /\ (n \in wh' <=> n \in wh) /\ (n \in opq' <=> n \in opq)
      <3>1. /\ EntMoved(ent'[0], ent[0], a.p, a.q) /\ WhMoved(wh', wh, a.p, a.q) /\ OpqMoved(opq', opq, a.p, a.q)
        BY <1>3, <1>4, <2>4, <2>7, MovedIs, MarksMoved
      <3>2. \A n \in Path : n \notin Under(a.p) /\ n \notin Under(a.q) => n \notin Below(a.p) /\ n \notin Below(a.q)
        BY <1>4, Names
      <3> QED BY <3>1, <3>2 DEF EntMoved, WhMoved, OpqMoved
    <2>10. pc' \in RenGone /\ pc' \notin RenHere \cup RenUndo /\ pc' # "end"
      BY <2>2 DEF RenGone, RenHere, RenUndo
    <2>11. RenOnly BY <1>2, <2>1, <2>3, <2>8, <2>9, <2>10 DEF RenOnly, RenLate
    <2>12. Low' = Low BY <2>11, RenKeeps
    <2>13. DirOpq => IsDirRen /\ a.p \notin opq BY DEF DirOpq
    <2>14. GoneOK' /\ (a.p \notin opq => a.q \notin opq') /\ (a.p \in opq => a.q \in opq')
      BY <1>1, <1>6, <2>1, <2>3, <2>12, <2>13, MoveDone
    <2>15. IsDirRen' <=> IsDirRen BY <2>1, <2>2 DEF IsDirRen
    <2>16. RenOK'
      <3>1. CASE DirOpq
        <4>1. pc' = "renOpq" BY <2>2, <3>1
        <4>2. tree[a.q] = None => a.dwh BY <3>1 DEF DirOpq, None, Dir
        <4> QED BY <2>1, <2>2, <2>10, <2>13, <2>14, <2>15, <3>1, <4>1, <4>2 DEF RenOK, RenHere
      <3>2. CASE ~DirOpq
        <4>1. pc' = "renUnlinkWh" BY <2>2, <3>2
        <4>2. IsDirRen => a.q \in opq' \/ \A k \in Below(a.q) : Low[k] = None
          BY <1>1, <2>14, <3>2, NoNeedOpq
        <4>3. DirShown' BY <2>1, <2>12, <2>15, <4>2 DEF DirShown
        <4> QED BY <2>1, <2>10, <2>14, <3>2, <4>1, <4>3 DEF RenOK, RenHere
      <3> QED BY <3>1, <3>2
    <2> QED BY <1>3, <2>1, <2>2, <2>10, <2>11, <2>16, RenOn
  <1> QED BY <1>5, <1>6 DEF RenMove

(* It is made opaque.                                                      *)
LEMMA RenOpqStep ==
  ASSUME IInv, RenOpq
  PROVE  IInv'
  <1>1. pc = "renOpq" /\ pc \in RenGone /\ Remember BY DEF RenOpq, At, RenGone
  <1>2. pc \in RenLate \cup {"renWhSrc"} /\ pc \notin RenUndo /\ pc \in RenPc \cup RenLate
    BY <1>1 DEF RenLate, RenUndo
  <1>3. /\ a \in Args /\ ent \in [Branch -> [Path -> Stored]] /\ Disk(ent[0], wh, opq) /\ a.err = "ok" /\ faults = 0
        /\ opq \in SUBSET Path
    BY <1>2, InRenLate
  <1>4. /\ a.p \in Path /\ a.q \in Path /\ a.p \notin Under(a.q) /\ a.q \notin Under(a.p)
        /\ (IsDirRen => tree[a.q] \in {Dir, None})
    BY <1>2, Renaming DEF IInv
  <1>5. GoneOK /\ IsDirRen /\ a.opq /\ a.q \notin opq /\ (tree[a.q] = None => a.dwh)
    BY <1>1 DEF IInv, RenOK, RenGone
  <1>6. CASE Works /\ opq' = opq \cup {a.q} /\ Goto("renUnlinkWh") /\ UNCHANGED <<ent, wh, a>>
    <2>1. ent' = ent /\ wh' = wh /\ a' = a /\ faults' = 0 /\ tree' = tree /\ res' = res /\ pc' = "renUnlinkWh"
      BY <1>1, <1>3, <1>6 DEF Works, Remember, Goto
    <2>2. SameOp BY <1>3, <2>1 DEF SameOp
    <2>3. Disk(ent[0], wh, opq')
      <3>1. ent[0][a.q] = Dir BY <1>5 DEF GoneOK, Upper, IsDirRen
      <3> QED BY <1>3, <1>4, <1>6, <3>1 DEF Disk
    <2>4. NewDisk BY <1>3, <2>1, <2>3 DEF NewDisk
    <2>5. \A n \in Path : n \notin Under(a.p) /\ n \notin Under(a.q) => (n \in opq' <=> n \in opq)
      BY <1>4, <1>6, Names
    <2>6. RenOnly BY <1>2, <2>1, <2>2, <2>4, <2>5 DEF RenOnly, RenLate, RenGone
    <2>7. Low' = Low BY <2>6, RenKeeps
    <2>8. BackOpq' = BackOpq
      <3>1. opq' \ {a.q} = opq \ {a.q} BY <1>6
      <3> QED BY <1>5, <2>1, <3>1 DEF BackOpq
    <2>9. SrcHidden' BY <1>5, <1>6, <2>1, <2>7 DEF GoneOK, SrcHidden, Covered
    <2>10. GoneOK' BY <1>5, <2>1, <2>7, <2>8, <2>9 DEF GoneOK, Upper
    <2>11. a.q \in opq' BY <1>6
    <2>12. RenOK' BY <2>1, <2>10, <2>11 DEF RenOK, DirShown, RenHere, RenGone, RenUndo
    <2>13. pc' \notin RenHere \cup RenUndo /\ pc' # "end" BY <2>1 DEF RenHere, RenUndo
    <2> QED BY <1>3, <2>1, <2>6, <2>12, <2>13, RenOn
  <1>7. CASE Fails /\ Goto("renRevMove") /\ Err("err")
    <2>1. /\ a' \in Args /\ a'.err = "err" /\ a'.kind = a.kind /\ a'.p = a.p /\ a'.q = a.q /\ a'.v = a.v
          /\ a'.then = a.then /\ a'.wh = a.wh /\ a'.dwh = a.dwh /\ a'.opq = a.opq /\ a'.tmp = a.tmp
      BY <1>3, <1>7, Erring DEF Error
    <2>2. /\ ent' = ent /\ wh' = wh /\ opq' = opq /\ faults' = 1 /\ tree' = tree /\ res' = res
          /\ pc' = "renRevMove"
      BY <1>1, <1>3, <1>7 DEF disk, Fails, Remember, Goto
    <2>3. SameOp BY <2>1, <2>2 DEF SameOp
    <2>4. NewDisk BY <1>3, <2>2 DEF NewDisk
    <2>5. RenOnly BY <1>2, <2>1, <2>2, <2>3, <2>4 DEF RenOnly, RenLate, RenUndo
    <2>6. Low' = Low BY <2>5, RenKeeps
    <2>7. GoneOK' BY <1>5, <2>1, <2>2, <2>6 DEF GoneOK, SrcHidden, BackOpq, Upper
    <2>8. RenOK' BY <1>4, <1>5, <2>1, <2>2, <2>7 DEF RenOK, RenHere, RenGone, RenUndo
    <2>9. pc' \notin RenHere \cup RenGone /\ pc' # "end" BY <2>2 DEF RenHere, RenGone
    <2> QED BY <2>1, <2>2, <2>5, <2>8, <2>9, RenOn
  <1> QED BY <1>6, <1>7 DEF RenOpq

(* The whiteout of the new name is removed, and it appears.                *)
LEMMA RenUnlinkWhStep ==
  ASSUME IInv, RenUnlinkWh
  PROVE  IInv'
  <1>1. pc = "renUnlinkWh" /\ pc \in RenGone /\ Remember BY DEF RenUnlinkWh, At, RenGone
  <1>2. pc \in RenLate \cup {"renWhSrc"} /\ pc \notin RenUndo /\ pc \in RenPc \cup RenLate
    BY <1>1 DEF RenLate, RenUndo
  <1>3. /\ a \in Args /\ ent \in [Branch -> [Path -> Stored]] /\ Disk(ent[0], wh, opq) /\ a.err = "ok" /\ faults = 0
        /\ Lower(Low) /\ MaySucceed(tree, Op)
    BY <1>2, InRenLate
  <1>4. /\ a.p \in Path /\ a.q \in Path /\ a.p # a.q /\ a.p \notin Under(a.q) /\ a.q \notin Under(a.p)
        /\ Tree(tree) /\ HasDir(tree, a.q) /\ tree[a.p] # None /\ Effect(tree, Op) = Moved(tree, a.p, a.q)
        /\ a.kind = "rename" /\ pc # "idle" /\ tree[a.q] \in Data \cup {None, Dir}
    BY <1>2, Renaming DEF IInv
  <1>5. GoneOK /\ DirShown /\ (a.opq => a.q \in opq) BY <1>1 DEF IInv, RenOK, RenGone
  <1>6. CASE Works /\ wh' = wh \ {a.q} /\ Goto("end") /\ UNCHANGED <<ent, opq, a>>
    <2>1. ent' = ent /\ opq' = opq /\ a' = a /\ faults' = 0 /\ tree' = tree /\ res' = res /\ pc' = "end"
      BY <1>1, <1>3, <1>6 DEF Works, Remember, Goto
    <2>2. SameOp BY <1>3, <2>1 DEF SameOp
    <2>3. Disk(ent[0], wh', opq) BY <1>3, <1>6 DEF Disk
    <2>4. NewDisk BY <1>3, <2>1, <2>3 DEF NewDisk
    <2>5. \A n \in Path : n \notin Under(a.p) /\ n \notin Under(a.q) => (n \in wh' <=> n \in wh)
      BY <1>4, <1>6, Names
    <2>6. RenOnly BY <1>2, <2>1, <2>2, <2>4, <2>5 DEF RenOnly
    <2>7. Low' = Low /\ Op' = Op /\ OutsideOK' BY <2>6, RenKeeps
    <2>8. Now' = Union(ent[0], wh', opq, Low) BY <2>1, <2>7 DEF Now, Shows
    <2>9. \A n \in Path : n \notin Under(a.p) /\ n \notin Under(a.q) => Union(ent[0], wh', opq, Low)[n] = tree[n]
      <3>1. Touched(Op) = Under(a.p) \cup Under(a.q) BY <1>4, InCall DEF IInv
      <3> QED BY <2>1, <2>7, <2>8, <3>1 DEF OutsideOK
    <2>10. Covered(wh', opq, Low, a.p) BY <1>4, <1>5, <1>6 DEF GoneOK, SrcHidden, Covered
    <2>11. \A k \in Below(a.q) : Own(ent[0], wh', k) = Moved(tree, a.p, a.q)[k]
      <3>1. \A k \in Below(a.q) : k # a.q BY <1>4, Names
      <3>2. \A k \in Below(a.q) : Own(ent[0], wh', k) = Own(ent[0], wh, k) BY <1>6, <3>1 DEF Own
      <3> QED BY <1>5, <3>2 DEF GoneOK
    <2>12. ent[0][a.p] = None /\ ent[0][a.q] = tree[a.p] /\ a.q \notin wh' BY <1>5, <1>6 DEF GoneOK, Upper
    <2>13. tree[a.p] = Dir => a.q \in opq \/ \A k \in Below(a.q) : Low[k] = None
      BY <1>5 DEF DirShown, IsDirRen
    <2>14. Union(ent[0], wh', opq, Low) = Moved(tree, a.p, a.q)
      BY <1>3, <1>4, <2>3, <2>9, <2>10, <2>11, <2>12, <2>13, Renamed
    <2>15. EndOK'
      <3>1. Effect(tree, Op)' = Effect(tree, Op) /\ MaySucceed(tree, Op)' BY <1>3, <2>1, <2>7
      <3> QED BY <1>3, <1>4, <2>1, <2>8, <2>14, <3>1 DEF EndOK
    <2>16. RenOK' BY <2>1 DEF RenOK, RenHere, RenGone, RenUndo
    <2>17. pc' \notin RenLate BY <2>1 DEF RenLate, RenHere, RenGone, RenUndo
    <2> QED BY <1>3, <2>1, <2>6, <2>15, <2>16, <2>17, RenOn DEF RenLate
  <1>7. CASE a.dwh /\ Fails /\ Goto(IF a.opq THEN "renRevOpq" ELSE "renRevMove") /\ Err("err")
    <2>1. /\ a' \in Args /\ a'.err = "err" /\ a'.kind = a.kind /\ a'.p = a.p /\ a'.q = a.q /\ a'.v = a.v
          /\ a'.then = a.then /\ a'.wh = a.wh /\ a'.dwh = a.dwh /\ a'.opq = a.opq /\ a'.tmp = a.tmp
      BY <1>3, <1>7, Erring DEF Error
    <2>2. /\ ent' = ent /\ wh' = wh /\ opq' = opq /\ faults' = 1 /\ tree' = tree /\ res' = res
          /\ pc' = IF a.opq THEN "renRevOpq" ELSE "renRevMove"
      BY <1>1, <1>3, <1>7 DEF disk, Fails, Remember, Goto
    <2>3. SameOp BY <2>1, <2>2 DEF SameOp
    <2>4. NewDisk BY <1>3, <2>2 DEF NewDisk
    <2>5. RenOnly BY <1>2, <2>1, <2>2, <2>3, <2>4 DEF RenOnly, RenLate, RenUndo
    <2>6. Low' = Low BY <2>5, RenKeeps
    <2>7. GoneOK' BY <1>5, <2>1, <2>2, <2>6 DEF GoneOK, SrcHidden, BackOpq, Upper
    <2>8. tree[a.q] = None BY <1>5, <1>7 DEF GoneOK
    <2>9. RenOK' BY <1>5, <1>7, <2>1, <2>2, <2>7, <2>8 DEF RenOK, RenHere, RenGone, RenUndo
    <2>10. pc' \notin RenHere \cup RenGone /\ pc' # "end" BY <2>2 DEF RenHere, RenGone
    <2> QED BY <2>1, <2>2, <2>5, <2>9, <2>10, RenOn
  <1> QED BY <1>6, <1>7 DEF RenUnlinkWh

(* The directory is put back where there is nothing.                       *)
LEMMA PutBack ==
  ASSUME NEW u, NEW w, NEW o, Disk(u, w, o), NEW q \in Path, HasDir(u, q), u[q] = None,
         NEW s, WasThere(s, q),
         NEW u2, u2 = [m \in Path |-> IF m \in Under(q) THEN s.ent[m] ELSE u[m]]
  PROVE  Disk(u2, w \cup s.wh, o \cup s.opq)
  <1>1. q \in Under(q) /\ Under(q) \subseteq Path /\ Below(q) \subseteq Under(q) BY Names
  <1>2. u2 \in [Path -> Stored]
    <2>1. \A m \in Path : u[m] \in Stored BY DEF Disk
    <2>2. \A m \in Under(q) : s.ent[m] \in Stored BY DEF WasThere
    <2> QED BY <2>1, <2>2
  <1>3. \A n \in Path : n \notin Below(q) /\ HasDir(u, n) => HasDir(u2, n)
    <2> TAKE n \in Path
    <2>1. n \notin Below(q) /\ Len(n) = 2 => Parent(n) \in Path /\ Parent(n) \notin Under(q) BY Names
    <2> QED BY <2>1, Names DEF HasDir
  <1>4. \A n \in Below(q) : s.ent[q] = Dir => HasDir(u2, n)
    <2> TAKE n \in Below(q)
    <2>1. Len(n) = 2 /\ Parent(n) = q BY Names
    <2> QED BY <1>1, <2>1 DEF HasDir
  <1>5. \A n \in Below(q) : u[n] = None /\ n \notin w
    <2> TAKE n \in Below(q)
    <2>1. n \in Path /\ Len(n) = 2 /\ Parent(n) = q BY Names
    <2>2. ~HasDir(u, n) BY <2>1 DEF HasDir, None, Dir
    <2> QED BY <2>1, <2>2 DEF Disk
  <1>6. \A n \in Path : u2[n] # None => HasDir(u2, n)
    <2> SUFFICES ASSUME NEW n \in Path, u2[n] # None PROVE HasDir(u2, n) OBVIOUS
    <2>1. CASE n \in Below(q)
      <3>1. s.ent[n] # None BY <1>1, <2>1
      <3>2. s.ent[q] = Dir BY <2>1, <3>1 DEF WasThere
      <3> QED BY <1>4, <2>1, <3>2
    <2>2. CASE n = q BY <1>3, <2>2, Names
    <2>3. CASE n \notin Under(q)
      <3>1. u[n] # None BY <2>3
      <3> QED BY <1>1, <1>3, <2>3, <3>1 DEF Disk
    <2> QED BY <2>1, <2>2, <2>3, Names
  <1>7. \A n \in w \cup s.wh : n \in Path /\ HasDir(u2, n)
    <2>1. \A n \in w : n \in Path /\ HasDir(u, n) /\ n \notin Below(q) BY <1>5 DEF Disk
    <2>2. \A n \in s.wh : n \in Below(q) /\ s.ent[q] = Dir BY DEF WasThere
    <2> QED BY <1>1, <1>3, <1>4, <2>1, <2>2
  <1>8. \A n \in o \cup s.opq : n \in Path /\ u2[n] = Dir
    <2>1. \A n \in o : n \in Path /\ u[n] = Dir BY DEF Disk
    <2>2. \A n \in Under(q) : u[n] # Dir BY <1>5, Names DEF None, Dir
    <2>3. \A n \in s.opq : n \in Under(q) /\ s.ent[n] = Dir BY DEF WasThere
    <2> QED BY <1>1, <2>1, <2>2, <2>3
  <1> QED BY <1>2, <1>6, <1>7, <1>8 DEF Disk

(* A step that undoes something.                                           *)
LEMMA RenBack ==
  ASSUME IInv, pc \in RenUndo, pc' \in RenUndo \cup {"end"}, UNCHANGED a, Remember, NewDisk,
         \A n \in Path : n \notin Under(a.p) /\ n \notin Under(a.q) =>
           ent'[0][n] = ent[0][n] /\ (n \in wh' <=> n \in wh) /\ (n \in opq' <=> n \in opq),
         Works \/ faults' = faults + 1,
         Low' = Low => RenOK', Low' = Low /\ pc' = "end" => EndOK'
  PROVE  IInv'
  <1>1. pc \in RenLate \cup {"renWhSrc"} BY DEF RenLate
  <1>2. a \in Args /\ a.err = "err" /\ faults \in Nat /\ faults >= 1 BY <1>1, InRenLate
  <1>3. a' = a /\ faults' \in Nat /\ faults' >= 1 BY <1>2 DEF Works
  <1>4. SameOp BY <1>2, <1>3 DEF SameOp, Remember
  <1>5. RenOnly BY <1>1, <1>3, <1>4 DEF RenOnly, RenLate
  <1>6. Low' = Low BY <1>5, RenKeeps
  <1>7. pc' \notin RenHere \cup RenGone BY DEF RenHere, RenGone, RenUndo
  <1> QED BY <1>2, <1>3, <1>5, <1>6, <1>7, RenOn

(* The undo steps.                                                         *)
LEMMA RenRevertStep ==
  ASSUME IInv, RenRevert
  PROVE  IInv'
  <1>1. pc \in RenUndo /\ pc \in RenLate \cup {"renWhSrc"} /\ pc \in RenPc \cup RenLate /\ UNCHANGED a /\ Remember
    BY DEF RenRevert, At, RenUndo, RenLate
  <1>2. /\ a \in Args /\ ent \in [Branch -> [Path -> Stored]] /\ 0 \in Branch /\ ent[0] \in [Path -> Stored]
        /\ Disk(ent[0], wh, opq) /\ HasDir(ent[0], a.p) /\ HasDir(ent[0], a.q)
        /\ wh \in SUBSET Path /\ opq \in SUBSET Path /\ a.err = "err" /\ faults >= 1 /\ faults \in Nat
    BY <1>1, InRenLate
  <1>3. /\ a.p \in Path /\ a.q \in Path /\ a.p # a.q /\ a.p \notin Under(a.q) /\ a.q \notin Under(a.p)
        /\ a.kind = "rename"
    BY <1>1, Renaming DEF IInv
  <1>4. a' = a /\ tree' = tree BY <1>1 DEF Remember
  <1> DEFINE Undo == faults < 2 /\ tree[a.q] # Dir
  <1>5. Undo => /\ pc \in {"renRevOpq", "renRevMove"} => GoneOK /\ tree[a.q] = None /\ a.dwh
                /\ pc = "renRevMove" /\ a.opq => a.q \notin opq
                /\ pc = "renRevOpq" => a.opq
                /\ pc \in {"renRevWhtmp", "renRevWhSrc"} =>
                     (a.p \in wh <=> a.wh) /\ a.tmp = {} /\ Shows(wh \ {a.p}, opq) = tree
    BY <1>1 DEF IInv, RenOK
  <1> HIDE DEF Undo
  <1>6. ASSUME pc' \in RenUndo, Undo' => /\ pc' \in {"renRevOpq", "renRevMove"} => GoneOK' /\ tree[a.q] = None /\ a.dwh
                                         /\ pc' = "renRevMove" /\ a.opq => a.q \notin opq'
                                         /\ pc' = "renRevOpq" => a.opq
                                         /\ pc' \in {"renRevWhtmp", "renRevWhSrc"} =>
                                              (a.p \in wh' <=> a.wh) /\ a.tmp = {} /\ Shows(wh \ {a.p}, opq)' = tree
        PROVE  RenOK'
    BY <1>4, <1>6 DEF RenOK, RenHere, RenGone, RenUndo, Undo
  <1>7. faults' = faults => (Undo' <=> Undo) BY <1>4 DEF Undo
  <1>8. faults' = faults + 1 => ~Undo' BY <1>2 DEF Undo
  <1>9. ASSUME Fails, pc' \in RenUndo \cup {"end"} PROVE IInv'
    <2>1. ent' = ent /\ wh' = wh /\ opq' = opq /\ faults' = faults + 1 BY <1>9 DEF Fails, disk
    <2>2. NewDisk BY <1>2, <2>1 DEF NewDisk
    <2>3. RenOK' BY <1>6, <1>8, <1>9, <2>1 DEF RenOK, RenHere, RenGone, RenUndo
    <2>4. pc' = "end" => EndOK' BY <1>2, <1>3, <1>4, <2>1 DEF EndOK
    <2> QED BY <1>1, <1>9, <2>1, <2>2, <2>3, <2>4, RenBack
  <1>10. CASE pc = "renRevOpq" /\ Goto("renRevMove") /\ Works /\ opq' = opq \ {a.q} /\ UNCHANGED <<ent, wh>>
    <2>1. ent' = ent /\ wh' = wh /\ faults' = faults /\ pc' = "renRevMove" /\ pc' \in RenUndo
      BY <1>10 DEF Works, Goto, RenUndo
    <2>2. NewDisk BY <1>2, <1>10, <2>1 DEF NewDisk, Disk
    <2>3. \A n \in Path : n \notin Under(a.p) /\ n \notin Under(a.q) => (n \in opq' <=> n \in opq)
      BY <1>3, <1>10, Names
    <2>4. ASSUME Low' = Low PROVE RenOK'
      <3>1. Undo => GoneOK'
        <4> SUFFICES ASSUME Undo PROVE GoneOK' OBVIOUS
        <4>1. GoneOK /\ a.opq BY <1>5, <1>10
        <4>2. Parent(a.p) # a.q BY <1>3, Names
        <4>3. Parent(a.p) \in opq => Parent(a.p) \in opq' BY <1>10, <4>2
        <4>4. SrcHidden' BY <1>4, <2>1, <2>4, <4>1, <4>3 DEF GoneOK, SrcHidden, Covered
        <4>5. BackOpq' = BackOpq
          <5>1. opq' \ {a.q} = opq \ {a.q} BY <1>10
          <5> QED BY <1>4, <4>1, <5>1 DEF BackOpq
        <4> QED BY <1>4, <2>1, <2>4, <4>1, <4>4, <4>5 DEF GoneOK, Upper
      <3>2. a.q \notin opq' BY <1>10
      <3>3. Undo => tree[a.q] = None /\ a.dwh BY <1>5, <1>10
      <3> QED BY <1>6, <1>7, <2>1, <3>1, <3>2, <3>3
    <2> QED BY <1>1, <1>10, <2>1, <2>2, <2>3, <2>4, RenBack
  <1>11. CASE pc = "renRevMove" /\ Goto("renRevWhtmp") /\ Works /\ MoveUpper(a.q, a.p)
    <2>1. faults' = faults /\ pc' = "renRevWhtmp" /\ pc' \in RenUndo BY <1>11 DEF Works, Goto, RenUndo
    <2>2. ent' = [ent EXCEPT ![0] = Moved(ent[0], a.q, a.p)] /\ wh' = MovedWh(wh, a.q, a.p) /\ opq' = MovedOpq(opq, a.q, a.p)
      BY <1>2, <1>11 DEF MoveUpper, MovedWh, MovedOpq
    <2>3. Disk(Moved(ent[0], a.q, a.p), MovedWh(wh, a.q, a.p), MovedOpq(opq, a.q, a.p))
      BY <1>2, <1>3, DiskMoved
    <2>4. Moved(ent[0], a.q, a.p) \in [Path -> Stored] BY <2>3 DEF Disk
    <2>5. /\ ent' \in [Branch -> [Path -> Stored]] /\ ent'[0] = Moved(ent[0], a.q, a.p)
          /\ \A b \in Branch \ {0} : ent'[b] = ent[b]
      BY <1>2, <2>2, <2>4
    <2>6. NewDisk BY <2>2, <2>3, <2>5 DEF NewDisk
    <2>7. /\ EntMoved(ent'[0], ent[0], a.q, a.p) /\ WhMoved(wh', wh, a.q, a.p) /\ OpqMoved(opq', opq, a.q, a.p)
      BY <1>2, <1>3, <2>2, <2>5, MovedIs, MarksMoved
    <2>8. \A n \in Path : n \notin Under(a.p) /\ n \notin Under(a.q) =>
            ent'[0][n] = ent[0][n] /\ (n \in wh' <=> n \in wh) /\ (n \in opq' <=> n \in opq)
      <3>1. \A n \in Path : n \notin Under(a.p) /\ n \notin Under(a.q) => n \notin Below(a.p) /\ n \notin Below(a.q)
        BY <1>3, Names
      <3> QED BY <2>7, <3>1 DEF EntMoved, WhMoved, OpqMoved
    <2>9. ASSUME Low' = Low PROVE RenOK'
      <3>1. ASSUME Undo PROVE (a.p \in wh' <=> a.wh) /\ a.tmp = {} /\ Shows(wh \ {a.p}, opq)' = tree
        <4>1. GoneOK /\ tree[a.q] = None /\ a.dwh /\ (a.opq => a.q \notin opq) BY <1>5, <1>11, <3>1
        <4>2. a.p \in wh' <=> a.p \in wh
          <5>1. a.p \notin Below(a.p) /\ a.p \notin Below(a.q) BY <1>3, Names
          <5> QED BY <1>3, <2>7, <5>1 DEF WhMoved
        <4>3. BackOpq = MovedOpq(opq, a.q, a.p)
          <5>1. (IF a.opq THEN opq \ {a.q} ELSE opq) = opq BY <4>1
          <5> QED BY <5>1 DEF BackOpq
        <4>4. Union(ent'[0], wh' \ {a.p}, opq', Low) = tree BY <2>2, <2>5, <4>1, <4>3 DEF GoneOK
        <4>5. tree[a.q] # Dir BY <3>1 DEF Undo
        <4> QED BY <1>4, <2>9, <4>1, <4>2, <4>4, <4>5 DEF GoneOK, SrcHidden, Shows
      <3> QED BY <1>6, <1>7, <2>1, <3>1
    <2> QED BY <1>1, <1>11, <2>1, <2>6, <2>8, <2>9, RenBack
  <1>12. CASE pc = "renRevWhtmp" /\ Goto("renRevWhSrc") /\ Works /\ UNCHANGED disk
    <2>1. ent' = ent /\ wh' = wh /\ opq' = opq /\ faults' = faults /\ pc' = "renRevWhSrc" /\ pc' \in RenUndo
      BY <1>12 DEF Works, Goto, disk, RenUndo
    <2>2. NewDisk BY <1>2, <2>1 DEF NewDisk
    <2>3. ASSUME Low' = Low PROVE RenOK'
      <3>1. Shows(wh \ {a.p}, opq)' = Shows(wh \ {a.p}, opq) BY <1>4, <2>1, <2>3 DEF Shows
      <3>2. Undo => (a.p \in wh <=> a.wh) /\ a.tmp = {} /\ Shows(wh \ {a.p}, opq) = tree BY <1>5, <1>12
      <3> QED BY <1>6, <1>7, <2>1, <3>1, <3>2
    <2> QED BY <1>1, <1>12, <2>1, <2>2, <2>3, RenBack
  <1>13. CASE /\ pc = "renRevWhtmp" /\ Goto("renRevWhSrc") /\ Works /\ Upper(a.q) = None
              /\ \E s \in a.tmp :
                   /\ ent' = [ent EXCEPT ![0] = [m \in Path |-> IF m \in Under(a.q) THEN s.ent[m] ELSE @[m]]]
                   /\ wh' = wh \cup s.wh /\ opq' = opq \cup s.opq
    <2>1. faults' = faults /\ pc' = "renRevWhSrc" /\ pc' \in RenUndo BY <1>13 DEF Works, Goto, RenUndo
    <2>2. PICK s \in a.tmp :
            /\ ent' = [ent EXCEPT ![0] = [m \in Path |-> IF m \in Under(a.q) THEN s.ent[m] ELSE @[m]]]
            /\ wh' = wh \cup s.wh /\ opq' = opq \cup s.opq
      BY <1>13
    <2> DEFINE u2 == [m \in Path |-> IF m \in Under(a.q) THEN s.ent[m] ELSE ent[0][m]]
    <2>3. ent' = [ent EXCEPT ![0] = u2] BY <1>2, <2>2
    <2>4. WasThere(s, a.q) BY <1>13 DEF IInv, TmpOK, RenLate, RenUndo
    <2>5. Disk(u2, wh', opq') BY <1>2, <1>3, <1>13, <2>2, <2>4, PutBack DEF Upper
    <2>6. \A n \in Path : n \notin Under(a.q) => u2[n] = ent[0][n] OBVIOUS
    <2> HIDE DEF u2
    <2>7. u2 \in [Path -> Stored] BY <2>5 DEF Disk
    <2>8. /\ ent' \in [Branch -> [Path -> Stored]] /\ ent'[0] = u2 /\ \A b \in Branch \ {0} : ent'[b] = ent[b]
      BY <1>2, <2>3, <2>7
    <2>9. NewDisk BY <2>5, <2>8 DEF NewDisk
    <2>10. \A n \in Path : n \notin Under(a.p) /\ n \notin Under(a.q) =>
             ent'[0][n] = ent[0][n] /\ (n \in wh' <=> n \in wh) /\ (n \in opq' <=> n \in opq)
      <3>1. s.wh \subseteq Under(a.q) /\ s.opq \subseteq Under(a.q) BY <1>3, <2>4, Names DEF WasThere
      <3> QED BY <2>2, <2>6, <2>8, <3>1
    <2>11. ~Undo BY <1>5, <1>13
    <2>12. RenOK' BY <1>6, <1>7, <2>1, <2>11
    <2> QED BY <1>1, <1>13, <2>1, <2>9, <2>10, <2>12, RenBack
  <1>14. CASE /\ pc = "renRevWhSrc" /\ Goto("end") /\ Works
              /\ wh' = wh \ (IF a.wh THEN {a.p} ELSE {}) /\ UNCHANGED <<ent, opq>>
    <2>1. ent' = ent /\ opq' = opq /\ faults' = faults /\ pc' = "end" BY <1>14 DEF Works, Goto
    <2>2. NewDisk BY <1>2, <1>14, <2>1 DEF NewDisk, Disk
    <2>3. \A n \in Path : n \notin Under(a.p) /\ n \notin Under(a.q) => (n \in wh' <=> n \in wh)
      BY <1>3, <1>14, Names
    <2>4. RenOK' BY <2>1 DEF RenOK, RenHere, RenGone, RenUndo
    <2>5. ASSUME Low' = Low PROVE EndOK'
      <3>1. ASSUME Undo PROVE Now' = tree
        <4>1. (a.p \in wh <=> a.wh) /\ Shows(wh \ {a.p}, opq) = tree BY <1>5, <1>14, <3>1
        <4>2. wh' = wh \ {a.p} BY <1>14, <4>1
        <4>3. Now' = Union(ent[0], wh \ {a.p}, opq, Low) BY <2>1, <2>5, <4>2 DEF Now, Shows
        <4> QED BY <4>1, <4>3 DEF Shows
      <3> QED BY <1>2, <1>3, <1>4, <2>1, <3>1 DEF EndOK, Undo
    <2> QED BY <1>1, <1>14, <2>1, <2>2, <2>3, <2>4, <2>5, RenBack
  <1>15. \/ pc = "renRevOpq" /\ Goto("renRevMove") /\ Works /\ opq' = opq \ {a.q} /\ UNCHANGED <<ent, wh>>
         \/ pc = "renRevMove" /\ Goto("renRevWhtmp") /\ Works /\ MoveUpper(a.q, a.p)
         \/ pc = "renRevWhtmp" /\ Goto("renRevWhSrc") /\ Works /\ UNCHANGED disk
         \/ /\ pc = "renRevWhtmp" /\ Goto("renRevWhSrc") /\ Works /\ Upper(a.q) = None
            /\ \E s \in a.tmp :
                 /\ ent' = [ent EXCEPT ![0] = [m \in Path |-> IF m \in Under(a.q) THEN s.ent[m] ELSE @[m]]]
                 /\ wh' = wh \cup s.wh /\ opq' = opq \cup s.opq
         \/ /\ pc = "renRevWhSrc" /\ Goto("end") /\ Works
            /\ wh' = wh \ (IF a.wh THEN {a.p} ELSE {}) /\ UNCHANGED <<ent, opq>>
         \/ Fails /\ (Goto("renRevMove") \/ Goto("renRevWhtmp") \/ Goto("renRevWhSrc") \/ Goto("end"))
    BY Zenon DEF RenRevert, At
  <1>16. Goto("renRevMove") \/ Goto("renRevWhtmp") \/ Goto("renRevWhSrc") \/ Goto("end") => pc' \in RenUndo \cup {"end"}
    BY DEF Goto, RenUndo
  <1> QED BY <1>9, <1>10, <1>11, <1>12, <1>13, <1>14, <1>15, <1>16
-----------------------------------------------------------------------------
(* All steps together.                                                     *)

(* At first.                                                               *)
LEMMA InitIInv == Init => IInv
  <1> SUFFICES ASSUME Init PROVE IInv OBVIOUS
  <1>1. wh = {} /\ opq = {} /\ pc = "idle" /\ faults = 0 /\ tree = View /\ res = "ok" BY DEF Init
  <1>2. ent \in [Branch -> [Path -> Stored]] /\ ent[0] = [n \in Path |-> None]
    <2>1. PICK lower \in [1 .. NRo -> LowerTrees] :
            ent = [b \in Branch |-> IF b = 0 THEN [n \in Path |-> None] ELSE lower[b]]
      BY Zenon DEF Init
    <2>2. [n \in Path |-> None] \in [Path -> Stored] BY DEF Stored
    <2>3. \A t \in LowerTrees : t \in [Path -> Stored] BY LowerDataAssumption DEF LowerTrees, Stored
    <2>4. \A b \in Branch : b = 0 \/ b \in 1 .. NRo BY NRoAssumption DEF Branch
    <2>5. \A b \in Branch : b # 0 => lower[b] \in [Path -> Stored] BY <2>3, <2>4
    <2>6. 0 \in Branch BY NRoAssumption DEF Branch
    <2> DEFINE e0 == [n \in Path |-> None]
    <2> HIDE DEF e0
    <2>7. ent = [b \in Branch |-> IF b = 0 THEN e0 ELSE lower[b]] BY <2>1, Zenon DEF e0
    <2>8. e0 \in [Path -> Stored] BY <2>2, Zenon DEF e0
    <2>9. ent \in [Branch -> [Path -> Stored]] /\ ent[0] = e0 BY <2>5, <2>6, <2>7, <2>8
    <2>10. ent[0] = [n \in Path |-> None] BY <2>9, Zenon DEF e0
    <2> QED BY <2>9, <2>10
  <1>3. DiskOK
    <2>1. ent[0] \in [Path -> Stored] BY <1>2, NRoAssumption DEF Branch
    <2>2. \A n \in Path : ent[0][n] = None BY <1>2
    <2> QED BY <1>1, <2>1, <2>2 DEF DiskOK, Disk
  <1>4. BranchesOK BY <1>1, <1>2 DEF BranchesOK
  <1>5. View = Now BY <1>3, <1>4, ViewOf
  <1>6. Tree(Now)
    <2>1. Lower(Low) BY <1>2, LowIsLower DEF Low
    <2> QED BY <1>3, <2>1, UnionIs DEF Now, Shows, DiskOK
  <1>7. TypeOK BY <1>1, <1>2, <1>5, <1>6 DEF TypeOK, Pc
  <1>8. OpOK /\ ErrOK /\ OutsideOK /\ UpOK /\ CheckedOK
    BY <1>1 DEF OpOK, ErrOK, OutsideOK, UpOK, CheckedOK
  <1>9. CleanOK BY <1>1, <1>5 DEF CleanOK
  <1>10. CopyOK /\ AddOK /\ DelOK /\ RenOK /\ TmpOK /\ EndOK
    BY <1>1 DEF CopyOK, AddOK, DelOK, RenOK, TmpOK, EndOK, Clean, CpPc, WrPc, AddPc, DelPc, RenPc,
                AddLate, DelLate, RenLate, RenHere, RenGone, RenUndo
  <1> QED BY <1>3, <1>7, <1>8, <1>9, <1>10 DEF IInv

(* The end of an operation, returned from or interrupted.                  *)
LEMMA StopStep ==
  ASSUME IInv, Return \/ PowerLoss
  PROVE  IInv'
  <1>1. UNCHANGED disk /\ pc' = "idle" /\ tree' = View /\ faults' = 0 BY DEF Return, PowerLoss, Goto
  <1>2. res' \in {"ok", "err", "eio", "crash"}
    <2>1. CASE Return
      <3>1. a \in Args BY <2>1 DEF Return, At, IInv, TypeOK
      <3> QED BY <2>1, <3>1 DEF Return, Args, Error
    <2> QED BY <2>1 DEF PowerLoss
  <1> QED BY <1>1, <1>2, Idles

(* Nothing happens.                                                        *)
LEMMA Stutter ==
  ASSUME IInv, UNCHANGED vars
  PROVE  IInv'
  <1>1. /\ ent' = ent /\ wh' = wh /\ opq' = opq /\ pc' = pc /\ a' = a /\ faults' = faults
        /\ tree' = tree /\ res' = res
    BY DEF vars
  <1>2. Now' = Now /\ Low' = Low /\ Op' = Op BY <1>1 DEF Now, Shows, Low, Op
  <1>3. TypeOK' /\ OpOK' /\ ErrOK' /\ DiskOK' /\ CleanOK' /\ OutsideOK'
    BY <1>1, <1>2 DEF IInv, TypeOK, OpOK, ErrOK, DiskOK, CleanOK, OutsideOK
  <1>4. UpOK' BY <1>1 DEF IInv, UpOK, UpAt, Upper
  <1>5. OwnKids' <=> OwnKids BY <1>1 DEF OwnKids, IsDirRen
  <1>6. CheckedOK' BY <1>1, <1>2, <1>5 DEF IInv, CheckedOK, CheckedAt
  <1>7. CopyOK' BY <1>1, <1>2, <1>5 DEF IInv, CopyOK, CopyFor, Upper
  <1>8. AddOK' BY <1>1, <1>2 DEF IInv, AddOK, AddMarks, OldUp, OldWh, OldOpq, NewEntry, Upper
  <1>9. DelOK' BY <1>1, <1>2 DEF IInv, DelOK, Shows
  <1>10. RenOK' BY <1>1, <1>2 DEF IInv, RenOK, HereOK, GoneOK, SrcHidden, DirShown, IsDirRen, BackOpq, Shows, Upper
  <1>11. TmpOK' /\ EndOK' BY <1>1, <1>2 DEF IInv, TmpOK, EndOK
  <1> QED BY <1>3, <1>4, <1>6, <1>7, <1>8, <1>9, <1>10, <1>11 DEF IInv

(* Every step keeps the invariant.                                         *)
LEMMA NextIInv == IInv /\ [Next]_vars => IInv'
  <1> SUFFICES ASSUME IInv, [Next]_vars PROVE IInv' OBVIOUS
  <1>1. CASE Begin BY <1>1, BeginStep
  <1>2. CASE Return \/ PowerLoss BY <1>2, StopStep
  <1>3. CASE CopyupEntry BY <1>3, CopyupStep
  <1>4. CASE Write BY <1>4, WriteStep
  <1>5. CASE AddStart BY <1>5, AddStartStep
  <1>6. CASE AddEntry BY <1>6, AddEntryStep
  <1>7. CASE AddOpq BY <1>7, AddOpqStep
  <1>8. CASE AddUnlinkWh BY <1>8, AddUnlinkWhStep
  <1>9. CASE AddInode BY <1>9, AddInodeStep
  <1>10. CASE AddRevert BY <1>10, AddRevertStep
  <1>11. CASE LinkRevert BY <1>11, LinkRevertStep
  <1>12. CASE DelStart BY <1>12, DelStartStep
  <1>13. CASE DelWh BY <1>13, DelWhStep
  <1>14. CASE DelEntry BY <1>14, DelEntryStep
  <1>15. CASE DelRevert BY <1>15, DelRevertStep
  <1>16. CASE RenPrepare BY <1>16, RenPrepareStep
  <1>17. CASE RenWhSrc BY <1>17, RenWhSrcStep
  <1>18. CASE RenLkupWh BY <1>18, RenLkupWhStep
  <1>19. CASE RenWhtmp BY <1>19, RenWhtmpStep
  <1>20. CASE RenMove BY <1>20, RenMoveStep
  <1>21. CASE RenOpq BY <1>21, RenOpqStep
  <1>22. CASE RenUnlinkWh BY <1>22, RenUnlinkWhStep
  <1>23. CASE RenRevert BY <1>23, RenRevertStep
  <1>24. CASE UNCHANGED vars BY <1>24, Stutter
  <1> QED
    BY <1>1, <1>2, <1>3, <1>4, <1>5, <1>6, <1>7, <1>8, <1>9, <1>10, <1>11, <1>12, <1>13, <1>14, <1>15,
       <1>16, <1>17, <1>18, <1>19, <1>20, <1>21, <1>22, <1>23, <1>24, Zenon DEF Next

(* The inductive invariant: what branch 0 holds at every step of every     *)
(* operation, and what can be seen of it.                                  *)
THEOREM IInvariant == Spec => []IInv
  BY InitIInv, NextIInv, PTL DEF Spec

(* No step of an operation disturbs another name, and a copy-up changes    *)
(* nothing that can be seen.                                               *)
THEOREM UndisturbedAlways == Spec => []Undisturbed
  <1>1. IInv => Undisturbed
    <2> SUFFICES ASSUME IInv PROVE Undisturbed OBVIOUS
    <2>1. View = Now BY ViewIs DEF IInv
    <2>2. Touched([p |-> a.p, q |-> a.q]) = Touched(Op) BY DEF Touched, Op
    <2>3. pc \in {"cpData", "cpRename", "cpUndo"} => Now = tree BY DEF IInv, CleanOK, Clean, CpPc
    <2> QED BY <2>1, <2>2, <2>3 DEF IInv, OutsideOK, Undisturbed
  <1> QED BY IInvariant, <1>1, PTL

(* A rename that replaces no directory and fails at one step is undone      *)
(* altogether, for any depth of marks and contents on branch 0.            *)
THEOREM RenameUndoneAlways == Spec => [](tree[a.q] # Dir => RenameUndone)
  <1>1. IInv => (tree[a.q] # Dir => RenameUndone)
    <2> SUFFICES ASSUME IInv, tree[a.q] # Dir PROVE RenameUndone OBVIOUS
    <2>1. View = Now BY ViewIs DEF IInv
    <2> QED BY <2>1 DEF IInv, EndOK, RenameUndone
  <1> QED BY IInvariant, <1>1, PTL

-----------------------------------------------------------------------------
(* What is seen when the power goes.                                       *)

(* A name with a whiteout is not seen, nor is anything below; the rest is  *)
(* as without the whiteout.                                                *)
LEMMA HiddenOnly ==
  ASSUME NEW u, NEW w, NEW o, NEW l, Disk(u, w, o), Lower(l), NEW p \in Path, p \in w
  PROVE  \A n \in Path : \/ Union(u, w, o, l)[n] = Union(u, w \ {p}, o, l)[n]
                         \/ n \in Under(p) /\ Union(u, w, o, l)[n] \in {None, Stuck}
  <1> DEFINE U == Union(u, w, o, l)
  <1>1. AlikeOutside(u, w \ {p}, o, u, w, o, Under(p))
    <2>1. w \in SUBSET Path /\ o \in SUBSET Path BY DEF Disk
    <2>2. \A n \in Path \ Under(p) : Len(n) = 2 => Parent(n) \notin Under(p) BY Names
    <2>3. p \in Under(p) BY Names
    <2> QED BY <2>1, <2>2, <2>3 DEF AlikeOutside
  <1>2. \A n \in Path \ Under(p) : U[n] = Union(u, w \ {p}, o, l)[n] BY <1>1, SameOutside
  <1>3. \A n \in Path : U[n] = IF HasDir(U, n) THEN Shown(u, w, o, l, n) ELSE None BY UnionIs
  <1>4. Shown(u, w, o, l, p) \in {None, Stuck} BY DEF Shown, Own
  <1> HIDE DEF U
  <1>5. U[p] \in {None, Stuck} BY <1>3, <1>4
  <1>6. \A k \in Below(p) : U[k] = None
    <2> TAKE k \in Below(p)
    <2>1. k \in Path /\ Len(k) = 2 /\ Parent(k) = p BY Names
    <2>2. ~HasDir(U, k) BY <1>5, <2>1 DEF HasDir, None, Stuck, Dir
    <2> QED BY <1>3, <2>1, <2>2
  <1>7. \A n \in Under(p) : U[n] \in {None, Stuck} BY <1>5, <1>6, Names
  <1> QED BY <1>2, <1>7 DEF U

(* As before the operation, or as after it, or not to be looked up.        *)
HalfDone(n) ==
  \/ Now[n] \in {tree[n], Effect(tree, Op)[n]}
  \/ Now[n] = Stuck
  \/ Now[n] = None /\ Len(n) = 2 /\ Now[Parent(n)] = Stuck

(* An operation that leaves no name at p, while p has its whiteout.        *)
LEMMA CutHidden ==
  ASSUME IInv, pc # "idle", Shows(wh \ {a.p}, opq) = tree, \A n \in Under(a.p) : Effect(tree, Op)[n] = None
  PROVE  \A n \in Path : HalfDone(n)
  <1>1. a.p \in Path BY InCall DEF IInv
  <1>2. Disk(ent[0], wh, opq) /\ Lower(Low) BY LowIsLower DEF IInv, DiskOK, TypeOK, Low
  <1>3. CASE a.p \in wh
    <2>1. \A n \in Path : \/ Now[n] = tree[n]
                          \/ n \in Under(a.p) /\ Now[n] \in {None, Stuck}
      <3>1. \A n \in Path : \/ Union(ent[0], wh, opq, Low)[n] = Union(ent[0], wh \ {a.p}, opq, Low)[n]
                            \/ n \in Under(a.p) /\ Union(ent[0], wh, opq, Low)[n] \in {None, Stuck}
        BY <1>1, <1>2, <1>3, HiddenOnly
      <3> QED BY <3>1 DEF Now, Shows
    <2> QED BY <2>1 DEF HalfDone
  <1>4. CASE a.p \notin wh
    <2>1. wh \ {a.p} = wh BY <1>4
    <2>2. Now = tree BY <2>1, Zenon DEF Now
    <2> QED BY <2>2 DEF HalfDone
  <1> QED BY <1>3, <1>4

(* A name that is being made.                                              *)
LEMMA CutAdding ==
  ASSUME IInv, pc \in AddLate, faults < 2
  PROVE  \A n \in Path : HalfDone(n)
  <1>1. a.q \in Path /\ AddMarks /\ tree[a.q] = None
    <2>1. TypeOK /\ OpOK BY DEF IInv
    <2> QED BY <2>1, Adding, InAddLate
  <1>2. Disk(ent[0], wh, opq) /\ Lower(Low) BY LowIsLower DEF IInv, DiskOK, TypeOK, Low
  <1>3. CASE a.q \notin wh
    <2>1. a.wh /\ a.kind = "mkdir" => a.q \in opq BY <1>1, <1>3 DEF AddMarks
    <2>2. Union(ent[0], wh \ {a.q}, opq, Low) = Effect(tree, Op) BY <2>1, AddShown
    <2>3. wh \ {a.q} = wh BY <1>3
    <2>4. Now = Effect(tree, Op) BY <2>2, <2>3, Zenon DEF Now, Shows
    <2> QED BY <2>4 DEF HalfDone
  <1>4. CASE a.q \in wh
    <2>1. \A n \in Under(a.q) : Now[n] \in {None, Stuck} /\ (n # a.q => Now[n] = None)
      <3>1. \A n \in Path : Now[n] = IF HasDir(Now, n) THEN Shown(ent[0], wh, opq, Low, n) ELSE None
        BY <1>2, UnionIs DEF Now, Shows
      <3>2. Now[a.q] \in {None, Stuck} BY <1>1, <1>4, <3>1 DEF Shown, Own
      <3>3. \A k \in Below(a.q) : k \in Path /\ ~HasDir(Now, k)
        BY <1>1, <3>2, Names DEF HasDir, None, Stuck, Dir
      <3> QED BY <1>1, <3>1, <3>2, <3>3, Names
    <2>2. \A n \in Under(a.q) : tree[n] = None
      <3>1. \A n \in Path : tree[n] # None => HasDir(tree, n) BY DEF IInv, TypeOK, Tree
      <3>2. \A k \in Below(a.q) : tree[k] = None BY <1>1, <3>1, Names DEF HasDir, None, Dir
      <3> QED BY <1>1, <3>2, Names
    <2>3. \A n \in Path \ Under(a.q) : Now[n] = tree[n]
      <3>1. /\ OldUp \in [Path -> Stored] /\ ent[0] \in [Path -> Stored] /\ wh \in SUBSET Path /\ opq \in SUBSET Path
            /\ OldWh \in SUBSET Path /\ OldOpq \in SUBSET Path
        BY <1>2 DEF IInv, AddOK, Disk
      <3>2. AlikeOutside(OldUp, OldWh, OldOpq, ent[0], wh, opq, Under(a.q))
        <4>1. \A n \in Path \ Under(a.q) : Len(n) = 2 => Parent(n) \notin Under(a.q) BY <1>1, Names
        <4>2. a.q \in Under(a.q) BY <1>1, Names
        <4>3. \A n \in Path \ Under(a.q) : ent[0][n] = OldUp[n] BY <3>1, <4>2 DEF OldUp
        <4>4. \A n \in Path \ Under(a.q) : (n \in wh <=> n \in OldWh) /\ (n \in opq <=> n \in OldOpq)
          BY <4>2 DEF OldWh, OldOpq
        <4> QED BY <3>1, <4>1, <4>3, <4>4 DEF AlikeOutside
      <3>3. \A n \in Path \ Under(a.q) : Union(ent[0], wh, opq, Low)[n] = Union(OldUp, OldWh, OldOpq, Low)[n]
        BY <3>2, SameOutside
      <3> QED BY <3>3 DEF IInv, AddOK, Now, Shows
    <2>4. \A n \in Path : Now[n] = tree[n] \/ Now[n] = Stuck
      <3>1. \A n \in Under(a.q) : Now[n] = tree[n] \/ Now[n] = Stuck BY <2>1, <2>2
      <3> QED BY <2>3, <3>1
    <2> QED BY <2>4 DEF HalfDone
  <1> QED BY <1>3, <1>4

(* A name that has been renamed: it may be hidden, or not be seen whole    *)
(* because it is not opaque yet, but then it is hidden.                    *)
LEMMA CutGone ==
  ASSUME IInv, pc \in RenLate, GoneOK, IsDirRen /\ a.q \notin wh => DirShown
  PROVE  \A n \in Path : HalfDone(n)
  <1>1. /\ Tree(tree) /\ a.p \in Path /\ a.q \in Path /\ a.p \notin Under(a.q) /\ a.q \notin Under(a.p)
        /\ HasDir(tree, a.q) /\ tree[a.p] \notin {None, Stuck} /\ tree[a.p] \in Data \cup {Dir}
        /\ Effect(tree, Op) = Moved(tree, a.p, a.q) /\ pc # "idle"
    <2>1. TypeOK /\ OpOK BY DEF IInv
    <2> QED BY <2>1, Renaming
  <1>2. Disk(ent[0], wh, opq) /\ Lower(Low) BY LowIsLower DEF IInv, DiskOK, TypeOK, Low
  <1>3. EntMoved(Effect(tree, Op), tree, a.p, a.q) BY <1>1, MovedIs
  <1>4. \A n \in Path : n \notin Under(a.p) /\ n \notin Under(a.q) => Now[n] = tree[n]
    <2>1. Touched(Op) = Under(a.p) \cup Under(a.q) BY <1>1, InCall DEF IInv
    <2> QED BY <1>1, <2>1 DEF IInv, OutsideOK
  <1>5. CASE a.q \notin wh
    <2>1. Covered(wh, opq, Low, a.p) /\ ent[0][a.p] = None /\ ent[0][a.q] = tree[a.p]
      BY DEF GoneOK, SrcHidden, Upper
    <2>2. \A k \in Below(a.q) : Own(ent[0], wh, k) = Moved(tree, a.p, a.q)[k] BY DEF GoneOK
    <2>3. tree[a.p] = Dir => a.q \in opq \/ \A k \in Below(a.q) : Low[k] = None BY <1>5 DEF IsDirRen, DirShown
    <2>4. Union(ent[0], wh, opq, Low) = Moved(tree, a.p, a.q)
      <3>1. \A n \in Path : n \notin Under(a.p) /\ n \notin Under(a.q) => Union(ent[0], wh, opq, Low)[n] = tree[n]
        BY <1>4 DEF Now, Shows
      <3> QED BY <1>1, <1>2, <1>5, <2>1, <2>2, <2>3, <3>1, Renamed
    <2>5. Now = Effect(tree, Op) BY <1>1, <2>4 DEF Now, Shows
    <2> QED BY <2>5 DEF HalfDone
  <1>6. CASE a.q \in wh
    <2>1. \A n \in Path : Now[n] = IF HasDir(Now, n) THEN Shown(ent[0], wh, opq, Low, n) ELSE None
      BY <1>2, UnionIs DEF Now, Shows
    <2>2. Now[a.q] = Stuck
      <3>1. HasDir(Now, a.q)
        <4>1. ASSUME Len(a.q) = 2 PROVE Now[Parent(a.q)] = Dir
          <5>1. Parent(a.q) \in Path /\ Parent(a.q) \notin Under(a.q) /\ Parent(a.q) \notin Under(a.p)
            BY <1>1, <4>1, Names
          <5> QED BY <1>1, <1>4, <4>1, <5>1 DEF HasDir
        <4> QED BY <1>1, <4>1, Names DEF HasDir
      <3>2. ent[0][a.q] # None BY <1>1 DEF GoneOK, Upper
      <3> QED BY <1>1, <1>6, <2>1, <3>1, <3>2 DEF Shown, Own
    <2>3. \A k \in Below(a.q) : k \in Path /\ Len(k) = 2 /\ Parent(k) = a.q BY <1>1, Names
    <2>4. \A k \in Below(a.q) : ~HasDir(Now, k) BY <2>2, <2>3 DEF HasDir, Stuck, Dir
    <2>5. \A k \in Below(a.q) : HalfDone(k) BY <2>1, <2>2, <2>3, <2>4 DEF HalfDone
    <2>6. Now[a.p] = None
      <3>1. Shown(ent[0], wh, opq, Low, a.p) = None
        BY DEF GoneOK, SrcHidden, Covered, Upper, Shown, Own
      <3> QED BY <1>1, <2>1, <3>1
    <2>7. \A k \in Below(a.p) : Now[k] = None
      <3>1. \A k \in Below(a.p) : k \in Path /\ ~HasDir(Now, k) BY <1>1, <2>6, Names DEF HasDir, None, Dir
      <3> QED BY <2>1, <3>1
    <2>8. \A n \in Under(a.p) : Effect(tree, Op)[n] = None BY <1>3 DEF EntMoved
    <2>9. \A n \in Under(a.p) : HalfDone(n) BY <1>1, <2>6, <2>7, <2>8, Names DEF HalfDone
    <2>10. HalfDone(a.q) BY <2>2 DEF HalfDone
    <2>11. \A n \in Path : n \notin Under(a.p) /\ n \notin Under(a.q) => HalfDone(n) BY <1>4 DEF HalfDone
    <2> QED BY <1>1, <2>5, <2>9, <2>10, <2>11, Names
  <1> QED BY <1>5, <1>6

(* The power may go at any step before a step and its undoing have both    *)
(* failed, except when one directory replaces another.                     *)
LEMMA Interrupted ==
  ASSUME IInv, pc # "idle", faults < 2, ~(a.kind = "rename" /\ tree[a.q] = Dir)
  PROVE  \A n \in Path : HalfDone(n)
  <1>1. CASE pc \in Clean
    <2>1. Now = tree BY <1>1 DEF IInv, CleanOK
    <2> QED BY <2>1 DEF HalfDone
  <1>2. CASE pc = "end"
    <2>1. Now = tree \/ Now = Effect(tree, Op)
      <3>1. a.err \in Error /\ a.err # "eio" BY <1>2 DEF IInv, TypeOK, Args, ErrOK
      <3> QED BY <1>2, <3>1 DEF IInv, EndOK, Error
    <2> QED BY <2>1 DEF HalfDone
  <1>3. CASE pc \in AddLate BY <1>3, CutAdding
  <1>4. CASE pc \in DelLate
    <2>1. a.p \in Path /\ Effect(tree, Op) = [n \in Path |-> IF n \in Under(a.p) THEN None ELSE tree[n]]
      BY <1>4, InDelLate
    <2>2. \A n \in Under(a.p) : n \in Path BY <2>1, Names
    <2>3. Shows(wh \ {a.p}, opq) = tree BY <1>4 DEF IInv, DelOK
    <2> QED BY <2>1, <2>2, <2>3, CutHidden
  <1>5. CASE pc \in RenLate
    <2>1. a.kind = "rename" /\ tree[a.q] # Dir BY <1>5, InRenLate
    <2>2. /\ a.p \in Path /\ a.q \in Path /\ a.p \notin Under(a.q) /\ a.q \notin Under(a.p)
          /\ Effect(tree, Op) = Moved(tree, a.p, a.q) /\ (IsDirRen => tree[a.q] \in {Dir, None})
      <3>1. TypeOK /\ OpOK BY DEF IInv
      <3> QED BY <1>5, <3>1, Renaming
    <2>3. \A n \in Under(a.p) : Effect(tree, Op)[n] = None
      <3>1. EntMoved(Moved(tree, a.p, a.q), tree, a.p, a.q) BY <2>2, MovedIs
      <3> QED BY <2>2, <3>1 DEF EntMoved
    <2>4. RenOK BY DEF IInv
    <2>5. CASE pc \in RenHere
      <3>1. Shows(wh \ {a.p}, opq) = tree BY <2>1, <2>4, <2>5 DEF RenOK, HereOK
      <3> QED BY <2>3, <3>1, CutHidden
    <2>6. CASE pc \in RenGone
      <3>1. GoneOK BY <2>4, <2>6 DEF RenOK
      <3>2. IsDirRen /\ a.q \notin wh => DirShown
        <4>1. CASE pc = "renOpq"
          <5>1. tree[a.q] = None => a.q \in wh BY <2>4, <3>1, <4>1 DEF RenOK, GoneOK
          <5> QED BY <2>1, <2>2, <5>1
        <4>2. CASE pc = "renUnlinkWh" BY <2>4, <4>2 DEF RenOK
        <4> QED BY <2>6, <4>1, <4>2 DEF RenGone
      <3> QED BY <1>5, <3>1, <3>2, CutGone
    <2>7. CASE pc \in {"renRevOpq", "renRevMove"}
      <3>1. GoneOK /\ a.dwh BY <2>1, <2>4, <2>7 DEF RenOK, RenUndo
      <3>2. a.q \in wh BY <3>1 DEF GoneOK
      <3> QED BY <1>5, <3>1, <3>2, CutGone
    <2>8. CASE pc \in {"renRevWhtmp", "renRevWhSrc"}
      <3>1. Shows(wh \ {a.p}, opq) = tree BY <2>1, <2>4, <2>8 DEF RenOK, RenUndo
      <3> QED BY <2>3, <3>1, CutHidden
    <2> QED BY <1>5, <2>5, <2>6, <2>7, <2>8 DEF RenLate, RenUndo
  <1> QED BY <1>1, <1>2, <1>3, <1>4, <1>5 DEF IInv, TypeOK, Pc

-----------------------------------------------------------------------------
(* The promise.                                                            *)

(* The trees and the calls of UnionSpec are those of AufsUnion.            *)
LEMMA SameTrees ==
  /\ Promise!Path = Path /\ Promise!Value = Value /\ Promise!Calls = Calls
  /\ Promise!None = None /\ Promise!Dir = Dir /\ Promise!Stuck = Stuck /\ Promise!Idle = [kind |-> "idle"]
  /\ \A n : Promise!Under(n) = Under(n) /\ Promise!Parent(n) = Parent(n)
  /\ \A o : Promise!Touched(o) = Touched(o)
  /\ \A t, o : o.kind \in Kinds => (Promise!MayCall(t, o) <=> MayCall(t, o))
  /\ \A t, o : /\ Promise!MaySucceed(t, o) <=> MaySucceed(t, o)
               /\ Promise!Effect(t, o) = Effect(t, o)
  <1>1. Promise!Path = Path BY DEF Promise!Path, Path
  <1>2. Promise!None = None /\ Promise!Dir = Dir /\ Promise!Stuck = Stuck /\ Promise!Idle = [kind |-> "idle"]
    BY Zenon DEF Promise!None, Promise!Dir, Promise!Stuck, Promise!Idle, None, Dir, Stuck
  <1>3. Promise!Value = Value BY <1>2, Zenon DEF Promise!Value, Value
  <1>4. \A n : Promise!Parent(n) = Parent(n) BY Zenon DEF Promise!Parent, Parent
  <1>5. \A n : Promise!Below(n) = Below(n) BY <1>1, Zenon DEF Promise!Below, Below
  <1>6. \A n : Promise!Under(n) = Under(n) BY <1>5, Zenon DEF Promise!Under, Under
  <1>7. \A o : Promise!Touched(o) = Touched(o) BY <1>6, Zenon DEF Promise!Touched, Touched
  <1>8. Promise!Kinds = Kinds BY Zenon DEF Promise!Kinds, Kinds
  <1>9. Promise!Calls = Calls BY <1>1, <1>6, <1>8, SMT DEF Promise!Calls, Calls
  <1>10. \A t, n : Promise!HasDir(t, n) <=> HasDir(t, n)
    BY <1>2, <1>4, SMT DEF Promise!HasDir, HasDir
  <1>11. \A t, n : Promise!IsEmpty(t, n) <=> IsEmpty(t, n) BY <1>2, <1>5, SMT DEF Promise!IsEmpty, IsEmpty
  <1>12. ASSUME NEW t, NEW o, o.kind \in Kinds PROVE Promise!MayCall(t, o) <=> MayCall(t, o)
    <2> DEFINE k == o.kind
    <2>1. CASE k \in {"create", "mkdir"} BY <1>2, <1>10, <2>1 DEF Promise!MayCall, MayCall
    <2>2. CASE k = "link" BY <1>2, <1>10, <2>2 DEF Promise!MayCall, MayCall
    <2>3. CASE k = "unlink" BY <1>2, <1>10, <2>3 DEF Promise!MayCall, MayCall
    <2>4. CASE k = "rmdir" BY <1>2, <1>10, <2>4 DEF Promise!MayCall, MayCall
    <2>5. CASE k = "write" BY <1>2, <1>10, <2>5 DEF Promise!MayCall, MayCall
    <2>6. CASE k = "rename" BY <1>2, <1>10, <2>6 DEF Promise!MayCall, MayCall
    <2> QED BY <1>12, <2>1, <2>2, <2>3, <2>4, <2>5, <2>6 DEF Kinds
  <1>13. \A t, o : Promise!MaySucceed(t, o) <=> MaySucceed(t, o)
    BY <1>2, <1>11, SMT DEF Promise!MaySucceed, MaySucceed
  <1>14. \A n, p, q : Promise!Rebase(n, p, q) = Rebase(n, p, q) BY Zenon DEF Promise!Rebase, Rebase
  <1>15. \A t, p, q : Promise!Moved(t, p, q) = Moved(t, p, q)
    BY <1>1, <1>2, <1>6, <1>14, SMT DEF Promise!Moved, Moved
  <1>16. \A t, o : Promise!Effect(t, o) = Effect(t, o)
    BY <1>1, <1>2, <1>6, <1>15, SMT DEF Promise!Effect, Effect
  <1> QED BY <1>1, <1>2, <1>3, <1>4, <1>6, <1>7, <1>9, <1>12, <1>13, <1>16

(* The end of an operation is one of the ends that UnionSpec allows.       *)
LEMMA Returns ==
  ASSUME IInv, Return
  PROVE  Promise!Next
  <1>1. pc = "end" /\ pc' = "idle" /\ tree' = View /\ res' = a.err BY DEF Return, At, Goto
  <1>2. tree' = Now BY <1>1, ViewIs DEF IInv
  <1> DEFINE call == IF pc = "idle" THEN [kind |-> "idle"] ELSE [kind |-> a.kind, p |-> a.p, q |-> a.q, v |-> a.v]
  <1>3. call = Op /\ call' = [kind |-> "idle"] BY <1>1, Zenon DEF Op
  <1>4. a.kind \in Kinds /\ a.err \in Error BY <1>1 DEF IInv, TypeOK, Args
  <1>5. call # Promise!Idle /\ call' = Promise!Idle /\ call.kind = a.kind
    <2>1. Op.kind = a.kind /\ [kind |-> "idle"].kind = "idle" BY DEF Op
    <2>2. a.kind # "idle" BY <1>4 DEF Kinds
    <2>3. Op # [kind |-> "idle"] BY <2>1, <2>2, Zenon
    <2> HIDE DEF call
    <2> QED BY <1>3, <2>1, <2>3, SameTrees, Zenon
  <1>6. Promise!Elsewhere /\ tree' \in [Promise!Path -> Promise!Value]
    <2>1. \A n \in Path \ Touched(Op) : tree'[n] = tree[n] BY <1>1, <1>2 DEF IInv, OutsideOK
    <2>2. \A n \in Promise!Path \ Promise!Touched(call) : tree'[n] = tree[n]
      <3> HIDE DEF call
      <3> QED BY <1>3, <2>1, SameTrees, Zenon
    <2>3. Tree(Now)
      <3>1. Lower(Low) BY LowIsLower DEF Low, IInv, TypeOK
      <3> QED BY <3>1, UnionIs DEF Now, Shows, IInv, DiskOK
    <2>4. tree' \in [Path -> Value] BY <1>2, <2>3 DEF Tree
    <2> QED BY <2>2, <2>4, SameTrees, Zenon DEF Promise!Elsewhere
  <1>7. CASE a.err = "ok"
    <2>1. MaySucceed(tree, Op) /\ tree' = Effect(tree, Op) BY <1>1, <1>2, <1>7 DEF IInv, EndOK
    <2>2. Promise!MaySucceed(tree, call) /\ tree' = Promise!Effect(tree, call)
      <3> HIDE DEF call
      <3> QED BY <1>3, <2>1, SameTrees, Zenon
    <2>3. Promise!Succeed BY <1>1, <1>5, <1>7, <2>2, Zenon DEF Promise!Succeed
    <2> QED BY <2>3, Zenon DEF Promise!Next
  <1>8. CASE a.err = "err" /\ a.kind = "rename"
    <2>1. Promise!RenameBroken BY <1>1, <1>5, <1>6, <1>8, Zenon DEF Promise!RenameBroken
    <2> QED BY <2>1, Zenon DEF Promise!Next
  <1>9. CASE a.err = "err" /\ a.kind # "rename"
    <2>1. Now = tree \/ (a.kind = "link" /\ Now = Effect(tree, Op)) BY <1>1, <1>9 DEF IInv, EndOK
    <2>2. CASE Now = tree
      <3>1. Promise!Fail BY <1>1, <1>2, <1>5, <1>9, <2>2, Zenon DEF Promise!Fail
      <3> QED BY <3>1, Zenon DEF Promise!Next
    <2>3. CASE a.kind = "link" /\ Now = Effect(tree, Op)
      <3>1. tree' = Promise!Effect(tree, call)
        <4> HIDE DEF call
        <4> QED BY <1>2, <1>3, <2>3, SameTrees, Zenon
      <3>2. Promise!LinkMadeAnyway BY <1>1, <1>5, <1>9, <2>3, <3>1, Zenon DEF Promise!LinkMadeAnyway
      <3> QED BY <3>2, Zenon DEF Promise!Next
    <2> QED BY <2>1, <2>2, <2>3
  <1>10. CASE a.err = "eio"
    <2>1. Promise!Break BY <1>1, <1>5, <1>6, <1>10, Zenon DEF Promise!Break
    <2> QED BY <2>1, Zenon DEF Promise!Next
  <1> QED BY <1>4, <1>7, <1>8, <1>9, <1>10 DEF Error

(* A power loss is one of the crashes that UnionSpec allows.               *)
LEMMA LosesPower ==
  ASSUME IInv, PowerLoss
  PROVE  Promise!Next
  <1>1. pc # "idle" /\ pc' = "idle" /\ tree' = View /\ res' = (IF faults < 2 THEN "crash" ELSE "eio")
    BY DEF PowerLoss, Goto
  <1>2. tree' = Now BY <1>1, ViewIs DEF IInv
  <1> DEFINE call == IF pc = "idle" THEN [kind |-> "idle"] ELSE [kind |-> a.kind, p |-> a.p, q |-> a.q, v |-> a.v]
  <1>3. call = Op /\ call' = [kind |-> "idle"] BY <1>1, Zenon DEF Op
  <1>4. a.kind \in Kinds /\ faults \in Nat /\ a.p \in Path /\ a.q \in Path BY <1>1 DEF IInv, TypeOK, Args
  <1>5. call # Promise!Idle /\ call' = Promise!Idle /\ call.kind = a.kind /\ call.q = a.q
    <2>1. Op.kind = a.kind /\ Op.q = a.q /\ [kind |-> "idle"].kind = "idle" BY DEF Op
    <2>2. a.kind # "idle" BY <1>4 DEF Kinds
    <2>3. Op # [kind |-> "idle"] BY <2>1, <2>2, Zenon
    <2> HIDE DEF call
    <2> QED BY <1>3, <2>1, <2>3, SameTrees, Zenon
  <1>6. Promise!Elsewhere /\ tree' \in [Promise!Path -> Promise!Value]
    <2>1. \A n \in Path \ Touched(Op) : tree'[n] = tree[n] BY <1>1, <1>2 DEF IInv, OutsideOK
    <2>2. \A n \in Promise!Path \ Promise!Touched(call) : tree'[n] = tree[n]
      <3> HIDE DEF call
      <3> QED BY <1>3, <2>1, SameTrees, Zenon
    <2>3. Tree(Now)
      <3>1. Lower(Low) BY LowIsLower DEF Low, IInv, TypeOK
      <3> QED BY <3>1, UnionIs DEF Now, Shows, IInv, DiskOK
    <2>4. tree' \in [Path -> Value] BY <1>2, <2>3 DEF Tree
    <2> QED BY <2>2, <2>4, SameTrees, Zenon DEF Promise!Elsewhere
  <1>7. CASE ~(faults < 2)
    <2>1. Promise!Break BY <1>1, <1>5, <1>6, <1>7, Zenon DEF Promise!Break
    <2> QED BY <2>1, Zenon DEF Promise!Next
  <1>8. CASE faults < 2 /\ a.kind = "rename" /\ tree[a.q] = Dir
    <2>1. Promise!Dir = Dir BY SameTrees, Zenon
    <2>2. Promise!CrashInDirRename BY <1>1, <1>5, <1>6, <1>8, <2>1, Zenon DEF Promise!CrashInDirRename
    <2> QED BY <2>2, Zenon DEF Promise!Next
  <1>9. CASE faults < 2 /\ ~(a.kind = "rename" /\ tree[a.q] = Dir)
    <2>1. \A n \in Path : HalfDone(n) BY <1>1, <1>9, Interrupted
    <2>2. \A n \in Touched(Op) : n \in Path BY <1>1, <1>4, Names, InCall DEF IInv
    <2>3. \A n \in Promise!Touched(call) :
            \/ tree'[n] \in {tree[n], Promise!Effect(tree, call)[n]}
            \/ tree'[n] = Promise!Stuck
            \/ tree'[n] = Promise!None /\ Len(n) = 2 /\ tree'[Promise!Parent(n)] = Promise!Stuck
      <3>1. \A n \in Touched(Op) :
              \/ tree'[n] \in {tree[n], Effect(tree, Op)[n]}
              \/ tree'[n] = Stuck
              \/ tree'[n] = None /\ Len(n) = 2 /\ tree'[Parent(n)] = Stuck
        BY <1>2, <2>1, <2>2, Zenon DEF HalfDone
      <3> HIDE DEF call
      <3> QED BY <1>3, <3>1, SameTrees, Zenon
    <2>4. Promise!Crash BY <1>1, <1>5, <1>6, <1>9, <2>3, Zenon DEF Promise!Crash
    <2> QED BY <2>4, Zenon DEF Promise!Next
  <1> QED BY <1>7, <1>8, <1>9

(* A call is one that UnionSpec allows.                                    *)
LEMMA Calling ==
  ASSUME IInv, Begin
  PROVE  Promise!Next
  <1> DEFINE call == IF pc = "idle" THEN [kind |-> "idle"] ELSE [kind |-> a.kind, p |-> a.p, q |-> a.q, v |-> a.v]
  <1>1. pc = "idle" /\ UNCHANGED <<tree, res>> BY DEF Begin, At, Remember
  <1>2. PICK o \in Calls :
          /\ MayCall(tree, o)
          /\ a' = [NoOp EXCEPT !.kind = o.kind, !.p = o.p, !.q = o.q, !.v = o.v]
          /\ Goto(CASE o.kind \in {"create", "mkdir", "link"} -> "addStart"
                    [] o.kind \in {"unlink", "rmdir"} -> "delStart"
                    [] o.kind = "rename" -> "renStart"
                    [] o.kind = "write" -> "wrStart")
    BY Zenon DEF Begin
  <1>3. o \in [kind : Kinds, p : Path, q : Path, v : Data] BY <1>2, Zenon DEF Calls
  <1>4. o.kind \in Kinds /\ o = [kind |-> o.kind, p |-> o.p, q |-> o.q, v |-> o.v] BY <1>3
  <1>5. pc' # "idle" BY <1>2, <1>4 DEF Goto, Kinds
  <1>6. a'.kind = o.kind /\ a'.p = o.p /\ a'.q = o.q /\ a'.v = o.v BY <1>2 DEF NoOp
  <1>7. call = [kind |-> "idle"] /\ call' = o BY <1>1, <1>4, <1>5, <1>6, Zenon
  <1> HIDE DEF call
  <1>8. call = Promise!Idle /\ o \in Promise!Calls /\ Promise!MayCall(tree, o)
    BY <1>2, <1>4, <1>7, SameTrees, Zenon
  <1>9. Promise!Call BY <1>1, <1>7, <1>8, Zenon DEF Promise!Call, call
  <1> QED BY <1>9, Zenon DEF Promise!Next

(* Every other step is inside an operation.                                *)
Steps ==
  \/ CopyupEntry \/ Write
  \/ AddStart \/ AddEntry \/ AddOpq \/ AddUnlinkWh \/ AddInode \/ AddRevert \/ LinkRevert
  \/ DelStart \/ DelWh \/ DelEntry \/ DelRevert
  \/ RenPrepare \/ RenWhSrc \/ RenLkupWh \/ RenWhtmp \/ RenMove \/ RenOpq \/ RenUnlinkWh \/ RenRevert

(* They go on with the call, and neither its caller nor the next one sees  *)
(* them.                                                                   *)
LEMMA StepInside ==
  ASSUME IInv, Steps
  PROVE  /\ pc # "idle" /\ pc' # "idle" /\ UNCHANGED <<tree, res>>
         /\ a'.kind = a.kind /\ a'.p = a.p /\ a'.q = a.q /\ a'.v = a.v
  <1>1. pc # "idle"
    BY DEF Steps, CopyupEntry, Write, AddStart, AddEntry, AddOpq, AddUnlinkWh, AddInode, AddRevert, LinkRevert,
           DelStart, DelWh, DelEntry, DelRevert, RenPrepare, RenWhSrc, RenLkupWh, RenWhtmp, RenMove, RenOpq,
           RenUnlinkWh, RenRevert, At
  <1>2. UNCHANGED <<tree, res>>
    BY DEF Steps, CopyupEntry, Write, AddStart, AddEntry, AddOpq, AddUnlinkWh, AddInode, AddRevert, LinkRevert,
           DelStart, DelWh, DelEntry, DelRevert, RenPrepare, RenWhSrc, RenLkupWh, RenWhtmp, RenMove, RenOpq,
           RenUnlinkWh, RenRevert, Remember
  <1>3. a \in Args /\ a.then # "idle"
    <2>1. a \in Args /\ a.then \in PcsOf(a.kind) /\ a.kind \in Kinds BY <1>1 DEF IInv, TypeOK, OpOK, Args
    <2> QED BY <2>1 DEF PcsOf, CpPc, WrPc, AddPc, AddLate, DelPc, DelLate, RenPc, RenLate, RenHere, RenGone, RenUndo, Kinds
  <1> DEFINE On == pc' # "idle" /\ a'.kind = a.kind /\ a'.p = a.p /\ a'.q = a.q /\ a'.v = a.v
  <1>4. \A n, l : Copyup(n, l) /\ l # "idle" => On BY <1>3 DEF Copyup, Goto, Args
  <1>5. CopyupEntry => On BY <1>3 DEF CopyupEntry, Err, Goto, Args
  <1>6. Write => On BY <1>3, <1>4 DEF Write, Err, Goto, Args
  <1>7. AddStart => On BY <1>3, <1>4 DEF AddStart, Err, Goto, Args
  <1>8. AddEntry => On BY <1>3 DEF AddEntry, Err, Goto, Args
  <1>9. AddOpq => On BY <1>3 DEF AddOpq, Err, Goto, Args
  <1>10. AddUnlinkWh => On BY <1>3 DEF AddUnlinkWh, Err, Goto, Args
  <1>11. AddInode => On BY <1>3 DEF AddInode, Err, Goto, Args
  <1>12. AddRevert => On BY <1>3 DEF AddRevert, Err, Goto, Args
  <1>13. LinkRevert => On BY <1>3 DEF LinkRevert, Err, Goto, Args
  <1>14. DelStart => On BY <1>3, <1>4 DEF DelStart, Err, Goto, Args
  <1>15. DelWh => On BY <1>3 DEF DelWh, Err, Goto, Args
  <1>16. DelEntry => On BY <1>3 DEF DelEntry, Err, Goto, Args
  <1>17. DelRevert => On BY <1>3 DEF DelRevert, Err, Goto, Args
  <1>18. RenPrepare => On BY <1>3, <1>4 DEF RenPrepare, Err, Goto, Args
  <1>19. RenWhSrc => On BY <1>3 DEF RenWhSrc, Err, Goto, Args
  <1>20. RenLkupWh => On BY <1>3 DEF RenLkupWh, Err, Goto, Args
  <1>21. RenWhtmp => On BY <1>3 DEF RenWhtmp, Err, Goto, Args
  <1>22. RenMove => On BY <1>3 DEF RenMove, Err, Goto, Args
  <1>23. RenOpq => On BY <1>3 DEF RenOpq, Err, Goto, Args
  <1>24. RenUnlinkWh => On BY <1>3 DEF RenUnlinkWh, Err, Goto, Args
  <1>25. RenRevert => On BY <1>3 DEF RenRevert, Goto
  <1> QED
    BY <1>1, <1>2, <1>5, <1>6, <1>7, <1>8, <1>9, <1>10, <1>11, <1>12, <1>13, <1>14, <1>15, <1>16, <1>17,
       <1>18, <1>19, <1>20, <1>21, <1>22, <1>23, <1>24, <1>25, Zenon DEF Steps

(* AufsUnion implements UnionSpec: the operations, whatever steps of them  *)
(* fail and wherever the power goes, do what their callers are promised.   *)
THEOREM PromiseKept == Spec => KeepsPromise
  <1>1. Init => Promise!Init
    <2> SUFFICES ASSUME Init PROVE Promise!Init OBVIOUS
    <2>1. IInv BY InitIInv
    <2>2. tree \in [Path -> Value] BY <2>1 DEF IInv, TypeOK, Tree
    <2>3. pc = "idle" /\ res = "ok" BY DEF Init
    <2>4. tree \in [Promise!Path -> Promise!Value] BY <2>2, SameTrees, Zenon
    <2> QED BY <2>3, <2>4, SameTrees, Zenon DEF Promise!Init
  <1>2. IInv /\ [Next]_vars => [Promise!Next]_(Promise!uvars)
    <2> SUFFICES ASSUME IInv, [Next]_vars PROVE [Promise!Next]_(Promise!uvars) OBVIOUS
    <2>1. CASE Begin BY <2>1, Calling, Zenon
    <2>2. CASE Return BY <2>2, Returns, Zenon
    <2>3. CASE PowerLoss BY <2>3, LosesPower, Zenon
    <2>4. CASE Steps
      <3>1. /\ pc # "idle" /\ pc' # "idle" /\ tree' = tree /\ res' = res
            /\ a'.kind = a.kind /\ a'.p = a.p /\ a'.q = a.q /\ a'.v = a.v
        BY <2>4, StepInside
      <3> QED BY <3>1 DEF Promise!uvars
    <2>5. CASE UNCHANGED vars BY <2>5 DEF vars, Promise!uvars
    <2> QED BY <2>1, <2>2, <2>3, <2>4, <2>5, Zenon DEF Next, Steps
  <1> QED BY IInvariant, <1>1, <1>2, PTL DEF Spec, KeepsPromise, Promise!Spec
=============================================================================
