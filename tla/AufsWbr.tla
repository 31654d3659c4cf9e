------------------------------- MODULE AufsWbr -------------------------------
(***************************************************************************)
(* Which branch an entry is written to, and move-down                      *)
(* (recipes-kernel/linux/linux-imx-3.10.17/aufs: wbr_policy.c, mvdown.c,   *)
(* au_wr_dir of i_op.c, au_cp_dirs of cpup.c).                             *)
(*                                                                         *)
(* One name f in directory d in directory g.  Every branch holds an entry  *)
(* of its own for each of the three, and is writable or read-only.  A      *)
(* create policy picks a branch from the free space, the last choice and a *)
(* round-robin counter; what it picks may be unusable, and au_wr_dir then  *)
(* falls back to the copy-up policy.  Missing parent directories are       *)
(* copied up, or down, to the branch.  The VFS and the dentry locks keep   *)
(* operations on the same names apart, so each of them is one step, with   *)
(* the steps that may fail inside as a choice.                             *)
(***************************************************************************)
EXTENDS Integers, FiniteSets, FiniteSetsExt

CONSTANTS
  N,          \* number of branches
  Old,        \* Old[b]: contents of the file that branch b holds at first
  Layouts(_), \* what branch b may hold at first: records [g, d, f]
  Bytes,      \* free space of a branch
  FreeAtFirst,\* the free space of the branches at first: functions
  Watermark,  \* mfsrr_watermark
  Width,      \* the round-robin counter is an unsigned number below Width
  FhsmBr,     \* branches with the fhsm attribute
  NativeRo,   \* branches whose own file system is mounted read-only
  Policies,   \* the create policies tried
  MvdFlags,   \* the flags move-down is called with
  MaxOps      \* bound on operations

ASSUME NAssumption == N \in Nat \ {0}
ASSUME WidthAssumption == Width \in Nat /\ Width > N
ASSUME BytesAssumption == Bytes \subseteq Nat /\ Watermark \in Nat
ASSUME FreeAssumption == FreeAtFirst \subseteq [0 .. N - 1 -> Bytes]
ASSUME MaxOpsAssumption == MaxOps \in Nat
ASSUME PoliciesAssumption == Policies \subseteq {"tdp", "rr", "mfs", "mfsrr", "pmfs", "pmfsrr"}
ASSUME BrSetsAssumption == FhsmBr \subseteq 0 .. N - 1 /\ NativeRo \subseteq 0 .. N - 1

VARIABLES
  ent,     \* ent[b]: the entries [g, d, f] of branch b
  di,      \* what the dentries of g, d and f remember of them
  rw,      \* branches with a writable permission
  free,    \* free space of each branch
  wbytes,  \* wbr_bytes: the free space aufs remembers
  mfs,     \* si_wbr_mfs: the branch chosen last, whether it expired, its space
  next,    \* si_wbr_rr_next
  pol,     \* the create and the copy-up policy
  last,    \* the last operation and its result
  ops      \* operations so far

choice == <<wbytes, mfs, next>>
vars   == <<ent, di, rw, free, wbytes, mfs, next, pol, last, ops>>

Br   == 0 .. N - 1
None == -1          \* no index, and -EROFS of the policies
New  == "new"       \* what an operation writes

(* An entry: nothing, a whiteout, a whiteout with a directory or a file    *)
(* beside it (left by a failed step), a directory, an opaque directory, or *)
(* the contents of a file.                                                 *)
Whs  == {"wh", "whdir", "whfile"}
Dirs == {"dir", "opq"}
Data == {New} \cup {Old[b] : b \in Br}
Cell == {"no"} \cup Whs \cup Dirs \cup Data

LowestOr(S, e)  == IF S = {} THEN e ELSE Min(S)
HighestOr(S, e) == IF S = {} THEN e ELSE Max(S)

(* The contents of files are not mistaken for what the other cells hold,   *)
(* and what a branch holds at first is a tree: there is nothing in a       *)
(* directory that is not there.                                            *)
ASSUME OldAssumption == \A b \in Br : Old[b] \notin {"no"} \cup Whs \cup Dirs
ASSUME LayoutsAssumption ==
  \A b \in Br : \A l \in Layouts(b) :
    /\ l \in [g : {"no", "wh"} \cup Dirs, d : {"no", "wh"} \cup Dirs, f : {"no", "wh", Old[b]}]
    /\ l.f # "no" => l.d \in Dirs
    /\ l.d # "no" => l.g \in Dirs

-----------------------------------------------------------------------------
(* Lookup: what a dentry remembers (di_bstart, di_bend, di_bwh,            *)
(* di_bdiropq and the branches with a positive lower dentry) after a first *)
(* look-up of a name whose parent is on the branches S; c[b] is the entry. *)
(* The search ends at a whiteout or a file, not at an opaque directory:    *)
(* that is for au_dbtaildir, and the lowest mark seen counts.              *)
Holders(S, c, X) == {b \in S : c[b] \in X}
Above(S, c, w)   == {b \in S : c[b] # "no" /\ (w # None => b < w)}
Info(S, c, bwh, isdir, pos) ==
  [start |-> LowestOr(pos, Min(S)), end |-> HighestOr(pos, Min(S)), pos |-> pos,
   wh |-> IF pos # {} /\ ~isdir THEN None ELSE bwh,
   opq |-> HighestOr(Holders(pos, c, {"opq"}), None)]

Dinfo(S, c) ==
  LET bwh  == LowestOr(Holders(S, c, Whs), None)
      seen == Above(S, c, bwh)
      top  == LowestOr(seen, None)
      isdir == top # None /\ c[top] \in Dirs
      pos  == IF isdir THEN Holders(seen, c, Dirs) ELSE seen \cap {top}
  IN Info(S, c, bwh, isdir, pos)

(* au_dbtail, au_dbtaildir: the last branch a directory is merged from.    *)
TailDir(i) ==
  LET tail == IF i.wh = 0 THEN 0 ELSE IF i.wh \in 1 .. i.end - 1 THEN i.wh - 1 ELSE i.end
  IN IF i.opq \in 0 .. tail - 1 THEN i.opq ELSE tail

Merged(i) == {b \in i.pos : b <= TailDir(i)}

Col(e, name) == [b \in Br |-> e[b][name]]

(* The dentries of g, d and f, looked up one below the other.              *)
Look(e) ==
  LET g == Dinfo(Br, Col(e, "g"))
      d == Dinfo(Merged(g), Col(e, "d"))
  IN [g |-> g, d |-> d, f |-> Dinfo(Merged(d), Col(e, "f"))]

HasParent(e) ==
  LET g == Dinfo(Br, Col(e, "g")) IN g.pos # {} /\ Dinfo(Merged(g), Col(e, "d")).pos # {}

G == di.g
D == di.d
F == di.f
View == IF F.pos = {} THEN "no" ELSE ent[F.start].f

Becomes(e) == ent' = e /\ di' = Look(e)

-----------------------------------------------------------------------------
(* Policies for create.  A policy yields the chosen branch (None: EROFS)   *)
(* and what it leaves in wbr_bytes, si_wbr_mfs and the counter.            *)

(* au_wbr_nonopq: not below an opaque ancestor (the parent not included).  *)
NonOpq(b) == IF b # None /\ G.opq \in 0 .. b - 1 THEN G.opq ELSE b

(* au_wbr_bu: the nearest writable branch, from b up.                      *)
Bu(b) == HighestOr({c \in rw : c <= b}, None)

(* Mutant: no last resort above the branches that have the parent.         *)
TdpParentOnly ==
  IF F.start \in rw THEN F.start ELSE LowestOr({b \in D.pos \cap rw : b < F.start}, None)

(* au_wbr_create_tdp, au_wbr_copyup_tdp.                                   *)
Tdp ==
  IF F.start \in rw THEN F.start
  ELSE LowestOr({b \in D.pos \cap rw : b < F.start}, NonOpq(Bu(F.start - 1)))

(* au_wbr_copyup_bup.                                                      *)
Bup == HighestOr({b \in D.pos \cap rw : D.start <= b /\ b <= F.start}, Bu(D.start - 1))

CopyupPolicy == CASE pol.copyup = "tdp" -> Tdp
                  [] pol.copyup = "bup" -> Bup
                  [] pol.copyup = "bu"  -> Bu(F.start)

(* Mutant: an opaque parent is not asked for.                              *)
ExpIgnoresOpq == IF F.wh # None /\ F.wh \in rw THEN F.wh ELSE None

(* au_wbr_create_exp: a whiteout of the name, or an opaque parent, decides *)
(* before the policy does.                                                 *)
Exp ==
  LET m == {b \in {F.wh, D.opq} : b # None}
      e == IF m = {} THEN None ELSE NonOpq(Min(m))
  IN IF e \in rw THEN e ELSE None

Same == [b |-> None, wb |-> wbytes, mfs |-> mfs, next |-> next]

(* au_wbr_create_rr: every try of a file takes the next number, skipping   *)
(* zero; a directory looks at the same number each time.                   *)
RrTries(x, isdir) ==
  LET try[k \in 0 .. N] ==
        IF k = 0 THEN [b |-> None, next |-> x]
        ELSE LET t == try[k - 1]
                 u == IF isdir \/ t.next # 0 THEN t.next ELSE Width - 1
             IN IF t.b # None THEN t
                ELSE [b |-> IF u % N \in rw THEN u % N ELSE None,
                      next |-> IF isdir THEN u ELSE (u - 1) % Width]
  IN try[N]

Rr(s, isdir) ==
  IF Exp # None THEN {[s EXCEPT !.b = Exp]}
  ELSE LET t == RrTries(s.next, isdir)
       IN {[s EXCEPT !.b = NonOpq(t.b), !.next = t.next]}

(* au_mfs: asks the writable branches (those with the parent, if asked so) *)
(* for their free space; of several with the most the lowest one is kept.  *)
(* ok: the branches whose statfs works.                                    *)
Mfs(s, parent, ok) ==
  LET S    == {b \in rw \cap ok : parent => b \in D.pos /\ b <= TailDir(D)}
      most == HighestOr({free[b] : b \in S}, 0)
      idx  == HighestOr({b \in S : free[b] = most}, None)
  IN [s EXCEPT !.wb = [b \in Br |-> IF b \in S THEN free[b] ELSE @[b]],
               !.mfs = [idx |-> idx, old |-> idx = None /\ @.old, bytes |-> most]]

(* au_wbr_create_mfs.  au_mfs does nothing when it gets no memory, and     *)
(* what was remembered is used again.  The index is read after mfs_lock is *)
(* released: while another task has begun au_mfs it reads as EROFS.        *)
MfsPolicy(s, parent) ==
  IF Exp # None THEN {[s EXCEPT !.b = Exp]}
  ELSE LET stale == s.mfs.old \/ s.mfs.idx \notin rw
           after == {s} \cup {Mfs(s, parent, ok) :
                                ok \in IF stale THEN {Br} \cup {Br \ {b} : b \in rw} ELSE {}}
       IN {[t EXCEPT !.b = NonOpq(i)] : t \in after, i \in {t2.mfs.idx : t2 \in after} \cup {None}}

(* au_wbr_create_mfsrr.                                                    *)
MfsrrPolicy(s, isdir, parent) ==
  UNION {IF t.b # None /\ t.mfs.bytes < Watermark THEN Rr(t, isdir) ELSE {t} :
           t \in MfsPolicy(s, parent)}

(* au_wbr_create_pmfs: top-down parent, unless another branch with the     *)
(* parent is known to have more space.                                     *)
PmfsPolicy(s, parent) ==
  IF Tdp = None \/ D.start = TailDir(D) THEN {[s EXCEPT !.b = Tdp]}
  ELSE {IF t.b = None THEN [t EXCEPT !.b = Tdp]
        ELSE LET S    == {b \in D.pos \cap rw : b <= TailDir(D)}
                 most == Max({t.wb[b] : b \in S \cup {Tdp}})
             IN [t EXCEPT !.b = NonOpq(IF most > t.wb[Tdp] THEN Min({b \in S : t.wb[b] = most}) ELSE Tdp)] :
          t \in MfsPolicy(s, parent)}

(* au_wbr_create_pmfsrr.                                                   *)
PmfsrrPolicy(s, isdir) ==
  UNION {IF t.b # None /\ t.wb[t.b] < Watermark THEN MfsrrPolicy(t, isdir, FALSE) ELSE {t} :
           t \in PmfsPolicy(s, TRUE)}

CreatePolicy(isdir) ==
  CASE pol.create = "tdp"    -> {[Same EXCEPT !.b = Tdp]}
    [] pol.create = "rr"     -> Rr(Same, isdir)
    [] pol.create = "mfs"    -> MfsPolicy(Same, FALSE)
    [] pol.create = "mfsrr"  -> MfsrrPolicy(Same, isdir, FALSE)
    [] pol.create = "pmfs"   -> PmfsPolicy(Same, FALSE)
    [] pol.create = "pmfsrr" -> PmfsrrPolicy(Same, isdir)

(* Mutant: what the policy picked is not checked again.                    *)
WrDirTrusts(isdir) ==
  {IF s.b = None THEN [s EXCEPT !.b = CopyupPolicy] ELSE s : s \in CreatePolicy(isdir)}

(* au_wr_dir: the copy-up policy replaces a choice that cannot be used.    *)
WrDir(isdir) ==
  {IF s.b \notin rw THEN [s EXCEPT !.b = CopyupPolicy] ELSE s : s \in CreatePolicy(isdir)}

-----------------------------------------------------------------------------
(* au_cp_dirs: the missing directories are made on branch t, g first.      *)
(* Outcomes: [e, ok], the entries afterwards and whether it worked.  A     *)
(* name that is there but not part of the union makes it fail, and so may  *)
(* any step; what cannot be undone then stays.                             *)
SetCell(e, b, name, c) == [e EXCEPT ![b] = [@ EXCEPT ![name] = c]]

(* One directory (au_cpup_dir, au_cpdown_dir).  Over its own whiteout it   *)
(* becomes opaque and the whiteout is removed.                             *)
MkDir(e, i, t, name, down) ==
  IF t \in i.pos THEN {[e |-> e, ok |-> TRUE]}
  ELSE IF e[t][name] \notin {"no", "wh"} THEN {[e |-> e, ok |-> FALSE]}
  ELSE LET made == IF e[t][name] = "no" THEN "dir"
                   ELSE IF down /\ i.wh = t THEN "opq" ELSE "whdir"
           left == IF e[t][name] = "no" THEN "dir" ELSE "whdir"
       IN {[e |-> SetCell(e, t, name, made), ok |-> TRUE],
           [e |-> e, ok |-> FALSE], [e |-> SetCell(e, t, name, left), ok |-> FALSE]}

CpDirs(t, down) ==
  UNION {IF m.ok THEN MkDir(m.e, D, t, "d", down) ELSE {m} : m \in MkDir(ent, G, t, "g", down)}

(* The parent on t (au_wr_dir_cpup): nothing to do, up, or down.           *)
ParentOn(t) ==
  IF t \in D.pos THEN {[e |-> ent, ok |-> TRUE]} ELSE CpDirs(t, F.start < t)

-----------------------------------------------------------------------------
(* Operations *)

Init ==
  /\ ent \in {e \in [Br -> UNION {Layouts(b) : b \in Br}] : \A b \in Br : e[b] \in Layouts(b)}
  /\ HasParent(ent) /\ di = Look(ent)
  /\ rw \in SUBSET Br \ {{}}
  /\ free \in FreeAtFirst
  /\ wbytes = [b \in Br |-> 0] /\ mfs = [idx |-> None, old |-> TRUE, bytes |-> 0] /\ next = 0
  /\ pol \in [create : {"tdp"}, copyup : {"tdp", "bup", "bu"}]
  /\ last = [op |-> "mount", res |-> "ok", at |-> None] /\ ops = 0

Ops == ops < MaxOps /\ ops' = ops + 1
Ends(op, res, at) == last' = [op |-> op, res |-> res, at |-> at]

(* au_opt_wbr_create: fin of the old policy, init of the new one; EROFS is *)
(* 30.                                                                     *)
SetCreate ==
  /\ last.op = "mount" /\ UNCHANGED ops
  /\ \E c \in Policies :
       /\ pol' = [pol EXCEPT !.create = c]
       /\ mfs' = IF c \in {"tdp", "rr"} THEN mfs ELSE [mfs EXCEPT !.idx = None, !.old = TRUE]
       /\ next' = IF c \notin {"rr", "mfsrr", "pmfsrr"} THEN next
                  ELSE IF rw = {} THEN 30 % Width ELSE (Width - Max(rw)) % Width
  /\ Ends("option", "ok", None) /\ UNCHANGED <<ent, di, rw, free, wbytes>>

(* The branches fill up, time passes, an administrator changes permissions *)
(* by a remount.  Considered after a create that left a choice behind: any *)
(* other change of theirs leads to a state that Init has as well.          *)
Remembered == last.op = "create" /\ mfs.idx # None /\ UNCHANGED ops

SpaceChanges ==
  /\ Remembered /\ \E b \in Br, n \in Bytes : free' = [free EXCEPT ![b] = n]
  /\ Ends("space", "ok", None) /\ UNCHANGED <<ent, di, rw, wbytes, mfs, next, pol>>

MfsExpires ==
  /\ Remembered /\ ~mfs.old /\ mfs' = [mfs EXCEPT !.old = TRUE]
  /\ Ends("time", "ok", None) /\ UNCHANGED <<ent, di, rw, free, wbytes, next, pol>>

ModBranch ==
  /\ Remembered /\ \E b \in Br : rw' = IF b \in rw THEN rw \ {b} ELSE rw \cup {b}
  /\ Ends("mod", "ok", None) /\ UNCHANGED <<ent, di, free, wbytes, mfs, next, pol>>

(* create, mkdir, mknod: the negative dentry gets an entry on the branch   *)
(* au_wr_dir chose; a whiteout there is removed.                           *)
Create(isdir) ==
  /\ Ops /\ View = "no"
  /\ \E s \in WrDir(isdir) :
       /\ wbytes' = s.wb /\ mfs' = s.mfs /\ next' = s.next
       /\ IF s.b = None THEN Ends("create", "EROFS", None) /\ UNCHANGED <<ent, di>>
          ELSE \E m \in ParentOn(s.b) :
                 IF m.ok /\ m.e[s.b].f \in {"no", "wh"}
                 THEN /\ Becomes(SetCell(m.e, s.b, "f", New)) /\ Ends("create", "ok", s.b)
                 ELSE /\ Becomes(m.e) /\ Ends("create", "EIO", s.b)
  /\ UNCHANGED <<rw, free, pol>>

(* au_ready_to_write: a file on a read-only branch is copied up.           *)
Write ==
  /\ Ops /\ View \in Data
  /\ LET t == IF F.start \in rw THEN F.start ELSE CopyupPolicy
     IN IF t = None THEN Ends("write", "EROFS", None) /\ UNCHANGED <<ent, di>>
        ELSE \E m \in (IF t \in D.pos THEN {[e |-> ent, ok |-> TRUE]} ELSE CpDirs(t, FALSE)) :
               IF m.ok THEN Becomes(SetCell(m.e, t, "f", New)) /\ Ends("write", "ok", t)
               ELSE Becomes(m.e) /\ Ends("write", "EIO", t)
  /\ UNCHANGED <<rw, free, choice, pol>>

-----------------------------------------------------------------------------
(* Move-down (au_mvdown).  The flags: ow overwrites a lower file, ku keeps *)
(* the upper one, roup allows a read-only upper branch; the lower branch   *)
(* is a writable one, any one, one with the fhsm attribute, or named.      *)
Flags == [ow : BOOLEAN, ku : BOOLEAN, roup : BOOLEAN, to : {"rw", "any", "fhsm", "brid"}]
ASSUME MvdFlagsAssumption == MvdFlags \subseteq Flags

(* find_lower_writable.                                                    *)
FindLower(to) ==
  LowestOr({b \in Br : b > F.start /\ CASE to = "fhsm" -> b \in FhsmBr \ NativeRo
                                         [] to = "rw"   -> b \in rw
                                         [] to = "any"  -> b \notin NativeRo}, None)

(* au_mvd_args_intermediate: the next lower entry or whiteout.  When that  *)
(* look-up fails the error is dropped and nothing counts as found.         *)
Lower(lkup) ==
  LET S == {b \in Merged(D) : b > F.start}
      m == Dinfo(S, Col(ent, "f"))
  IN IF ~lkup \/ S = {} THEN [found |-> None, wh |-> None]
     ELSE [found |-> IF m.pos = {} THEN None ELSE m.start, wh |-> IF m.pos = {} THEN m.wh ELSE None]

(* au_mvd_args: the file is idle and topmost on its branch, the ancestors  *)
(* are not opaque above the lower branch, nothing is in between, nothing   *)
(* is overwritten unless asked for.                                        *)
MvdArgs(fl, bdst, lkup) ==
  LET l == Lower(lkup)
  IN /\ F.start # N - 1 /\ (F.start \in rw \/ (fl.roup /\ F.start \notin NativeRo))
     /\ bdst # None /\ NonOpq(bdst) = bdst /\ ~(D.opq # None /\ D.opq < bdst)
     /\ ~(l.found = None /\ l.wh # None /\ l.wh < bdst)
     /\ ~(l.found # None /\ l.found < bdst)
     /\ (fl.ow \/ l.found # bdst)

(* Mutant: the upper file is removed first.                                *)
DoMvdownUnlinksFirst(e, fl, bsrc, bdst) ==
  LET d == e[bsrc].f
      u == IF fl.ku THEN e ELSE SetCell(e, bsrc, "f", "no")
  IN {[e |-> u, ok |-> FALSE], [e |-> SetCell(u, bdst, "f", d), ok |-> TRUE]}

(* au_do_cpdown, au_do_unlink_wh, au_do_unlink.  What was done on the      *)
(* lower branch is not undone.                                             *)
DoMvdown(e, fl, bsrc, bdst) ==
  LET d   == e[bsrc].f
      old == e[bdst].f
      cp  == SetCell(e, bdst, "f", IF old \in Whs THEN "whfile" ELSE d)
      wh  == SetCell(e, bdst, "f", d)
  IN IF bdst = bsrc \/ (old \in Data \cup {"whfile"} /\ ~fl.ow) THEN {[e |-> e, ok |-> FALSE]}
     ELSE {[e |-> e, ok |-> FALSE], [e |-> cp, ok |-> FALSE], [e |-> wh, ok |-> FALSE],
           [e |-> IF fl.ku THEN wh ELSE SetCell(wh, bsrc, "f", "no"), ok |-> TRUE]}

Mvdown(lkup) ==
  /\ Ops /\ View \in Data
  /\ LET op == IF lkup THEN "mvdown" ELSE "mvdownBlind" IN
     \E fl \in MvdFlags : \E bdst \in (IF fl.to = "brid" THEN Br ELSE {FindLower(fl.to)}) :
       /\ IF ~MvdArgs(fl, bdst, lkup) THEN Ends(op, "EINVAL", None) /\ UNCHANGED <<ent, di>>
          ELSE \E m \in (IF bdst \in D.pos THEN {[e |-> ent, ok |-> TRUE]} ELSE CpDirs(bdst, TRUE)) :
                 IF ~m.ok THEN Becomes(m.e) /\ Ends(op, "EIO", bdst)
                 ELSE \E r \in DoMvdown(m.e, fl, F.start, bdst) :
                        Becomes(r.e) /\ Ends(op, IF r.ok THEN "ok" ELSE "EIO", bdst)
  /\ UNCHANGED <<rw, free, choice, pol>>

Next ==
  \/ SetCreate \/ SpaceChanges \/ MfsExpires \/ ModBranch
  \/ \E isdir \in BOOLEAN : Create(isdir)
  \/ Write
  \/ Mvdown(TRUE)
  \/ Mvdown(FALSE)

Spec == Init /\ [][Next]_vars

-----------------------------------------------------------------------------
(* Properties *)

(* The marks that hide f's parents or f: whiteouts of the directories, and *)
(* opaque directories and whiteouts that a read-only branch holds.  The    *)
(* policies other than tdp do not look at them, and the last step of pmfs  *)
(* looks at no whiteout at all.                                            *)
Unseen ==
  \/ \E b \in Br : ent[b].g \in Whs \/ ent[b].d \in Whs
  \/ \E b \in Br \ rw : ent[b].g = "opq" \/ ent[b].d = "opq" \/ ent[b].f \in Whs
  \/ pol.create \in {"pmfs", "pmfsrr"} /\ F.wh # None

(* Whatever a policy picks, and whatever it remembers from before a        *)
(* permission was changed, a create or a write never touches a read-only   *)
(* branch (au_wr_dir asks again); and what a successful one put on its     *)
(* branch is what the union shows afterwards: the branch is not below      *)
(* something that hides it.                                                *)
TargetVisible ==
  [][last'.op \in {"create", "write"} =>
       /\ \A b \in Br : ent'[b] # ent[b] => b \in rw
       /\ last'.res = "ok" /\ (pol.create = "tdp" \/ ~Unseen) => View' = New]_vars

(* EROFS is answered only when no branch from the top down to the one the  *)
(* name was looked up on is writable: a policy that finds nothing, for     *)
(* instance because another task is about to refresh the most-free-space   *)
(* choice, does not make the call fail.  (bup asks only branches that have *)
(* the parent directory, and those above them all.)                        *)
RofsOnlyIfNone ==
  [][last'.res = "EROFS" =>
       \A b \in rw : b > F.start \/ (pol.copyup = "bup" /\ b > D.start /\ b \notin D.pos)]_vars

(* Move-down, completed or given up half-way, does not change what is read *)
(* through the union.  (Not so when the look-up of what is in between      *)
(* failed, or when a whiteout hides a parent directory on the way down.)   *)
MoveKeepsView ==
  [][last'.op = "mvdown" /\ ~(\E b \in Br : ent[b].g \in Whs \/ ent[b].d \in Whs)
       => View' = View]_vars
=============================================================================
