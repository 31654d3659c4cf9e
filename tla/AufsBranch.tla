----------------------------- MODULE AufsBranch ------------------------------
(***************************************************************************)
(* The branches of a mounted aufs and what refers to them                  *)
(* (recipes-kernel/linux/linux-imx-3.10.17/aufs: branch.c, sbinfo.c,       *)
(* whout.c, xino.c, file.c, finfo.c, dir.c, super.c).                      *)
(*                                                                         *)
(* A remount waits for the pending works, then takes the superblock lock   *)
(* and adds a branch, deletes one or changes its permission.  Open files   *)
(* and pending works refer to branches and count in br_count; a writable   *)
(* branch has a second object (br_wbr) for its whiteout base.  A file that *)
(* was open over a remount is brought up to date when it is used next.     *)
(* What happens under the lock (AufsSuper) is one step here.               *)
(***************************************************************************)
EXTENDS Integers, Sequences, SequencesExt, FiniteSetsExt

CONSTANTS
  Br,         \* directories that may become branches
  Wbr,        \* memory for the br_wbr objects
  DirFile,    \* open files of the root directory
  RegFile,    \* open regular files
  Work,       \* slots for pending works
  Loads,      \* what the mount is used for, see load
  NoBr, NoWbr,
  BranchMax   \* AUFS_BRANCH_MAX; an aufs_bindex_t is BranchMax wrapped

ASSUME BrAssumption == Br # {} /\ NoBr \notin Br /\ NoWbr \notin Wbr
ASSUME FiniteAssumption ==
  IsFiniteSet(Br) /\ IsFiniteSet(Work) /\ IsFiniteSet(DirFile) /\ IsFiniteSet(RegFile)
ASSUME LoadsAssumption ==
  Loads \subseteq [ops : SUBSET {"add", "del", "mod"}, kinds : SUBSET {"rebase", "trunc", "rmdir"},
                  branches : Nat, files : Nat, dirs : Nat]
ASSUME BranchMaxAssumption == BranchMax \in Nat \ {0} /\ Cardinality(Br) <= BranchMax

VARIABLES
  brs,      \* si_branch: the branches from top to bottom
  id,       \* br_id
  perm,     \* br_perm: "rw" or "ro"
  count,    \* br_count
  wbr,      \* br_wbr
  running,  \* wbr_wh_running
  trunc,    \* br_xino_running
  lastId,   \* si_last_br_id
  dirf,     \* open root directories: the lower files by branch index
  regf,     \* open regular files
  work,     \* pending works
  remount,  \* the task that remounts: idle, or past its flush
  nested,   \* branches with a reported "nested error" of au_br_mod
  load      \* bound, constant: the options of the remounts, the kinds of
            \* works, the branches, open regular files and open root
            \* directories at a time

Ops    == load.ops
Kinds  == load.kinds
brVars == <<brs, id, perm, lastId, nested, load>>
vars   == <<brVars, count, wbr, running, trunc, dirf, regf, work, remount>>

Idx    == 0 .. Cardinality(Br) - 1
Bend   == Len(brs) - 1
In(b)  == \E i \in DOMAIN brs : brs[i] = b
Index(b) == IF In(b) THEN (CHOOSE i \in DOMAIN brs : brs[i] = b) - 1 ELSE -1

(* au_br_index: the first branch with the id of b                          *)
BrIndex(b) == LET Same == {i \in DOMAIN brs : id[brs[i]] = id[b]}
              IN  IF Same = {} THEN -1 ELSE Min(Same) - 1

ClosedDir == [open |-> FALSE, h |-> [i \in Idx |-> NoBr], btop |-> 0, bbot |-> -1, fresh |-> TRUE]
ClosedReg == [br |-> NoBr, wr |-> FALSE, mm |-> FALSE]
NoWork    == [st |-> "none", kind |-> "rmdir", br |-> NoBr, wbr |-> NoWbr]

(* Mounted with one writable branch: its id is the first one               *)
Init ==
  /\ load \in Loads
  /\ \E b \in Br, x \in Wbr :
       /\ brs = <<b>>
       /\ wbr = [c \in Br |-> IF c = b THEN x ELSE NoWbr]
       /\ id = [c \in Br |-> IF c = b THEN BranchMax \div 2 + 1 ELSE 0]
  /\ lastId = BranchMax \div 2 + 1
  /\ perm = [b \in Br |-> "rw"]
  /\ count = [b \in Br |-> 0]
  /\ running = [x \in Wbr |-> 0]
  /\ trunc = [b \in Br |-> 0]
  /\ dirf = [f \in DirFile |-> ClosedDir]
  /\ regf = [f \in RegFile |-> ClosedReg]
  /\ work = [w \in Work |-> NoWork]
  /\ remount = "idle"
  /\ nested = {}

-----------------------------------------------------------------------------
(* Open files.  Opening the root directory opens it on every branch; a     *)
(* regular file is open on one, for writing only on a writable one.        *)
Roots == {f \in DirFile : dirf[f].open}
HfilesOn(h, b) == Cardinality({i \in Idx : h[i] = b})

OpenDir(f) ==
  /\ ~dirf[f].open /\ Cardinality(Roots) < load.dirs
  /\ dirf' = [dirf EXCEPT ![f] =
       [open |-> TRUE, h |-> [i \in Idx |-> IF i <= Bend THEN brs[i + 1] ELSE NoBr],
        btop |-> 0, bbot |-> Bend, fresh |-> TRUE]]
  /\ count' = [b \in Br |-> count[b] + IF In(b) THEN 1 ELSE 0]
  /\ UNCHANGED <<brVars, wbr, running, trunc, regf, work, remount>>

(* Mutant of CloseDir: the present number of branches is taken for fd_bbot *)
CloseDirBend(f) ==
  /\ dirf[f].open
  /\ dirf' = [dirf EXCEPT ![f] = ClosedDir]
  /\ count' = [b \in Br |-> count[b] -
       Cardinality({i \in dirf[f].btop .. Bend : dirf[f].h[i] = b})]
  /\ UNCHANGED <<brVars, wbr, running, trunc, regf, work, remount>>

(* aufs_release_dir: what lies between fi_btop and fd_bbot is closed       *)
CloseDir(f) ==
  /\ dirf[f].open
  /\ dirf' = [dirf EXCEPT ![f] = ClosedDir]
  /\ count' = [b \in Br |-> count[b] -
       Cardinality({i \in dirf[f].btop .. dirf[f].bbot : dirf[f].h[i] = b})]
  /\ UNCHANGED <<brVars, wbr, running, trunc, regf, work, remount>>

OpenReg(f, b, wr, mm) ==
  /\ regf[f].br = NoBr /\ In(b)
  /\ Cardinality({g \in RegFile : regf[g].br # NoBr}) < load.files
  /\ wr => perm[b] = "rw"
  /\ regf' = [regf EXCEPT ![f] = [br |-> b, wr |-> wr, mm |-> mm]]
  /\ count' = [count EXCEPT ![b] = @ + 1]
  /\ UNCHANGED <<brVars, wbr, running, trunc, dirf, work, remount>>

CloseReg(f) ==
  /\ regf[f].br # NoBr
  /\ regf' = [regf EXCEPT ![f] = ClosedReg]
  /\ count' = [count EXCEPT ![regf[f].br] = @ - 1]
  /\ UNCHANGED <<brVars, wbr, running, trunc, dirf, work, remount>>

(* The loop of au_do_refresh_dir: an entry whose branch has another index  *)
(* now is swapped with the entry there, which is looked at again.          *)
Swap(h, i, j) == [h EXCEPT ![i] = h[j], ![j] = h[i]]

TurnTo(f, s, again) ==
  LET n == BrIndex(s.h[s.i]) IN
  IF s.i > dirf[f].bbot THEN s
  ELSE IF s.h[s.i] = NoBr \/ n = s.i THEN [s EXCEPT !.i = @ + 1]
  ELSE IF n < 0 THEN [i |-> s.i + 1, h |-> [s.h EXCEPT ![s.i] = NoBr]]
  ELSE [i |-> IF again /\ s.h[n] # NoBr THEN s.i ELSE s.i + 1, h |-> Swap(s.h, s.i, n)]

(* Mutant of Turn: the entry swapped in is not looked at                   *)
TurnOnce(f, s) == TurnTo(f, s, FALSE)

Turn(f, s) == TurnTo(f, s, TRUE)

(* A turn leaves its entry behind or puts one more in its place: this many *)
(* are enough.                                                             *)
Rearranged(f) ==
  LET Loop[k \in 0 .. 2 * Cardinality(Br)] ==
        IF k = 0 THEN [i |-> dirf[f].btop, h |-> dirf[f].h] ELSE Turn(f, Loop[k - 1])
  IN  Loop[2 * Cardinality(Br)].h

(* refresh_file: the loop, then reopen_dir opens what is missing; when     *)
(* that fails everything is closed and the file stays as it is.  The       *)
(* topmost entry is read first, so it has to be there.                     *)
Stale(f) == dirf[f].open /\ ~dirf[f].fresh /\ dirf[f].h[dirf[f].btop] # NoBr

RefreshDir(f) ==
  /\ Stale(f)
  /\ LET h  == Rearranged(f)
         h2 == [i \in Idx |-> IF i > Bend THEN NoBr ELSE IF h[i] = NoBr THEN brs[i + 1] ELSE h[i]]
     IN  /\ dirf' = [dirf EXCEPT ![f] =
              [open |-> TRUE, h |-> h2, btop |-> 0, bbot |-> Bend, fresh |-> TRUE]]
         /\ count' = [b \in Br |-> count[b] + HfilesOn(h2, b) - HfilesOn(dirf[f].h, b)]
  /\ UNCHANGED <<brVars, wbr, running, trunc, regf, work, remount>>

RefreshDirFail(f) ==
  /\ Stale(f)
  /\ dirf' = [dirf EXCEPT ![f] = [ClosedDir EXCEPT !.open = TRUE, !.bbot = Bend, !.fresh = FALSE]]
  /\ count' = [b \in Br |-> count[b] - HfilesOn(dirf[f].h, b)]
  /\ UNCHANGED <<brVars, wbr, running, trunc, regf, work, remount>>

-----------------------------------------------------------------------------
(* Works.  Each holds a reference to its branch; at most one at a time     *)
(* makes a new whiteout base, and one truncates the xino file.             *)
Queue(k, b) ==
  /\ k \in Kinds
  /\ \E w \in Work :
       /\ work[w].st = "none"
       /\ work' = [work EXCEPT ![w] = [st |-> "queued", kind |-> k, br |-> b, wbr |-> NoWbr]]
  /\ count' = [count EXCEPT ![b] = @ + 1]

(* Mutant of KickRebase: a work that is pending already is not noticed     *)
KickRebaseAgain(b) ==
  /\ In(b) /\ perm[b] = "rw"
  /\ Queue("rebase", b)
  /\ running' = [running EXCEPT ![wbr[b]] = @ + 1]
  /\ UNCHANGED <<brVars, wbr, trunc, dirf, regf, remount>>

KickRebase(b) ==
  /\ In(b) /\ perm[b] = "rw" /\ running[wbr[b]] = 0
  /\ Queue("rebase", b)
  /\ running' = [running EXCEPT ![wbr[b]] = @ + 1]
  /\ UNCHANGED <<brVars, wbr, trunc, dirf, regf, remount>>

KickTrunc(b) ==
  /\ In(b) /\ trunc[b] = 0
  /\ Queue("trunc", b)
  /\ trunc' = [trunc EXCEPT ![b] = @ + 1]
  /\ UNCHANGED <<brVars, wbr, running, dirf, regf, remount>>

KickRmdir(b) ==
  /\ In(b) /\ perm[b] = "rw"
  /\ Queue("rmdir", b)
  /\ UNCHANGED <<brVars, wbr, running, trunc, dirf, regf, remount>>

(* reinit_br_wh reads br_wbr before it waits for the lock                  *)
WorkStart(w) ==
  /\ work[w].st = "queued"
  /\ work' = [work EXCEPT ![w].st = "waiting",
                          ![w].wbr = IF work[w].kind = "rebase" THEN wbr[work[w].br] ELSE NoWbr]
  /\ UNCHANGED <<brVars, count, wbr, running, trunc, dirf, regf, remount>>

(* Mutant of WorkRun: call_rmdir_whtmp keeps its reference                 *)
WorkRunEarly(w) ==
  LET b == work[w].br
      x == work[w].wbr
  IN
  /\ work[w].st = "waiting"
  /\ work' = [work EXCEPT ![w] = NoWork]
  /\ count' = IF work[w].kind = "rmdir" THEN count ELSE [count EXCEPT ![b] = @ - 1]
  /\ running' = IF x # NoWbr THEN [running EXCEPT ![x] = @ - 1] ELSE running
  /\ trunc' = IF work[w].kind = "trunc" THEN [trunc EXCEPT ![b] = @ - 1] ELSE trunc
  /\ UNCHANGED <<brVars, wbr, dirf, regf, remount>>

WorkRun(w) ==
  LET b == work[w].br
      x == work[w].wbr
  IN
  /\ work[w].st = "waiting"
  /\ work' = [work EXCEPT ![w] = NoWork]
  /\ count' = [count EXCEPT ![b] = @ - 1]
  /\ running' = IF x # NoWbr THEN [running EXCEPT ![x] = @ - 1] ELSE running
  /\ trunc' = IF work[w].kind = "trunc" THEN [trunc EXCEPT ![b] = @ - 1] ELSE trunc
  /\ UNCHANGED <<brVars, wbr, dirf, regf, remount>>

-----------------------------------------------------------------------------
(* Remounting.  The flush comes before the lock: works queued in between   *)
(* are still pending when the branches change.                             *)
RemountFlush ==
  /\ remount = "idle" /\ Ops # {}
  /\ \A w \in Work : work[w].st = "none"
  /\ remount' = "flushed"
  /\ UNCHANGED <<brVars, count, wbr, running, trunc, dirf, regf, work>>

(* Any option may turn out to be refused.                                  *)
RemountRefused ==
  /\ remount = "flushed" /\ remount' = "idle"
  /\ UNCHANGED <<brVars, count, wbr, running, trunc, dirf, regf, work>>

(* au_sigen_inc: every file is out of date                                 *)
Outdated(d) == [f \in DirFile |-> IF d[f].open THEN [d[f] EXCEPT !.fresh = FALSE] ELSE d[f]]

(* au_new_br_id: the next numbers, in the width of an aufs_bindex_t,       *)
(* without zero and those in use                                           *)
Wrap(n) == ((n + BranchMax + 1) % (2 * (BranchMax + 1))) - (BranchMax + 1)

Used(n) == \E b \in Br : In(b) /\ id[b] = n

(* Mutant of NewId: ids in use are not looked for                          *)
NewIdNext == IF Wrap(lastId + 1) = 0 THEN 1 ELSE Wrap(lastId + 1)

NewId == LET k == Min({j \in 1 .. BranchMax + 1 : Wrap(lastId + j) # 0 /\ ~Used(Wrap(lastId + j))})
         IN  Wrap(lastId + k)

(* au_wbr_init on memory that is free, or was br's own and has been freed *)
NewWbr(b) ==
  \E x \in Wbr :
    /\ \A c \in Br \ {b} : wbr[c] # x
    /\ wbr' = [wbr EXCEPT ![b] = x]
    /\ running' = [running EXCEPT ![x] = 0]

AddBr(b, p, i) ==
  /\ "add" \in Ops /\ remount = "flushed" /\ remount' = "idle"
  /\ ~In(b) /\ Len(brs) < Min({BranchMax, load.branches})
  /\ brs' = InsertAt(brs, i + 1, b)
  /\ id' = [id EXCEPT ![b] = NewId] /\ lastId' = NewId
  /\ perm' = [perm EXCEPT ![b] = p]
  /\ count' = [count EXCEPT ![b] = 0]
  /\ trunc' = [trunc EXCEPT ![b] = 0]
  /\ IF p = "rw" THEN NewWbr(b) ELSE UNCHANGED <<wbr, running>>
  /\ dirf' = Outdated(dirf)
  /\ UNCHANGED <<regf, work, nested, load>>

(* au_br_del.  A regular file on the branch makes it busy; root            *)
(* directories, at most as many as br_count says, are closed on it.        *)
RegOn(b) == {f \in RegFile : regf[f].br = b}

(* br_del_file: the entry is closed, and fi_btop moves to the next one     *)
ClosedOn(d, b) ==
  LET H    == {i \in d.btop .. d.bbot : d.h[i] = b}
      h2   == [i \in Idx |-> IF i \in H THEN NoBr ELSE d.h[i]]
      Rest == {i \in d.btop .. d.bbot : h2[i] # NoBr}
  IN  [d EXCEPT !.h = h2, !.btop = IF d.btop \in H /\ Rest # {} THEN Min(Rest) ELSE d.btop]

(* Mutant of DelBr: open directories are left to the next refresh          *)
DelBrOpen(b) ==
  /\ "del" \in Ops /\ remount = "flushed" /\ remount' = "idle"
  /\ In(b) /\ Bend # 0
  /\ count[b] # 0 => RegOn(b) = {}
  /\ dirf' = Outdated(dirf)
  /\ brs' = RemoveAt(brs, Index(b) + 1)
  /\ wbr' = [wbr EXCEPT ![b] = NoWbr]
  /\ id' = [id EXCEPT ![b] = 0] /\ perm' = [perm EXCEPT ![b] = "rw"]
  /\ nested' = nested \ {b}
  /\ UNCHANGED <<lastId, count, running, trunc, regf, work, load>>

DelBr(b) ==
  /\ "del" \in Ops /\ remount = "flushed" /\ remount' = "idle"
  /\ In(b) /\ Bend # 0
  /\ count[b] # 0 => RegOn(b) = {}
  /\ \E toFree \in SUBSET Roots :
       /\ Cardinality(toFree) = Min({Cardinality(Roots), count[b]})
       /\ dirf' = Outdated([f \in DirFile |-> IF f \in toFree THEN ClosedOn(dirf[f], b) ELSE dirf[f]])
       /\ count' = [count EXCEPT ![b] =
            @ - Cardinality({f \in toFree : HfilesOn(dirf[f].h, b) > 0})]
  /\ brs' = RemoveAt(brs, Index(b) + 1)
  /\ wbr' = [wbr EXCEPT ![b] = NoWbr]
  /\ id' = [id EXCEPT ![b] = 0] /\ perm' = [perm EXCEPT ![b] = "rw"]
  /\ nested' = nested \ {b}
  /\ UNCHANGED <<lastId, running, trunc, regf, work, load>>

(* au_br_mod.  rw to ro frees br_wbr, then takes the write permission from *)
(* the files; a mapped file stops it, and br_wbr is allocated again.  When *)
(* that fails too the branch is left read-only, the files as they are.     *)
Mapped == \E f \in RegFile : regf[f].mm

(* Mutant of ModRo: the failure does not allocate br_wbr again             *)
ModRoUndone(b) ==
  /\ "mod" \in Ops /\ remount = "flushed" /\ remount' = "idle"
  /\ In(b) /\ perm[b] = "rw"
  /\ wbr' = [wbr EXCEPT ![b] = NoWbr]
  /\ perm' = IF Mapped THEN perm ELSE [perm EXCEPT ![b] = "ro"]
  /\ dirf' = IF Mapped THEN dirf ELSE Outdated(dirf)
  /\ UNCHANGED <<nested, brs, id, lastId, count, running, trunc, regf, work, load>>

(* Mutant of ModRo: the files keep the permission to write                 *)
ModRoFiles(b) ==
  /\ "mod" \in Ops /\ remount = "flushed" /\ remount' = "idle"
  /\ In(b) /\ perm[b] = "rw" /\ ~Mapped
  /\ wbr' = [wbr EXCEPT ![b] = NoWbr]
  /\ perm' = [perm EXCEPT ![b] = "ro"]
  /\ dirf' = Outdated(dirf)
  /\ UNCHANGED <<nested, brs, id, lastId, count, running, trunc, regf, work, load>>

ModRo(b) ==
  /\ "mod" \in Ops /\ remount = "flushed" /\ remount' = "idle"
  /\ In(b) /\ perm[b] = "rw"
  /\ \/ /\ Mapped
        /\ NewWbr(b)
        /\ UNCHANGED <<perm, regf, dirf, nested>>
     \/ /\ Mapped
        /\ NewWbr(b) \/ (wbr' = [wbr EXCEPT ![b] = NoWbr] /\ UNCHANGED running)
        /\ perm' = [perm EXCEPT ![b] = "ro"] /\ nested' = nested \cup {b}
        /\ UNCHANGED <<regf, dirf>>
     \/ /\ ~Mapped
        /\ wbr' = [wbr EXCEPT ![b] = NoWbr]
        /\ perm' = [perm EXCEPT ![b] = "ro"]
        /\ regf' = [f \in RegFile |-> IF f \in RegOn(b) THEN [regf[f] EXCEPT !.wr = FALSE] ELSE regf[f]]
        /\ dirf' = Outdated(dirf)
        /\ UNCHANGED <<running, nested>>
  /\ UNCHANGED <<brs, id, lastId, count, trunc, work, load>>

ModRw(b) ==
  /\ "mod" \in Ops /\ remount = "flushed" /\ remount' = "idle"
  /\ In(b) /\ perm[b] = "ro"
  /\ NewWbr(b)
  /\ perm' = [perm EXCEPT ![b] = "rw"] /\ nested' = nested \ {b}
  /\ dirf' = Outdated(dirf)
  /\ UNCHANGED <<brs, id, lastId, count, trunc, regf, work, load>>

-----------------------------------------------------------------------------
Next ==
  \/ \E f \in DirFile : OpenDir(f) \/ CloseDir(f) \/ RefreshDir(f) \/ RefreshDirFail(f)
  \/ \E f \in RegFile : \/ \E b \in Br, wr, mm \in BOOLEAN : OpenReg(f, b, wr, mm)
                        \/ CloseReg(f)
  \/ \E b \in Br : KickRebase(b) \/ KickTrunc(b) \/ KickRmdir(b)
  \/ \E w \in Work : WorkStart(w) \/ WorkRun(w)
  \/ RemountFlush \/ RemountRefused
  \/ \E b \in Br : \/ \E p \in {"rw", "ro"}, i \in 0 .. Len(brs) : AddBr(b, p, i)
                   \/ DelBr(b) \/ ModRo(b) \/ ModRw(b)

Spec == Init /\ [][Next]_vars

-----------------------------------------------------------------------------
WorksOn(b) == {w \in Work : work[w].br = b}

DirHfiles(b) == {x \in DirFile \X Idx : dirf[x[1]].h[x[2]] = b}

(* br_count is exact through every add, delete, refresh and failed refresh *)
(* of an open directory and every work: what the deletion's busy test      *)
(* relies on.  No open file holds a branch that was deleted (au_br_do_free *)
(* freed it): the deletion is refused.  And an id stands for one branch,   *)
(* also after si_last_br_id has wrapped around onto ids in use.            *)
CountsExact ==
  \A b \in Br : In(b) =>
    count[b] = Cardinality(WorksOn(b)) + Cardinality(RegOn(b)) + Cardinality(DirHfiles(b))
RegsHeld    == \A f \in RegFile : regf[f].br # NoBr => In(regf[f].br)
IdsDistinct == \A b, c \in Br : In(b) /\ In(c) /\ id[b] = id[c] => b = c

RefsExact == CountsExact /\ RegsHeld /\ IdsDistinct

(* A directory file that is up to date has, at each index, the lower file  *)
(* of the branch there, however the branches were reordered while it was   *)
(* open: the swaps of au_do_refresh_dir end and put each in its place.     *)
(* Up to date or not, it has no lower file of a branch that was deleted.   *)
SlotsMatch ==
  /\ \A f \in DirFile : dirf[f].open /\ dirf[f].fresh =>
       \A i \in Idx : dirf[f].h[i] = IF i <= Bend THEN brs[i + 1] ELSE NoBr
  /\ \A f \in DirFile, i \in Idx : dirf[f].h[i] # NoBr => In(dirf[f].h[i])

(* A writable branch has its own br_wbr, whatever changes of permission    *)
(* were undone: kick_reinit_br_wh and the whiteouts use it unchecked.      *)
(* wbr_wh_running and br_xino_running let one work of their kind through   *)
(* per branch and are zero again when it has ended.                        *)
WbrKept ==
  \A b \in Br : In(b) =>
    LET Of(k) == Cardinality({w \in WorksOn(b) : work[w].kind = k})
    IN  /\ perm[b] = "rw" =>
             wbr[b] # NoWbr /\ \A c \in Br : In(c) /\ wbr[c] = wbr[b] => c = b
        /\ trunc[b] = Of("trunc") /\ Of("trunc") <= 1
        /\ wbr[b] # NoWbr => running[wbr[b]] = Of("rebase") /\ Of("rebase") <= 1

(* After rw to ro nobody can write to the branch any more: files opened    *)
(* before keep their lower file, without its write permission.  Only a     *)
(* failure to undo the change, which is reported, may leave writers.       *)
WriterOnRw ==
  \A f \in RegFile : regf[f].wr => perm[regf[f].br] = "rw" \/ regf[f].br \in nested
=============================================================================
