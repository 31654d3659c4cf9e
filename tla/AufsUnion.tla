------------------------------ MODULE AufsUnion ------------------------------
(***************************************************************************)
(* The name operations of aufs over its branches                           *)
(* (recipes-kernel/linux/linux-imx-3.10.17/aufs: dentry.c, i_op_add.c,     *)
(* i_op_del.c, i_op_ren.c, cpup.c, whout.c).                               *)
(*                                                                         *)
(* Branch 0 is the writable one, 1..NRo are read-only (init:176 mounts     *)
(* br=/mnt/rw_rootfs:/mnt/ro_rootfs).  A name is hidden from the branches  *)
(* below by a whiteout, the contents of a directory by its opaque mark.    *)
(* Every operation is a series of changes to branch 0, each of which may   *)
(* fail; the steps already made are then undone in reverse order, and      *)
(* undoing may fail as well.  A power loss may come between any two steps. *)
(* The VFS holds the directories' i_mutex and aufs the dentries' locks for *)
(* the whole operation, so operations on the same names do not overlap.    *)
(***************************************************************************)
EXTENDS UnionTree

CONSTANTS
  LowerData,   \* contents of files on the read-only branches
  NRo,         \* number of read-only branches
  MaxFaults    \* bound on failing steps of one operation

ASSUME NRoAssumption == NRo \in Nat \ {0}
ASSUME MaxFaultsAssumption == MaxFaults \in Nat
ASSUME LowerDataAssumption == LowerData \subseteq Data

VARIABLES
  ent,     \* entries of each branch
  wh,      \* whiteouts on branch 0 (.wh.<name>)
  opq,     \* opaque directories of branch 0 (.wh..wh..opq)
  pc,      \* next step of the operation in progress
  a,       \* its arguments and local variables
  faults,  \* failed steps of it
  tree,    \* history: what the names looked like when it began
  res      \* how the last operation ended

disk == <<ent, wh, opq>>
vars == <<ent, wh, opq, pc, a, faults, tree, res>>

Branch  == 0 .. NRo
Partial == "partial"      \* a file whose contents are not all there
Entry   == Data \cup {None, Dir, Partial}

Upper(n) == ent[0][n]

-----------------------------------------------------------------------------
(* Lookup (au_lkup_dentry): S is the set of branches that hold the parent  *)
(* directory.  A whiteout on the topmost one ends the search, and is an    *)
(* error when the name itself is there too.  A file is taken from the      *)
(* first branch that has the name; directories are merged, down to an      *)
(* opaque one; what has another type below is passed over.                 *)
Found(S, n) == {b \in S : ent[b][n] # None}

Lookup(S, n) ==
  IF 0 \in S /\ n \in wh THEN IF Upper(n) = None THEN None ELSE Stuck
  ELSE IF Found(S, n) = {} THEN None
  ELSE ent[CHOOSE b \in Found(S, n) : \A c \in Found(S, n) : b <= c][n]

DirBranches(S, n) ==
  IF Lookup(S, n) # Dir THEN {}
  ELSE {b \in Found(S, n) : ent[b][n] = Dir /\ (Upper(n) = Dir /\ n \in opq => b = 0)}

ParentBranches(n) == IF Len(n) = 1 THEN Branch ELSE DirBranches(Branch, Parent(n))

View == [n \in Path |-> Lookup(ParentBranches(n), n)]

(* Mutant: only the branch directly below is looked at.                    *)
NeedWhNextBranch(n) == Found(ParentBranches(n) \cap {1}, n) # {}

(* au_wr_dir_need_wh: a name that is going away needs a whiteout when a    *)
(* branch below has it too.                                                *)
NeedWh(n) == Found(ParentBranches(n) \ {0}, n) # {}

(* au_test_empty_lower: what the branches below hold in directory n is     *)
(* hidden by whiteouts of branch 0.                                        *)
EmptyLower(n) ==
  \A m \in Below(n) : Found(DirBranches(ParentBranches(n), n) \ {0}, m) # {} => m \in wh

LowerTrees ==
  {t \in [Path -> LowerData \cup {None, Dir}] : \A n \in Path : t[n] # None => HasDir(t, n)}

NoOp == [kind |-> "idle", p |-> <<>>, q |-> <<>>, v |-> None, cp |-> <<>>, then |-> "end",
         wh |-> FALSE, dwh |-> FALSE, opq |-> FALSE, tmp |-> {}, err |-> "ok"]

Init ==
  /\ \E lower \in [1 .. NRo -> LowerTrees] :
       ent = [b \in Branch |-> IF b = 0 THEN [n \in Path |-> None] ELSE lower[b]]
  /\ wh = {} /\ opq = {} /\ pc = "idle" /\ a = NoOp /\ faults = 0 /\ tree = View /\ res = "ok"

-----------------------------------------------------------------------------
(* Steps.  A step of the operation either does its work or fails.          *)

At(l)    == pc = l
Goto(l)  == pc' = l
Works    == UNCHANGED faults
Fails    == faults < MaxFaults /\ faults' = faults + 1 /\ UNCHANGED disk
Put(n, e) == ent' = [ent EXCEPT ![0][n] = e]
Remember == UNCHANGED <<tree, res>>
Err(e)   == a' = [a EXCEPT !.err = e]

(* Continue with l, after the copy-up of n if branch 0 does not have it.   *)
Copyup(n, l) ==
  IF n = <<>> \/ Upper(n) # None
  THEN Goto(l) /\ UNCHANGED a
  ELSE Goto("cpData") /\ a' = [a EXCEPT !.cp = n, !.then = l]

Begin ==
  /\ At("idle") /\ faults' = 0
  /\ \E o \in Calls :
       /\ MayCall(tree, o)
       /\ a' = [NoOp EXCEPT !.kind = o.kind, !.p = o.p, !.q = o.q, !.v = o.v]
       /\ Goto(CASE o.kind \in {"create", "mkdir", "link"} -> "addStart"
                 [] o.kind \in {"unlink", "rmdir"} -> "delStart"
                 [] o.kind = "rename" -> "renStart"
                 [] o.kind = "write" -> "wrStart")
  /\ UNCHANGED disk /\ Remember

Return ==
  /\ At("end") /\ Goto("idle")
  /\ tree' = View /\ res' = a.err /\ a' = NoOp /\ faults' = 0
  /\ UNCHANGED disk

(* Power loss.  The journal of the branch keeps the order of its changes.  *)
(* After a failed undo step (the second fault) it counts as one: "eio".    *)
PowerLoss ==
  /\ pc # "idle" /\ Goto("idle")
  /\ tree' = View /\ res' = (IF faults < 2 THEN "crash" ELSE "eio") /\ a' = NoOp /\ faults' = 0
  /\ UNCHANGED disk

-----------------------------------------------------------------------------
(* Copy-up: the entry is made under a temporary name (.wh..wh.<name>.xxxx) *)
(* and filled there, then renamed.  A failure removes the temporary one.   *)

(* Mutant: the file is created under its own name.                         *)
CopyupInPlace ==
  \/ /\ At("cpData") /\ Works /\ Goto("cpRename") /\ UNCHANGED <<a, wh, opq>> /\ Remember
     /\ Put(a.cp, IF View[a.cp] = Dir THEN Dir ELSE Partial)
  \/ /\ At("cpRename") /\ Works /\ Goto(a.then) /\ UNCHANGED <<a, wh, opq>> /\ Remember
     /\ Put(a.cp, tree[a.cp])

(* Mutant: a directory that is copied up hides what is below it.           *)
CopyupOpaque ==
  \/ /\ At("cpData") /\ Works /\ Goto("cpRename") /\ UNCHANGED <<a, disk>> /\ Remember
  \/ /\ At("cpRename") /\ Works /\ Goto(a.then) /\ UNCHANGED <<a, wh>> /\ Remember
     /\ Put(a.cp, View[a.cp]) /\ opq' = opq \cup (IF View[a.cp] = Dir THEN {a.cp} ELSE {})

CopyupEntry ==
  \/ /\ At("cpData") /\ Remember /\ UNCHANGED disk
     /\ \/ Works /\ Goto("cpRename") /\ UNCHANGED a
        \/ Fails /\ Goto("cpUndo") /\ Err("err")
  \/ /\ At("cpRename") /\ Remember
     /\ \/ Works /\ Goto(a.then) /\ Put(a.cp, View[a.cp]) /\ UNCHANGED <<a, wh, opq>>
        \/ Fails /\ Goto("cpUndo") /\ Err("err")
  \/ /\ At("cpUndo") /\ Remember /\ Goto("end") /\ UNCHANGED disk
     /\ \/ Works /\ UNCHANGED a
        \/ Fails /\ Err("eio")

(* au_ready_to_write, then the write to the lower file.                    *)
Write ==
  \/ /\ At("wrStart") /\ Works /\ UNCHANGED disk /\ Remember
     /\ Copyup(Parent(a.p), "wrCopyup")
  \/ /\ At("wrCopyup") /\ Works /\ UNCHANGED disk /\ Remember
     /\ Copyup(a.p, "wrData")
  \/ /\ At("wrData") /\ Remember /\ Goto("end")
     /\ \/ Works /\ Put(a.p, a.v) /\ UNCHANGED <<a, wh, opq>>
        \/ Fails /\ Err("err")

-----------------------------------------------------------------------------
(* create, mknod, symlink, mkdir, link: lock_hdir_lkup_wh, the new entry,  *)
(* the opaque mark of a directory, removal of the whiteout (epilog).       *)
AddStart ==
  \/ /\ At("addStart") /\ Works /\ UNCHANGED disk /\ Remember
     /\ Copyup(Parent(a.q), "addLkupWh")
  \/ /\ At("addLkupWh") /\ UNCHANGED disk /\ Remember
     /\ \/ Works /\ Goto("addEntry") /\ a' = [a EXCEPT !.wh = a.q \in wh]
        \/ Fails /\ Goto("end") /\ Err("err")

AddEntry ==
  /\ At("addEntry") /\ Remember
  /\ \/ /\ Works /\ UNCHANGED <<a, wh, opq>>
        /\ Put(a.q, CASE a.kind = "create" -> a.v [] a.kind = "mkdir" -> Dir
                      [] a.kind = "link" -> tree[a.p])
        /\ Goto(IF a.kind = "mkdir" /\ a.wh THEN "addOpq" ELSE "addUnlinkWh")
     \/ Fails /\ Goto("end") /\ Err("err")

AddOpq ==
  /\ At("addOpq") /\ Remember
  /\ \/ /\ Works /\ opq' = opq \cup {a.q} /\ a' = [a EXCEPT !.opq = TRUE]
        /\ Goto("addUnlinkWh") /\ UNCHANGED <<ent, wh>>
     \/ Fails /\ Goto("addRevEntry") /\ Err("err")

AddUnlinkWh ==
  /\ At("addUnlinkWh") /\ Remember
  /\ \/ /\ Works /\ wh' = wh \ {a.q} /\ UNCHANGED <<ent, opq, a>>
        /\ Goto(IF a.kind = "link" THEN "end" ELSE "addInode")
     \/ /\ a.wh /\ Fails /\ Err("err")
        /\ Goto(IF a.kind = "link" THEN "linkRevert" ELSE "addRevOpq")

AddInode ==
  /\ At("addInode") /\ Remember /\ UNCHANGED disk
  /\ \/ Works /\ Goto("end") /\ UNCHANGED a
     \/ Fails /\ Goto(IF a.wh THEN "addRevWh" ELSE "addRevOpq") /\ Err("err")

AddRevert ==
  /\ Remember
  /\ \/ /\ At("addRevWh") /\ Goto("addRevOpq")
        /\ \/ Works /\ wh' = wh \cup {a.q} /\ UNCHANGED <<ent, opq, a>>
           \/ Fails /\ Err("eio")
     \/ /\ At("addRevOpq") /\ Goto("addRevEntry")
        /\ \/ Works /\ opq' = opq \ (IF a.opq THEN {a.q} ELSE {}) /\ UNCHANGED <<ent, wh, a>>
           \/ a.opq /\ Fails /\ Err("eio")
     \/ /\ At("addRevEntry") /\ Goto("end")
        /\ \/ Works /\ a.q \notin opq /\ Put(a.q, None) /\ UNCHANGED <<wh, opq, a>>
           \/ Works /\ a.q \in opq /\ Err("eio") /\ UNCHANGED disk
           \/ Fails /\ Err("eio")

(* out_revert of aufs_link: h_path.dentry is the whiteout by now, so it is *)
(* the whiteout that is unlinked, not the new link.                        *)
LinkRevert ==
  /\ At("linkRevert") /\ Remember /\ Goto("end")
  /\ \/ Works /\ wh' = wh \ {a.q} /\ UNCHANGED <<ent, opq, a>>
     \/ Fails /\ Err("eio")

-----------------------------------------------------------------------------
(* unlink and rmdir: the emptiness test, lock_hdir_create_wh, then the     *)
(* entry.  A directory is renamed to a temporary name together with its    *)
(* whiteouts and removed there; that part's errors are ignored.            *)
DelStart ==
  /\ At("delStart") /\ UNCHANGED disk /\ Remember
  /\ \/ /\ a.kind = "rmdir" => IsEmpty(tree, a.p)
        /\ Works
        /\ IF Upper(a.p) = None THEN Copyup(Parent(a.p), "delWh") ELSE Goto("delWh") /\ UNCHANGED a
     \/ /\ a.kind = "rmdir" /\ (\E m \in Below(a.p) : tree[m] # None)
        /\ Works /\ Goto("end") /\ Err("err")

DelWh ==
  /\ At("delWh") /\ Remember
  /\ \/ /\ Works /\ UNCHANGED <<ent, opq>> /\ Goto("delEntry")
        /\ wh' = wh \cup (IF NeedWh(a.p) THEN {a.p} ELSE {})
        /\ a' = [a EXCEPT !.wh = NeedWh(a.p)]
     \/ Fails /\ Goto("end") /\ Err("err")

(* The part of branch 0 below n, as it goes to the temporary name.         *)
Discard(n) ==
  /\ ent' = [ent EXCEPT ![0] = [m \in Path |-> IF m \in Under(n) THEN None ELSE @[m]]]
  /\ wh' = wh \ Below(n) /\ opq' = opq \ Under(n)

DelEntry ==
  /\ At("delEntry") /\ Remember
  /\ \/ Works /\ Upper(a.p) # None /\ Discard(a.p) /\ Goto("end") /\ UNCHANGED a
     \/ Works /\ Upper(a.p) = None /\ UNCHANGED <<disk, a>> /\ Goto("end")
     \/ Upper(a.p) # None /\ Fails /\ Goto(IF a.wh THEN "delRevWh" ELSE "end") /\ Err("err")

DelRevert ==
  /\ At("delRevWh") /\ Remember /\ Goto("end")
  /\ \/ Works /\ wh' = wh \ {a.p} /\ UNCHANGED <<ent, opq, a>>
     \/ Fails /\ Err("eio")

-----------------------------------------------------------------------------
(* rename.  aufs_rename: the parents are copied up, directories are tested *)
(* (may_rename_dstdir, may_rename_srcdir), the source is copied up.        *)
IsDirRen == tree[a.p] = Dir
DstDirUp == IsDirRen /\ tree[a.q] = Dir /\ Upper(a.q) = Dir

MayRenameDir ==
  /\ tree[a.q] = Dir => IsEmpty(tree, a.q)
  /\ IF Upper(a.p) = Dir THEN EmptyLower(a.p) ELSE IsEmpty(tree, a.p)

RenPrepare ==
  /\ Remember /\ UNCHANGED disk
  /\ \/ At("renStart") /\ Works /\ Copyup(Parent(a.q), "renMayDir")
     \/ At("renMayDir") /\ Works /\ (IsDirRen => MayRenameDir) /\ Goto("renSrcDir") /\ UNCHANGED a
     \/ /\ At("renMayDir") /\ Works /\ IsDirRen /\ Goto("end") /\ Err("err")
        /\ ~MayRenameDir \/ \E m \in Below(a.p) \cup Below(a.q) : tree[m] = Stuck
     \/ At("renSrcDir") /\ Works /\ Copyup(Parent(a.p), "renSrc")
     \/ At("renSrc") /\ Works /\ Copyup(a.p, "renWhSrc")

(* do_rename                                                               *)
RenWhSrc ==
  /\ At("renWhSrc") /\ Remember
  /\ \/ /\ Works /\ UNCHANGED <<ent, opq>> /\ Goto("renLkupWh")
        /\ wh' = wh \cup (IF NeedWh(a.p) THEN {a.p} ELSE {})
        /\ a' = [a EXCEPT !.wh = NeedWh(a.p)]
     \/ Fails /\ Goto("end") /\ Err("err")

RenLkupWh ==
  /\ At("renLkupWh") /\ Remember /\ UNCHANGED disk
  /\ \/ /\ Works /\ a' = [a EXCEPT !.dwh = a.q \in wh]
        /\ Goto(IF DstDirUp THEN "renWhtmp" ELSE "renMove")
     \/ Fails /\ Goto("renRevWhSrc") /\ Err("err")

(* The directory that is replaced is kept under a temporary name.          *)
RenWhtmp ==
  \/ /\ At("renWhtmp") /\ Remember
     /\ \/ /\ Works /\ Discard(a.q) /\ Goto("renLkupNeg")
           /\ a' = [a EXCEPT !.tmp = {[ent |-> [m \in Under(a.q) |-> Upper(m)],
                                       wh |-> wh \cap Below(a.q), opq |-> opq \cap Under(a.q)]}]
        \/ Fails /\ Goto("renRevWhSrc") /\ Err("err")
  \/ /\ At("renLkupNeg") /\ Remember /\ UNCHANGED disk
     /\ \/ Works /\ Goto("renMove") /\ UNCHANGED a
        \/ Fails /\ Goto("renRevWhtmp") /\ Err("err")

(* Mutant: DIROPQ is set for a whiteouted destination only.                *)
DirOpqWhOnly == IsDirRen /\ a.p \notin opq /\ a.dwh

(* Whether the renamed directory is to be made opaque.                     *)
DirOpq ==
  /\ IsDirRen /\ a.p \notin opq
  /\ \/ a.dwh
     \/ tree[a.q] = Dir /\ (\E s \in a.tmp : a.q \in s.opq)
     \/ tree[a.q] = Dir /\ (\E b \in ParentBranches(a.q) \ {0} : ent[b][a.q] = Dir)

(* vfs_rename on branch 0: n's subtree, with its marks, becomes m.         *)
MoveUpper(n, m) ==
  /\ ent' = [ent EXCEPT ![0] = Moved(@, n, m)]
  /\ wh'  = (wh \ (Below(n) \cup Below(m))) \cup {k \in Below(m) : Rebase(k, m, n) \in wh}
  /\ opq' = (opq \ (Under(n) \cup Under(m))) \cup {k \in Under(m) : Rebase(k, m, n) \in opq}

(* Mutant: a failing rename leaves by out_whdst instead of out_whtmp.      *)
RenMoveToWhdst ==
  /\ At("renMove") /\ Remember
  /\ \/ /\ Works /\ MoveUpper(a.p, a.q) /\ a' = [a EXCEPT !.opq = DirOpq]
        /\ Goto(IF DirOpq THEN "renOpq" ELSE "renUnlinkWh")
     \/ Fails /\ Goto("renRevWhSrc") /\ Err("err")

RenMove ==
  /\ At("renMove") /\ Remember
  /\ \/ /\ Works /\ MoveUpper(a.p, a.q) /\ a' = [a EXCEPT !.opq = DirOpq]
        /\ Goto(IF DirOpq THEN "renOpq" ELSE "renUnlinkWh")
     \/ Fails /\ Goto("renRevWhtmp") /\ Err("err")

RenOpq ==
  /\ At("renOpq") /\ Remember
  /\ \/ Works /\ opq' = opq \cup {a.q} /\ Goto("renUnlinkWh") /\ UNCHANGED <<ent, wh, a>>
     \/ Fails /\ Goto("renRevMove") /\ Err("err")

RenUnlinkWh ==
  /\ At("renUnlinkWh") /\ Remember
  /\ \/ Works /\ wh' = wh \ {a.q} /\ Goto("end") /\ UNCHANGED <<ent, opq, a>>
     \/ a.dwh /\ Fails /\ Goto(IF a.opq THEN "renRevOpq" ELSE "renRevMove") /\ Err("err")

(* The undo steps; RevertFailure does not change the error returned.       *)
RenRevert ==
  /\ UNCHANGED a /\ Remember
  /\ \/ /\ At("renRevOpq") /\ Goto("renRevMove")
        /\ \/ Works /\ opq' = opq \ {a.q} /\ UNCHANGED <<ent, wh>>
           \/ Fails
     \/ /\ At("renRevMove") /\ Goto("renRevWhtmp")
        /\ \/ Works /\ MoveUpper(a.q, a.p)
           \/ Fails
     \/ /\ At("renRevWhtmp") /\ Goto("renRevWhSrc")
        /\ \/ Works /\ (a.tmp = {} \/ Upper(a.q) # None) /\ UNCHANGED disk
           \/ /\ Works /\ Upper(a.q) = None
              /\ \E s \in a.tmp :
                   /\ ent' = [ent EXCEPT ![0] = [m \in Path |-> IF m \in Under(a.q) THEN s.ent[m] ELSE @[m]]]
                   /\ wh' = wh \cup s.wh /\ opq' = opq \cup s.opq
           \/ a.tmp # {} /\ Fails
     \/ /\ At("renRevWhSrc") /\ Goto("end")
        /\ \/ Works /\ wh' = wh \ (IF a.wh THEN {a.p} ELSE {}) /\ UNCHANGED <<ent, opq>>
           \/ a.wh /\ Fails

-----------------------------------------------------------------------------
Next ==
  \/ Begin \/ Return \/ PowerLoss \/ CopyupEntry \/ Write
  \/ AddStart \/ AddEntry \/ AddOpq \/ AddUnlinkWh \/ AddInode \/ AddRevert \/ LinkRevert
  \/ DelStart \/ DelWh \/ DelEntry \/ DelRevert
  \/ RenPrepare \/ RenWhSrc \/ RenLkupWh \/ RenWhtmp \/ RenMove \/ RenOpq \/ RenUnlinkWh \/ RenRevert

Spec == Init /\ [][Next]_vars
-----------------------------------------------------------------------------
(* Properties.                                                             *)

(* The operations keep the promise of UnionSpec: whatever steps fail and   *)
(* wherever the power goes, the names seen through the union are as before *)
(* or as after the operation, with the exceptions UnionSpec lists.         *)
Promise == INSTANCE UnionSpec WITH
  call <- IF pc = "idle" THEN [kind |-> "idle"]
          ELSE [kind |-> a.kind, p |-> a.p, q |-> a.q, v |-> a.v]
KeepsPromise == Promise!Spec

(* At no step of an operation, undo steps and failures included, does a    *)
(* name outside the operation look different; and copy-up, of a file or of *)
(* its parent directories, changes nothing that can be seen, even if it is *)
(* interrupted (cpup.c: copy under a temporary name, then rename).         *)
Undisturbed ==
  /\ pc # "idle" =>
       \A n \in Path \ Touched([p |-> a.p, q |-> a.q]) : View[n] = tree[n]
  /\ pc \in {"cpData", "cpRename", "cpUndo"} => View = tree
(* A rename that fails at one step, whichever of the move, the marks and    *)
(* the directory put aside were done by then, is undone in an order that    *)
(* brings every name back, deleted ones staying deleted (do_rename,         *)
(* i_op_ren.c:366-395).  Only a failing undo step may leave a half moved    *)
(* name (RevertFailure, which does not get its EIO to the caller).          *)
RenameUndone ==
  pc = "end" /\ a.kind = "rename" /\ a.err = "err" /\ faults < 2 => View = tree
=============================================================================
