------------------------------ MODULE UnionTree ------------------------------
(***************************************************************************)
(* Trees of names two levels deep, the operations the VFS asks of a file   *)
(* system, and what each of them means on a tree.  Shared by the promise   *)
(* (UnionSpec) and by the implementation over branches (AufsUnion).        *)
(***************************************************************************)
EXTENDS Integers, Sequences, FiniteSets

CONSTANTS
  Top,    \* names in the root directory
  Kid,    \* names in a directory of the root
  Data    \* contents of files

None  == "none"     \* no such name
Dir   == "dir"
Stuck == "stuck"    \* the name exists, but looking it up fails with EIO

ASSUME DataAssumption == Data \cap {None, Dir, Stuck, "partial"} = {}

Path  == {<<t>> : t \in Top} \cup {<<t, k>> : t \in Top, k \in Kid}
Value == Data \cup {None, Dir, Stuck}

Parent(n)  == SubSeq(n, 1, Len(n) - 1)
Below(n)   == {m \in Path : Len(m) > Len(n) /\ SubSeq(m, 1, Len(n)) = n}
Under(n)   == {n} \cup Below(n)

(* The name that n gets when p is renamed to q.                            *)
Rebase(n, p, q) == q \o SubSeq(n, Len(p) + 1, Len(n))

(* Entries of a tree t (a function on Path) when p becomes q.              *)
Moved(t, p, q) ==
  [n \in Path |->
     IF n \in Under(q)
     THEN IF Rebase(n, q, p) \in Path THEN t[Rebase(n, q, p)] ELSE None
     ELSE IF n \in Under(p) THEN None ELSE t[n]]

HasDir(t, n) == IF Len(n) = 1 THEN TRUE ELSE t[Parent(n)] = Dir
IsEmpty(t, n) == \A m \in Below(n) : t[m] \in {None, Stuck}

-----------------------------------------------------------------------------
(* A call: p is the name operated on, q the new name of link and rename    *)
(* (q = p otherwise), v the data of create and write.                      *)
Kinds == {"create", "mkdir", "link", "unlink", "rmdir", "rename", "write"}

Calls ==
  {o \in [kind : Kinds, p : Path, q : Path, v : Data] :
     /\ o.kind \notin {"link", "rename"} => o.q = o.p
     /\ o.kind \in {"link", "rename"} => o.q \notin Under(o.p) /\ o.p \notin Under(o.q)
     /\ o.kind \notin {"create", "write"} => o.v = CHOOSE v \in Data : TRUE}

(* What the VFS has checked before it calls the file system.  A directory  *)
(* of the root stays there: the tree is two levels deep.                   *)
MayCall(t, o) ==
  CASE o.kind \in {"create", "mkdir"} -> t[o.p] = None /\ HasDir(t, o.p)
    [] o.kind = "link"   -> t[o.p] \in Data /\ t[o.q] = None /\ HasDir(t, o.q)
    [] o.kind = "unlink" -> t[o.p] \in Data
    [] o.kind = "rmdir"  -> t[o.p] = Dir
    [] o.kind = "write"  -> t[o.p] \in Data
    [] o.kind = "rename" ->
         /\ HasDir(t, o.q)
         /\ \/ t[o.p] \in Data /\ t[o.q] \in Data \cup {None}
            \/ t[o.p] = Dir /\ t[o.q] \in {Dir, None} /\ Len(o.q) <= Len(o.p)

(* A directory that is removed or replaced has to be empty.                *)
MaySucceed(t, o) ==
  /\ o.kind = "rmdir" => IsEmpty(t, o.p)
  /\ o.kind = "rename" /\ t[o.q] = Dir => IsEmpty(t, o.q)

Effect(t, o) ==
  CASE o.kind \in {"create", "write"} -> [t EXCEPT ![o.p] = o.v]
    [] o.kind = "mkdir"  -> [t EXCEPT ![o.p] = Dir]
    [] o.kind = "link"   -> [t EXCEPT ![o.q] = t[o.p]]
    [] o.kind \in {"unlink", "rmdir"} -> [n \in Path |-> IF n \in Under(o.p) THEN None ELSE t[n]]
    [] o.kind = "rename" -> Moved(t, o.p, o.q)

Touched(o) == Under(o.p) \cup Under(o.q)
=============================================================================
