------------------------------ MODULE UnionSpec ------------------------------
(***************************************************************************)
(* What aufs promises its callers: one tree, on which every operation      *)
(* takes effect as a whole or not at all.  The exceptions the code really  *)
(* has are separate actions: an operation that could not be undone, a      *)
(* crash, and two operations whose error return does not tell all.         *)
(***************************************************************************)
EXTENDS UnionTree

VARIABLES
  tree,   \* what a lookup of each name finds
  call,   \* the operation in progress, or Idle
  res     \* how the last one ended: "ok", "err", "eio" or "crash"

uvars == <<tree, call, res>>

Idle == [kind |-> "idle"]

Init == tree \in [Path -> Value] /\ call = Idle /\ res = "ok"

Call ==
  /\ call = Idle
  /\ \E o \in Calls : MayCall(tree, o) /\ call' = o
  /\ UNCHANGED <<tree, res>>

Succeed ==
  /\ call # Idle /\ MaySucceed(tree, call)
  /\ tree' = Effect(tree, call) /\ res' = "ok" /\ call' = Idle

(* An error other than EIO means that nothing happened.                    *)
Fail ==
  /\ call # Idle
  /\ tree' = tree /\ res' = "err" /\ call' = Idle

Elsewhere == \A n \in Path \ Touched(call) : tree'[n] = tree[n]

(* EIO: undoing failed too.  Only the names of the operation are concerned.*)
Break ==
  /\ call # Idle /\ Elsewhere
  /\ tree' \in [Path -> Value] /\ res' = "eio" /\ call' = Idle

(* The names of the operation that a power loss interrupted are as before, *)
(* as after it, or give EIO (with nothing reachable below).                *)
Crash ==
  /\ call # Idle /\ Elsewhere
  /\ \A n \in Touched(call) :
       \/ tree'[n] \in {tree[n], Effect(tree, call)[n]}
       \/ tree'[n] = Stuck
       \/ tree'[n] = None /\ Len(n) = 2 /\ tree'[Parent(n)] = Stuck
  /\ res' = "crash" /\ call' = Idle

(* A directory renamed over a directory: the old one is first moved to a   *)
(* temporary name (i_op_ren.c:308), and the new one is made opaque only    *)
(* after its rename (331-338).  A power loss in between leaves neither     *)
(* there, or lets names deleted long before come back from below.          *)
CrashInDirRename ==
  /\ call # Idle /\ call.kind = "rename" /\ tree[call.q] = Dir /\ Elsewhere
  /\ tree' \in [Path -> Value] /\ res' = "crash" /\ call' = Idle

(* link: the undo step removes the whiteout again instead of the new link  *)
(* (i_op_add.c:596,617), so the link stays although an error is returned.  *)
LinkMadeAnyway ==
  /\ call # Idle /\ call.kind = "link"
  /\ tree' = Effect(tree, call) /\ res' = "err" /\ call' = Idle

(* rename: the EIO of a failed undo step is assigned to a parameter        *)
(* (i_op_ren.c:99-103) and the caller gets the first error.                *)
RenameBroken ==
  /\ call # Idle /\ call.kind = "rename" /\ Elsewhere
  /\ tree' \in [Path -> Value] /\ res' = "err" /\ call' = Idle

Next ==
  \/ Call \/ Succeed \/ Fail \/ Break \/ Crash \/ CrashInDirRename
  \/ LinkMadeAnyway \/ RenameBroken

Spec == Init /\ [][Next]_uvars
=============================================================================
