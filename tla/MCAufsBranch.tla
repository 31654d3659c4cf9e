----------------------------- MODULE MCAufsBranch -----------------------------
(* An instance of AufsBranch for TLC: the directories and the memory are   *)
(* interchangeable.  The mount is used in one of four ways: three branches *)
(* come and go under an open directory; a directory and a file, or two     *)
(* files, are open while branches come, go and change their permission;    *)
(* works are pending while files are open and a branch is added.           *)
EXTENDS AufsBranch, TLC

MCLoads ==
  {[ops |-> {"add", "del"}, kinds |-> {}, branches |-> 3, files |-> 0, dirs |-> 1],
   [ops |-> {"add", "del", "mod"}, kinds |-> {}, branches |-> 2, files |-> 1, dirs |-> 1],
   [ops |-> {"add", "del", "mod"}, kinds |-> {}, branches |-> 2, files |-> 2, dirs |-> 0],
   [ops |-> {"add"}, kinds |-> {"rebase", "trunc", "rmdir"}, branches |-> 2, files |-> 1, dirs |-> 1]}

Symmetry == Permutations(Br) \cup Permutations(Wbr)
===============================================================================
