---- MODULE MCAufsReval ----
EXTENDS AufsReval, TLC
CONSTANTS br1, br2, br3, dent1, dent2, kid1

Content == {[d |-> k, opq |-> q, x |-> x, ver |-> 0] :
              k \in {"none", "file", "dir", "wh"}, q \in BOOLEAN, x \in {"none", "file", "wh"}}
Legal(c) == /\ c.d /= "dir" => ~c.opq /\ c.x = "none"
            /\ c.opq => c.x = "none"
(* An oddity is a mark, something else in the directory's place, or a      *)
(* directory without the file.  The others have the directory and the      *)
(* file.  One branch is odd, or two: the file is whited out on one and     *)
(* missing on another.                                                     *)
Marked(c) == c.opq \/ c.x = "wh" \/ c.d /= "dir"
Bare(c) == c.d = "dir" /\ ~c.opq /\ c.x = "none"
MCContents == {f \in [Ids -> {c \in Content : Legal(c)}] :
                 /\ Cardinality({i \in Ids : Marked(f[i])}) <= 1
                 /\ Cardinality({i \in Ids : Bare(f[i])}) <= 1
                 /\ \A i, j \in Ids : Marked(f[i]) /\ Bare(f[j]) => f[i].x = "wh"}
MCWhable == Ids
Sym == Permutations(Ids) \cup Permutations(DirDents)
NoMore == ghost \cap {"oops", "blind"} = {}
====
