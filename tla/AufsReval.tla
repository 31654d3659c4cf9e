------------------------------ MODULE AufsReval ------------------------------
(***************************************************************************)
(* What aufs keeps of a name between two accesses, and how it is brought   *)
(* up to date after the branches changed: the lower dentries of a dentry   *)
(* (dinfo.c), the lower inodes of an inode (iinfo.c), their refresh by a   *)
(* remount (super.c) and on demand (aufs_d_revalidate in dentry.c), the    *)
(* look-up that makes them (i_op.c, inode.c) and the test that refuses to  *)
(* delete a branch somebody uses (branch.c).                               *)
(*                                                                         *)
(* The tree is a directory entry "d" of the root and an entry "x" in it.   *)
(* Each branch has its own contents, which the union merges.  Only "x" is  *)
(* created or removed behind aufs, on a branch itself: a lower entry is    *)
(* then another one (its version), while aufs still holds the old one,     *)
(* unhashed.                                                               *)
(*                                                                         *)
(* A generation is only ever compared with the one of the superblock, so   *)
(* it is the Boolean "equal to si_generation".  A remount holds si_rwsem   *)
(* for write and excludes everything else; it is taken apart into its      *)
(* options and its refresh of one object after the other.                  *)
(***************************************************************************)
EXTENDS Integers, Sequences, FiniteSets

CONSTANTS Ids,        \* ids of the branches, one for each au_br_add
          Whable,     \* the branches whose whiteouts count (rw, or ro+wh)
          Contents,   \* [Ids -> content of the branch], the possible ones
          DirDents, KidDents,  \* dentries of "d" and of "x"
          Inos,       \* inodes, numbers
          Root, Nil,
          MaxBr,      \* bound: branches at a time
          MaxChg,     \* bound: branch options
          MaxRemount, \* bound: remounts
          MaxMishap   \* bound: failed allocations and changes made on a
                      \* branch itself

Dents == DirDents \cup KidDents
Slots == 0 .. MaxBr - 1

ASSUME BoundsAssumption ==
    /\ {MaxBr, MaxChg, MaxRemount, MaxMishap} \subseteq Nat
    /\ Whable \subseteq Ids /\ Inos \subseteq Nat

VARIABLES br,      \* si_branch: the ids by index
          lower,   \* the contents of the branches
          udba,    \* "none" or "reval"
          dent,    \* the cached dentries with their au_dinfo
          ino,     \* the cached inodes with their au_iinfo
          failed,  \* AuSi_FAILED_REFRESH_DIR
          phase,   \* "idle", or the part of a remount: "opts", "refused"
                   \* (an option failed), "refresh"
          todo,    \* what the refresh has not visited
          n,       \* counters for the bounds
          res,     \* answer of the last aufs_d_revalidate: [dent, valid]
          ghost    \* what happened that the code does not handle

vars == <<br, lower, udba, dent, ino, failed, phase, todo, n, res, ghost>>

-----------------------------------------------------------------------------
(* Lower entries.  A slot holds Nil or the lower dentry [id, ver].         *)
Name(o) == IF o \in DirDents THEN "d" ELSE "x"
NoSlots == [b \in Slots |-> Nil]
Sbend == Len(br) - 1
Index(id) == IF \E b \in 0 .. Sbend : br[b + 1] = id
             THEN CHOOSE b \in 0 .. Sbend : br[b + 1] = id ELSE -1
Entry(id, nm) == [id |-> id, ver |-> IF nm = "x" THEN lower[id].ver ELSE 0]
HUnhashed(e, nm) == e /= Entry(e.id, nm)
(* the type of the lower inode, "none" for a negative lower dentry         *)
Kind(e, nm) == LET k == IF nm = "d" THEN lower[e.id].d ELSE lower[e.id].x
               IN IF HUnhashed(e, nm) THEN "file"
                  ELSE IF k = "wh" THEN "none" ELSE k
Positive(e, nm) == e /= Nil /\ Kind(e, nm) /= "none"
HasWh(id, nm) == /\ id \in Whable
                 /\ (IF nm = "d" THEN lower[id].d ELSE lower[id].x) = "wh"

RootDinfo == [s |-> [b \in Slots |-> IF b <= Sbend THEN Entry(br[b + 1], "d") ELSE Nil],
              bs |-> 0, be |-> Sbend, bwh |-> -1, bopq |-> -1]
DirOn(par, e) == e /= Nil /\ (par = Root \/ Kind(e, "d") = "dir")

SetMin(S) == CHOOSE v \in S : \A w \in S : v <= w
SetMax(S) == CHOOSE v \in S : \A w \in S : v >= w
Held(s, lo, hi) == {b \in Slots : lo <= b /\ b <= hi /\ s[b] /= Nil}

DbTail(d) == IF d.be >= 0 /\ d.bwh = 0 THEN 0
             ELSE IF d.be >= 0 /\ 0 < d.bwh /\ d.bwh < d.be THEN d.bwh - 1
             ELSE d.be

DbTailDir(d) == LET t == DbTail(d)
                IN IF t >= 0 /\ 0 <= d.bopq /\ d.bopq < t THEN d.bopq ELSE t

-----------------------------------------------------------------------------
(* au_lkup_dentry on an empty dinfo.  r is the dinfo so far with the       *)
(* number of positive entries, the type that is looked for, and neg:       *)
(* AuLkup_ALLOW_NEG.                                                       *)
RECURSIVE LkupFrom(_, _, _, _, _, _)
LkupFrom(par, p, nm, inokind, b, r) ==
    IF b > DbTailDir(p) THEN r
    ELSE IF ~DirOn(par, p.s[b]) THEN LkupFrom(par, p, nm, inokind, b + 1, r)
    ELSE LET id == br[b + 1]
             e == Entry(id, nm)
             k == Kind(e, nm)
             wh == HasWh(id, nm)
             keep == \/ k = "none" /\ r.neg
                     \/ k /= "none" /\ ~wh /\ r.type \in {"none", k}
             pos == keep /\ k /= "none"
             opq == /\ pos /\ k = "dir" /\ nm = "d" /\ id \in Whable
                    /\ inokind \in {"none", "dir"} /\ lower[id].opq
             r2 == [r EXCEPT !.neg = FALSE,
                             !.bwh = IF wh THEN b ELSE @,
                             !.s[b] = IF keep THEN e ELSE @,
                             !.be = IF keep THEN b ELSE @,
                             !.bs = IF keep /\ @ < 0 THEN b ELSE @,
                             !.bopq = IF opq THEN b ELSE @,
                             !.npos = IF pos THEN @ + 1 ELSE @,
                             !.type = IF pos THEN k ELSE @]
         IN IF \/ wh
               \/ pos /\ k = "file"
               \/ pos /\ inokind = "dir" /\ r2.bopq >= 0
            THEN r2 ELSE LkupFrom(par, p, nm, inokind, b + 1, r2)

(* au_update_dbstart: the negative lower dentries above the first positive *)
UpdateDbstart(r, nm) ==
    LET pos == {b \in Held(r.s, r.bs, r.be) : Positive(r.s[b], nm)}
    IN IF pos = {} THEN r
       ELSE [r EXCEPT !.bs = SetMin(pos),
                      !.s = [b \in Slots |-> IF b < SetMin(pos) THEN Nil ELSE @[b]]]

(* the dinfo of the look-up, and its err                                   *)
LkupResult(q) == [s |-> q.s, bs |-> q.bs, be |-> q.be, bwh |-> q.bwh, bopq |-> q.bopq,
                  pos |-> q.npos > 0, err |-> udba /= "none" /\ q.bs < 0]
LkupEnd(r, nm) == LkupResult(IF r.npos > 0 THEN UpdateDbstart(r, nm) ELSE r)
Lkup(par, p, nm, inokind, from) ==
    LkupEnd(LkupFrom(par, p, nm, inokind, from,
                     [s |-> NoSlots, bs |-> -1, be |-> -1, bwh |-> -1, bopq |-> -1,
                      neg |-> TRUE, type |-> "none", npos |-> 0]), nm)

-----------------------------------------------------------------------------
(* The refresh works on st = [dent, ino, err, oops]; oops says that the    *)
(* code has used an inode that is not there: ii_hinode[-1], or the inode   *)
(* of a negative dentry.                                                   *)
Dinfo(st, o) == IF o = Root THEN RootDinfo ELSE st.dent[o]
InoKind(st, o) == IF st.dent[o].ino = Nil THEN "none" ELSE st.ino[st.dent[o].ino].kind
Fresh(st, o) == o /= Root => /\ st.dent[o].fresh
                             /\ st.dent[o].ino /= Nil => st.ino[st.dent[o].ino].fresh
Err(st) == [st EXCEPT !.err = TRUE]

(* Mutant: the entry that was displaced is not looked at.                  *)
AgainNot(s, b, new) == b + 1

(* "swap two lower dentries, and loop again"                               *)
Again(s, b, new) == IF s[new] /= Nil THEN b ELSE b + 1

(* au_do_refresh_hdentry, the loop: every lower dentry moves to the index  *)
(* its branch has now, the one it displaces is looked at next.             *)
RECURSIVE Rehome(_, _, _)
Rehome(d, b, r) ==
    IF b > d.be THEN r
    ELSE IF r.s[b] = Nil \/ (r.s[b] /= Nil /\ Index(r.s[b].id) = b) THEN Rehome(d, b + 1, r)
    ELSE LET new == Index(r.s[b].id)
             r2 == [r EXCEPT !.bwh = IF d.bwh = b THEN new ELSE @,
                             !.bopq = IF d.bopq = b THEN new ELSE @]
         IN IF new < 0 THEN Rehome(d, b + 1, [r2 EXCEPT !.s[b] = Nil])
            ELSE Rehome(d, Again(r.s, b, new),
                        [r2 EXCEPT !.s[new] = r.s[b], !.s[b] = r.s[new]])

StillWhable(b) == IF b >= 0 /\ b <= Sbend /\ br[b + 1] \in Whable THEN b ELSE -1

(* au_do_refresh_hdentry, then the range up to the bottom of the parent    *)
Ranged(d, p, r) ==
    LET held == Held(r.s, 0, p.be)
    IN [d EXCEPT !.s = r.s,
                 !.bwh = StillWhable(r.bwh),
                 !.bopq = StillWhable(r.bopq),
                 !.bs = IF held = {} THEN -1 ELSE SetMin(held),
                 !.be = IF held = {} THEN -1 ELSE SetMax(held)]
RefreshHdentry(d, p) ==
    Ranged(d, p, Rehome(d, d.bs, [s |-> d.s, bwh |-> d.bwh, bopq |-> d.bopq]))

(* au_di_realloc, au_ii_realloc: a longer array is cleared above the range *)
Realloc(d) ==
    LET used == IF d.be < 0 THEN 1 ELSE d.be + 1
    IN IF Len(br) > used
       THEN [d EXCEPT !.s = [b \in Slots |-> IF b < used THEN @[b] ELSE Nil]]
       ELSE d

RECURSIVE RehomeIno(_, _)
RehomeIno(b, r) ==
    IF b > r.be THEN r
    ELSE IF r.s[b] = Nil \/ (r.s[b] /= Nil /\ Index(r.s[b].id) = b) THEN RehomeIno(b + 1, r)
    ELSE LET new == Index(r.s[b].id)
         IN IF new < 0 THEN RehomeIno(b + 1, [r EXCEPT !.s[b] = Nil])
            ELSE RehomeIno(Again(r.s, b, new),
                           [r EXCEPT !.be = IF @ < new THEN new ELSE @,
                                     !.s[new] = r.s[b], !.s[b] = r.s[new]])

(* au_update_ibrange without do_put_zero                                   *)
UpdateIbrange(i) ==
    LET held == Held(i.s, 0, Sbend)
    IN [i EXCEPT !.bs = IF held = {} THEN -1 ELSE SetMin(held),
                 !.be = IF held = {} THEN -1 ELSE SetMax(held)]

IiRefresh(i) == UpdateIbrange(RehomeIno(i.bs, Realloc(i)))

(* au_refresh_hinode_attr: the attributes and the link count of the top    *)
(* lower inode, and the generation, half refreshed                         *)
HinodeAttr(i) ==
    IF i.bs < 0 THEN i
    ELSE [i EXCEPT !.fresh = TRUE, !.half = "yes",
                   !.dead = @ \/ /\ i.kind = "file" /\ i.nm = "x"
                                 /\ HUnhashed(i.s[i.bs], "x")]

WithAttr(st, i, i2) == [st EXCEPT !.ino[i] = HinodeAttr(i2), !.oops = @ \/ i2.bs < 0]

(* au_refresh_hinode_self                                                  *)
RefreshHinodeSelf(st, i, f) ==
    IF f = "ino" THEN Err(st) ELSE WithAttr(st, i, IiRefresh(st.ino[i]))

(* Mutant: the lower inodes of a new branch are not taken.                 *)
RefreshHinodeOwn(st, o, i, d, f) ==
    IF i = Nil THEN [st EXCEPT !.oops = TRUE] ELSE RefreshHinodeSelf(st, i, f)

(* au_refresh_hinode: the inode also takes the lower inodes of the dentry, *)
(* up to the first that clashes with one it has                            *)
TakeUpTo(i2, d, pos, last) ==
    UpdateIbrange([i2 EXCEPT !.s = [b \in Slots |->
                     IF b \in pos /\ b <= last THEN d.s[b] ELSE @[b]]])
TakeSlots(st, i, i2, d, pos) ==
    LET clash == {b \in pos : i2.s[b] \notin {Nil, d.s[b]}}
    IN IF clash = {} THEN WithAttr(st, i, TakeUpTo(i2, d, pos, d.be))
       ELSE Err([st EXCEPT !.ino[i] = TakeUpTo(i2, d, pos, SetMin(clash) - 1)])
RefreshHinode(st, o, i, d, f) ==
    IF i = Nil THEN [st EXCEPT !.oops = TRUE]
    ELSE IF f = "ino" THEN Err(st)
    ELSE TakeSlots(st, i, IiRefresh(st.ino[i]), d,
                   {b \in Held(d.s, d.bs, d.be) : Positive(d.s[b], Name(o))})

-----------------------------------------------------------------------------
(* au_do_hide, au_hide: the entry is not in the union any more.            *)
DoHide(st, o) ==
    LET i == st.dent[o].ino
        die == i /= Nil /\ (st.ino[i].kind = "dir" \/ st.dent[o].hashed)
    IN [st EXCEPT !.dent[o].hashed = FALSE,
                  !.ino = IF die THEN [@ EXCEPT ![i].dead = TRUE] ELSE @]

RECURSIVE HideAll(_, _)
HideAll(st, os) == IF os = {} THEN st
                   ELSE LET c == CHOOSE c \in os : TRUE
                        IN HideAll(DoHide(st, c), os \ {c})

Children(st, o) == {c \in KidDents : st.dent[c] /= Nil /\ st.dent[c].par = o}
Hide(st, o) == DoHide(IF InoKind(st, o) = "dir" THEN HideAll(st, Children(st, o)) ELSE st, o)

HideAndRefresh(st, o, f) ==
    LET st2 == Hide(st, o)
        i == st.dent[o].ino
    IN IF i = Nil THEN st2 ELSE RefreshHinodeSelf(st2, i, f)

(* Mutant: the lower dentries of the new branches are not taken over.      *)
NoFill(d, tmp) == [d EXCEPT !.bwh = tmp.bwh, !.bopq = tmp.bopq]

(* au_refresh_by_dinfo, same type: fill empty slots                        *)
Fill(d, tmp) ==
    [d EXCEPT !.bs = IF @ > tmp.bs THEN tmp.bs ELSE @,
              !.be = IF @ < tmp.be THEN tmp.be ELSE @,
              !.bwh = tmp.bwh, !.bopq = tmp.bopq,
              !.s = [b \in Slots |->
                        IF @[b] = Nil THEN tmp.s[b] ELSE @[b]]]

(* Mutant: a directory that also appears above is another one.             *)
SameEntryTop(kind, d, tmp) == d.bs <= tmp.bs

(* a directory is the same one wherever its top is, a file is another one  *)
(* when it is found above                                                  *)
SameEntry(kind, d, tmp) == kind = "dir" \/ d.bs <= tmp.bs

(* au_refresh_by_dinfo: compares the dentry with what a look-up finds now  *)
RefreshByDinfo(st, o, tmp, f) ==
    LET d == st.dent[o]
        nm == Name(o)
        orig == Kind(d.s[d.bs], nm)
        now == IF tmp.bs < 0 THEN "none" ELSE Kind(tmp.s[tmp.bs], nm)
        st2 == HideAndRefresh(st, o, f)
    IN CASE orig = "none" /\ d.ino /= Nil -> Hide(st, o)
         [] orig = "none" /\ d.ino = Nil /\ now = "none" ->
              IF tmp.bs >= 0 /\ tmp.bs < d.bs
              THEN [st EXCEPT !.dent[o].bs = tmp.bs, !.dent[o].be = tmp.be,
                              !.dent[o].bwh = tmp.bwh, !.dent[o].bopq = tmp.bopq,
                              !.dent[o].s = [@ EXCEPT ![d.bs] = Nil,
                                                      ![tmp.bs] = tmp.s[tmp.bs]]]
              ELSE st
         [] orig = "none" /\ d.ino = Nil /\ now /= "none" ->
              [st EXCEPT !.dent[o].hashed = FALSE]
         [] orig /= "none" /\ now = "none" ->
              [st2 EXCEPT !.dent[o].bwh = IF tmp.bwh >= 0 /\ tmp.bwh <= d.bs
                                          THEN tmp.bwh ELSE @]
         [] orig /= "none" /\ orig = now /\ SameEntry(orig, d, tmp) ->
              LET d2 == Fill(d, tmp)
              IN RefreshHinode([st EXCEPT !.dent[o] = d2], o, d.ino, d2, f)
         [] OTHER -> st2

ParentFresh(st, o) == Fresh(st, st.dent[o].par)

(* au_refresh_dentry, once the lower dentries are at their indices; tmp is *)
(* what a look-up finds now, f the allocation that fails                   *)
RefreshRehomed(st, o, tmp, f) ==
    LET d == st.dent[o]
        done(s) == IF s.err THEN s ELSE [s EXCEPT !.dent[o].fresh = TRUE]
    IN IF ~d.hashed \/ d.bs < 0
       THEN done(IF d.ino = Nil THEN st ELSE RefreshHinodeSelf(st, d.ino, f))
       ELSE IF f = "tmp" \/ tmp.err THEN Err(st)
       ELSE done(RefreshByDinfo(st, o, tmp, f))

(* au_refresh_dentry from its start, p is the parent's dinfo               *)
RefreshIn(st, o, p, d, f) ==
    RefreshRehomed([st EXCEPT !.dent[o] = IF d.bs < 0 THEN d ELSE RefreshHdentry(d, p)],
                   o, Lkup(d.par, p, Name(o), InoKind(st, o), 0), f)

RefreshDentry(st, o, f) ==
    IF ~ParentFresh(st, o) \/ f = "di" THEN Err(st)
    ELSE RefreshIn(st, o, Dinfo(st, st.dent[o].par), Realloc(st.dent[o]), f)

(* au_reval_dpath: the dentry alone, or after a failed refresh of a        *)
(* directory the uppermost stale one first, as often as it takes           *)
RevalPath(st, path, f) ==
    LET upto[k \in 0 .. Len(path)] ==
            IF k = 0 THEN st
            ELSE IF upto[k - 1].err THEN upto[k - 1]
            ELSE RefreshDentry(upto[k - 1], path[k], IF k = Len(path) THEN f ELSE "none")
    IN upto[Len(path)]

RevalDpath(st, o, f) ==
    LET p == st.dent[o].par
    IN RevalPath(st, CASE Fresh(st, o) -> <<>>
                       [] ~Fresh(st, o) /\ failed /\ ~Fresh(st, p) -> <<p, o>>
                       [] OTHER -> <<o>>, f)

NoAnswer == [dent |-> Nil, valid |-> FALSE]
St == [dent |-> dent, ino |-> ino, err |-> FALSE, oops |-> FALSE]
Mishap == n.fail + n.dir < MaxMishap
Fails == IF Mishap THEN {"none", "di", "tmp", "ino"} ELSE {"none"}
CountFail(f) == [n EXCEPT !.fail = IF f = "none" THEN @ ELSE @ + 1]

-----------------------------------------------------------------------------
Init ==
    /\ lower \in Contents
    /\ \E s \in [1 .. 2 -> Ids] : s[1] /= s[2] /\ br = s
    /\ udba \in {"none", "reval"}
    /\ dent = [o \in Dents |-> Nil]
    /\ ino = [i \in Inos |-> Nil]
    /\ failed = FALSE /\ phase = "idle" /\ todo = {}
    /\ n = [chg |-> 0, opt |-> 0, mnt |-> 0, fail |-> 0, dir |-> 0, del |-> {}]
    /\ res = NoAnswer
    /\ ghost = {}

(* reval_inode: the cached inode of the lower inode the look-up has found  *)
Known(top, nm) == {i \in Inos : /\ ino[i] /= Nil /\ ~ino[i].dead /\ ino[i].nm = nm
                                /\ \E b \in Held(ino[i].s, ino[i].bs, ino[i].be) : ino[i].s[b] = top}

(* set_inode; the flag ig_flags is what the former user of the memory left *)
NewInode(d, nm) ==
    LET k == Kind(d.s[d.bs], nm)
        tail == IF k = "dir" THEN DbTailDir(d) ELSE DbTail(d)
    IN [kind |-> k, nm |-> nm, bs |-> d.bs, be |-> tail,
        s |-> [b \in Slots |-> IF d.bs <= b /\ b <= tail THEN d.s[b] ELSE Nil],
        fresh |-> TRUE, half |-> "unset", dead |-> FALSE]

(* au_new_inode with reval_inode: a new inode, the cached one as it is, or *)
(* fully refreshed with the dentry, which fails when the inode has another *)
(* lower inode on a branch                                                 *)
NewDentry(d, p, i) == [s |-> d.s, bs |-> d.bs, be |-> d.be, bwh |-> d.bwh,
                       bopq |-> d.bopq, par |-> p, ino |-> i,
                       hashed |-> TRUE, fresh |-> TRUE]

Instantiate(o, d, p, i) ==
    LET known == Known(d.s[d.bs], Name(o))
        added == [dent EXCEPT ![o] = NewDentry(d, p, i)]
    IN \/ /\ known = {} /\ ino[i] = Nil /\ \A j \in Inos : ino[j] = Nil => i <= j
          /\ ino' = [ino EXCEPT ![i] = NewInode(d, Name(o))]
          /\ dent' = added
       \/ /\ i \in known /\ ino[i].fresh /\ ino[i].half /= "yes"
          /\ dent' = added /\ UNCHANGED ino
       \/ /\ i \in known /\ ~(ino[i].fresh /\ ino[i].half = "no")
          /\ \E st \in {RefreshHinode(St, o, i, d, "none")} :
               /\ ino' = IF st.err THEN st.ino ELSE [st.ino EXCEPT ![i].half = "no"]
               /\ dent' = IF st.err THEN dent ELSE added

(* aufs_lookup                                                             *)
Alive(p) == p /= Root => /\ dent[p] /= Nil /\ dent[p].hashed /\ dent[p].ino /= Nil
                         /\ ino[dent[p].ino].kind = "dir" /\ ~ino[dent[p].ino].dead

Lookup(o, p) ==
    /\ phase = "idle" /\ dent[o] = Nil
    /\ (p = Root) = (o \in DirDents)
    /\ Alive(p) /\ Fresh(St, p)
    /\ \A c \in Dents : ~(dent[c] /= Nil /\ dent[c].par = p /\ dent[c].hashed)
    /\ \E d \in {Lkup(p, Dinfo(St, p), Name(o), "none", Dinfo(St, p).bs)} :
         /\ ~d.err
         /\ \/ /\ ~d.pos /\ UNCHANGED ino
               /\ dent' = [dent EXCEPT ![o] = NewDentry(d, p, Nil)]
            \/ d.pos /\ \E i \in Inos : Instantiate(o, d, p, i)
    /\ res' = NoAnswer
    /\ UNCHANGED <<br, lower, udba, failed, phase, todo, n, ghost>>

(* the last dput, and the iput of an inode without another dentry          *)
Release(o) ==
    /\ phase = "idle" /\ dent[o] /= Nil /\ Children(St, o) = {}
    /\ dent' = [dent EXCEPT ![o] = Nil]
    /\ ino' = [i \in Inos |-> IF \E c \in Dents \ {o} : dent[c] /= Nil /\ dent[c].ino = i
                              THEN ino[i] ELSE Nil]
    /\ res' = NoAnswer
    /\ UNCHANGED <<br, lower, udba, failed, phase, todo, n, ghost>>

-----------------------------------------------------------------------------
(* Mutant: a lower dentry that was unhashed is not noticed.                *)
HdRevalNoHash(st, o) ==
    LET d == st.dent[o]
        i == d.ino
        dir == InoKind(st, o) = "dir"
        tail == IF dir THEN DbTailDir(d) ELSE d.bs
    IN udba = "none" \/
       \A b \in Held(d.s, d.bs, tail) :
          (i /= Nil) = Positive(d.s[b], Name(o))

(* h_d_revalidate with udba: hashed as the lower dentry, positive as it,   *)
(* with the type and the inode aufs has                                    *)
HdRevalidate(st, o) ==
    LET d == st.dent[o]
        i == d.ino
        tail == IF InoKind(st, o) = "dir" THEN DbTailDir(d) ELSE d.bs
        same(b) ==
            /\ d.hashed = ~HUnhashed(d.s[b], Name(o))
            /\ (i /= Nil) = Positive(d.s[b], Name(o))
            /\ i /= Nil =>
                 /\ st.ino[i].dead = HUnhashed(d.s[b], Name(o))
                 /\ st.ino[i].kind = Kind(d.s[b], Name(o))
                 /\ st.ino[i].bs <= b /\ b <= st.ino[i].be => st.ino[i].s[b] = d.s[b]
    IN udba = "none" \/ \A b \in Held(d.s, d.bs, tail) : same(b)

(* aufs_d_revalidate; open: the flags allow a dead directory.  A failed    *)
(* allocation drops the dentry, so one for each dentry is enough; it is    *)
(* the last of those RefreshD has.                                         *)
RevalAnswer(o, open, st) ==
    LET i == dent[o].ino
        valid == /\ ~st.err
                 /\ ~open /\ i /= Nil => ~st.ino[i].dead
                 /\ HdRevalidate(st, o)
                 /\ udba /= "none" => st.dent[o].bs >= 0
    IN /\ dent' = IF valid THEN st.dent ELSE [st.dent EXCEPT ![o].hashed = FALSE]
       /\ ino' = st.ino
       /\ res' = [dent |-> o, valid |-> valid]
       /\ ghost' = IF st.oops THEN ghost \cup {"oops"} ELSE ghost

Revalidate(o, open, f) ==
    /\ phase = "idle" /\ dent[o] /= Nil
    /\ f /= "none" => ~Fresh(St, o) /\ dent[o].hashed
    /\ IF dent[o].bs < 0
       THEN /\ f = "none"
            /\ dent' = [dent EXCEPT ![o].hashed = FALSE]
            /\ res' = [dent |-> o, valid |-> FALSE]
            /\ UNCHANGED <<ino, ghost>>
       ELSE \E st \in {RevalDpath(St, o, f)} : RevalAnswer(o, open, st)
    /\ UNCHANGED <<br, lower, udba, failed, phase, todo, n>>

-----------------------------------------------------------------------------
(* A remount: its branch options, then the refresh.  The first step of it  *)
(* takes si_rwsem and finds nobody else inside.                            *)
InOpts == phase = "opts" \/ (phase = "idle" /\ n.mnt < MaxRemount)
Enter(m) == IF phase = "idle" THEN [m EXCEPT !.mnt = @ + 1, !.opt = 0] ELSE m
OptDone(m) == [m EXCEPT !.chg = @ + 1, !.opt = @ + 1]

(* au_br_add; the slots of the root are RootDinfo                          *)
BrAdd(id, b) ==
    /\ InOpts /\ phase' = "opts" /\ n.chg < MaxChg
    /\ Index(id) = -1 /\ id \notin n.del /\ Len(br) < MaxBr
    /\ br' = SubSeq(br, 1, b) \o <<id>> \o SubSeq(br, b + 1, Len(br))
    /\ n' = OptDone(Enter(n))
    /\ res' = NoAnswer
    /\ UNCHANGED <<lower, udba, dent, ino, failed, todo, ghost>>

(* Mutant: a directory that is on no other branch is not busy.             *)
BusySlotNoDir(s, bs, be, kind, b) ==
    bs <= b /\ b <= be /\ s[b] /= Nil /\ kind = "file"

(* au_test_dbusy, au_test_ibusy on the slot of the branch                  *)
BusySlot(s, bs, be, kind, b) ==
    bs <= b /\ b <= be /\ s[b] /= Nil /\ (kind = "file" \/ bs = be)

(* test_dentry_busy on one dentry: a stale one is refreshed first          *)
TestDentry(st, o, b) ==
    LET st2 == RevalDpath(st, o, "none")
        d == st2.dent[o]
    IN IF st.dent[o].bs < 0 THEN st
       ELSE IF ~st2.err /\ BusySlot(d.s, d.bs, d.be, InoKind(st2, o), b) THEN Err(st2)
       ELSE st2

(* au_dcsub_pages lists a parent before its children, the loop ends at the *)
(* first dentry that is busy or cannot be refreshed                        *)
RECURSIVE TestDentries(_, _, _)
TestDentries(st, os, b) ==
    IF os = {} \/ st.err THEN {st}
    ELSE UNION {TestDentries(TestDentry(st, o, b), os \ {o}, b) :
                  o \in IF os \cap DirDents = {} THEN os ELSE os \cap DirDents}

(* test_inode_busy on one inode: au_iigen_dec leaves a refreshed one stale *)
TestInode(st, i, b) ==
    LET new == IF st.ino[i].fresh THEN st.ino[i]
               ELSE [HinodeAttr(IiRefresh(st.ino[i])) EXCEPT !.fresh = FALSE]
    IN [st EXCEPT !.ino[i] = new, !.oops = @ \/ new.bs < 0,
                  !.err = BusySlot(new.s, new.bs, new.be, new.kind, b)]

RECURSIVE TestInodes(_, _, _)
TestInodes(st, is, b) ==
    IF is = {} \/ st.err THEN {st}
    ELSE UNION {TestInodes(TestInode(st, i, b), is \ {i}, b) : i \in is}

(* test_children_busy: the inodes only when the dentries are not busy      *)
TestBusy(b) ==
    UNION {TestInodes(st, {i \in Inos : ino[i] /= Nil}, b) :
             st \in TestDentries(St, {o \in Dents : dent[o] /= Nil}, b)}

(* au_br_del; "blind": the slots are tested by an index they do not have   *)
BrDel(b) ==
    /\ InOpts /\ n.chg < MaxChg /\ Len(br) > 1
    /\ \E st \in TestBusy(b) :
         /\ dent' = st.dent /\ ino' = st.ino
         /\ phase' = IF st.err THEN "refused" ELSE "opts"
         /\ n' = IF st.err THEN OptDone(Enter(n))
                 ELSE [OptDone(Enter(n)) EXCEPT !.del = @ \cup {br[b + 1]}]
         /\ br' = IF st.err THEN br
                  ELSE SubSeq(br, 1, b) \o SubSeq(br, b + 2, Len(br))
         /\ ghost' = ghost \cup (IF Enter(n).opt > 0 /\ ~st.err THEN {"blind"} ELSE {})
                           \cup (IF st.oops THEN {"oops"} ELSE {})
    /\ res' = NoAnswer
    /\ UNCHANGED <<lower, udba, failed, todo>>

(* au_remount_refresh: au_sigen_inc makes everything but the root stale.   *)
(* lost: au_refresh_d gets no memory for the list of the dentries.         *)
RefreshStart(lost) ==
    /\ phase \in {"opts", "refused"}
    /\ lost => Mishap
    /\ phase' = "refresh" /\ failed' = FALSE
    /\ dent' = [o \in Dents |-> IF dent[o] = Nil THEN Nil ELSE [dent[o] EXCEPT !.fresh = FALSE]]
    /\ ino' = [i \in Inos |-> IF ino[i] = Nil THEN Nil ELSE [ino[i] EXCEPT !.fresh = FALSE]]
    /\ todo' = IF lost THEN {} ELSE {o \in Dents : dent[o] /= Nil}
    /\ ghost' = IF lost THEN ghost \cup {"lost"} ELSE ghost
    /\ n' = [n EXCEPT !.fail = IF lost THEN @ + 1 ELSE @]
    /\ UNCHANGED <<br, lower, udba, res>>

(* Nothing was changed and xino is off: AuOpts_REFRESH is not set.         *)
NoRefresh ==
    /\ phase = "refused" /\ n.opt = 1
    /\ phase' = "idle"
    /\ UNCHANGED <<br, lower, udba, dent, ino, failed, todo, n, res, ghost>>

(* Mutant: the failure is not remembered.                                  *)
FailedDirNot(st, o) == FALSE

(* a directory that was not refreshed sets AuSi_FAILED_REFRESH_DIR         *)
FailedDir(st, o) == st.err /\ InoKind(St, o) = "dir"

(* au_do_refresh_d, a parent before its children                           *)
RefreshD(o, f) ==
    LET try == ~Fresh(St, o) /\ ParentFresh(St, o)
    IN /\ phase = "refresh" /\ o \in todo /\ dent[o].par \notin todo
       /\ f /= "none" => try
       /\ todo' = todo \ {o}
       /\ IF try
          THEN \E st \in {RefreshDentry(St, o, f)} :
                 /\ dent' = st.dent /\ ino' = st.ino
                 /\ failed' = (failed \/ FailedDir(st, o))
                 /\ ghost' = IF st.oops THEN ghost \cup {"oops"} ELSE ghost
          ELSE UNCHANGED <<dent, ino, failed, ghost>>
       /\ n' = CountFail(f)
       /\ UNCHANGED <<br, lower, udba, phase, res>>

(* au_refresh_i, the inodes no dentry has refreshed; bad: the ones whose   *)
(* array cannot be enlarged                                                *)
RefreshI(bad) ==
    LET stale == {i \in Inos : ino[i] /= Nil /\ ~ino[i].fresh}
        new(i) == RefreshHinodeSelf(St, i, IF i \in bad THEN "ino" ELSE "none")
    IN /\ phase = "refresh" /\ todo = {}
       /\ bad \subseteq stale /\ Cardinality(bad) <= 1
       /\ bad /= {} => Mishap
       /\ ino' = [i \in Inos |-> IF i \in stale THEN new(i).ino[i] ELSE ino[i]]
       /\ ghost' = IF \E i \in stale : new(i).oops THEN ghost \cup {"oops"} ELSE ghost
       /\ n' = [n EXCEPT !.fail = @ + Cardinality(bad)]
       /\ phase' = "idle"
       /\ UNCHANGED <<br, lower, udba, dent, failed, todo, res>>

-----------------------------------------------------------------------------
(* Changes of "x" on a branch itself.  A removed entry is unhashed with    *)
(* its inode; a created one takes the negative lower dentry.               *)
DirectRemove(id) ==
    /\ phase = "idle" /\ Mishap /\ udba = "reval"
    /\ lower[id].d = "dir" /\ lower[id].x = "file" /\ lower[id].ver = 0
    /\ lower' = [lower EXCEPT ![id].x = "none", ![id].ver = 1]
    /\ n' = [n EXCEPT !.dir = @ + 1]
    /\ res' = NoAnswer
    /\ UNCHANGED <<br, udba, dent, ino, failed, phase, todo, ghost>>

DirectCreate(id) ==
    /\ phase = "idle" /\ Mishap /\ udba = "reval"
    /\ lower[id].d = "dir" /\ lower[id].x = "none"
    /\ lower' = [lower EXCEPT ![id].x = "file"]
    /\ n' = [n EXCEPT !.dir = @ + 1]
    /\ res' = NoAnswer
    /\ ghost' = ghost \cup {"created"}
    /\ UNCHANGED <<br, udba, dent, ino, failed, phase, todo>>

Next ==
    \/ \E o \in Dents : \/ \E p \in DirDents \cup {Root} : Lookup(o, p)
                        \/ Release(o)
                        \/ \E f \in Fails : RefreshD(o, f)
                        \/ \E open \in BOOLEAN, f \in {"none", "ino"} : Revalidate(o, open, f)
    \/ \E id \in Ids : \/ \E b \in 0 .. Len(br) : BrAdd(id, b)
                       \/ DirectRemove(id) \/ DirectCreate(id)
    \/ \E b \in 0 .. Sbend : BrDel(b)
    \/ NoRefresh \/ \E lost \in BOOLEAN : RefreshStart(lost)
    \/ \E bad \in SUBSET Inos : RefreshI(bad)

Spec == Init /\ [][Next]_vars

-----------------------------------------------------------------------------
(* The union by its definition: the indices where "d" and "x" are, from    *)
(* the top down to a whiteout, an opaque directory or a non-directory.     *)
Above(b, nm) == \E c \in 0 .. b - 1 : HasWh(br[c + 1], nm)
On(b, nm) == LET k == IF nm = "d" THEN lower[br[b + 1]].d ELSE lower[br[b + 1]].x
             IN IF k = "wh" THEN "none" ELSE k
Opaque(b) == br[b + 1] \in Whable /\ On(b, "d") = "dir" /\ lower[br[b + 1]].opq
First(S) == IF S = {} THEN {} ELSE {SetMin(S)}
UnionD ==
    LET seen == {b \in 0 .. Sbend : On(b, "d") /= "none" /\ ~Above(b, "d")}
        top == First(seen)
    IN IF \E b \in top : On(b, "d") = "dir"
       THEN {b \in seen : /\ On(b, "d") = "dir"
                          /\ ~\E c \in seen : c < b /\ Opaque(c)}
       ELSE top
UnionX == First({b \in UnionD : /\ On(b, "x") = "file"
                                /\ ~\E c \in UnionD : c < b /\ HasWh(br[c + 1], "x")})
UnionOf(o) == IF o \in DirDents THEN UnionD ELSE UnionX

(* the branches a cached dentry answers from                               *)
Shown(o) == LET d == dent[o]
            IN CASE d.ino = Nil -> {}
                 [] InoKind(St, o) = "dir" -> Held(d.s, d.bs, DbTailDir(d))
                 [] OTHER -> {d.bs}

Cached(o) == dent[o] /= Nil
Used(i) == \E o \in Dents : dent[o] /= Nil /\ dent[o].ino = i
UpToDate(o) == /\ Cached(o) /\ phase = "idle"
               /\ dent[o].hashed /\ dent[o].bs >= 0 /\ Fresh(St, o)
Fine == ghost \cap {"blind", "created", "oops"} = {}

(* au_refresh_by_dinfo: a dentry that is hashed, and as new as its parent, *)
(* answers from the very branches the union takes the name from, whatever  *)
(* branches came and went and whichever allocation failed on the way.      *)
AsUnion == \A o \in Dents :
    UpToDate(o) /\ Fine /\ n.dir = 0 /\ (dent[o].par /= Root => UpToDate(dent[o].par))
      => Shown(o) = UnionOf(o)

(* au_refresh_hinode: the inode has the lower inode of every branch its    *)
(* dentry answers from; and once the generation of a dentry or an inode    *)
(* says so, each lower one is at the index its branch has now              *)
(* (au_do_refresh_hdentry, au_ii_refresh).                                 *)
InodeHolds ==
    /\ \A o \in Dents :
         UpToDate(o) /\ Fine /\ dent[o].ino /= Nil =>
           \A b \in Shown(o) : ino[dent[o].ino].s[b] = dent[o].s[b]
    /\ phase = "idle" =>
         /\ \A o \in Dents : Cached(o) /\ Fresh(St, o) =>
              \A b \in Held(dent[o].s, dent[o].bs, dent[o].be) : Index(dent[o].s[b].id) = b
         /\ \A i \in Inos : ino[i] /= Nil /\ ino[i].fresh =>
              \A b \in Held(ino[i].s, ino[i].bs, ino[i].be) : Index(ino[i].s[b].id) = b

(* au_cpup_attr_all reads the lower inode at ibstart, which is -1 once the *)
(* inode has lost all of them: au_br_del must have refused before.         *)
NoOops == ghost \cap {"blind", "created"} = {} => "oops" \notin ghost

(* The assertion of simple_reval_dpath: unless AuSi_FAILED_REFRESH_DIR is  *)
(* set, the parent of a stale dentry is up to date.                        *)
SimpleParent == phase = "idle" /\ ~failed /\ "lost" \notin ghost =>
    \A o \in Dents : Cached(o) /\ ~Fresh(St, o) => Fresh(St, dent[o].par)

(* aufs_d_revalidate with udba=reval: however a file was removed from its  *)
(* branch behind aufs, before, between or after changes of the branches,   *)
(* failed refreshes and merges with a new look-up, a name that is answered *)
(* as valid is answered from the very branches that have it now.  A file   *)
(* created behind aufs is missed only on a branch of which the dentry has  *)
(* nothing.                                                                *)
ValidMeansNow ==
    LET o == res.dent IN
    /\ res.valid /\ udba = "reval" /\ ghost \cap {"blind", "oops"} = {}
    /\ dent[o].hashed /\ (dent[o].par /= Root => UpToDate(dent[o].par))
    => \/ Shown(o) = UnionOf(o)
       \/ "created" \in ghost /\ \E b \in UnionOf(o) : dent[o].s[b] = Nil

(* au_hide: no inode is made dead while the union takes the name from one  *)
(* of its lower inodes.                                                    *)
StaysVisible == [][\A i \in Inos :
    ino[i] /= Nil /\ ~ino[i].dead /\ Fine /\ Fine' /\ n.dir = 0
      /\ ino'[i] /= Nil /\ ino'[i].dead =>
      \A b \in IF ino[i].nm = "d" THEN UnionD ELSE UnionX :
         \A c \in Slots : ino[i].s[c] /= Entry(br[b + 1], ino[i].nm)]_vars

(* "now we confirmed the branch is deletable" (au_br_del): the branch that *)
(* is deleted is not the last one of an inode in use.                      *)
DelRefusesUsed == \A i \in Inos : ino[i] /= Nil =>
    \E b \in Slots : ino[i].s[b] /= Nil /\ Index(ino[i].s[b].id) >= 0
=============================================================================
