------------------------------ MODULE AufsVdir ------------------------------
(***************************************************************************)
(* Listing a merged directory                                              *)
(* (recipes-kernel/linux/linux-imx-3.10.17/aufs: vdir.c, rdu.c, and the    *)
(* readdir and the test for emptiness of dir.c).                           *)
(*                                                                         *)
(* One directory that every branch has.  A branch holds it as a sequence   *)
(* of slots, an entry, a whiteout or nothing; the place of an entry never  *)
(* changes.  The inode caches the merged list (vdir), cut into blocks of   *)
(* vd_deblk_sz bytes; every open file reads from a copy of its own and     *)
(* finds its place again from f_pos alone.  readdir and the operations     *)
(* that change the directory hold i_mutex, so each is one step; what fails *)
(* inside is a choice.  The ioctl of rdu.c reads the branches themselves,  *)
(* one buffer per call, and its place is in a cookie of the caller.        *)
(***************************************************************************)
EXTENDS Integers, FiniteSets, SequencesExt

CONSTANTS
  N,          \* number of branches; branch 0 is written to
  Names,      \* names of entries
  Size(_),    \* calc_size of an entry, in units; at least EndSize
  EndSize,    \* calc_size(0): the mark at the end of a block
  BlkSizes,   \* the values of the rdblk option
  Whable,     \* the branches whose whiteouts count
  Layouts,    \* what the branches hold at first: [0 .. N-1 -> Seq(Slot)]
  ShwhModes,  \* whether the shwh option is given
  Files,      \* open files of the directory
  Calls,      \* how programs list it: "readdir", "ioctl"
  Bufs,       \* how many entries the buffer of a call takes
  MaxChanges, \* bound on changes of the directory
  MaxFails,   \* bound on failing allocations
  MaxVersion, \* bound on i_version
  Hole        \* a slot without an entry

ASSUME NAssumption == N \in Nat \ {0}
ASSUME SizeAssumption == EndSize \in Nat \ {0} /\ \A e \in [n : Names, wh : BOOLEAN] : Size(e) > EndSize
ASSUME BlkAssumption == \A s \in BlkSizes : \A e \in [n : Names, wh : BOOLEAN] : s > Size(e)
ASSUME BufsAssumption == Bufs \subseteq Nat
ASSUME BoundAssumption == MaxChanges \in Nat /\ MaxFails \in Nat /\ MaxVersion \in Nat

VARIABLES
  lower,  \* lower[b]: the slots of the directory on branch b
  iver,   \* i_version of the inode
  ivd,    \* the vdir cached in the inode
  rdblk,  \* si_rdblk
  shwh,   \* the shwh mount option (the mount is then read-only)
  fd,     \* fd[f]: the open file f
  rdu,    \* the cookie of a reader that uses the ioctl, and what it got
  call,   \* which of the two programs use
  changes, fails

vars == <<lower, iver, ivd, rdblk, shwh, fd, rdu, call, changes, fails>>

Br    == 0 .. N - 1
Entry == [n : Names, wh : BOOLEAN]
Plain(n) == [n |-> n, wh |-> FALSE]
Wh(n)    == [n |-> n, wh |-> TRUE]

Take(s, k) == SubSeq(s, 1, IF k < Len(s) THEN k ELSE Len(s))

NoVdir == [blks |-> <<>>, sz |-> 0, ver |-> 0, ul |-> 0, off |-> 0, old |-> FALSE]

-----------------------------------------------------------------------------
(* The reference: what the merged directory shows.                         *)
Holds(l, b, e) == \E i \in DOMAIN l[b] : l[b][i] = e

Honoured(b) == shwh \/ b \in Whable

Shown(l) ==
  {Plain(n) : n \in {m \in Names : \E b \in Br : /\ Holds(l, b, Plain(m))
                                                 /\ \A a \in 0 .. b - 1 : Honoured(a) => ~Holds(l, a, Wh(m))}}
    \cup (IF shwh THEN {Wh(n) : n \in {m \in Names : \E b \in Br : Holds(l, b, Wh(m))}} ELSE {})

-----------------------------------------------------------------------------
(* The blocks of a vdir.                                                   *)
Used(blk) == FoldLeft(LAMBDA s, e : s + Size(e), 0, blk)

AppendDeblk(v) == [v EXCEPT !.blks = Append(@, <<>>)]

AllocVdir == AppendDeblk([NoVdir EXCEPT !.sz = rdblk])

ReinitVdir(v) == [v EXCEPT !.blks = << <<>> >>, !.ver = 0, !.ul = 0, !.off = 0]

(* Mutant: the new entry's block is not checked for room.                  *)
AppendDeOverflows(v, e) == [v EXCEPT !.blks[Len(v.blks)] = Append(@, e)]

(* append_de: a new block when the entry does not fit, and another one     *)
(* when the end mark does not fit after it.                                *)
AppendDe(v, e) ==
  LET w == IF Size(e) > v.sz - Used(Last(v.blks)) THEN AppendDeblk(v) ELSE v
      x == [w EXCEPT !.blks[Len(w.blks)] = Append(@, e)]
  IN IF EndSize > x.sz - Used(Last(x.blks)) THEN AppendDeblk(x) ELSE x

(* The hash lists of names and of whiteouts seen so far.                   *)
TestKnown(acc, n)   == \E i \in DOMAIN acc.de : acc.de[i] = Plain(n)
TestKnownWh(acc, n) == \E i \in DOMAIN acc.wh : acc.wh[i].n = n
AppendWh(acc, n, b) == [acc EXCEPT !.wh = Append(@, [n |-> n, b |-> b])]

(* fillvdir, called for every entry r.e of branch r.b in turn.             *)
Fillvdir(acc, r) ==
  IF ~r.e.wh
  THEN IF TestKnown(acc, r.e.n) \/ TestKnownWh(acc, r.e.n) THEN acc
       ELSE [acc EXCEPT !.de = Append(@, r.e)]
  ELSE IF (shwh \/ (r.b # N - 1 /\ r.b \in Whable)) /\ ~TestKnownWh(acc, r.e.n)
       THEN AppendWh(acc, r.e.n, r.b) ELSE acc

(* What readdir of one branch yields, and of all of them from the top.     *)
Readdir1(b) ==
  LET es == SelectSeq(lower[b], LAMBDA e : e # Hole)
  IN [i \in DOMAIN es |-> [e |-> es[i], b |-> b]]

ReadAll == FoldLeft(LAMBDA s, b : s \o Readdir1(b - 1), <<>>, [i \in 1 .. N |-> i])

(* au_do_read_vdir and au_handle_shwh: the entries in the order they are   *)
(* appended.                                                               *)
HandleShwh(acc) == acc.de \o (IF shwh THEN [i \in DOMAIN acc.wh |-> Wh(acc.wh[i].n)] ELSE <<>>)

DoReadVdir == HandleShwh(FoldLeft(Fillvdir, [de |-> <<>>, wh |-> <<>>], ReadAll))

Filled(v, es) == FoldLeft(AppendDe, v, es)

(* read_vdir: read unless the cache is there and either current or not to  *)
(* be renewed in the middle of a listing.  A failure leaves a cached vdir  *)
(* half filled, with version 0 and its last block as the place.            *)
ReadVdir(mayRead) ==
  LET es   == DoReadVdir
      done(v) == [Filled(v, es) EXCEPT !.ver = iver, !.ul = 0, !.off = 0, !.old = FALSE]
      half(v, j) == LET w == Filled(v, SubSeq(es, 1, j))
                    IN [w EXCEPT !.ul = Len(w.blks) - 1, !.off = Used(Last(w.blks)), !.old = FALSE]
  IN IF ivd = NoVdir
     THEN {[ok |-> TRUE, vd |-> done(AllocVdir)], [ok |-> FALSE, vd |-> NoVdir]}
     ELSE IF mayRead /\ (iver # ivd.ver \/ ivd.old)
     THEN {[ok |-> TRUE, vd |-> done(ReinitVdir(ivd))]}
            \cup {[ok |-> FALSE, vd |-> half(ReinitVdir(ivd), Len(es) \div 2)]}
     ELSE {[ok |-> TRUE, vd |-> ivd]}

(* copy_vdir: the copy keeps its own vd_last.ul, which is 0 by now.        *)
CopyVdir(src) == [src EXCEPT !.ul = 0]

-----------------------------------------------------------------------------
(* The place in a listing.                                                 *)

(* Every entry of a vdir in order, with its block and offset.              *)
Places(v) ==
  LET inBlk(u) == [i \in DOMAIN v.blks[u] |->
                     [ul |-> u - 1, off |-> Used(SubSeq(v.blks[u], 1, i - 1)), e |-> v.blks[u][i]]]
  IN FoldLeft(LAMBDA s, u : s \o inBlk(u), <<>>, [u \in DOMAIN v.blks |-> u])

CalcOffset(v) == v.off + v.sz * v.ul

(* Mutant: the scan ends at the first entry of the block.                  *)
SeekVdirBlock(v, pos, ps) ==
  LET c == {i \in DOMAIN ps : ps[i].ul >= pos \div v.sz}
  IN IF pos = CalcOffset(v) THEN [valid |-> TRUE, ul |-> v.ul, off |-> v.off]
     ELSE IF c = {} THEN [valid |-> FALSE, ul |-> 0, off |-> 0]
     ELSE [valid |-> TRUE, ul |-> ps[Min(c)].ul, off |-> ps[Min(c)].off]

(* seek_vdir: vd_last if f_pos says so, else the first entry at or after   *)
(* f_pos, from the block that f_pos lies in; ps are the places of v.       *)
SeekVdir(v, pos, ps) ==
  LET c == {i \in DOMAIN ps : ps[i].ul >= pos \div v.sz /\ ps[i].ul * v.sz + ps[i].off >= pos}
  IN IF pos = CalcOffset(v) THEN [valid |-> TRUE, ul |-> v.ul, off |-> v.off]
     ELSE IF pos = 0 THEN [valid |-> TRUE, ul |-> 0, off |-> 0]
     ELSE IF c = {} THEN [valid |-> FALSE, ul |-> 0, off |-> 0]
     ELSE LET p == ps[Min(c)] IN [valid |-> TRUE, ul |-> p.ul, off |-> p.off]

(* au_vdir_fill_de: at most k entries from the place on.  Crossing into a  *)
(* block sets f_pos to its start.                                          *)
FillTo(v, pos, s, out, stop, eof) ==
  IF ~s.valid THEN [v |-> [v EXCEPT !.ul = s.ul, !.off = s.off], pos |-> pos, out |-> <<>>, eof |-> TRUE]
  ELSE [v |-> [v EXCEPT !.ul = stop.ul, !.off = stop.off],
        pos |-> IF stop.ul = s.ul THEN pos + stop.off - s.off ELSE v.sz * stop.ul + stop.off,
        out |-> [i \in DOMAIN out |-> out[i].e],
        eof |-> eof]

FillRest(v, pos, k, s, rest) ==
  FillTo(v, pos, s, Take(rest, k),
         IF Len(rest) > k THEN rest[k + 1] ELSE [ul |-> Len(v.blks) - 1, off |-> Used(Last(v.blks))],
         Len(rest) <= k)

FillAt(v, pos, k, ps, s) ==
  FillRest(v, pos, k, s, SelectSeq(ps, LAMBDA p : p.ul > s.ul \/ (p.ul = s.ul /\ p.off >= s.off)))

FillDe(v, pos, k) == FillAt(v, pos, k, Places(v), SeekVdir(v, pos, Places(v)))

-----------------------------------------------------------------------------
(* An open file: f_pos, f_version, the copy of the vdir; and, to compare   *)
(* with, what was returned since the start of the listing, what was there  *)
(* at every and at some moment since then, the place that was told, and    *)
(* whether a copy failed.  A program remembers one place of a listing.     *)
Opened(ver) == [pos |-> 0, ver |-> ver, vd |-> NoVdir, got |-> <<>>, eof |-> FALSE,
                always |-> Shown(lower), ever |-> Shown(lower), told |-> {}, spoilt |-> FALSE]

NoRdu == [b |-> 0, pos |-> 0, got |-> <<>>, first |-> {}, cont |-> FALSE, stale |-> FALSE, on |-> FALSE]

Init ==
  /\ lower \in Layouts
  /\ shwh \in ShwhModes
  /\ iver = 1 /\ ivd = NoVdir /\ rdblk \in BlkSizes
  /\ fd = [f \in Files |-> Opened(1)]
  /\ rdu = NoRdu /\ call \in Calls
  /\ changes = 0 /\ fails = 0

(* aufs_release_dir and aufs_open_dir.                                     *)
Reopen(f) ==
  /\ fd[f].pos # 0
  /\ fd' = [fd EXCEPT ![f] = Opened(iver)]
  /\ UNCHANGED <<lower, iver, ivd, rdblk, shwh, rdu, call, changes, fails>>

(* default_llseek of the VFS to the start or to a place told before.       *)
Llseek(f) ==
  \E p \in {[pos |-> 0, n |-> 0]} \cup fd[f].told :
    /\ p.pos # fd[f].pos
    /\ fd' = [fd EXCEPT ![f] = IF p.pos = 0
                                THEN [Opened(0) EXCEPT !.vd = fd[f].vd, !.spoilt = fd[f].spoilt]
                                ELSE [@ EXCEPT !.pos = p.pos, !.ver = 0, !.eof = FALSE, !.told = {},
                                               !.got = SubSeq(@, 1, p.n)]]
    /\ UNCHANGED <<lower, iver, ivd, rdblk, shwh, rdu, call, changes, fails>>

(* Mutant: a file in the middle of a listing takes the renewed list.       *)
NeedsCopyMid(f) == fd[f].vd = NoVdir \/ fd[f].vd.ver # iver

(* au_vdir_init: a copy is made for a file without one, and for one that   *)
(* starts again; a file in the middle of a listing keeps its own.          *)
NeedsCopy(f) == fd[f].vd = NoVdir \/ (fd[f].pos = 0 /\ fd[f].vd.ver # fd[f].ver)

(* aufs_readdir: au_vdir_init, then au_vdir_fill_de into a buffer of k.    *)
ReaddirFails(f) ==
  /\ call = "readdir" /\ fails < MaxFails
  /\ fails' = fails + 1
  /\ \E r \in ReadVdir(fd[f].pos = 0) :
       /\ ivd' = r.vd
       /\ \/ ~r.ok /\ UNCHANGED fd
          \/ /\ r.ok /\ NeedsCopy(f)
             /\ fd' = [fd EXCEPT ![f].vd = IF @ = NoVdir THEN @ ELSE [ReinitVdir(@) EXCEPT !.sz = r.vd.sz],
                                 ![f].spoilt = fd[f].spoilt \/ fd[f].vd # NoVdir]
  /\ UNCHANGED <<lower, iver, rdblk, shwh, rdu, call, changes>>

Readdir(f, k) ==
  /\ call = "readdir"
  /\ \E r \in {q \in ReadVdir(fd[f].pos = 0) : q.ok} :
    LET copy == NeedsCopy(f) IN
    \E out \in {FillDe(IF copy THEN CopyVdir(r.vd) ELSE fd[f].vd, fd[f].pos, k)} :
    LET got == fd[f].got \o out.out
    IN /\ ivd' = r.vd
       /\ fd' = [fd EXCEPT ![f].vd = out.v, ![f].pos = out.pos, ![f].ver = IF copy THEN iver ELSE @,
                           ![f].got = got, ![f].eof = out.eof,
                           ![f].told = IF @ = {} /\ out.pos # 0 THEN {[pos |-> out.pos, n |-> Len(got)]} ELSE @]
       /\ UNCHANGED <<lower, iver, rdblk, shwh, rdu, call, changes, fails>>

-----------------------------------------------------------------------------
(* Operations on the directory, which hold i_mutex too.                    *)
Put(l, b, e)    == [l EXCEPT ![b] = Append(@, e)]
Drop(l, b, e) == [l EXCEPT ![b] = [i \in DOMAIN @ |-> IF @[i] = e THEN Hole ELSE @[i]]]

Changed(l) ==
  /\ changes < MaxChanges /\ iver < MaxVersion /\ ~shwh
  /\ changes' = changes + 1
  /\ lower' = l
  /\ fd' = [f \in Files |-> [fd[f] EXCEPT !.always = @ \cap Shown(l), !.ever = @ \cup Shown(l)]]
  /\ UNCHANGED <<rdblk, shwh, rdu, call, fails>>

(* epilog of i_op_add.c: the version changes with the entry.               *)
Create(n) ==
  /\ Plain(n) \notin Shown(lower)
  /\ Changed(Put(Drop(lower, 0, Wh(n)), 0, Plain(n)))
  /\ iver' = iver + 1 /\ UNCHANGED ivd

(* epilog of i_op_del.c: a whiteout is left when a lower branch has it.    *)
Unlink(n) ==
  /\ Plain(n) \in Shown(lower)
  /\ LET l == Drop(lower, 0, Plain(n))
     IN Changed(IF Plain(n) \in Shown(l) THEN Put(l, 0, Wh(n)) ELSE l)
  /\ iver' = iver + 1 /\ UNCHANGED ivd

(* The cache expires: rdcache seconds have passed, or hn_job was told of a  *)
(* change made on a branch directly.  The version stays.                    *)
Expire ==
  /\ ivd # NoVdir /\ ~ivd.old
  /\ ivd' = [ivd EXCEPT !.old = TRUE]
  /\ UNCHANGED <<lower, iver, rdblk, shwh, fd, rdu, call, changes, fails>>

(* A remount with another rdblk.                                           *)
SetRdblk(s) ==
  /\ s # rdblk /\ rdblk' = s
  /\ UNCHANGED <<lower, iver, ivd, shwh, fd, rdu, call, changes, fails>>

-----------------------------------------------------------------------------
(* The ioctl of rdu.c.                                                     *)

(* The entries of branch b from slot p on, with their slots.               *)
From(b, p) ==
  LET is == SelectSeq([i \in DOMAIN lower[b] |-> i], LAMBDA i : i > p /\ lower[b][i] # Hole)
  IN [j \in DOMAIN is |-> [b |-> b, i |-> is[j]]]

(* All that is left to read from the cookie on.                            *)
RduRest ==
  FoldLeft(LAMBDA s, b : s \o (IF b - 1 < rdu.b THEN <<>>
                               ELSE From(b - 1, IF b - 1 = rdu.b THEN rdu.pos ELSE 0)),
           <<>>, [i \in 1 .. N |-> i])

Present == {[b |-> b, i |-> i] : b \in Br, i \in 1 .. Max({Len(lower[c]) : c \in Br})}
IsThere(p) == p.i \in DOMAIN lower[p.b] /\ lower[p.b][p.i] # Hole

(* A caller starts with a cleared cookie.                                  *)
RduStart ==
  /\ call = "ioctl" /\ ~rdu.on
  /\ rdu' = [NoRdu EXCEPT !.on = TRUE, !.first = {p \in Present : IsThere(p)}]
  /\ UNCHANGED <<lower, iver, ivd, rdblk, shwh, fd, call, changes, fails>>

(* au_rdu_fill: an entry that does not fit ends the call.                  *)
RduFill(rest, k) == Take(rest, k)

(* Mutant: a full buffer counts as the end of the branch.                  *)
RduSkips(k) ==
  LET rest == RduRest
      out  == RduFill(rest, k)
  IN /\ rdu.on /\ rdu.b < N /\ ~(rdu.cont /\ rdu.stale)
     /\ rdu' = [rdu EXCEPT !.got = @ \o out, !.cont = TRUE, !.stale = FALSE, !.pos = 0,
                           !.b = IF Len(rest) > k THEN rest[k + 1].b + 1 ELSE N]
     /\ UNCHANGED <<lower, iver, ivd, rdblk, shwh, fd, call, changes, fails>>

(* au_rdu, au_rdu_do, au_rdu_fill: as much as the buffer takes.  The branch *)
(* that filled it stays in the cookie with the place in it; one that did    *)
(* not is left for the next.                                                *)
Rdu(k) ==
  LET rest == RduRest
      out  == RduFill(rest, k)
  IN /\ rdu.on /\ rdu.b < N /\ ~(rdu.cont /\ rdu.stale)
     /\ rdu' = [rdu EXCEPT !.got = @ \o out, !.cont = TRUE, !.stale = FALSE,
                           !.b = IF Len(rest) > k THEN rest[k + 1].b ELSE N,
                           !.pos = IF Len(rest) > k THEN rest[k + 1].i - 1 ELSE 0]
     /\ UNCHANGED <<lower, iver, ivd, rdblk, shwh, fd, call, changes, fails>>

(* The generation of the file changes: the branches were changed and a      *)
(* readdir has noticed.                                                     *)
Regen ==
  /\ rdu.on /\ ~rdu.stale
  /\ rdu' = [rdu EXCEPT !.stale = TRUE]
  /\ UNCHANGED <<lower, iver, ivd, rdblk, shwh, fd, call, changes, fails>>

(* au_rdu answers EAGAIN to a cookie of an older generation.                *)
RduAgain ==
  /\ rdu.cont /\ rdu.stale
  /\ rdu' = NoRdu
  /\ UNCHANGED <<lower, iver, ivd, rdblk, shwh, fd, call, changes, fails>>

Next ==
  \/ \E f \in Files : Reopen(f) \/ Llseek(f) \/ ReaddirFails(f)
  \/ \E f \in Files, k \in Bufs : Readdir(f, k)
  \/ \E n \in Names : Create(n) \/ Unlink(n)
  \/ Expire
  \/ \E s \in BlkSizes : SetRdblk(s)
  \/ RduStart \/ Regen \/ RduAgain
  \/ \E k \in Bufs : Rdu(k)

Spec == Init /\ [][Next]_vars

-----------------------------------------------------------------------------
(* The test for emptiness (dir.c).                                         *)

(* test_empty_cb: stops at an entry that no whiteout so far hides.         *)
TestEmptyCb(whonly, acc, r) ==
  IF ~r.e.wh THEN [acc EXCEPT !.empty = @ /\ (whonly => TestKnownWh(acc, r.e.n))]
  ELSE IF TestKnownWh(acc, r.e.n) THEN acc ELSE AppendWh(acc, r.e.n, r.b)

(* Mutant: the whiteouts of the first branch are not collected.            *)
TestEmptyLowerSkips ==
  FoldLeft(LAMBDA a, r : TestEmptyCb(TRUE, a, r), [empty |-> TRUE, wh |-> <<>>],
           SelectSeq(ReadAll, LAMBDA r : r.b # 0)).empty

(* au_test_empty_lower: only whiteouts are taken from the first branch,    *)
(* whose own entries the rmdir of that branch will meet.                   *)
TestEmptyLower ==
  FoldLeft(LAMBDA a, r : TestEmptyCb(r.b # 0, a, r), [empty |-> TRUE, wh |-> <<>>], ReadAll).empty

(* au_test_empty: every branch, after the caller has collected none.       *)
TestEmpty ==
  FoldLeft(LAMBDA a, r : TestEmptyCb(TRUE, a, r), [empty |-> TRUE, wh |-> <<>>], ReadAll).empty

-----------------------------------------------------------------------------
(* What a listing returns, in whatever number of calls and with seeks to   *)
(* places told before, has no name twice, and only names that were there   *)
(* at some moment since it was started (aufs_readdir, au_vdir_fill_de).    *)
NoneTwice ==
  \A f \in Files : /\ IsInjective(fd[f].got)
                   /\ Range(fd[f].got) \subseteq fd[f].ever

(* A listing that has come to its end returned every name that was there   *)
(* all the time since it was started, while others created and removed     *)
(* entries and had the cache read anew.  It does not hold for a file whose *)
(* copy failed (copy_vdir): its version then looks current for good.       *)
NoneMissed ==
  \A f \in Files : fd[f].eof /\ ~fd[f].spoilt => fd[f].always \subseteq Range(fd[f].got)

(* The ioctl that lists in user space (au_rdu) hands out no slot twice,    *)
(* and over all its calls every entry that stays, whatever the buffers and *)
(* whatever else is created or removed between two calls.                  *)
RduComplete ==
  /\ IsInjective(rdu.got)
  /\ rdu.on /\ rdu.b = N => \A p \in rdu.first : IsThere(p) => p \in Range(rdu.got)

(* rmdir goes by the test of emptiness, and a user by what readdir shows:  *)
(* the two agree in every state.  au_test_empty_lower leaves the first     *)
(* branch's own entries to the rmdir there.                                *)
EmptyAgrees ==
  shwh \/ /\ TestEmpty <=> Shown(lower) = {}
          /\ TestEmptyLower /\ (\A n \in Names : ~Holds(lower, 0, Plain(n))) <=> Shown(lower) = {}
=============================================================================
