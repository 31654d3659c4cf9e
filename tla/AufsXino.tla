------------------------------ MODULE AufsXino ------------------------------
(***************************************************************************)
(* Inode numbers (recipes-kernel/linux/linux-imx-3.10.17/aufs: xino.c,     *)
(* au_ino and au_new_inode of inode.c, au_set_h_iptr and au_iinfo_fin of   *)
(* iinfo.c, the generation table of export.c).                             *)
(*                                                                         *)
(* aufs numbers its inodes itself.  A table per lower file system (xino)   *)
(* maps a lower inode to the number, a bitmap (xib, one page of it in      *)
(* memory) tells which numbers are taken, and a second table (xigen) gives *)
(* every number a generation for file handles.  Look-ups and readdir take  *)
(* numbers, under the nondir mutex of the branch; evicting an inode gives  *)
(* its number back, under no lock of the table, after the VFS has unhashed *)
(* it; lower inodes are reused by their file system as soon as nobody      *)
(* holds them.                                                             *)
(***************************************************************************)
EXTENDS Integers, FiniteSets, FiniteSetsExt, Sequences

CONSTANTS
  Br,        \* branches; branch 0 is writable, the others are not
  Fs(_),     \* the file system a branch is on
  H,         \* lower inode numbers of a file system
  Procs,     \* tasks that look up or read directories
  PageBits,  \* bits of a page of the bitmap
  MaxIno,    \* bound on numbers
  MaxObj,    \* bound on files ever made
  MaxLinks,  \* bound on the names of a lower inode in a branch
  MaxDying,  \* bound on inodes being destroyed at a time
  MaxRare    \* bound on failures, remounts and removed whiteouts together

ASSUME BoundAssumption ==
  /\ PageBits \in Nat \ {0} /\ MaxIno \in Nat /\ MaxObj \in Nat /\ MaxLinks \in Nat \ {0}
  /\ MaxRare \in Nat /\ MaxDying \in Nat
ASSUME BrAssumption == Br \subseteq Nat /\ 0 \in Br /\ IsFiniteSet(Br)
ASSUME ProcsAssumption == IsFiniteSet(Procs) /\ "free" \notin Procs

VARIABLES
  low,    \* low[x]: the file at lower inode x; n, its names in each branch,
          \* without the wh ones that were whited out while there were others;
          \* hid, the branches where a whiteout or a copy hides the last one
  xino,   \* xino[x]: the number of lower inode x, 0 for none
  xib,    \* the bitmap: its file, si_xib_buf, si_xib_last_pindex, si_xib_next_bit
  xigen,  \* the generation table (the generation of every number)
  icache, \* icache[i]: the hashed aufs inode with number i
  dying,  \* inodes that are unhashed and being destroyed
  proc,   \* what a task is doing
  mtx,    \* xi_nondir_mtx of each branch
  gone,   \* numbers and generations of removed files, with the file
  nobj,   \* files made so far
  rare,   \* failures, remounts and removed whiteouts so far
  misplaced \* the bitmap was moved while another page than the first was in
            \* memory, or rebuilt while a removed file still there has no entry, or a
            \* whiteout was removed and the entry below it is an old one

vars == <<low, xino, xib, xigen, icache, dying, proc, mtx, gone, nobj, rare, misplaced>>

FsSet == {Fs(b) : b \in Br}
Low   == [fs : FsSet, h : H]
Ino   == 1 .. MaxIno
Free  == [obj |-> 0, n |-> [b \in Br |-> 0], wh |-> 0, hid |-> {}]
NoInode == [at |-> {}, nlink |-> 0, gen |-> 0, new |-> FALSE, users |-> {}, obj |-> 0]
Idle  == [pc |-> "idle"]

(* i_nlink of the lower inode: a whiteout takes no name away from it.      *)
Names(x)  == low[x].wh + Cardinality({t \in Br \X (1 .. MaxLinks) : t[2] <= low[x].n[t[1]]})
Shown(x, b) == low[x].n[b] > 0 /\ b \notin low[x].hid
Reachable(x) == \E b \in Br : Shown(x, b)
Hashed(i) == icache[i] # NoInode

Busy(x, b) == {p \in Procs : proc[p].pc # "idle" /\ proc[p].x = x /\ proc[p].b = b}

(* The lower inodes that somebody holds: inodes, dying ones, look-ups.     *)
HeldBy(c, d, pr) ==
  (UNION {c[i].at : i \in Ino}) \cup (UNION {e.at : e \in d})
    \cup {pr[p].x : p \in {q \in Procs : pr[q].pc # "idle"}}

(* The lower file system frees an inode without names that nobody holds.   *)
Reap(l, held) == [x \in Low |-> IF x \notin held /\ \A b \in Br : l[x].n[b] = 0 THEN Free ELSE l[x]]

-----------------------------------------------------------------------------
(* The bitmap.                                                             *)
Bits == 0 .. PageBits - 1

Page(x, p) == IF p = x.last THEN x.buf ELSE IF p < Len(x.file) THEN x.file[p + 1] ELSE {}

WritePage(f, p, bits) ==
  [q \in 1 .. Max({Len(f), p + 1}) |-> IF q = p + 1 THEN bits ELSE IF q <= Len(f) THEN f[q] ELSE {}]

(* Mutant: the page in memory is not written before another one is read.   *)
XibPindexDrops(x, p) ==
  IF p = x.last THEN x
  ELSE [x EXCEPT !.buf = IF p < Len(x.file) THEN x.file[p + 1] ELSE {}, !.last = p,
                 !.file = IF p < Len(x.file) THEN @ ELSE WritePage(@, p, {})]

(* xib_pindex: write the page in memory, take page p in its place.         *)
XibPindex(x, p) ==
  IF p = x.last THEN x
  ELSE LET f == WritePage(x.file, x.last, x.buf)
       IN [x EXCEPT !.file = IF p < Len(f) THEN f ELSE WritePage(f, p, {}),
                    !.buf = IF p < Len(f) THEN f[p + 1] ELSE {},
                    !.last = p]

XibCalcIno(p, bit) == 1 + p * PageBits + bit
PageOf(i) == (i - 1) \div PageBits
BitOf(i)  == (i - 1) % PageBits
Taken(i)  == BitOf(i) \in Page(xib, PageOf(i))

HasRoom(x, p) == Page(x, p) # Bits

(* au_xino_new_ino: the hint, then the page in memory, then the pages      *)
(* before it downwards, then those after it up to a new one.               *)
NewInoPage(x) ==
  IF HasRoom(x, x.last) THEN x.last
  ELSE LET below == {p \in 0 .. x.last - 1 : HasRoom(x, p)}
           above == {p \in x.last + 1 .. Max({Len(x.file), x.last + 1}) : HasRoom(x, p)}
       IN IF below # {} THEN Max(below) ELSE Min(above)

XinoNewIno(x) ==
  LET y   == XibPindex(x, NewInoPage(x))
      bit == IF y.last = x.last /\ x.next \in Bits \ x.buf THEN x.next ELSE Min(Bits \ y.buf)
  IN [ino |-> XibCalcIno(y.last, bit), xib |-> [y EXCEPT !.buf = @ \cup {bit}, !.next = bit + 1]]

(* au_xib_clear_bit *)
XibClearBit(i) ==
  LET y == XibPindex(xib, PageOf(i))
  IN [y EXCEPT !.buf = @ \ {BitOf(i)}, !.next = BitOf(i)]

(* au_xigen_new: the generation of a number that is used again is the one  *)
(* left in the table.                                                      *)
XigenNew(i) == xigen[i]

-----------------------------------------------------------------------------
Init ==
  /\ low = [x \in Low |-> Free]
  /\ xino = [x \in Low |-> 0]
  /\ xib = [file |-> << {} >>, buf |-> {}, last |-> 0, next |-> 0]
  /\ xigen = [i \in Ino |-> 0]
  /\ icache = [i \in Ino |-> NoInode]
  /\ dying = {}
  /\ proc = [p \in Procs |-> Idle]
  /\ mtx = [b \in Br |-> "free"]
  /\ gone = {}
  /\ nobj = 0 /\ rare = 0 /\ misplaced = FALSE

Goto(p, pc) == proc' = [proc EXCEPT ![p].pc = pc]
Done(p)     == proc' = [proc EXCEPT ![p] = Idle]
Release(p)  == mtx' = [mtx EXCEPT ![proc[p].b] = "free"]

counts == <<gone, nobj, rare, misplaced>>

(* Mutant: the mutex is not waited for.                                    *)
LockAndReadAnyway(p, r) ==
  /\ proc' = [proc EXCEPT ![p] = IF xino[r.x] = 0 THEN [r EXCEPT !.pc = "newino"]
                                 ELSE IF r.kind = "ino" THEN Idle
                                 ELSE [r EXCEPT !.pc = "iget", !.ino = xino[r.x]]]
  /\ mtx' = mtx

(* Task p, on its way with r, takes the mutex of the branch and reads the  *)
(* entry (au_xino_read); au_ino is done when there is a number.            *)
LockAndRead(p, r) ==
  /\ mtx[r.b] = "free"
  /\ IF xino[r.x] # 0 /\ r.kind = "ino" THEN UNCHANGED <<proc, mtx>>
     ELSE /\ proc' = [proc EXCEPT ![p] = IF xino[r.x] = 0 THEN [r EXCEPT !.pc = "newino"]
                                         ELSE [r EXCEPT !.pc = "iget", !.ino = xino[r.x]]]
          /\ mtx' = [mtx EXCEPT ![r.b] = p]

(* A task comes to the lower inode x under a name in branch b: a look-up   *)
(* (au_new_inode) or a readdir (au_ino).  The parent's i_mutex keeps tasks *)
(* on the same name apart.                                                 *)
Start(p, x, b, kind) ==
  /\ proc[p] = Idle /\ Shown(x, b) /\ Cardinality(Busy(x, b)) < low[x].n[b]
  /\ LockAndRead(p, [pc |-> "", x |-> x, b |-> b, kind |-> kind, ino |-> 0])
  /\ UNCHANGED <<low, xino, xib, xigen, icache, dying, counts>>

(* A file is created through aufs: a free lower inode of branch 0.         *)
Create(p, x) ==
  /\ proc[p] = Idle /\ x.fs = Fs(0) /\ low[x] = Free /\ nobj < MaxObj
  /\ nobj' = nobj + 1
  /\ low' = [low EXCEPT ![x].obj = nobj', ![x].n[0] = 1]
  /\ LockAndRead(p, [pc |-> "", x |-> x, b |-> 0, kind |-> "new", ino |-> 0])
  /\ UNCHANGED <<xino, xib, xigen, icache, dying, gone, rare, misplaced>>

(* Once more from new_ino on.                                              *)
Again(p) ==
  /\ proc[p].pc = "lock"
  /\ LockAndRead(p, proc[p])
  /\ UNCHANGED <<low, xino, xib, xigen, icache, dying, counts>>

(* au_xino_new_ino, under si_xib_mtx.                                      *)
NewIno(p) ==
  LET r == XinoNewIno(xib) IN
  /\ proc[p].pc = "newino" /\ r.ino <= MaxIno
  /\ xib' = r.xib
  /\ proc' = [proc EXCEPT ![p].pc = IF proc[p].kind = "ino" THEN "write" ELSE "iget", ![p].ino = r.ino]
  /\ UNCHANGED <<low, xino, xigen, icache, dying, mtx, counts>>

(* au_ino: the number is written for a lower inode without an aufs inode.  *)
Write(p) ==
  /\ proc[p].pc = "write"
  /\ xino' = [xino EXCEPT ![proc[p].x] = proc[p].ino]
  /\ Done(p) /\ Release(p)
  /\ UNCHANGED <<low, xib, xigen, icache, dying, counts>>

(* au_iget_locked: a new inode, or the hashed one, which is waited for     *)
(* while it is new.                                                        *)
Iget(p) ==
  LET i == proc[p].ino IN
  /\ proc[p].pc = "iget" /\ ~icache[i].new
  /\ IF ~Hashed(i)
     THEN /\ icache' = [icache EXCEPT ![i] = [NoInode EXCEPT !.new = TRUE, !.users = {p}, !.gen = XigenNew(i)]]
          /\ Goto(p, "set") /\ UNCHANGED mtx
     ELSE /\ icache' = [icache EXCEPT ![i].users = @ \cup {p}]
          /\ IF proc[p].kind # "new" /\ icache[i].nlink > 0
             THEN Goto(p, "reval") /\ Release(p)
             ELSE Goto(p, "unmatched") /\ UNCHANGED mtx
  /\ UNCHANGED <<low, xino, xib, xigen, dying, counts>>

(* set_inode, with the au_xino_write of au_set_h_iptr.                     *)
SetInode(p) ==
  LET x == proc[p].x IN
  /\ proc[p].pc = "set"
  /\ icache' = [icache EXCEPT ![proc[p].ino] = [@ EXCEPT !.new = FALSE, !.users = {}, !.at = {x},
                                                        !.nlink = Names(x), !.obj = low[x].obj]]
  /\ xino' = [xino EXCEPT ![x] = proc[p].ino]
  /\ Done(p) /\ Release(p)
  /\ UNCHANGED <<low, xib, xigen, dying, counts>>

(* set_inode fails: iget_failed, and the entry is cleared.                 *)
SetFails(p) ==
  /\ proc[p].pc = "set" /\ rare < MaxRare
  /\ rare' = rare + 1
  /\ icache' = [icache EXCEPT ![proc[p].ino] = NoInode]
  /\ xino' = [xino EXCEPT ![proc[p].x] = 0]
  /\ Done(p) /\ Release(p)
  /\ UNCHANGED <<low, xib, xigen, dying, gone, nobj, misplaced>>

(* reval_inode: the inode is taken if the lower inode is one of its own.   *)
RevalMatched(p) ==
  LET i == proc[p].ino IN
  /\ proc[p].pc = "reval" /\ proc[p].x \in icache[i].at
  /\ icache' = [icache EXCEPT ![i].users = @ \ {p}]
  /\ Done(p)
  /\ UNCHANGED <<low, xino, xib, xigen, dying, mtx, counts>>

RevalUnmatched(p) ==
  /\ proc[p].pc = "reval" /\ proc[p].x \notin icache[proc[p].ino].at
  /\ mtx[proc[p].b] = "free" /\ mtx' = [mtx EXCEPT ![proc[p].b] = p]
  /\ Goto(p, "unmatched")
  /\ UNCHANGED <<low, xino, xib, xigen, icache, dying, counts>>

(* The entry is wrong: clear it, and take another number.                  *)
Unmatched(p) ==
  /\ proc[p].pc = "unmatched"
  /\ xino' = [xino EXCEPT ![proc[p].x] = 0]
  /\ icache' = [icache EXCEPT ![proc[p].ino].users = @ \ {p}]
  /\ proc' = [proc EXCEPT ![p].pc = "lock", ![p].ino = 0]
  /\ Release(p)
  /\ UNCHANGED <<low, xib, xigen, dying, counts>>

-----------------------------------------------------------------------------
(* Destroying an inode: au_iinfo_fin, au_xino_delete_inode.                *)

(* The VFS unhashes an inode that nobody uses, removed or not.             *)
Evict(i) ==
  /\ Hashed(i) /\ ~icache[i].new /\ icache[i].users = {} /\ Cardinality(dying) < MaxDying
  /\ icache' = [icache EXCEPT ![i] = NoInode]
  /\ dying' = dying \cup {[ino |-> i, at |-> icache[i].at, gen |-> icache[i].gen,
                           unlinked |-> icache[i].nlink = 0,
                           step |-> IF icache[i].nlink = 0 THEN "gen" ELSE "zero"]}
  /\ gone' = IF icache[i].nlink = 0 THEN gone \cup {<<i, icache[i].gen, icache[i].obj>>} ELSE gone
  /\ UNCHANGED <<low, xino, xib, xigen, proc, mtx, nobj, rare, misplaced>>

Step(e, s) == dying' = (dying \ {e}) \cup {[e EXCEPT !.step = s]}

(* Mutant: the number is free before its generation has changed.           *)
DeleteOrderSwapped(e) == IF e.step = "gen" THEN "late" ELSE "zero"

(* The order of au_xino_delete_inode: the generation, the bit, the entries. *)
DeleteOrder(e) == IF e.step = "gen" THEN "bit" ELSE "zero"

XigenInc(e) ==
  /\ e.step \in {"gen", "late"}
  /\ IF DeleteOrder(e) = "late" THEN xib' = XibClearBit(e.ino) /\ UNCHANGED xigen
     ELSE xigen' = [xigen EXCEPT ![e.ino] = e.gen + 1] /\ UNCHANGED xib
  /\ Step(e, DeleteOrder(e))
  /\ UNCHANGED <<low, xino, icache, proc, mtx, counts>>

ClearBit(e) ==
  /\ e.step = "bit"
  /\ xib' = XibClearBit(e.ino)
  /\ Step(e, "zero")
  /\ UNCHANGED <<low, xino, xigen, icache, proc, mtx, counts>>

(* Mutant: the lower inodes are let go before their entries are cleared.   *)
ClearEntriesLate(e) ==
  \/ /\ e.step = "zero"
     /\ low' = Reap(low, HeldBy(icache, dying \ {e}, proc))
     /\ dying' = (dying \ {e}) \cup {[e EXCEPT !.at = {}, !.step = "put", !.gen = e.at]}
     /\ UNCHANGED <<xino, xib, xigen, icache, proc, mtx, counts>>
  \/ /\ e.step = "put"
     /\ xino' = [x \in Low |-> IF x \in e.gen THEN 0 ELSE xino[x]]
     /\ dying' = dying \ {e}
     /\ UNCHANGED <<low, xib, xigen, icache, proc, mtx, counts>>

(* The entries of its lower inodes are cleared, those that still have a    *)
(* name only if the file was removed; then the lower inodes are let go.    *)
ClearEntries(e) ==
  \/ /\ e.step = "zero"
     /\ xino' = [x \in Low |-> IF x \in e.at /\ (e.unlinked \/ Names(x) = 0) THEN 0 ELSE xino[x]]
     /\ Step(e, "put")
     /\ UNCHANGED <<low, xib, xigen, icache, proc, mtx, counts>>
  \/ /\ e.step = "put"
     /\ dying' = dying \ {e}
     /\ low' = Reap(low, HeldBy(icache, dying', proc))
     /\ UNCHANGED <<xino, xib, xigen, icache, proc, mtx, counts>>

-----------------------------------------------------------------------------
(* What changes the names, through aufs and on the branches.               *)
Known(i, x) == Hashed(i) /\ ~icache[i].new /\ x \in icache[i].at

(* unlink: the name goes on the writable branch, and gets a whiteout of    *)
(* its own on another.                                                     *)
Unlink(i, x, b) ==
  /\ Known(i, x) /\ Shown(x, b) /\ Cardinality(Busy(x, b)) < low[x].n[b] /\ icache[i].nlink > 0
  /\ icache' = [icache EXCEPT ![i].nlink = @ - 1]
  /\ low' = IF b = 0 THEN [low EXCEPT ![x].n[b] = @ - 1]
            ELSE IF low[x].n[b] > 1 THEN [low EXCEPT ![x].n[b] = @ - 1, ![x].wh = @ + 1]
            ELSE [low EXCEPT ![x].hid = @ \cup {b}]
  /\ UNCHANGED <<xino, xib, xigen, dying, proc, mtx, counts>>

Link(i, x) ==
  /\ Known(i, x) /\ Shown(x, 0) /\ low[x].n[0] < MaxLinks /\ icache[i].nlink \in 1 .. MaxLinks - 1
  /\ icache' = [icache EXCEPT ![i].nlink = @ + 1]
  /\ low' = [low EXCEPT ![x].n[0] = @ + 1]
  /\ UNCHANGED <<xino, xib, xigen, dying, proc, mtx, counts>>

(* Copy-up: another lower inode for the same file and the same number      *)
(* (au_set_h_iptr).                                                        *)
Copyup(i, x, y, b) ==
  /\ b # 0 /\ Known(i, x) /\ Shown(x, b) /\ Names(x) = 1 /\ Busy(x, b) = {}
  /\ y.fs = Fs(0) /\ low[y] = Free
  /\ low' = [low EXCEPT ![y] = [Free EXCEPT !.obj = low[x].obj, !.n[0] = 1], ![x].hid = @ \cup {b}]
  /\ icache' = [icache EXCEPT ![i].at = @ \cup {y}]
  /\ xino' = [xino EXCEPT ![y] = i]
  /\ UNCHANGED <<xib, xigen, dying, proc, mtx, counts>>

(* A file made or removed on a branch, past aufs; not removed in the very  *)
(* moment that a task looks it up.                                         *)
DirectCreate(x, b) ==
  /\ x.fs = Fs(b) /\ low[x] = Free /\ nobj < MaxObj
  /\ nobj' = nobj + 1
  /\ \E n \in 1 .. MaxLinks :
       low' = [low EXCEPT ![x] = [Free EXCEPT !.obj = nobj',
                                              !.n = [c \in Br |-> IF Fs(c) = x.fs THEN (IF c = b THEN n ELSE n - 1) ELSE 0]]]
  /\ UNCHANGED <<xino, xib, xigen, icache, dying, proc, mtx, gone, rare, misplaced>>

(* A whiteout removed on the writable branch, while the entry may be there *)
(* still (then the properties are not claimed).                            *)
Unhide(x) ==
  /\ low[x].hid # {} /\ \A y \in Low : low[y].obj = low[x].obj => ~Reachable(y)
  /\ rare < MaxRare /\ rare' = rare + 1
  /\ low' = [low EXCEPT ![x].hid = {}]
  /\ misplaced' = (misplaced \/ xino[x] # 0)
  /\ UNCHANGED <<xino, xib, xigen, icache, dying, proc, mtx, gone, nobj>>

DirectRemove(x, b) ==
  /\ low[x].n[b] > 0 /\ low[x].hid = {} /\ low[x].wh = 0 /\ \A c \in Br : Busy(x, c) = {}
  /\ low' = Reap([low EXCEPT ![x].n[b] = @ - 1], HeldBy(icache, dying, proc))
  /\ UNCHANGED <<xino, xib, xigen, icache, dying, proc, mtx, counts>>

-----------------------------------------------------------------------------
(* Under the write lock of the superblock: no task is in between, and what *)
(* is being destroyed has not taken the read lock yet or is done with it.  *)
Locked(e) == e.step \notin {"gen", "put"} /\ (e.step = "zero" => e.unlinked)

Alone ==
  /\ \A p \in Procs : proc[p] = Idle
  /\ \A e \in dying : ~Locked(e)
  /\ rare < MaxRare /\ rare' = rare + 1

(* au_xib_trunc, xib_restore: a new bitmap from the numbers in the tables. *)
XibTrunc ==
  LET inos  == {xino[x] : x \in Low} \ {0}
      pages == {PageOf(i) : i \in inos}
      bits(q) == {BitOf(i) : i \in {j \in inos : PageOf(j) = q}}
  IN /\ Alone /\ Len(xib.file) > 1
     /\ \E l \in IF pages = {} THEN {xib.last} ELSE pages :
          xib' = [file |-> [q \in 1 .. Max(pages \cup {xib.last}) + 1 |-> bits(q - 1)],
                  buf |-> bits(l), last |-> l, next |-> xib.next]
     /\ misplaced' = (misplaced \/ \E i \in Ino \ inos :
                                     Hashed(i) \/ \E e \in dying : e.ino = i /\ e.step = "gen")
     /\ UNCHANGED <<low, xino, xigen, icache, dying, proc, mtx, gone, nobj>>

(* au_xino_set at a remount with another path: the tables are copied, the  *)
(* page in memory is not written first and counts as the first page.       *)
SetXino ==
  /\ Alone
  /\ xib' = [xib EXCEPT !.last = 0, !.next = 0]
  /\ misplaced' = (misplaced \/ xib.last # 0)
  /\ UNCHANGED <<low, xino, xigen, icache, dying, proc, mtx, gone, nobj>>

Next ==
  \/ \E p \in Procs :
       \/ \E x \in Low, b \in Br, k \in {"inode", "ino"} : Start(p, x, b, k)
       \/ \E x \in Low : Create(p, x)
       \/ Again(p) \/ NewIno(p) \/ Write(p) \/ Iget(p) \/ SetInode(p) \/ SetFails(p)
       \/ RevalMatched(p) \/ RevalUnmatched(p) \/ Unmatched(p)
  \/ \E i \in Ino : Evict(i)
  \/ \E e \in dying : XigenInc(e) \/ ClearBit(e) \/ ClearEntries(e)
  \/ \E i \in Ino, x \in Low, b \in Br : Unlink(i, x, b) \/ (b = 0 /\ Link(i, x))
  \/ \E i \in Ino, x \in Low, y \in Low, b \in Br : Copyup(i, x, y, b)
  \/ \E x \in Low, b \in Br : DirectCreate(x, b) \/ DirectRemove(x, b)
  \/ \E x \in Low : Unhide(x)
  \/ XibTrunc \/ SetXino

Spec == Init /\ [][Next]_vars

-----------------------------------------------------------------------------
(* Two files that can be reached never have one number (au_xino_new_ino    *)
(* over every page of the bitmap, numbers given back and taken again).  A  *)
(* number in use has its bit: the next new number is an unused one ("get   *)
(* an unused inode number from bitmap").                                   *)
NumbersDiffer ==
  misplaced \/
    /\ \A x, y \in Low : xino[x] # 0 /\ xino[x] = xino[y] /\ Reachable(x) /\ Reachable(y)
                          => low[x].obj = low[y].obj
    /\ \A x \in Low : Reachable(x) /\ xino[x] # 0 => Taken(xino[x])
    /\ \A i \in Ino : (\E x \in icache[i].at : Reachable(x)) => Taken(i)

(* The number that readdir shows (au_ino) is that of the inode a look-up   *)
(* finds: the table agrees with every inode in the cache.                  *)
TableAgrees ==
  misplaced \/ \A i \in Ino : Hashed(i) /\ ~icache[i].new =>
                  \A x \in icache[i].at : Reachable(x) => xino[x] = i

(* A file handle of a removed file never opens another file: no inode of   *)
(* another gets its number and generation (au_xigen_inc comes before       *)
(* au_xib_clear_bit).                                                      *)
HandleStale ==
  misplaced \/ \A i \in Ino, g \in gone :
                  /\ Hashed(i) /\ ~icache[i].new /\ g[1] = i /\ g[2] = icache[i].gen
                  => g[3] = icache[i].obj

(* As long as a file can be reached its number does not change, through    *)
(* copy-up, eviction and look-up.                                          *)
NumberStable ==
  [][\A x \in Low : xino[x] # 0 /\ Reachable(x) /\ low'[x].obj = low[x].obj /\ Reachable(x)'
        => xino'[x] = xino[x] \/ misplaced \/ rare' # rare]_vars
=============================================================================
