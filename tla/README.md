# Verification of meta-3dr: boot, update and the union root of the Solo

This directory holds TLA+ models of the logic of the `meta-3dr` layer, the TLC
configurations that check them on small instances, and TLAPS proofs.

The layer builds the Linux image of the 3DR Solo and of its controller. Two of
its parts decide whether a board comes up again after any sequence of updates,
resets and power losses:

* the initramfs script `recipes-core/initrdscripts/files/init`, which
  partitions the card, applies updates, resets settings and mounts the root;
* aufs (`recipes-kernel/linux/linux-imx-3.10.17/aufs`), the union file system
  in which that script joins the writable RWFS partition and the read-only
  squashfs to one root (init:176).

Below, "init" is the script, and names like `i_op_ren.c` are files of aufs.

## Inventory

| component | state | operations | modelled in |
|---|---|---|---|
| initramfs script (init) | partition table, three partitions, boot loader sectors, flag files in `/log/updates`, LED | boot, repair of LOG and RWFS, update, settings reset, factory reset | `SoloBoot` |
| aufs name operations (`dentry.c`, `i_op_add.c`, `i_op_del.c`, `i_op_ren.c`, `cpup.c`, `whout.c`) | entries, whiteouts and opaque marks of each branch | lookup, create, mkdir, link, unlink, rmdir, rename, write with copy-up | `AufsUnion`, `UnionSpec`, `UnionTree` |
| cached dentries and inodes (`dentry.c`, `dinfo.c`, `iinfo.c`, `inode.c`, `i_op.c`, `super.c`) | per dentry and inode: lower ones by branch index, first and last index, generation | look-up, revalidation, refresh by a remount, the busy test of a deletion | `AufsReval` |
| branch management (`branch.c`) | branch array, ids, use counts, permissions | add, delete, change permission | `AufsBranch`; busy test over names in `AufsReval`, checks of a new branch in `AufsOpts` |
| mount options, superblock (`opts.c`, `super.c`, `sbinfo.c`) | option flags, generation, superblock lock | parse, mount, remount, verify, unmount | `AufsOpts`, `AufsSuper` |
| inode numbers (`xino.c`, `inode.c`, `export.c`) | translation tables, bitmap of used numbers, generations | read, write, new, delete, truncate, move | `AufsXino` |
| merged directories (`vdir.c`, `rdu.c`, `dir.c`) | cached list with a version, a copy per open file | merge, seek, fill, list by ioctl, test for emptiness | `AufsVdir` |
| choice of the writable branch (`wbr_policy.c`), move-down (`mvdown.c`), fhsm | round-robin counter, remembered most-free-space branch | create, copy-up and move policies, move-down | `AufsWbr`; the fhsm daemon's messages are not |
| pseudo links (`plink.c`, `procfs.c`) | list of inodes, maintenance task | append, enter and leave maintenance, clean | `AufsSuper`; their use in copy-up and link is not |
| open files (`file.c`, `f_op.c`, `finfo.c`) | lower files of each open file, generation | open, refresh, close, write | `AufsBranch`, write path in `AufsUnion` |
| notification (`hnotify.c`, `hfsnotify.c`) | marks on lower directories, pending works | event, deferred handling | lock and lifetime in `AufsSuper` |
| workqueue, whiteout base (`wkq.c`, `whout.c`) | pending count, base inode | run, flush, re-create base | `AufsSuper` (counting, flushing), `AufsBranch` (references), `AufsOpts` (bases at mount and remount) |
| dentry and inode locks (`rwsem.h`), dynop (`dynop.c`) | rwsems by class; table of address-space operations | lock, get, put | no |
| printing and wrappers (`sysfs.c`, `dbgaufs.c`, `debug.c`, `vfsub.c`, `xattr.c`, ...) | none of their own | | no |
| image class, recipes, service scripts, inittab, boot loader patches | none between runs | | no |

How they interact. U-Boot (outside the repository) starts the kernel with LATEST
or GOLDEN as root. The script works on the card; the running system asks it for
work by files in `/log/updates` and a restart. The script then mounts RWFS over
the squashfs with aufs and switches to that root, so what a power loss leaves in
RWFS is what aufs finds at the next boot. Inside aufs, the VFS calls the inode
operations under the directories' `i_mutex`; these call lookup, copy-up and the
whiteout functions, which call the branch file systems. Every entry point takes
the superblock lock `si_rwsem` first; remounts, the pseudo link maintenance and
some works take it for writing. Works are queued under the lock and run by a
kernel thread that takes the lock again.

What is hard here: power loss between any two commands of the script and between
any two branch changes of an aufs operation; file systems that are written back
independently; commands that fail and a script that goes on; undo paths of
operations of up to five steps, where undoing may fail; the state that long
sequences of creates, removals and renames leave in whiteouts and opaque marks;
works that run, and files that stay open, while a remount changes the branches
under them; names, lists and choices that are cached and compared by generation,
version or index after the branches have changed; tables that are written one
after another under no common lock; three kinds of waiting (for works, for the
lock, for the end of the maintenance mode) that call each other.
`PROJECT.json` lists every such hazard at its line with the properties that
cover it.

What makes each part correct:

* script: only verified images get onto LATEST; an interrupted command sequence
  is completed or repaired by later boots; every request is served or reported;
  no restart loop; resets are complete;
* name operations: the union is one tree, an operation happens as a whole or not
  at all, other names are never touched, copy-up cannot be seen;
* branch management: no branch goes while something uses it; ids stay unique;
* cached names: what counts as current is what a fresh look-up would find;
* options: after every mount and remount, also a failed one, the branches, the
  xino files, the references and the generation fit the options;
* xino: two reachable files never have the same number, and a file keeps its own;
* vdir: a directory read lists every visible name once, and only such;
* policies: what is written can be read back through the union.

## Plan

Done: `SoloBoot`, `AufsSuper`, `AufsBranch`, `AufsXino`, `AufsOpts` and `AufsWbr` with proofs;
`UnionTree`, `UnionSpec`, `AufsUnion` with the refinement, which is proved too; `AufsReval`,
`AufsVdir`. The modules are separate state machines of one system:
what one takes as a single step another takes apart. `AufsSuper` justifies the
single steps under the superblock lock of `AufsBranch`, `AufsOpts` and
`AufsReval`; `AufsBranch` has the files and works that a remount of `AufsOpts`
meets and `AufsReval` the names; `AufsUnion` has the whiteouts that `AufsVdir`
and `AufsWbr` read.

Left, in this order:

1. the use of pseudo links in copy-up and link, regular files kept open over a
   copy-up (`au_reopen_nondir`, `au_sio_cpup_wh`), what a notification does to
   cached names (`hn_job`), dynop;
2. the look-up of `AufsReval` as a recursive function of the branch, and proofs about it.

## SoloBoot: the initramfs script

State. `ptab` says which region of the card each partition number denotes:
`parted mkpart` gives a region the lowest free number, so after an interrupted
sequence a number may denote another region than the script believes. `disk` is
what survives a power loss and `cache` what the kernel sees; a write goes to
`cache` and reaches `disk` by `Sync`, an unmount or `Flush`, which writes back
one file system at a time in any order. `uboot` is the state of the boot loader
sectors. `pc` is the next command, `failed` the last command of an extraction that
failed in this boot.

Actions carry the script's function names (`checkLog`, `factory_reset`,
`mount_and_boot`, ...) or that of the block of the main script (`findTarball`,
`updateFailed`, `updateLatest`, `resetSettings`); one step is one command.
The environment: `PowerOn` (U-Boot; not in the repository: it takes LATEST if
something complete is there, may take it when it is not, and GOLDEN otherwise),
`Request` (the application puts tarballs, good, bad or missing, and flag files),
`PowerLoss` at any point (a mkfs under way leaves a broken file system, an
unsynced boot loader may be torn), `Damage` of RWFS or LOG.

Commands that fail. The script tests no status of the mkfs, mount and tar of LATEST
(init:301-305) and goes on; in `updateLatest` each of the three may fail, by an I/O error, a
full file system or no memory: mkfs leaves LATEST as it was or broken, without the mount tar
fills the memory of the initramfs, and a tar that gives up leaves part of the image and
perhaps of `u-boot.imx`, which dd then writes. These failures count against `MaxFaults`
with the power losses; a mount of a broken file system fails by itself. The other mounts
and fsck fail as the state of their file system has it. parted, the mkfs of the other
partitions, dd and the writes to LOG are taken to succeed.

Abstractions. An image is the number of the tarball it came from; a checksum is
good or bad; the contents of a partition are the few facts the script tests.
Console messages and the mounts of `/proc`, `/sys`, `/dev` are left out.
`MntLogExists` is FALSE because `/mnt/log` is made at line 241, after `checkLog`.

Run `boot_update_reset` (two tarballs, two faults). Two tarballs are what it takes
to choose between an old and a new one; two faults, to interrupt a repair of
what a first interruption left.

* `LatestSound` (`VerifiedImageOnly` and `InterruptedUpdateRetried`),
  `FactoryResetRestores`, `UpdateSettled`: invariants, see their comments.
* `FlagsInOrder`: READY is durably gone before LATEST changes, and a settings
  reset request disappears only with the settings (`SettingsResetComplete`).
* `UpdateSettled` says that past the update branch LATEST holds the chosen image or
  UPDATEFAILED is there, unless the mount or the tar failed: those nothing reports
  (see Deviations).
* `ComesUp`: the running system is reached again and again, however often the board
  stopped in a boot or restarted, unless it is `Dead` for good (a boot loader half
  written, or half an image on LATEST and no request left to write it again: both are
  Deviations); and a request that was seen is settled. Fairness: weak fairness of
  `PowerOn` and of `Script`: the shell goes on to the next command and a board that is
  off is switched on. Nothing is assumed of the user, the application, `Flush` or the
  faults. The antecedent excludes a user who holds the factory-reset buttons at every
  start.

## AufsUnion: the name operations of aufs

`UnionTree` has the names (two levels: directories of the root and names in
them), the calls the VFS may make of a tree and their effects.

`UnionSpec` is the promise: one tree; `Call`, then `Succeed` or `Fail` as a
whole. The code does not keep quite that, and each exception is an action of its
own, so that the refinement says precisely what is promised: `Break` (undoing
failed, EIO), `Crash` (each name as before, as after, or failing with EIO because both
the entry and its whiteout are there, dentry.c:221), `CrashInDirRename`,
`LinkMadeAnyway`, `RenameBroken`.

`AufsUnion` has the branches: `ent` (entries of every branch), `wh` and `opq`
(whiteouts and opaque marks of the writable one). `View` is `au_lkup_dentry` for
every name. An operation runs from `Begin` to `Return`; each change of the
writable branch is one step that works or fails, and failures lead through the
undo labels of the source in its order. `PowerLoss` comes between any two steps; the
writable branch is ext3 with an ordered journal, so the changes that survive are
a prefix. `a` holds the arguments and the locals (`a.wh` is `wh_dentry`, `a.tmp` the
directory under its temporary name, `a.opq` the DIROPQ flag). A second fault in an
operation is a failing undo step; a power loss after one counts as the EIO that
was about to be returned.

Abstractions. Contents are single values; a copied-up file is made under its
temporary name and appears by the rename. Directories removed or replaced leave the tree
when they get their temporary name: removing them there later has no visible
effect. Times, attributes, hard-link counts and pseudo links are left out. Operations on the same names do
not overlap because the VFS and aufs hold their locks throughout. No branch is
changed behind aufs. The tree is two levels deep: each level-crossing rule
(opaque marks, merged parents, copy-up of a parent, rename of a directory with
its contents) already shows there.

Runs.

* `union_ops` (two directories, one name in each, one read-only branch, two
  faults per operation): `KeepsPromise`, the refinement of `UnionSpec`.
  Every sequence of operations of any length is covered, because the state space
  is finite without a bound on operations. `RenameUndone`: a rename that fails at one step has been
  undone altogether when it returns. The promise does not say this, because `RenameBroken` stands for
  a second failing step too, which the caller cannot tell from the first.
* `union_three_branches` (one directory, two names, two read-only branches): the
  refinement again, where whiteouts have to hide more than one branch;
  `Undisturbed` (no step of an operation, the undo steps included, changes how another
  name looks, and a copy-up changes nothing that can be seen).

Names of the same level are symmetric in `union_ops` and `union_three_branches`; the properties are
invariants and a step-simulation without fairness, for which symmetry reduction is sound.
Deadlock is not checked there: when every name has become stuck there is nothing left
to call.

## AufsSuper: the superblock lock and what waits on it

Agents are processes and slots for pending works. Each goes through the entry
sequence of `si_read_lock`/`si_write_lock`: `Flush` (wait until `nwLen` is zero),
`Lock`, `Check` (`au_plink_maint`: pass, be refused, or enter the loop
`PlmLoop`, `PlmWait`, `PlmLock`), then what the operation does, then `Unlock`.
`LockFlags` has the mode and flags of each entry point as the code passes them.
`activity` is the count of the generic kernel semaphore; it is external, and
`up_read` only decrements, so that a read unlock of a write lock leaves what it
leaves in the kernel. `plm` is the private data of a process's procfs file,
`sb` how far an unmount has come. `Kick` counts a work before the memory
for it is there (`KickQueue` or `KickFail`); `Touch` is a change made directly on a watched
branch, its test for a watch and its count being one step.

Runs. Calls and works are bounded by `MaxCalls`; four are enough for one process in
the maintenance mode, one waiting for it, one work and a writer behind them.

* `super_maintenance` (three processes, two of them related, one work):
  `MaintExclusive` and `CallsReturn`. Fairness: weak for each process and work
  inside aufs, and for closing the procfs file, without which the mode lasts for
  ever by design. The semaphore is taken as weakly fair because the kernel's
  queues its waiters in order. This run leaves out the works of notifications and
  `umount`: the first deadlock (see Deviations), the second ends the behaviour.
  Deadlock is not checked since `MaxCalls` ends every behaviour.
* `super_unmount` (two processes, two works, watched branches, all entry points that take
  the lock for writing): `KillIsFinal`, no work and no pseudo link is left when the
  superblock is freed; `WriterAlone`, also with a writer that waits for the end of the
  maintenance mode (plink.c:72) and gives its write lock back as a reader. That lets
  nobody in beside another: the count of the semaphore goes to -2 and everybody stops.
  The standstill itself is among the Deviations.

## AufsBranch: branches and what refers to them

`brs` is `si_branch` from top to bottom; `id`, `perm`, `count`, `wbr` are fields
of a branch, `running` is `wbr_wh_running` and belongs to the `br_wbr` object, which
has its own life: `Wbr` is the memory for them, and `NewWbr` may give the same
memory again. `dirf` holds the open files of the root directory with their table
of lower files, `regf` open regular files, `work` the pending works. A remount
is `RemountFlush` and then, under the lock, `AddBr`, `DelBr`, `ModRo`, `ModRw` or `RemountRefused`
(any option may be refused; the busy test over names is one reason). What happens
under the superblock lock is one step, which `AufsSuper` justifies. Reads of `br_wbr` before
the lock are a step of their own (`WorkStart`).

The root directory stands for all: it alone may stay open on a branch that is
deleted. `Rearranged` is the swap loop of `au_do_refresh_dir`, a function of the number of
`Turn`s taken. It finds a branch by its id (`BrIndex`), as the code does, the rest of
the module by the branch itself (`Index`, for `au_find_dbindex`).
`BranchMax` is both AUFS_BRANCH_MAX and the width of `aufs_bindex_t`, so ids
wrap in small instances as they do at 127. The fields of a deleted branch are reset; `count`
is kept, because works go on decrementing it.
An open directory without a lower file at `fi_btop` is not refreshed in the model, as the
code would read through a null pointer there (Deviations).

Run `branches` (up to three branches, one directory, two files, two works). Each
behaviour has one of four loads (`load`, fixed at `Init`), which say what the
mount is used for: three branches come and go under an open directory; two
branches come, go and change permission, with every failure, under an open directory
and a file; the same under two files; works of all kinds are pending while a directory
and a file are open and a branch is added. Three
branches are the least at which one swap brings in an entry that has to be
swapped again, and with `BranchMax` 3 the ids wrap onto live ones. Deletion and
change of permission with pending works go wrong (Deviations) and are in no load.

* `SlotsMatch`: lower files end up at their branches' indices, also after the ids have
  wrapped: with an id given twice the loop would take one branch for another.
* `RefsExact`: the use counts are exact, no open file holds a deleted branch, ids
  stay distinct.
* `WbrKept`: a writable branch has its own `br_wbr`, and one work of a kind is
  pending per branch.
* `WriterOnRw`: nobody writes to a branch made read-only. A change to read-only
  whose undo fails leaves a read-only branch with writers and says so ("nested
  error"); `nested` remembers the report.

Directories and memory are symmetric; the properties checked with symmetry are
invariants. No behaviour is bounded in length.

## AufsReval: cached names

The tree is one directory entry `d` of the root and one entry `x` in it; each
branch has its own contents for both (nothing, a file, a directory, an opaque one, a
whiteout). `dent` holds the cached dentries with their lower dentries by index, `ino`
the inodes with their lower inodes. `Lookup` is `aufs_lookup` with `au_new_inode`,
`Revalidate` is `aufs_d_revalidate` with the repair of a stale path, `Release` the
end of a dentry. A remount is `BrAdd`/`BrDel` steps, then `RefreshStart`, one
`RefreshD` per cached dentry from the top, and `RefreshI`; allocations may fail in
each. A remount that is refused before it has changed anything, with xino off, refreshes
nothing (`NoRefresh`). The busy test of `BrDel` goes through the cached dentries, parents
first, and then the inodes in any order, refreshes the stale ones it meets and ends at the
first that is busy or cannot be refreshed. `DirectRemove` and `DirectCreate` change `x` on a branch past aufs. Of a
generation only "equal to the superblock's" is kept, since it is only compared.

Run `cached_names` (three branches, three dentries, two branch changes, two
remounts, one mishap):

* `AsUnion`: a current dentry answers from exactly the branches the definition of the
  union (`UnionD`, `UnionX`) takes the name from;
* `InodeHolds`: its inode has the lower inodes of these branches, at their indices;
* `NoOops`: no refresh of an inode that lost its last lower inode;
* `SimpleParent`: the assertion of `simple_reval_dpath` (dentry.c:932);
* `ValidMeansNow`: what revalidation under udba=reval answers as valid is answered from
  the very branches that have the name now, whatever was removed behind aufs, which
  remounts and failed refreshes came between, and however the dentry was merged with a new
  look-up; a file created behind aufs is missed only on a branch of which the dentry has
  nothing;
* `StaysVisible`: no inode is hidden while its name is still visible.

`ghost` records what the code does not handle (Deviations), and the properties
say which of it they exclude; `NoMore` stops a behaviour after a blind deletion.
`MCContents`: each branch has the directory and the file, but for at most one
`Marked` branch (an opaque mark, a whiteout or something else in the directory's
place, or a whiteout of the file) and at most one `Bare` one without the file; both occur
only if the marked one whites the file out. With less nothing is merged.

## AufsOpts: mount and remount options

`Parse` takes the options of the string one by one and appends the entries each of them
makes (`ParseOne`; none for an ignored option) to the page; what takes a reference is counted in `held` when its parser has run
(`TakesRef`) and taken off by `au_opts_free`, which goes by the types of the entries
(`OptsFree`) and is called where the code calls it. The branches of `br=` are numbered from `bindex`,
which `add:<n>` moves (`NextIndex`). `ParseFails` and `PageFull` give the entries up to the first tail
back. `raw` is the string itself: a remount without one only verifies. A mount
then runs over the entries three times (`Exec` from simple options `ToBranches` `ToXino`)
and a remount once; both go on to `Verify` every branch's whiteout bases and end in
`EndMount`, `MountFails` or `EndRemount`. Each option is an operator that yields the
set of its outcomes (`BrAdd`, `BrDel`, `BrMod`, `XinoSet`, `OptSimple`), failures
included; the same option may fail at a mount and be passed over at a remount (`add` of a
branch that is there, `del` and `mod` of one that is not). `cache` is one looked-up dentry with its generation.

Run `mount_options` (three directories, one mount and three remounts, two failures;
strings of up to four options that interact): `VerifiedMatches` (bases and
fhsm fit the permissions and options), `XinoWhole` (the flag, the
bitmap, the generations, every branch's table and the branch id of the xino file agree; after
a change that failed half way, from the next complete one on),
`CacheFresh` (no cached dentry counts as current after the branches changed),
`RefsReleased` (wherever the call ends, as many references are put back as were taken), `InForce` (a successful call has put the last option on each thing in force).
`excused` names the deviations that have happened. Deadlock is not checked:
`MaxCalls` ends every behaviour.

## AufsXino: inode numbers

`low` are the lower inodes with their names in each branch (an unlink on a read-only branch
whites out one of them: `wh`; `hid` once none is left), `xino` the tables from
lower inode to number, `xib` the bitmap with the one page that is in memory,
`xigen` the generations, `icache` the hashed inodes, `dying` those between unhashing and
the end of `au_iinfo_fin`. A look-up is a sequence of steps of a task (`Start`, `NewIno`,
`Write`, `Iget`, `SetInode`, `RevalMatched`, `Unmatched`), under `xi_nondir_mtx` where the
code takes it; `Evict`, `XigenInc`, `ClearBit`, `ClearEntries` are the end of an inode,
under no lock of the tables. `XibTrunc` and `SetXino` run under the write lock (`Alone`): no
look-up is under way, an inode that is being destroyed has not taken the read lock yet
(iinfo.c:253) or has given it back. A file is changed behind aufs only while none of its names has a
whiteout. A lower inode without names that nobody holds is reused
(`Reap`, `DirectCreate`).

Run `inode_numbers` (two tasks, two branches on two file systems, one lower inode each, which
is reused; three numbers on pages of one bit, so every allocation changes pages; one
rare event): `NumbersDiffer`, `TableAgrees` (readdir and stat show the same number), `HandleStale`
(no reused number has its old generation), `NumberStable`. `misplaced` records the
deviations; after one `MCLookupsOnly` lets only look-ups go on. Tasks are symmetric.

## AufsVdir: listing a merged directory

`lower` are the slots of the directory on each branch, `ivd` the list cached in the
inode, cut into blocks, `fd` the open files, each with its copy of the list, its `f_pos` and
what was returned so far, `rdu` the cookie of the ioctl. `Fillvdir`, `AppendDe`, `SeekVdir`,
`FillDe` are folds over the entries; `Shown` is the reference merge. `Create`,
`Unlink`, `Expire`, `SetRdblk` come between the calls of a listing.

Run `merged_listing` (three branches, three names, blocks of one or two entries, two open files,
two changes, one failing allocation): `NoneTwice`, `NoneMissed`, `RduComplete`,
`EmptyAgrees` (rmdir's test agrees with the listing). Files are symmetric. The bounds on
changes and versions end behaviours, so deadlock is not checked.

## AufsWbr: where an entry is written

One name in a directory in a directory, on branches that are writable or not.
`Create` and `Write` are `au_wr_dir` and `au_ready_to_write`: the policy (tdp, rr,
mfs, mfsrr, pmfs, pmfsrr; copy-up tdp, bup, bu), the test of what it chose, the
fall-back, the missing parents. `mfs` is the remembered most-free-space branch, which
`au_mfs` leaves as it is when it gets no memory, and which `SpaceChanges`, `MfsExpires` and `ModBranch` make stale. `Mvdown` has the steps of
`au_do_mvdown`, each of which may be the last.

Run `writable_branch` (three branches, two operations after any change of space and
permission): `TargetVisible` (only writable branches are written to, and the result is what
the union shows), `RofsOnlyIfNone`, `MoveKeepsView`. Two operations are enough for a
choice to be remembered, go stale and be used.

## Findings

* branch.c:1077 (`deletable_claim`, property `DelRefusesUsed`): a remount that adds a
  branch and deletes another tests the cached names of the deleted one at the wrong
  index, because the indices of dentries and inodes are refreshed only after the last option;
  the only branch of a directory in use is deleted.

### Deviations the models contain and no run is kept for

The models do what the code does here; the properties above are stated, or their
runs set up, so that these do not hide anything else.

Script:

* init:301-305: a mount or tar of LATEST that fails is not noticed; UPDATE is removed, no
  UPDATEFAILED is written, "Done updating" is printed, and LATEST is empty or holds half
  an image (`Silent` in `SoloBoot`, the exception of `UpdateSettled`).
* init:312-336: UPDATE is removed before LATEST is synced; when LOG is written back
  first, a power loss leaves half an image with the request gone (the label `panic`).
* init:136-140: the READY file is not put on a repaired LOG, against the comment
  (`/mnt/log` does not exist yet and `mkdir -f` is not an option).
* init:217-219: an interrupted partitioning leaves LATEST without RWFS and LOG; the
  test for the missing scheme does not see it.

Name operations:

* i_op_add.c:617: the undo of link unlinks the whiteout, not the new link
  (`LinkMadeAnyway` in `UnionSpec`).
* i_op_ren.c:102: the EIO of a failed undo is assigned to a by-value parameter
  (`RenameBroken` in `UnionSpec`).

Superblock and branches:

* plink.c:72-78: a writer that waits for the end of the maintenance mode, as the work of a
  notification does, gives its lock back as a reader; nobody gets the lock any more, while
  the comment of NOPLMW (plink.c:35-38) says that it waits until the mode has ended.
* procfs.c:44: the procfs file uses the superblock after a child of its process
  has unmounted it.
* plink.c:92: closing a procfs file that was accepted under noplink, and so started
  no maintenance mode, ends another's.
* branch.c:1052: a branch is deleted under a work that was queued after the remount's flush.
* whout.c:531: the work that re-creates the whiteout base reads `br_wbr` before it
  has the lock; a change to read-only frees it.
* branch.c:795: root directories opened before a branch was added take entries of
  an array that is sized by the branch's count (asserted at branch.c:865).
* sbinfo.c:183: branch ids become negative at the 65th addition (asserted at
  sbinfo.c:184); `RefsExact` shows that they stay distinct.
* file.c:578: an open directory whose last lower file was closed (by a deletion, or
  by a failed refresh) is refreshed through a null pointer.

Cached names (`ghost` of `AufsReval`):

* "created", dentry.c:631: a negative dentry whose lower entry was made directly is
  refreshed with a null inode.
* "lost", super.c:616: without memory for the list of dentries, all of them stay stale
  and AuSi_FAILED_REFRESH_DIR is not set, so the assertion at dentry.c:932 fails.
* A directory dropped by a failed refresh and looked up again from a new top branch
  gets a second live inode.

Options (`excused` of `AufsOpts`):

* "refs": aufs_remount_fs does not free the options when the lock is refused
  (super.c:783); a full page overwrites its last entry (opts.c:1247), whose reference stays; an
  ignored fhsm_sec leaves a tail entry, behind which options are neither executed nor
  released ("force"). When `br=` fills the page, no tail is left in it (opts.c:1020) and
  `au_opts_free` runs on behind its end; the model has the release that ends there.
* "torn": xino.c:1220 says "reset all", but a failed `au_xino_set` leaves the flag, the bitmap
  and the tables as far as they came. The same path given again is taken for the one in
  use (xino.c:1201) and mends nothing; another path or noxino does (`Mends`). When the
  bitmap has been closed (xino.c:1072), what uses it while the flag is set reads through a null
  pointer, which is not in the model.
* "orph": `au_opts_verify` does not look at `wbr_orph`. "nested": a nested error of
  `au_br_mod` changes the permission without a refresh. `do_refresh` is uninitialised in
  `au_opt_br` for some errors (a choice in the model).
* Not in the model: `wsum` falls through to `nosum` (opts.c:1385).

Inode numbers (`misplaced` of `AufsXino`):

* xino.c:1055: a remount with another xino path takes the page in memory for the first.
* The bitmap rebuilt by `au_xib_trunc` does not have the numbers of unlinked files in use or being
  destroyed;
  a whiteout removed directly uncovers an old entry; a lower inode replaced directly
  keeps number and generation of its predecessor.
* Hard links of one lower inode in two branches of one file system take different
  mutexes (inode.c:307) and may get two numbers; the instance has one branch per file system.

Listing (`spoilt` of `AufsVdir`):

* vdir.c:720: a copy that fails after a rewind is empty and looks current for good.
* A seek to 0 at offset 0 does not renew the copy; the error of `au_rdu_fill` does not
  reach the caller; whiteouts of a branch that does not take whiteouts count for rmdir but not for
  the listing (dir.c:441; the instance's last branch is such a one and has none).

Policies (`Unseen` of `AufsWbr`):

* The policies other than tdp do not look at whiteouts of parent directories, nor at
  marks on read-only branches; the last loop of pmfs looks at no whiteout at all.
* Move-down past a whiteout of a parent directory hides the file; an error while looking up
  what is in between is dropped (mvdown.c:461); a destination by branch id need not be
  writable.
* bup answers EROFS when the only writable branch is between two without the parent; the remembered
  branch index may be past the end after a deletion (wbr_policy.c:480; not in the model).

## Proofs

A theorem holds for every value of the constants that the `ASSUME`s of its module
allow; where it needs more, the hypothesis is an operator named in the theorem, and
states which use of the mount the code is right for.

### SoloBootProofs

For every number of tarballs and faults (failing commands included), from `NTarAssumption` and
`MaxFaultsAssumption` only:

* `TypeCorrect`: `Spec => []TypeOK`;
* `OnlyVerifiedImages`: `Spec => []VerifiedImageOnly`;
* `FactoryResetWorks`: `Spec => []FactoryResetRestores`;
* `UpdatesSettle`: `Spec => []UpdateSettled`;
* `UpdatesAreRetried`: `Spec => []InterruptedUpdateRetried`;
* `LatestStaysSound`: `Spec => []LatestSound`, from this and `OnlyVerifiedImages`;
* `FlagsKeepOrder`: `Spec => FlagsInOrder`, the action property.

None of the properties is inductive. The first four follow from `IInv`, the
conjunction of `TypeOK` and

* `Tables`: which partition tables the interrupted parted commands can leave:
  number 2 is the LATEST region or missing, 3 and 4 are never the same region;
* `Progress`: how far `remove_partitions` and `create_partitions` have come at
  each label, whatever table they started from, and which regions are fresh;
* `Resetting`: the same for the partitions 3 and 4 of a settings reset;
* `Mounted`: the partitions the update works on are there while it works;
* `Outcome`: what the chosen tarball, LATEST, the flag files and a failed mount or tar say
  of each other between the search and the restart;
* `VerifiedImageOnly`, whose step needs `Outcome` (the tarball being extracted is
  still the one whose sum was checked).

`UpdatesAreRetried` and `FlagsKeepOrder` are about the order in which the card and the page cache change, and
need `FlagInv` on top of it: `Clean` and `LatestClean` (at which labels card and
cache may differ, and that only LATEST differs after tar), `ReadyGone` (READY is in
neither copy before LATEST is touched), `Served` (past `checkUpdate` the card has no
UPDATE that was not served), `NoFlags`, `ResetKept` and `RwfsReset` (RESETSETTINGS
leaves the cache with the card, and after the settings). `CardStep` names the only
ways a step changes the card: a mkfs, a write to LOG, a write to LATEST, a write-back, or the same
change of both copies; each conjunct is then shown per way, or per action
where the label matters.

Each part has its own step lemma with one case per action; the theorems follow
by PTL.

### AufsSuperProofs

For every set of processes with any parents, works, pseudo-linked inodes, entry
points and bounds:

* `NothingAfterKill`: `Spec => []KillIsFinal`, from `KillInv`: `NwExact` (the count
  that `Flush` waits for is the number of works pending and about to be queued) and
  `Phases` (how far the unmount is, and that only calls that do not touch the
  superblock can still be under way).
* `WritersAreAlone`: `Spec => []WriterAlone`, for all entry points, from `AloneInv`: `LockCount` (the
  semaphore counts those between taking and giving back the lock, until it is `Lost`: at
  -2 with nobody holding it, for good) and `WriterWaits` (a writer in the wait of plink.c:72 has
  lost it).
* `MaintIsExclusive`: `PlainMaint => (Spec => []MaintExclusive)`, from `LockInv`: `AloneInv`, `MaintOwned`,
  `WaitersRead` and `OwnersInside`. `PlainMaint` is that nobody enters the maintenance mode, or no
  call waits for its end as a writer (plink.c:72) and nobody switches
  pseudo links off and on (plink.c:92). Without it the property is false (Deviations).

### AufsBranchProofs

For every set of branches, memory, open files and works, every `BranchMax`:

* `RefsStayExact`, `SlotsStayMatched`, `WbrStaysKept`, `WritersStayOnRw`: `Spec => []` of the four
  invariants of the run, from `BranchInv`: what a root directory's table may hold
  while it waits for its refresh (`DirsOK`), that a pending work is for a live branch
  and, past the early read, has the `br_wbr` this branch has (`WorksOK`), that
  `br_wbr` memory has one owner (`WbrsOwned`), and that the use counts, the counts of pending works and
  the sets they count agree (`CountsExact`, `TruncCounted`, `RebaseCounted`).

They suppose `PlainLoads`: works are pending only on mounts whose branches are
added but not deleted or changed (whout.c:531, branch.c:1052), and branches are deleted under at
most one open root directory (branch.c:795); again the code is wrong without it.

Two of the lemmas are worth knowing. `RearrangedPlaced`: the swap loop ends with
every lower file at its branch's index, because each turn either puts an entry in
its place for good or passes one that needs nothing. `NewIdUnused`: of
`BranchMax` + 1 consecutive wrapped ids one is free, by counting. The library's induction principles take operators
and cannot be used here, so both go by least elements of sets of natural numbers.

### AufsXinoProofs

For every set of tasks and branches, every number of lower inodes, numbers and bits
of a page:

* `NumbersDifferAlways`, `TableAlwaysAgrees`, `HandlesStayStale`: `Spec => []` of the three
  invariants of the run; `NumbersAreStable`: `Spec => NumberStable`, the action property.

They suppose `OwnFs`, that every branch has a file system of its own (RWFS and the
squashfs do): hard links in two branches of one file system are looked up under
two mutexes and may get two numbers (inode.c:307). Like the properties, the
invariant `IInv` is claimed until the bitmap is `misplaced`. It says what an entry counts for.
An entry is *dead* when its names are hidden and nobody is on the way with it,
or when the inode that is about to clear it belonged to a removed file (`Dead`); the others are
an `Entry`. A number is in use by a hashed inode, an entry, a task that has just got it
(`Fresh`) or a removed inode that has not freed it yet (`Ending`):

* `BitsSet`, `OneEntry`, `FreshAlone`, `EndingAlone`: a number in use has its bit, and is in use in one way;
* `GensOK`, `GoneOld`: an inode has the generation of the table, which is past that of every removed
  file whose number can be free;
* `NewsOK`, `EntriesAt`, `AtsOK`: a new inode has its task, the lower inode with an
  inode's number is one of the inode's, the inode's link count covers its names;
* `ProcsOK`: a task has its mutex, the entry it has read and the inode it waits for;
* `RemovedOut`: the lower inodes of a removed file are out of everybody's reach until
  their entries are cleared, so that no entry that counts is cleared with them;
* `LowsOK`: names are where the file system is, and nobody holds a free lower inode.

From these follow that the inode found under a number that was read is the right
one, so `Unmatched` and the second half of `LockAndRead` are never needed (`NextCases`): the
retry is for the deviations only. `XibPindexKeeps` and `NewNumber` are the
lemmas about the bitmap: changing the page in memory loses no bit of any page,
and a new number had none.

### AufsOptsProofs

For every set of directories, every option string of any length, every size of the page and
any number of calls and failures, from the `ASSUME`s of `AufsOpts` only:

* `Invariant`: `Spec => []IInv`;
* `VerifiedMatchesAlways`, `XinoWholeAlways`, `CacheFreshAlways`, `RefsReleasedAlways`,
  `InForceAlways`: `Spec => []` of the five invariants of the run.

After a change of the xino file that failed, `Whole` is claimed again from the next complete one
on, because noxino and a full change set every part of it anew, whatever was there.

The five speak of the time between two calls; `IInv` says what holds at each place of a
call so that they are true at its end:

* `TypeOK`, and `PhaseOK`: which calls can be at which place, and that the superblock is new until
  a mount takes the lock;
* `BranchOK`: no directory is a branch twice, a branch without `br_wbr` has no bases,
  a writable one has `br_wbr`, and the directory of orphans unless a failure took it;
* `VerifyOK`: the branches before `call.i` fit, because making the bases of one
  touches no other; fhsm is counted anew each time;
* `XinoOK`: the files are all there (`Whole`), or none is (`Bare`) although the flag is set: the
  state of a mount before its first xino option, whose default is made by `EndMount`;
* `CacheOK`: when the branches differ from those of the look-up, the call at hand has REFRESH
  among its flags, so that the generation moves on at its end, after an error too;
* `RefsOK`: no tail among the entries but the deviations;
* `ForceOK`: the *latest* option about a thing of those that have had their turn
  (`Passed`, which knows the three passes of a mount) is in effect; udba counts as what it
  will be restored to (`Eventual`).

There is one lemma per action. Options are executed by one lemma: `OptionResults` says of every
result of every option, failures included, what it keeps (`BranchOK`), what it did when it
succeeded, and what of the superblock it left alone, from a lemma per option
(`AddResults`, `DelResults`, `ModResults`, `XinoResults`, `SimpleResults`). `TurnForce` is the heart of
`InForceAlways`: an option in its turn does not undo an option about another thing.

`DataLemmas` has what the proofs need of Max, Min, division and remainder, and of inserting an
element into a sequence and removing one.

### AufsUnionProofs

For any names, contents, number of read-only branches and number of failing steps, from the
`ASSUME`s of `UnionTree` and `AufsUnion` only:

* `IInvariant`: `Spec => []IInv`;
* `UndisturbedAlways`: `Spec => []Undisturbed`;
* `RenameUndoneAlways`: `Spec => []RenameUndone` for a rename that replaces no directory (when it does, only
  model-checked: `IInv` does not say what the directory put aside showed);
* `PromiseKept`: `Spec => KeepsPromise`, the refinement of `UnionSpec`.

The proof never reasons about a look-up that walks the branches. `ViewIs` shows once that `View`
is `Union(ent[0], wh, opq, Low)`: `Low` is what the read-only branches show by
themselves, which no operation changes, and `Union` lays branch 0 over it name by name.
What the operations do to branch 0 are then lemmas about `Union` for any branch 0 and any `Low`:
`Copied`, `Written`, `Added`, `Removed`, `Renamed`, `MovedBack` (a rename and the rename back give
the same tree), `HiddenOnly`, and `SameOutside` (a change inside some directories is
seen only there). `DirBranches` and `NeedWh` get the same treatment (`KidHolders`, `NeedWhIs`,
`EmptyLowerIs`).

`IInv` says of each label what branch 0 holds there:

* `TypeOK`, `OpOK` (the call is one the VFS may make, and is at a label of its own kind), and
  `ErrOK`: how many steps have failed by the error noted so far;
* `DiskOK`: a name on branch 0 has its directory there, as a whiteout has, and what is opaque is
  a directory;
* `CleanOK`: up to the first change of the operation proper, copy-ups included, the tree
  is as it was; `OutsideOK`: the other names always are;
* `UpOK`, `CheckedOK` and `CopyOK`: what the steps up to the label have made sure of: parents that are on
  branch 0, a directory that is empty, all the contents of a renamed directory on branch 0
  (`OwnKids`), and where a copy-up goes on;
* `AddOK`: without the new entry and its marks the tree is the old one, and while at most one step
  has failed the entry is seen only with its opaque mark, or not at all;
* `DelOK`, `HereOK`: without the whiteout the tree is the old one, and nothing of the
  branches below shows when the entry goes;
* `GoneOK`: after the move the names under the new one are the old ones, and moving back and
  removing the source's whiteout gives the old tree;
* `TmpOK`: the directory put aside can be put back; `EndOK`: what the return value says.

It is not enough to say what is visible: an undo step restores the old tree only if the marks
under the name are the right ones, which `AddMarks`, `GoneOK` and `WasThere` keep track of, and
after the second fault nothing of this need hold any more, hence `faults < 2` in them.

There is a lemma per action. For the refinement, `Returns` goes through the errors an operation can
return, `LosesPower` needs `Interrupted`: at every label before a step and its undoing have
both failed, each name is as before, as after, or not to be looked up (`HalfDone`), unless one directory
replaces another; `StepInside` shows that all other steps stutter.

### AufsWbrProofs

For any number of branches, any trees on them, any free space, policies, flags of move-down and
number of operations, from the `ASSUME`s of `AufsWbr` only: `LayoutsAssumption` is that every branch
holds a tree at first, with nothing inside a directory that is not there, `OldAssumption`
that the contents of a file are not taken for a whiteout or a directory.

* `WbrInvariant`: `Spec => []IInv`;
* `TargetAlwaysVisible`, `RofsOnlyIfNoneAlways`, `MoveAlwaysKeepsView`: the three action properties of
  the run.

`IInv` is small: between two operations every branch is a tree (`Legal`), the directories are in
the union, the dentries remember what a fresh look-up finds (together `Settled`), and the
policies remember space of branches only. Nothing is claimed of `mfs` and the round-robin counter: whatever
they hold, `au_wr_dir` tests what comes of it.

The work is in the lemmas about the steps:

* Looking up. `MergedIs` and `FileInfo` say without a search what a dentry remembers: a directory is
  merged from the branches above the first whiteout and down to the last opaque mark
  (`Mrg`), a name is what its lowest merged branch holds (`First`, `SightIs`).
* Making parents. `RaisedKeeps`: directories made on a branch, over whiteouts too, hide nothing
  that was merged; `PlainKeeps`: without a whiteout to go over, no other branch appears; `Reached`: the
  branch itself is merged if no mark before it hides it. `CpDirsIs` shows that `au_cp_dirs`, also when
  it gives up half-way, is such a change.
* Choosing. `TdpIs` and `CopyupIs` bound what the copy-up policies answer and say what their EROFS means;
  `ChosenFits` and `MergedFits` show that what the other policies pick is not hidden when no mark is
  overlooked (`Unseen`). They do not depend on how a policy searches: `Chosen` is what
  `au_wbr_create_exp` and `au_wbr_nonopq` leave of any choice, which is why the round robin needs no induction.
* `WrDirIs` puts these together for `au_wr_dir`, `WrittenShows` for what is written; `Between` says what
  the tests of `au_mvd_args` rule out, and `MovedShows` goes through the states that `au_do_mvdown` can
  leave.

### Only model-checked

* `ComesUp` and `CallsReturn`: liveness under fairness, out of the prover's reach.
* `RenameUndone` of a rename that replaces a directory (above).
* `AufsReval` looks names up with a RECURSIVE operator; the merge of `AufsVdir` is a fold,
  about which the prover cannot do induction.

## Not modelled

* Locks of dentries and inodes (`rwsem.h`, the lock functions of `dinfo.c` and
  `iinfo.c`): classes for lockdep around the kernel's rwsem. Every module relies on
  them for one operation at a time on a name.
* `dynop.c`, `xattr.c`, `vfsub.c`, `loop.c`, `dcsub.c`, the file handles of `export.c`
  (its generation table is in `AufsXino`): thin layers over the kernel, without
  state that the properties here depend on; dynop's table is left for later.
* `sysfs.c`, `sysaufs.c`, `dbgaufs.c`, `sysrq.c`, `debug.c`: printing.
* What a notification does to cached names (`hn_job`), the use of pseudo links in
  copy-up and link, writing to unlinked open files (`au_sio_cpup_wh`), regular
  files reopened after a copy-up, the re-creation of the whiteout base itself,
  attributes and times, the messages to the fhsm daemon.
* Several writable branches in `AufsUnion` (the product mounts one; `AufsWbr` has
  them), the depth of the tree beyond two levels (three in `AufsWbr`).
* I/O errors of the xino files, lower failures while a branch is added (the
  addition is undone as a whole).
* The parsing of option strings character by character; image class, recipes,
  service scripts, inittab and boot loader patches.

Hazards that the code has and no property covers, because the code as it is fails
there (Deviations) or has nothing to fall back to: a torn boot loader
(init:309, modelled as `brick`), a power loss between removing and making partition 4
(init:323: checkLog makes a new LOG and the reset request is gone), READY missing from
a repaired LOG (init:138), a link limit of the whiteout base met while it is re-created
(whout.c:519), a pseudo link used after its last name is gone (i_op_add.c:460).
