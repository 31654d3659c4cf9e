------------------------------ MODULE AufsSuper ------------------------------
(***************************************************************************)
(* The superblock lock of aufs and what waits on it                        *)
(* (recipes-kernel/linux/linux-imx-3.10.17/aufs: sbinfo.c, super.h,        *)
(* plink.c, procfs.c, wkq.c, super.c, hnotify.c, whout.c, xino.c).         *)
(*                                                                         *)
(* Every entry point takes si_rwsem, for reading or for writing.  Before   *)
(* it an entry with FLUSH waits until no work queued by aufs is pending;   *)
(* after it an entry that handles pseudo links looks at the maintenance    *)
(* mode, in which one process (entered through procfs) and its children    *)
(* have the pseudo links for themselves: NOPLM returns -EAGAIN, NOPLMW     *)
(* gives the lock back and waits for the end of the mode.  Works queued    *)
(* while the lock is held take the lock themselves, later.                 *)
(***************************************************************************)
EXTENDS Integers, FiniteSets

CONSTANTS
  Task,      \* processes
  Work,      \* slots for the works that may be pending at a time
  NoTask,    \* si_plink_maint_pid = 0
  Parent,    \* real_parent of each task, NoTask when of no interest here
  Inode,     \* inodes with a pseudo link
  Ops,       \* entry points the tasks call
  Kinds,     \* works they queue
  Udba,      \* mounted with udba=notify
  MaxCalls   \* bound on the calls and works of a behaviour

TaskOps   == {"iop", "fop", "write", "stat", "remount", "setplink", "enter", "clean", "umount", "touch"}
WorkKinds == {"rmdir", "rebase", "notify"}

ASSUME AgentAssumption == Task \cap Work = {} /\ NoTask \notin Task \cup Work
ASSUME ParentAssumption == Parent \in [Task -> Task \cup {NoTask}]
ASSUME FiniteAssumption == IsFiniteSet(Task) /\ IsFiniteSet(Work)
ASSUME OpsAssumption == Ops \subseteq TaskOps /\ Kinds \subseteq WorkKinds
ASSUME BoundAssumption == MaxCalls \in Nat /\ Udba \in BOOLEAN

Agent == Task \cup Work

VARIABLES
  activity,  \* of si_rwsem: number of readers, -1 with a writer
  pc,        \* where each agent is
  op,        \* what it is doing there
  maintPid,  \* si_plink_maint_pid
  plm,       \* private_data of the task's procfs file: NULL, set, or set by
             \* an enter that started the maintenance mode
  nwLen,     \* si_nowait.nw_len
  plink,     \* the mount option PLINK
  plinks,    \* inodes in si_plink
  udba,      \* branches are watched
  sb,        \* the superblock: on the list, being killed, si_sb = NULL, freed
  calls      \* calls and works so far

vars == <<activity, pc, op, maintPid, plm, nwLen, plink, plinks, udba, sb, calls>>
maintVars == <<maintPid, plm>>
fsVars    == <<plink, plinks, udba, sb>>

(* The flags of the entry points.  iop: the inode operations and open,     *)
(* under i_mutex; fop: read, mmap...; write and rewait: the two calls of   *)
(* au_mtx_and_read_lock; stat: si_noflush_read_lock; rebase stands for     *)
(* reinit_br_wh and xino_do_trunc.                                         *)
Flags(mode, flush, plmflag) == [mode |-> mode, flush |-> flush, plm |-> plmflag]
LockFlags ==
  [ iop      |-> Flags("r", TRUE,  "NOPLM"),
    fop      |-> Flags("r", TRUE,  "NOPLMW"),
    write    |-> Flags("r", TRUE,  "NOPLM"),
    rewait   |-> Flags("r", FALSE, "NOPLMW"),
    stat     |-> Flags("r", FALSE, "none"),
    remount  |-> Flags("w", TRUE,  "NOPLM"),
    setplink |-> Flags("w", TRUE,  "NOPLM"),
    enter    |-> Flags("w", TRUE,  "none"),
    clean    |-> Flags("w", TRUE,  "NOPLMW"),
    umount   |-> Flags("w", TRUE,  "NOPLMW"),
    rmdir    |-> Flags("r", FALSE, "none"),
    rebase   |-> Flags("w", FALSE, "none"),
    notify   |-> Flags("w", FALSE, "NOPLMW") ]

Of(a) == LockFlags[op[a]]

Procfs    == {"enter", "clean"}
Modifying == {"iop", "fop", "write"}
Pc == {"idle", "flush", "lock", "check", "plmloop", "plmwait", "plmflush", "plmlock",
       "in", "kick", "out", "done", "lastflush"}

Init ==
  /\ activity = 0
  /\ pc = [a \in Agent |-> "idle"]
  /\ op = [a \in Agent |-> "none"]
  /\ maintPid = NoTask
  /\ plm = [t \in Task |-> "NULL"]
  /\ nwLen = 0
  /\ plink = TRUE /\ plinks = {}
  /\ udba = Udba
  /\ sb = "listed"
  /\ calls = 0

Move(a, from, to, o) ==
  /\ pc[a] = from
  /\ pc' = [pc EXCEPT ![a] = to] /\ op' = [op EXCEPT ![a] = o]

Goto(a, from, to) == Move(a, from, to, IF to = "idle" THEN "none" ELSE op[a])

-----------------------------------------------------------------------------
(* The semaphore (the generic kernel rwsem of ARM: a count of readers, or  *)
(* -1).  up_read only decrements, whoever holds it.                        *)
down_read  == activity >= 0 /\ activity' = activity + 1
up_read    == activity' = activity - 1
down_write == activity = 0 /\ activity' = -1
up_write   == activity' = 0

(* Mutant: a reader leaves with the writer's unlock.                       *)
SiUnlockWrite(a) == up_write

SiUnlock(a) == IF Of(a).mode = "r" THEN up_read ELSE up_write

(* A task calls an entry point.  The VFS unmounts when nobody uses the     *)
(* mount; procfs files do not use it.  The superblock leaves the list that *)
(* procfs searches as the first step of kill_sb.                           *)
Begin(t, o) ==
  /\ calls < MaxCalls
  /\ o = "clean"  => plm[t] # "NULL"
  /\ o # "clean"  => sb = "listed"
  /\ o = "enter"  => plm[t] = "NULL"
  /\ o = "umount" => \A u \in Task \ {t} : pc[u] = "idle" \/ op[u] \in Procfs \cup {"touch"}
  /\ Move(t, "idle", IF LockFlags[o].flush THEN "flush" ELSE "lock", o)
  /\ sb' = IF o = "umount" THEN "dying" ELSE sb
  /\ calls' = calls + 1
  /\ UNCHANGED <<activity, maintVars, nwLen, plink, plinks, udba>>

(* au_nwt_flush                                                            *)
Flush(a) ==
  /\ nwLen = 0
  /\ Goto(a, "flush", "lock") \/ Goto(a, "plmflush", "plmlock")
  /\ UNCHANGED <<activity, maintVars, nwLen, fsVars, calls>>

Lock(a) ==
  /\ Goto(a, "lock", "check")
  /\ IF Of(a).mode = "r" THEN down_read ELSE down_write
  /\ UNCHANGED <<maintVars, nwLen, fsVars, calls>>

(* au_plink_maint up to its loop; the process of the maintenance mode and  *)
(* its children pass.  Works run in kernel threads.                        *)
Exempt(a) == a \in Task /\ maintPid \in {a, Parent[a]}

Free(a) == ~plink \/ maintPid = NoTask \/ Exempt(a) \/ Of(a).plm = "none"

(* A write that is refused waits with NOPLMW and without i_mutex, and      *)
(* tries again (au_mtx_and_read_lock).                                     *)
Refused(a) ==
  IF op[a] = "write" THEN Move(a, "check", "lock", "rewait") ELSE Goto(a, "check", "idle")

Check(a) ==
  /\ pc[a] = "check"
  /\ \/ Free(a) /\ Goto(a, "check", "in") /\ UNCHANGED activity
     \/ ~Free(a) /\ Of(a).plm = "NOPLMW" /\ Goto(a, "check", "plmloop") /\ UNCHANGED activity
     \/ /\ ~Free(a) /\ Of(a).plm = "NOPLM"
        /\ Refused(a)
        /\ SiUnlock(a)
  /\ UNCHANGED <<maintVars, nwLen, fsVars, calls>>

(* Mutant: the lock is given back as it was taken, but taken for reading.  *)
PlmLoopUnlock(a) ==
  /\ \/ maintPid = NoTask /\ Goto(a, "plmloop", "in") /\ UNCHANGED activity
     \/ maintPid # NoTask /\ Goto(a, "plmloop", "plmwait") /\ SiUnlock(a)
  /\ UNCHANGED <<maintVars, nwLen, fsVars, calls>>

(* Its loop: while the mode lasts, si_read_unlock, wait, take the lock     *)
(* for reading.                                                            *)
PlmLoop(a) ==
  /\ \/ maintPid = NoTask /\ Goto(a, "plmloop", "in") /\ UNCHANGED activity
     \/ maintPid # NoTask /\ Goto(a, "plmloop", "plmwait") /\ up_read
  /\ UNCHANGED <<maintVars, nwLen, fsVars, calls>>

PlmWait(a) ==
  /\ maintPid = NoTask
  /\ Goto(a, "plmwait", IF Of(a).flush THEN "plmflush" ELSE "plmlock")
  /\ UNCHANGED <<activity, maintVars, nwLen, fsVars, calls>>

(* Mutant: after the wait the mode is not looked at again.                 *)
PlmLockOnce(a) ==
  /\ Goto(a, "plmlock", "in")
  /\ down_read
  /\ UNCHANGED <<maintVars, nwLen, fsVars, calls>>

PlmLock(a) ==
  /\ Goto(a, "plmlock", "plmloop")
  /\ down_read
  /\ UNCHANGED <<maintVars, nwLen, fsVars, calls>>

-----------------------------------------------------------------------------
(* What is done under the lock.  An operation may add a pseudo link and    *)
(* queue works before it returns.                                          *)
AddPlink(t, i) ==
  /\ pc[t] = "in" /\ op[t] \in Modifying
  /\ plink /\ i \notin plinks
  /\ plinks' = plinks \cup {i}
  /\ UNCHANGED <<activity, pc, op, maintVars, nwLen, plink, udba, sb, calls>>

(* au_wkq_nowait: the count goes up first, and down again without memory   *)
(* for the work.  An event on a watched branch queues a work without any   *)
(* lock of aufs.                                                           *)
Kick(t) ==
  /\ op[t] \in Modifying /\ calls < MaxCalls /\ Kinds \ {"notify"} # {}
  /\ Goto(t, "in", "kick")
  /\ nwLen' = nwLen + 1 /\ calls' = calls + 1
  /\ UNCHANGED <<activity, maintVars, fsVars>>

Touch(t) ==
  /\ udba /\ calls < MaxCalls
  /\ Move(t, "idle", "kick", "touch")
  /\ nwLen' = nwLen + 1 /\ calls' = calls + 1
  /\ UNCHANGED <<activity, maintVars, fsVars>>

AfterKick(t) == IF op[t] = "touch" THEN "idle" ELSE "in"

KickQueue(t, w, k) ==
  /\ pc[t] = "kick" /\ pc[w] = "idle"
  /\ (op[t] = "touch") = (k = "notify")
  /\ pc' = [pc EXCEPT ![t] = AfterKick(t), ![w] = "lock"]
  /\ op' = [op EXCEPT ![t] = IF op[t] = "touch" THEN "none" ELSE op[t], ![w] = k]
  /\ UNCHANGED <<activity, maintVars, nwLen, fsVars, calls>>

(* Mutant: no au_nwt_done without memory.                                  *)
KickFailLost(t) ==
  /\ Goto(t, "kick", AfterKick(t))
  /\ UNCHANGED <<activity, maintVars, nwLen, fsVars, calls>>

KickFail(t) ==
  /\ Goto(t, "kick", AfterKick(t))
  /\ nwLen' = nwLen - 1
  /\ UNCHANGED <<activity, maintVars, fsVars, calls>>

(* au_plink_maint_enter                                                    *)
Enter(t) ==
  /\ op[t] = "enter" /\ Goto(t, "in", "out")
  /\ \/ /\ ~plink
        /\ plm' = [plm EXCEPT ![t] = "set"] /\ UNCHANGED maintPid
     \/ /\ plink /\ maintPid = NoTask
        /\ maintPid' = t /\ plm' = [plm EXCEPT ![t] = "maint"]
     \/ plink /\ maintPid # NoTask /\ UNCHANGED maintVars        \* -EBUSY
  /\ UNCHANGED <<activity, nwLen, fsVars, calls>>

(* au_plink_maint_leave, when the procfs file is closed                    *)
Release(t) ==
  /\ pc[t] = "idle" /\ plm[t] # "NULL"
  /\ maintPid' = NoTask
  /\ plm' = [plm EXCEPT ![t] = "NULL"]
  /\ UNCHANGED <<activity, pc, op, nwLen, fsVars, calls>>

(* au_plink_clean                                                          *)
Clean(t) ==
  /\ op[t] = "clean" /\ Goto(t, "in", "out")
  /\ plinks' = IF plink THEN {} ELSE plinks
  /\ UNCHANGED <<activity, maintVars, nwLen, plink, udba, sb, calls>>

(* Mutant: noplink leaves the pseudo links.                                *)
SetPlinkOnly(t) ==
  /\ op[t] = "setplink" /\ Goto(t, "in", "out")
  /\ plink' = ~plink
  /\ UNCHANGED <<activity, maintVars, nwLen, plinks, udba, sb, calls>>

(* Opt_plink and Opt_noplink of a remount                                  *)
SetPlink(t) ==
  /\ op[t] = "setplink" /\ Goto(t, "in", "out")
  /\ plink' = ~plink
  /\ plinks' = IF plink THEN {} ELSE plinks
  /\ UNCHANGED <<activity, maintVars, nwLen, udba, sb, calls>>

(* aufs_kill_sb under the lock                                             *)
Kill(t) ==
  /\ op[t] = "umount" /\ Goto(t, "in", "out")
  /\ udba' = FALSE
  /\ plinks' = IF plink THEN {} ELSE plinks
  /\ sb' = "cleared"
  /\ UNCHANGED <<activity, maintVars, nwLen, plink, calls>>

(* The others: their effect is on files and branches                       *)
Other(a) ==
  /\ op[a] \in Modifying \cup {"rewait", "stat", "remount"} \cup WorkKinds
  /\ Goto(a, "in", "out")
  /\ UNCHANGED <<activity, maintVars, nwLen, fsVars, calls>>

Unlock(a) ==
  /\ CASE a \in Work -> Goto(a, "out", "done")
       [] op[a] = "umount" -> Goto(a, "out", "lastflush")
       [] op[a] = "rewait" -> Move(a, "out", "flush", "write")
       [] OTHER -> Goto(a, "out", "idle")
  /\ SiUnlock(a)
  /\ UNCHANGED <<maintVars, nwLen, fsVars, calls>>

(* au_nwt_done, the last thing a work does                                 *)
WorkDone(w) ==
  /\ Goto(w, "done", "idle")
  /\ nwLen' = nwLen - 1
  /\ UNCHANGED <<activity, maintVars, fsVars, calls>>

(* Mutant: only the flush before the lock.                                 *)
LastFlushNone(t) ==
  /\ Goto(t, "lastflush", "idle")
  /\ sb' = "freed"
  /\ UNCHANGED <<activity, maintVars, nwLen, plink, plinks, udba, calls>>

(* The flush at the end of aufs_kill_sb; the superblock is freed after it  *)
LastFlush(t) ==
  /\ nwLen = 0
  /\ Goto(t, "lastflush", "idle")
  /\ sb' = "freed"
  /\ UNCHANGED <<activity, maintVars, nwLen, plink, plinks, udba, calls>>

-----------------------------------------------------------------------------
Step(a) ==
  \/ Flush(a) \/ Lock(a) \/ Check(a) \/ PlmLoop(a) \/ PlmWait(a) \/ PlmLock(a)
  \/ Other(a) \/ Unlock(a)

TaskStep(t) ==
  \/ Step(t)
  \/ Enter(t) \/ Clean(t) \/ SetPlink(t) \/ Kill(t) \/ LastFlush(t)
  \/ KickFail(t) \/ \E w \in Work, k \in Kinds : KickQueue(t, w, k)

WorkStep(w) == Step(w) \/ WorkDone(w)

Next ==
  \/ \E t \in Task :
       \/ TaskStep(t)
       \/ \E o \in Ops \ {"touch"} : Begin(t, o)
       \/ "touch" \in Ops /\ Touch(t)
       \/ Kick(t) \/ Release(t)
       \/ \E i \in Inode : AddPlink(t, i)
  \/ \E w \in Work : WorkStep(w)

Spec == Init /\ [][Next]_vars

(* Tasks and works go on; whoever opened the procfs file closes it.        *)
FairSpec ==
  /\ Spec
  /\ \A t \in Task : WF_vars(TaskStep(t)) /\ WF_vars(Release(t))
  /\ \A w \in Work : WF_vars(WorkStep(w))
-----------------------------------------------------------------------------
Inside(a)  == pc[a] \in {"in", "out"} \/ (pc[a] = "kick" /\ op[a] # "touch")
Holding(a) == Inside(a) \/ pc[a] \in {"check", "plmloop"}

(* Whoever went through si_write_lock is alone under si_rwsem, as every    *)
(* SiMustWriteLock takes for granted, whatever was given back and taken    *)
(* again in the wait of au_plink_maint: a writer that waits there gives    *)
(* its lock back as a reader (plink.c:73), which leaves the count at -2    *)
(* and stops everybody, but lets nobody in beside another.                 *)
WriterAlone ==
  \A a \in Agent : Holding(a) /\ Of(a).mode = "w" =>
    \A b \in Agent \ {a} : ~Holding(b)

(* From the moment a process is told that it is in the maintenance mode    *)
(* until it closes the file, no entry that handles pseudo links or the     *)
(* branches is inside but its own and its children's (plink.c:26-27).      *)
MaintExclusive ==
  \A t \in Task, a \in Agent :
    plm[t] = "maint" /\ Inside(a) /\ Of(a).plm # "none" /\ plink =>
      a \in Task /\ t \in {a, Parent[a]}

(* Once aufs_kill_sb has returned no work is left that would use the       *)
(* superblock, and none is being queued (super.c:995); and no pseudo link  *)
(* outlives the option or the mount (au_si_free asserts it, sbinfo.c:35).  *)
KillIsFinal ==
  /\ sb = "freed" => /\ \A w \in Work : pc[w] = "idle"
                     /\ \A t \in Task : pc[t] # "kick"
  /\ ~plink \/ sb = "freed" => plinks = {}

(* Every call returns and every work ends: no cycle of flush, lock and     *)
(* maintenance mode waits on itself.                                       *)
CallsReturn == \A a \in Agent : pc[a] # "idle" ~> pc[a] = "idle"
=============================================================================
